----------------------------- MODULE MCServices -----------------------------
(***************************************************************************)
(* The services beside the rooms, each on a small instance of its own: the *)
(* exchanges of Exchanges, the purse with games and with loans (Purse),    *)
(* the long waits of one machine and of two (Waits), the timeout takeover  *)
(* (Takeover) and the notices (Notices).  The initial state chooses the    *)
(* part; the variables of the others rest.                                 *)
(***************************************************************************)
EXTENDS Exchanges, Sequences, TLC

CONSTANTS
  Owners, Machines, Bots, Midnight, PurseTime, GameCalls, LoanCalls,   \* Purse
  InitialBalance, CheckInAmount, BankruptcyThreshold, ResetBalance, CappedGames,
  Banks, GameDeltas,
  Rewards, Target, GameAward, NpcAward, HumanIds, AiIds, PairIds,
  RoomIds, Seatings, Stakes, RoomKinds, LoanSizes, Counters, Askers, Trades, Legacy,
  Chains, Slots, Lease,                                       \* Waits
  OneMachine, OneTable, OneTime, OneEvents, OneRestarts,      \*   of one machine
  TwoMachines, TwoTable, TwoTime, TwoEvents, TwoRestarts,     \*   of competing machines
  Seated, Bot, Limit, TakeoverTime, MaxRevision,              \* Takeover
  NoticeEvents, HistoryLimit, ReadLimit, MaxChanges, MaxAnswers  \* Notices

ASSUME ServicesAssumption ==
  /\ IsFiniteSet(OneMachine) /\ IsFiniteSet(TwoMachines)
  /\ "other" \notin OneMachine \cup TwoMachines
  /\ IsFiniteSet(Chains) /\ Chains \subseteq Nat \ {0}
  /\ Slots \in Nat /\ Lease \in Nat /\ OneTable \in Nat /\ TwoTable \in Nat
  /\ Limit \in Nat /\ TakeoverTime \in Nat /\ MaxRevision \in Nat

\* A duel of an old database that somebody has won.
EndedRoom(t) ==
  /\ t = [status |-> "finished", kind |-> t.kind, game |-> t.game, stake |-> t.stake,
          roster |-> t.roster, initiator |-> t.initiator, rematch |-> t.rematch,
          created |-> t.created, ended |-> t.ended, winners |-> t.winners,
          settles |-> t.settles, delta |-> t.delta, reason |-> t.reason, preserved |-> t.preserved]
  /\ t.stake \in Nat /\ t.ended \in Nat /\ t.status = "finished"
  /\ Len(t.roster) = 2 /\ t.roster \in Seq(Owners \cup Machines \cup Bots)
  /\ t.roster[1] # t.roster[2] /\ t.winners \in {{t.roster[1]}, {t.roster[2]}}
  /\ t.initiator = t.roster[1] /\ t.initiator \in Owners \cup Machines

ASSUME PurseAssumption ==
  /\ IsFiniteSet(Owners) /\ IsFiniteSet(Machines) /\ Owners \cap Machines = {}
  /\ Bots \cap (Owners \cup Machines) = {}
  /\ IsFiniteSet(RoomIds) /\ RoomIds \subseteq Nat
  /\ IsFiniteSet(DOMAIN Rewards) /\ Rewards \in [DOMAIN Rewards -> Nat]
  /\ "bankruptcy_recovery" \in DOMAIN Rewards
  /\ InitialBalance \in Int /\ CheckInAmount \in Int /\ ResetBalance \in Int
  /\ Midnight \in Nat \ {0}
  /\ GameDeltas \subseteq Int /\ CappedGames \cap Banks = {}
  /\ Stakes \subseteq Nat /\ LoanSizes \subseteq Nat
  /\ \A seating \in Seatings : LET roster == seating[2] IN
       /\ roster \in Seq(Owners \cup Machines \cup Bots)
       /\ roster # <<>> /\ roster[1] \in Owners \cup Machines
       /\ \A i, j \in DOMAIN roster : roster[i] = roster[j] => i = j
  /\ Trades \subseteq (Owners \cup Machines) \X (Owners \cup Machines)
  /\ \A trade \in Trades : trade[1] # trade[2]
  /\ \A t \in Legacy : RoomIds # {} /\ EndedRoom(t)

\* An achievement takes something to reach, and there is an NPC to defeat.
ASSUME CatalogueAssumption ==
  /\ \A id \in DOMAIN Rewards \cup {"loan_three_active"} : Target[id] \in Nat \ {0}
  /\ Bots # {}

VARIABLES
  part,
  db, time, asking, calls,                                    \* Purse
  entries, started, dead, live, running, call, gateway,       \* Waits
  flight, handler, saw, rung, waiting, log, cursor, turn,
  over, fresh, restarts,
  now,                                                        \* Waits, Takeover
  revision,                                                   \* Takeover, Notices
  bets, actor, present, updated, turnRevision, turnStarted,   \* Takeover
  reclaimed, seen, worker, began, assists, kept,
  subject, box, answers, latest, badge, shown, watermark, told  \* Notices

purse == <<db, time, asking, calls>>
waits == <<entries, started, dead, live, running, call, gateway, flight, handler,
           saw, rung, waiting, log, cursor, turn, over, fresh, restarts>>
takeover == <<bets, actor, present, updated, turnRevision, turnStarted, reclaimed,
              seen, worker, began, assists, kept>>
notices == <<subject, box, answers, latest, badge, shown, watermark, told>>
parts == <<vars, part, purse, waits, now, revision, takeover, notices>>

----------------------------------------------------------------------------
(* What an achievement is worth here, and how many it takes.               *)

Prizes ==
  [first_normal_game |-> 1, win_after_three_losses |-> 1, first_bankruptcy |-> 1,
   bankruptcy_recovery |-> 1, human_rematch_after_loss |-> 1, human_preserve_loss |-> 1,
   ai_creates_room |-> 1, ten_game_rematch_chain |-> 1, win_jungle |-> 1, defeat_n |-> 1,
   jungle_rat_captures_elephant |-> 1, pair_same_day_check_in |-> 1, pair_both_won |-> 1,
   loan_first_borrower_active |-> 1, loan_debt_free_after_three |-> 1, loan_first_overdue |-> 0,
   loan_pair_bidirectional |-> 1]
Counts == [id \in DOMAIN Prizes \cup {"loan_three_active"} |->
             IF id \in {"win_after_three_losses", "first_bankruptcy", "loan_three_active"} THEN 1 ELSE 2]

\* A staked game the human lost, kept by its loser.
Old ==
  [status |-> "finished", kind |-> "table", game |-> "jungle", stake |-> 5,
   roster |-> <<"a", "h">>, initiator |-> "a", rematch |-> <<>>, created |-> 0, ended |-> 0,
   winners |-> {"a"}, settles |-> TRUE, delta |-> <<>>, reason |-> "game_result", preserved |-> TRUE]

Tables == {<<"jungle", <<"a", "h">>>>, <<"jungle", <<"h", "n">>>>, <<"blackjack", <<"h", "a">>>>}
Sales == {<<"a", "h">>}
Kept == {Old}
Ruin == -2
House == {-2}
Jungle == [jungle |-> "win_jungle"]
Beaten == [n |-> "defeat_n"]

\* Rooms and what they unlock, from an old database or an empty one; and
\* check-ins around a midnight, bankruptcies, loans and the shop.
Till == INSTANCE Purse WITH
  Humans <- Owners, Ais <- Machines, Npcs <- Bots, DayLength <- Midnight, MaxTime <- PurseTime,
  MaxCalls <- GameCalls

\* One machine through a restart, and two that compete for one entry.
Alone == INSTANCE Waits WITH
  Players <- OneMachine, TableSize <- OneTable, MaxTime <- OneTime,
  MaxEvents <- OneEvents, MaxRestarts <- OneRestarts
Crowd == INSTANCE Waits WITH
  Players <- TwoMachines, TableSize <- TwoTable, MaxTime <- TwoTime,
  MaxEvents <- TwoEvents, MaxRestarts <- TwoRestarts

Clocked == INSTANCE Takeover WITH
  Players <- Seated, Npc <- Bot, MaxTime <- TakeoverTime

\* Two notices of a game and one of a loan.
Rings ==
  {[key |-> 1, category |-> "game", reference |-> 1], [key |-> 2, category |-> "game", reference |-> 1],
   [key |-> 3, category |-> "loan", reference |-> 1]}

Bell == INSTANCE Notices WITH Keys <- NoticeEvents

----------------------------------------------------------------------------
Rest == "rests"

PurseRests == db = Rest /\ time = 0 /\ asking = Rest /\ calls = 0
WaitsRest ==
  /\ entries = Rest /\ started = 0 /\ dead = {} /\ live = {} /\ running = {} /\ call = Rest
  /\ gateway = Rest /\ flight = Rest /\ handler = Rest /\ saw = {} /\ rung = {} /\ waiting = 0
  /\ log = <<>> /\ cursor = Rest /\ turn = Rest /\ over = FALSE /\ fresh = {} /\ restarts = 0
TakeoverRests ==
  /\ bets = FALSE /\ actor = Rest /\ present = {} /\ updated = 0 /\ turnRevision = 0
  /\ turnStarted = 0 /\ reclaimed = 0 /\ seen = Rest /\ worker = Rest /\ began = 0
  /\ assists = 0 /\ kept = 0
NoticesRest ==
  /\ subject = Rest /\ box = <<>> /\ answers = {} /\ latest = 0 /\ badge = 0 /\ shown = {}
  /\ watermark = 0 /\ told = {}

PartsInit ==
  /\ Init
  /\ \/ part = "exchanges" /\ PurseRests /\ WaitsRest /\ TakeoverRests /\ NoticesRest
        /\ now = 0 /\ revision = 0
     \/ part = "games" /\ Till!Init /\ WaitsRest /\ TakeoverRests /\ NoticesRest
        /\ now = 0 /\ revision = 0
     \/ part = "loans" /\ Till!Init /\ db = Till!NewDb /\ WaitsRest /\ TakeoverRests /\ NoticesRest
        /\ now = 0 /\ revision = 0
     \/ part = "one wait" /\ Alone!Init /\ PurseRests /\ TakeoverRests /\ NoticesRest
        /\ revision = 0
     \/ part = "two waits" /\ Crowd!Init /\ PurseRests /\ TakeoverRests /\ NoticesRest
        /\ revision = 0
     \/ part = "takeover" /\ Clocked!Init /\ PurseRests /\ WaitsRest /\ NoticesRest
     \/ part = "notices" /\ Bell!Init /\ PurseRests /\ WaitsRest /\ TakeoverRests
        /\ now = 0

Exchanging ==
  part = "exchanges" /\ Next /\ UNCHANGED <<part, purse, waits, now, revision, takeover, notices>>
Playing ==
  /\ part = "games"
  /\ \/ Till!OpenSome \/ Till!FinishSome \/ Till!SettleSome \/ Till!CaptureSome \/ Till!PreserveSome
     \/ (\E s \in Till!Subjects : Till!DeclareBankruptcy(s)) \/ Till!Tick \/ Till!Restart
  /\ UNCHANGED <<vars, part, waits, now, revision, takeover, notices>>
Dealing ==
  /\ part = "loans"
  /\ \/ Till!Tick
     \/ /\ calls < LoanCalls
        /\ \/ (\E s \in Askers : Till!ReadDay(s)) \/ Till!CheckInSome \/ Till!ExchangeSome
           \/ (\E s \in Till!Subjects : Till!DeclareBankruptcy(s))
           \/ Till!BorrowSome \/ Till!LoanNewsSome \/ Till!Restart
  /\ UNCHANGED <<vars, part, waits, now, revision, takeover, notices>>
Waiting ==
  /\ \/ part = "one wait" /\ Alone!Next
     \/ part = "two waits" /\ Crowd!Next
  /\ UNCHANGED <<vars, part, purse, revision, takeover, notices>>
TakingOver ==
  part = "takeover" /\ Clocked!Next /\ UNCHANGED <<vars, part, purse, waits, notices>>
Telling ==
  part = "notices" /\ Bell!Next /\ UNCHANGED <<vars, part, purse, waits, now, takeover>>

PartsNext == Exchanging \/ Playing \/ Dealing \/ Waiting \/ TakingOver \/ Telling

PartsSpec == PartsInit /\ [][PartsNext]_parts

----------------------------------------------------------------------------
(* Properties of the parts; those of Exchanges are checked as they are.    *)

\* Purse: the ledger explains every wallet, and books nothing twice.
LedgerExplains == part \in {"games", "loans"} => Till!LedgerExplains

\* Purse: a settlement is booked once and whole, and sums to zero but at a bank's table.
SettlementWhole == part \in {"games", "loans"} => Till!SettlementWhole

\* Achievements: unlocked, and paid, is what the permanent facts prove.
UnlockedIsProven == part \in {"games", "loans"} => Till!UnlockedIsProven

\* Achievements: a recovery from a bankruptcy is noticed when it happens.
RecoveryAwarded == part \in {"games", "loans"} => Till!RecoveryAwarded

\* Waits: one lease and one slot for each machine, one commit for each move.
OneLiveWait ==
  /\ part = "one wait" => Alone!OneLiveWait
  /\ part = "two waits" => Crowd!OneLiveWait

\* Waits: nobody sleeps through news.
SleeperArmed ==
  /\ part = "one wait" => Alone!SleeperArmed
  /\ part = "two waits" => Crowd!SleeperArmed

\* Waits: a call that was cancelled, replaced or closed stays so.
CancelIsFinal ==
  /\ [][part = "one wait" => Alone!CancelKept]_parts
  /\ [][part = "two waits" => Crowd!CancelKept]_parts

\* Takeover: a room nobody watches is played on by one turn at most.
OneAssistUnwatched == part = "takeover" => Clocked!OneAssistUnwatched

\* Takeover: a turn that is played for its player has stood long enough.
OnlyOverdueTaken == [][part = "takeover" => Clocked!OverdueTaken]_parts

\* Notices: what the browser shows and the machine was told is up to date.
UnreadHonest == part = "notices" => Bell!UnreadHonest
=============================================================================
