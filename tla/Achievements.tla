---------------------------- MODULE Achievements ----------------------------
(* Facts, metrics, unlocks and rewards (app/achievements.py), as operators *)
(* on the database.  Facts are copied out of the rooms and never removed;  *)
(* every metric is computed from them, so it can only grow.  The progress  *)
(* rows shown to players and the texts are left out.                       *)
EXTENDS Wallet

CONSTANTS
  Rewards,    \* reward of each achievement of the catalogue
  Target,     \* AchievementDefinition.target
  GameAward,  \* GAME_WIN_IDS
  NpcAward,   \* NPC_ACHIEVEMENT_IDS
  HumanIds, AiIds, PairIds,  \* catalogue entries of one kind of subject
  DayLength   \* clock ticks of a calendar day

Catalogue == DOMAIN Rewards
Day(time) == time \div DayLength
Global == <<>>

----------------------------------------------------------------------------
(* Facts.                                                                  *)

Event(type, who, ref, data) == [type |-> type, who |-> who, ref |-> ref, data |-> data]

\* ON CONFLICT(idempotency_key) DO NOTHING
Recorded(d, e) ==
  IF \E x \in d.events : x.type = e.type /\ x.who = e.who /\ x.ref = e.ref THEN d
  ELSE [d EXCEPT !.events = @ \cup {e}]

Events(d, s, type) == {e \in d.events : e.type = type /\ e.who = s}

\* A fact of the loan service about one side of a loan.
LoanFacts(d, s, type) == {f \in d.loanFacts : f.type = type /\ f.who = s}

Outcome(m, p) ==
  IF m.winners = {} THEN "draw" ELSE IF p \in m.winners THEN "win" ELSE "loss"

\* _normal_rows: the games of all of S that count, in the order they were recorded.
NormalRows(d, S) ==
  LET rows[n \in 0..Len(d.matches)] ==
        IF n = 0 THEN <<>>
        ELSE IF d.matches[n].normal /\ S \subseteq ToSet(d.matches[n].roster)
             THEN Append(rows[n - 1], d.matches[n]) ELSE rows[n - 1]
  IN rows[Len(d.matches)]
Opponents(m, s) == ToSet(m.roster) \ {s}
Duel(m) == Len(m.roster) = 2
SoleWinner(m) == Cardinality(m.winners) = 1

----------------------------------------------------------------------------
(* What a row of games proves.                                             *)

Where(rows, P(_)) == {i \in DOMAIN rows : P(rows[i])}
Once(rows, P(_)) == \E i \in DOMAIN rows : P(rows[i])
Types(rows) == {rows[i].game : i \in DOMAIN rows}

\* n games in a row with a property, ending at i.
RunAt(rows, i, n, P(_)) == i >= n /\ \A j \in (i - n + 1)..i : P(rows[j])
Streak(rows, n, P(_)) == \E i \in DOMAIN rows : RunAt(rows, i, n, P)

Comeback(rows, s, n) ==
  \E i \in DOMAIN rows :
    /\ Outcome(rows[i], s) = "win"
    /\ RunAt(rows, i - 1, n, LAMBDA m : Outcome(m, s) = "loss")

SameOpponent(rows, s, n) ==
  \E p \in Subjects \cup Npcs :
    Streak(rows, n, LAMBDA m : m.stake = 0 /\ Duel(m) /\ p \in Opponents(m, s))

Revenge(rows, s, n) ==
  \E h \in Humans, i \in DOMAIN rows :
    /\ Outcome(rows[i], s) = "win" /\ h \in Opponents(rows[i], s)
    /\ RunAt(rows, i - 1, n, LAMBDA m :
               Outcome(m, s) = "loss" /\ m.winners = {h})

\* _max_rematch_chain: a link counts when its predecessor is in the chain.
Chain(rows, s) ==
  LET length[i \in DOMAIN rows] ==
        IF ~Duel(rows[i]) THEN 0
        ELSE IF rows[i].rematch = <<>> THEN 1
        ELSE LET before == {j \in 1..(i - 1) :
                   /\ <<rows[j].room>> = rows[i].rematch /\ length[j] > 0
                   /\ rows[j].game = rows[i].game
                   /\ Opponents(rows[j], s) = Opponents(rows[i], s)}
             IN IF before = {} THEN 0 ELSE length[Max(before)] + 1
  IN length

Defeated(rows, s) ==
  UNION {Opponents(rows[i], s) \cap Npcs :
           i \in Where(rows, LAMBDA m : Outcome(m, s) = "win")}

Known(column, P(_)) == column # <<>> /\ P(column[1])

----------------------------------------------------------------------------
(* evaluate_subject: the achievements a subject has earned.                *)

EarnedByGames(rows, s) ==
  LET Won(P(_)) == Once(rows, LAMBDA m : Outcome(m, s) = "win" /\ P(m))
      Beaten(P(_)) == Once(rows, LAMBDA m : Outcome(m, s) = "loss" /\ P(m))
      Drawn(m) == Outcome(m, s) = "draw"
      Free(m) == m.stake = 0
      Lost(m, n) == Known(m.delta[s], LAMBDA v : v < 0 /\ -v >= n)
      LeftAt(m, P(_)) == Lost(m, 1) /\ Known(m.after[s], P)
  IN {id \in Catalogue :
       \/ id = "first_normal_game" /\ rows # <<>>
       \/ id = "first_authoritative_rematch" /\ Once(rows, LAMBDA m : m.rematch # <<>>)
       \/ id = "first_normal_draw" /\ Once(rows, Drawn)
       \/ id = "six_game_types" /\ Cardinality(Types(rows)) >= Target[id]
       \/ id = "first_four_player_game" /\ Once(rows, LAMBDA m : Len(m.roster) >= 4)
       \/ id = "first_staked_game" /\ Once(rows, LAMBDA m : m.stake > 0)
       \/ id = "win_after_three_losses" /\ Comeback(rows, s, Target[id])
       \/ id = "first_negative_balance" /\ Once(rows, LAMBDA m : LeftAt(m, LAMBDA v : v < 0))
       \/ id = "lose_100_in_game" /\ Once(rows, LAMBDA m : Lost(m, Target[id]))
       \/ id = "win_zero_stake" /\ Won(Free)
       \/ id = "lose_zero_stake" /\ Beaten(Free)
       \/ id = "ten_zero_stake_games" /\ Cardinality(Where(rows, Free)) >= Target[id]
       \/ id = "five_zero_stake_same_opponent" /\ SameOpponent(rows, s, Target[id])
       \/ id = "all_in_loss"
            /\ Beaten(LAMBDA m : Known(m.opening[s], LAMBDA v : v > 0 /\ v = m.stake))
       \/ id = "settlement_balance_minus_500"
            /\ Once(rows, LAMBDA m : LeftAt(m, LAMBDA v : v <= BankruptcyThreshold))
       \/ id = "game_last_at_least_24h"
            /\ Once(rows, LAMBDA m : m.ended - m.created >= DayLength)
       \/ id = "ten_game_rematch_chain" /\ \E i \in DOMAIN rows : Chain(rows, s)[i] >= Target[id]
       \/ id = "non_tictactoe_draw" /\ Once(rows, LAMBDA m : Drawn(m) /\ m.game # "tictactoe")
       \/ id = "othello_win_both_sides"
            /\ \A i \in {1, 2} : Won(LAMBDA m : m.game = "othello" /\ m.roster[i] = s)
       \/ \E game \in DOMAIN GameAward :
            id = GameAward[game] /\ Won(LAMBDA m : m.game = game)
       \/ \E npc \in Defeated(rows, s) : id = NpcAward[npc]
       \/ id = "defeat_all_six_npcs" /\ Npcs \subseteq Defeated(rows, s)
       \/ id = "human_loses_to_bound_ai"
            /\ Beaten(LAMBDA m : SoleWinner(m) /\ m.winners \subseteq Ais)
       \/ id = "ai_beats_bound_human"
            /\ Won(LAMBDA m : Opponents(m, s) \cap Humans # {})
       \/ id = "ai_three_win_streak" /\ Streak(rows, Target[id], LAMBDA m : Outcome(m, s) = "win")
       \/ id = "ai_revenge_bound_human" /\ Revenge(rows, s, Target[id])
       \/ id = "ai_six_game_types" /\ Cardinality(Types(rows)) >= Target[id]}

EarnedByFacts(d, s, rows) ==
  LET Count(type) == Cardinality(Events(d, s, type))
      Loans(type) == Cardinality(LoanFacts(d, s, type))
      onTime == {f \in LoanFacts(d, s, "loan_repaid") : f.onTime}
      Borrowed(n) == \E f \in LoanFacts(d, s, "loan_activated_borrower") : f.debts >= n
      rematches == Events(d, s, "rematch_created")
  IN {id \in Catalogue :
       \/ id \in {"first_bankruptcy", "three_bankruptcies"} /\ Count("bankruptcy") >= Target[id]
       \/ id = "jungle_rat_captures_elephant" /\ Count(id) >= 1
       \/ id = "human_rematch_after_loss"
            /\ \E e \in rematches, i \in DOMAIN rows :
                 e.data = rows[i].room /\ Outcome(rows[i], s) = "loss"
       \/ id = "human_preserve_loss" /\ Count("preserved_loss") >= 1
       \/ id = "ai_creates_room" /\ Count("room_created") + Cardinality(rematches) >= 1
       \/ id = "ai_authoritative_rematch" /\ rematches # {}
       \/ id = "loan_first_borrower_active" /\ Loans("loan_activated_borrower") >= 1
       \/ id = "loan_first_lender_active" /\ Loans("loan_activated_lender") >= 1
       \/ id = "loan_first_partial_repayment" /\ Loans("loan_partial_repayment") >= 1
       \/ id \in {"loan_first_ontime_repayment", "loan_three_ontime_repayments"}
            /\ Cardinality(onTime) >= Target[id]
       \/ id = "loan_lend_to_negative_borrower"
            /\ \E f \in LoanFacts(d, s, "loan_activated_lender") : f.before < 0
       \/ id = "loan_debt_free_after_three"
            /\ Borrowed(Target["loan_three_active"]) /\ Loans("loan_debt_free") >= 1
       \/ id = "loan_three_active" /\ Borrowed(Target[id])
       \/ id = "loan_first_overdue" /\ Loans("loan_overdue") >= 1
       \/ id = "loan_interest_cap_reached" /\ Loans(id) >= 1}

\* What the permanent facts prove, whatever happened to the wallet since.
Proven(d, s) ==
  LET rows == NormalRows(d, {s})
  IN (EarnedByGames(rows, s) \cup EarnedByFacts(d, s, rows))
       \ (IF s \in Humans THEN AiIds ELSE HumanIds)

----------------------------------------------------------------------------
(* evaluate_relationship: what a human and an AI have earned together.     *)

ProvenTogether(d, h, a) ==
  LET rows == NormalRows(d, {h, a})
      Won(p, q) == Cardinality(Where(rows, LAMBDA m : Outcome(m, p) = "win" /\ Outcome(m, q) = "loss"))
      decisive == Won(h, a) + Won(a, h)
      together == {f \in d.loanFacts : f.type = "loan_activated_borrower" /\ f.pair = <<h, a>>}
  IN {id \in Catalogue :
       \/ id \in {"pair_first_game", "pair_ten_games", "pair_fifty_games"} /\ Len(rows) >= Target[id]
       \/ id = "pair_reunion_after_seven_days"
            /\ \E i \in 1..(Len(rows) - 1) :
                 Day(rows[i + 1].ended) - Day(rows[i].ended) - 1 >= Target[id]
       \/ id = "pair_same_day_check_in"
            /\ \E e \in Events(d, h, "check_in"), f \in Events(d, a, "check_in") : e.ref = f.ref
       \/ id = "pair_both_won" /\ Won(h, a) > 0 /\ Won(a, h) > 0
       \/ id = "pair_balanced_twenty"
            /\ decisive >= Target[id] /\ Won(h, a) - Won(a, h) \in -2..2
       \/ id = "pair_five_wins_each" /\ Won(h, a) >= Target[id] /\ Won(a, h) >= Target[id]
       \/ id = "loan_pair_counter_activated" /\ \E f \in together : f.countered
       \/ id = "loan_pair_bidirectional" /\ {f.who : f \in together} = {h, a}}

----------------------------------------------------------------------------
(* Unlocking.                                                              *)

RewardKey(id, context) == <<"achievement", id, context>>

Unlocked(d, s, id, context) ==
  LET rewarded == IF Rewards[id] = 0 THEN d
                  ELSE Booked(Opened(d, s), s, Rewards[id], RewardKey(id, context))
  IN IF <<s, id, context>> \in d.unlocked THEN d
     ELSE [rewarded EXCEPT !.unlocked = @ \cup {<<s, id, context>>}]

\* Rewards are <<subject, id, context>>.
UnlockedAll(d, rewards) == FoldSet(LAMBDA x, e : Unlocked(e, x[1], x[2], x[3]), d, rewards)

Recovery == "bankruptcy_recovery"

\* Mutant: nobody looks at the wallet again after the rewards.
NotRefreshed(d, s) == d

\* _refresh_bankruptcy_recovery
Refreshed(d, s) ==
  IF Recovery \in Catalogue /\ Recovered(d, s) THEN Unlocked(d, s, Recovery, Global) ELSE d

\* The wallet is judged before any reward, and again after all of them.
Evaluated(d, s) ==
  Refreshed(UnlockedAll(Refreshed(d, s), {s} \X Proven(d, s) \X {Global}), s)
EvaluatedAll(d, S) == FoldSet(LAMBDA s, e : Evaluated(e, s), d, S)

EvaluatedPair(d, h, a) ==
  LET both == UnlockedAll(d, {h, a} \X ProvenTogether(d, h, a) \X {<<h, a>>})
  IN IF <<h, a>> \notin d.pairs THEN d ELSE Refreshed(Refreshed(both, h), a)

Pairs(roster) == (ToSet(roster) \cap Humans) \X (ToSet(roster) \cap Ais)
EvaluatedPairs(d, pairs) == FoldSet(LAMBDA p, e : EvaluatedPair(e, p[1], p[2]), d, pairs)

----------------------------------------------------------------------------
(* Facts of rooms.                                                         *)

Registered(d, pairs) == [d EXCEPT !.pairs = @ \cup pairs]

\* _record_creation_fact
CreationFact(d, r) ==
  LET t == d.rooms[r]
      e == IF t.rematch = <<>> THEN Event("room_created", t.initiator, r, 0)
           ELSE Event("rematch_created", t.initiator, r, t.rematch[1])
  IN Evaluated(Recorded(d, e), t.initiator)

\* record_room_created.  A session with scores of its own earns nothing.
Created(d, r) ==
  LET roster == d.rooms[r].roster
      opening == [p \in ToSet(roster) |-> IF p \in Subjects THEN <<Balance(d, p)>> ELSE <<>>]
      kept == Registered([d EXCEPT !.openings = (r :> opening) @@ @], Pairs(roster))
  IN IF d.rooms[r].kind = "party" THEN kept ELSE CreationFact(kept, r)

\* validate_rematch
MayRematch(d, previous, game, roster) ==
  \E i \in DOMAIN d.matches :
    LET m == d.matches[i]
    IN /\ m.room = previous /\ (m.normal \/ m.kind = "party") /\ m.game = game
       /\ ToSet(m.roster) = ToSet(roster)

\* The wallet after the room: now for a room that was opened under this
\* code, else only what a settlement line of the room proves.
\* Left out: the outcome 'none' of a room that ends without a winner, and
\* the facts of transfers and repayments (authoritative_chip_change).
AfterRoom(d, r, p) ==
  LET lines == SelectSeq(d.ledger[p], LAMBDA l : l.key = SettlementKey(r))
  IN IF r \in DOMAIN d.openings /\ p \in DOMAIN d.openings[r] /\ d.wallet[p].open THEN <<Balance(d, p)>>
     ELSE IF lines = <<>> THEN <<>> ELSE <<Last(lines).after>>

\* A room of the hall counts once, one opened by an invite code never.
Recordable(d, r) == d.rooms[r].kind # "invite" /\ \A i \in DOMAIN d.matches : d.matches[i].room # r

\* record_terminal_room
TerminalRecorded(d, r, outcome) ==
  LET t == d.rooms[r]
      normal == outcome /\ t.kind # "party"
      seats == ToSet(t.roster)
      real == seats \cap Subjects
      open == IF normal THEN Each(d, real, Opened) ELSE d
      proven == r \in DOMAIN d.openings \/ t.stake = 0 \/ r \in d.batches
      match == [room |-> r, kind |-> t.kind, game |-> t.game, stake |-> t.stake, rematch |-> t.rematch,
                created |-> t.created, ended |-> t.ended, normal |-> normal,
                roster |-> t.roster, winners |-> t.winners,
                delta |-> [p \in seats |-> IF proven THEN <<t.delta[p]>> ELSE <<>>],
                opening |-> IF r \in DOMAIN d.openings THEN d.openings[r]
                            ELSE [p \in seats |-> <<>>],
                after |-> [p \in real |-> AfterRoom(open, r, p)]]
      kept == Registered([open EXCEPT !.matches = Append(@, match)], Pairs(t.roster))
  IN IF ~Recordable(d, r) THEN d
     ELSE IF normal THEN EvaluatedPairs(EvaluatedAll(kept, real), Pairs(t.roster)) ELSE kept

\* record_preserved_loss
PreservedLoss(d, h, r) ==
  IF \E i \in DOMAIN d.matches :
       LET m == d.matches[i]
       IN m.room = r /\ m.normal /\ h \in ToSet(m.roster) /\ Outcome(m, h) = "loss"
  THEN Evaluated(Recorded(d, Event("preserved_loss", h, r, 0)), h) ELSE d

\* record_special_move: the engine proves the capture.
RatCapture(d, r, p) ==
  Evaluated(Recorded(d, Event("jungle_rat_captures_elephant", p, r, 0)), p)

\* record_check_in
CheckInRecorded(d, s, day, partners) ==
  LET pairs == IF s \in Humans THEN {s} \X partners ELSE partners \X {s}
      e == Evaluated(Recorded(d, Event("check_in", s, day, 0)), s)
  IN EvaluatedPairs(Registered(e, pairs), pairs)

\* record_bankruptcy
BankruptcyRecorded(d, s) ==
  Evaluated(Recorded(d, Event("bankruptcy", s, d.wallet[s].bankruptcies, 0)), s)

\* Mutant: the sides are evaluated before the fact is stored.
LoanRecordedLate(d, facts, borrower, lender) ==
  LET pair == (CHOOSE f \in facts : TRUE).pair
      judged == Evaluated(Evaluated(Registered(d, {pair}), borrower), lender)
  IN [EvaluatedPair(judged, pair[1], pair[2]) EXCEPT !.loanFacts = @ \cup facts]

\* record_loan_event: the fact is about the sides named, both are evaluated.
LoanRecorded(d, facts, borrower, lender) ==
  LET pair == (CHOOSE f \in facts : TRUE).pair
      kept == Registered([d EXCEPT !.loanFacts = @ \cup facts], {pair})
  IN EvaluatedPair(Evaluated(Evaluated(kept, borrower), lender), pair[1], pair[2])

----------------------------------------------------------------------------
(* backfill_authoritative_matches, at every start.                         *)

\* The last event of the room proves how it ended, and a table of several
\* seats names its winner.
Backfillable(d, r) ==
  LET t == d.rooms[r]
  IN /\ t.status = "finished" /\ \A i \in DOMAIN d.matches : d.matches[i].room # r
     /\ \/ t.reason = "game_result" \/ (t.reason = "resignation" /\ SoleWinner(t))
     /\ Len(t.roster) > 2 /\ t.winners # {} => SoleWinner(t)

BackfilledRoom(d, r) ==
  LET e == CreationFact(TerminalRecorded(d, r, TRUE), r)
      losers == {p \in ToSet(d.rooms[r].roster) \cap Humans : p \notin d.rooms[r].winners}
  IN IF d.rooms[r].preserved /\ d.rooms[r].winners # {} /\ Cardinality(losers) = 1
     THEN PreservedLoss(e, CHOOSE h \in losers : TRUE, r) ELSE e

Backfilled(d) ==
  LET Ended(x, y) == \/ d.rooms[x].ended < d.rooms[y].ended
                     \/ d.rooms[x].ended = d.rooms[y].ended /\ x <= y
      Latest(S) == CHOOSE y \in S : \A x \in S : Ended(x, y)
  IN MapThenFoldSet(LAMBDA r, e : BackfilledRoom(e, r), d, LAMBDA r : r, Latest,
                    {r \in DOMAIN d.rooms : Backfillable(d, r)})
=============================================================================
