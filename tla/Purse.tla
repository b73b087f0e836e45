------------------------------- MODULE Purse --------------------------------
(***************************************************************************)
(* The purse of each player: one write transaction of chips.py, of a room  *)
(* or of the loan service at a time, each with the achievements it records *)
(* and the rewards these book, and the backfill of every start.            *)
(*                                                                         *)
(* The day of a check-in is read before the transaction, so a call may be  *)
(* granted after midnight.  Rooms, loans and the shop are reduced to what  *)
(* they do here; Rooms, Loans and Exchanges model them.                    *)
(***************************************************************************)
EXTENDS Achievements

CONSTANTS
  RoomIds, Stakes,
  Seatings,    \* pairs <<game, roster>>
  RoomKinds,   \* subset of {"table", "party", "invite"}
  LoanSizes,   \* principal of the loans of the instance
  Counters,    \* whether their terms were countered: a subset of BOOLEAN
  Askers,      \* who checks in
  Trades,      \* pairs <<payer, payee>> of the shop
  Legacy,      \* rooms a database from before the achievements may hold
  MaxTime,     \* bound: ticks of the clock
  MaxCalls     \* bound: transactions of a history

VARIABLES db, time, asking, calls

vars == <<db, time, asking, calls>>

NotAsking == -1
NoRoom ==
  [status |-> "free", kind |-> "table", game |-> "", stake |-> 0, roster |-> <<>>,
   initiator |-> "", rematch |-> <<>>, created |-> 0, ended |-> 0, winners |-> {},
   settles |-> FALSE, delta |-> <<>>, reason |-> "", preserved |-> FALSE]

NewDb ==
  [wallet |-> [s \in Subjects |-> NoWallet], ledger |-> [s \in Subjects |-> <<>>],
   batches |-> {}, rooms |-> [r \in RoomIds |-> NoRoom], openings |-> <<>>,
   matches |-> <<>>, events |-> {}, loanFacts |-> {}, debts |-> [s \in Subjects |-> 0],
   lent |-> 0, unlocked |-> {}, pairs |-> {}]

\* A duel that ended before there were achievements and batches: its winner
\* got the stake in two lines of the ledger, nothing else is known of it.
LegacyDb(t) ==
  LET r == Min(RoomIds)
      row == [t EXCEPT !.settles = TRUE, !.delta = WinnerTakes(t)]
  IN [Settled([NewDb EXCEPT !.rooms[r] = row], r) EXCEPT !.batches = {}]

Init ==
  /\ db \in {NewDb} \cup {LegacyDb(t) : t \in Legacy}
  /\ time = 0 /\ calls = 0
  /\ asking = [s \in Subjects |-> NotAsking]

\* One committed transaction.
Commit(d) ==
  /\ calls < MaxCalls /\ calls' = calls + 1
  /\ db' = d
  /\ UNCHANGED <<time, asking>>

----------------------------------------------------------------------------
(* Rooms.                                                                  *)

\* Room ids are random; the smallest unused one stands for any.
Free(r) == r = Min({x \in RoomIds : db.rooms[x].status = "free"})

\* A room is opened and starts; the purse of the opener must cover the stake.
Open(r, kind, game, roster, stake, rematch) ==
  LET initiator == roster[1]
      t == [NoRoom EXCEPT !.status = "playing", !.kind = kind, !.game = game, !.stake = stake,
                          !.roster = roster, !.initiator = initiator, !.rematch = rematch,
                          !.created = time]
      d == [db EXCEPT !.rooms[r] = t]
  IN /\ db.rooms[r].status = "free" /\ Free(r)
     /\ MayStake(db, initiator, stake)
     /\ rematch # <<>> => kind = "table" /\ MayRematch(db, rematch[1], game, roster)
     /\ Commit(IF kind = "invite" THEN d ELSE Created(d, r))

EndsWith(t, winners, reason) ==
  [t EXCEPT !.status = "finished", !.ended = time, !.winners = winners, !.reason = reason]

\* The room ends: settlement first, then the achievements see the wallets.
Finish(r, winners, reason, settlement) ==
  LET t == db.rooms[r]
      ended == EndsWith(t, winners, reason)
      row == [ended EXCEPT !.settles = settlement.settles,
                           !.delta = Deltas(db, ended, settlement.asked)]
      settled == Settled([db EXCEPT !.rooms[r] = row], r)
      normal == reason = "game_result" \/ (reason = "resignation" /\ SoleWinner(row))
  IN /\ t.status = "playing"
     /\ winners \subseteq ToSet(t.roster) /\ winners # ToSet(t.roster)
     /\ Cardinality(winners) > 1 => Len(t.roster) > 2
     /\ reason = "stale_archive" <=> winners = {} /\ reason # "game_result"
     /\ settlement \in Settlements(ended)
     /\ ~Torn([db EXCEPT !.rooms[r] = row], r)
     /\ Commit(TerminalRecorded(settled, r, normal))

\* A finished room is settled again: its caller need not know that it was.
SettleAgain(r) ==
  /\ db.rooms[r].status = "finished" /\ ~Torn(db, r)
  /\ db' = Settled(db, r)
  /\ UNCHANGED <<time, asking, calls>>

\* The rat of a jungle game takes the elephant.
Capture(r, p) ==
  /\ db.rooms[r].status = "playing" /\ db.rooms[r].kind # "invite"
  /\ db.rooms[r].game = "jungle"
  /\ p \in ToSet(db.rooms[r].roster) \cap Subjects
  /\ Commit(RatCapture(db, r, p))

\* A human member keeps the finished room.
Preserve(r, h) ==
  /\ db.rooms[r].status = "finished" /\ h \in ToSet(db.rooms[r].roster)
  /\ Commit(PreservedLoss([db EXCEPT !.rooms[r].preserved = TRUE], h, r))

----------------------------------------------------------------------------
(* The wallet's own calls.                                                 *)

\* claim_daily_check_in reads the day ...
ReadDay(s) ==
  /\ asking[s] = NotAsking /\ calls < MaxCalls
  /\ asking' = [asking EXCEPT ![s] = Day(time)]
  /\ UNCHANGED <<db, time, calls>>

\* ... and, when the lock is granted, books the grant of that day.
ClaimCheckIn(s, partners) ==
  /\ asking[s] # NotAsking
  /\ calls < MaxCalls /\ calls' = calls + 1
  /\ asking' = [asking EXCEPT ![s] = NotAsking]
  /\ db' = CheckInRecorded(Granted(db, s, asking[s]), s, asking[s], partners)
  /\ UNCHANGED time

DeclareBankruptcy(s) ==
  /\ MayGoBankrupt(db, s)
  /\ Commit(BankruptcyRecorded(Reset(Opened(db, s), s), s))

----------------------------------------------------------------------------
(* What other services do to two purses.                                   *)

Moved(d, from, to, amount, type, id) ==
  Booked(Booked(Opened(Opened(d, from), to), from, -amount, <<type, id>>), to, amount, <<type, id>>)

\* confirm_exchange_request books both sides and evaluates nobody.
Exchange(from, to) ==
  /\ Balance(db, from) >= 1
  /\ Commit(Moved(db, from, to, 1, "exchange_settlement", calls))

LoanFact(type, id, who, h, a) ==
  [type |-> type, id |-> id, who |-> who, pair |-> <<h, a>>, onTime |-> FALSE,
   before |-> 0, debts |-> 0, countered |-> FALSE]

\* accept_loan: the principal moves, then both sides are told.
Borrow(h, a, borrower, countered, size) ==
  LET lender == CHOOSE s \in {h, a} : s # borrower
      id == db.lent + 1
      debts == db.debts[borrower] + 1
      paid == Moved([db EXCEPT !.lent = id, !.debts[borrower] = debts],
                    lender, borrower, size, "loan_principal", id)
      Told(type, who) ==
        [LoanFact(type, id, who, h, a) EXCEPT
           !.before = Balance(db, borrower), !.debts = debts, !.countered = countered]
  IN /\ Balance(db, lender) >= size
     /\ Commit(LoanRecorded(paid, {Told("loan_activated_borrower", borrower),
                                   Told("loan_activated_lender", lender)}, borrower, lender))

\* repay_loan, in full or in part, or a deadline or a cap the settlement meets.
LoanNews(h, a, borrower, type, onTime) ==
  LET lender == CHOOSE s \in {h, a} : s # borrower
      id == db.lent
      Told(kind) == {[LoanFact(kind, id, borrower, h, a) EXCEPT !.onTime = onTime]}
      pays == type \in {"loan_repaid", "loan_partial_repayment"}
      paid == IF pays THEN Moved(db, borrower, lender, 1, type, calls) ELSE db
      closed == IF type = "loan_repaid" THEN [paid EXCEPT !.debts[borrower] = @ - 1] ELSE paid
      told == LoanRecorded(closed, Told(type), borrower, lender)
  IN /\ db.debts[borrower] > 0
     /\ pays => Balance(db, borrower) >= 1
     /\ onTime => type = "loan_repaid"
     /\ Commit(IF type = "loan_repaid" /\ closed.debts[borrower] = 0
               THEN LoanRecorded(told, Told("loan_debt_free"), borrower, lender) ELSE told)

----------------------------------------------------------------------------
(* The clock and the process.                                              *)

Tick == time < MaxTime /\ time' = time + 1 /\ UNCHANGED <<db, asking, calls>>

\* A stopped process loses its calls; the new one backfills before serving.
Restart ==
  /\ calls < MaxCalls /\ calls' = calls + 1
  /\ db' = Backfilled(db)
  /\ asking' = [s \in Subjects |-> NotAsking]
  /\ UNCHANGED time

OpenSome ==
  \E r \in RoomIds, kind \in RoomKinds, seating \in Seatings, stake \in Stakes,
     rematch \in {<<>>} \cup {<<p>> : p \in RoomIds} :
    Open(r, kind, seating[1], seating[2], stake, rematch)
FinishSome ==
  \E r \in RoomIds, winners \in SUBSET (Subjects \cup Npcs),
     reason \in {"game_result", "resignation", "leave_forfeit", "stale_archive"} :
    \E settlement \in Settlements(EndsWith(db.rooms[r], winners, reason)) :
      Finish(r, winners, reason, settlement)
SettleSome == \E r \in RoomIds : SettleAgain(r)
CaptureSome == \E r \in RoomIds, p \in Subjects : Capture(r, p)
PreserveSome == \E r \in RoomIds, h \in Humans : Preserve(r, h)
CheckInSome ==
  \E s \in Subjects : \E partners \in {{}, IF s \in Humans THEN Ais ELSE Humans} :
    ClaimCheckIn(s, partners)
ExchangeSome == \E trade \in Trades : Exchange(trade[1], trade[2])
BorrowSome ==
  \E h \in Humans, a \in Ais, countered \in Counters, size \in LoanSizes :
    \E borrower \in {h, a} : Borrow(h, a, borrower, countered, size)
LoanNewsSome ==
  \E h \in Humans, a \in Ais, onTime \in BOOLEAN,
     type \in {"loan_repaid", "loan_partial_repayment", "loan_overdue", "loan_interest_cap_reached"} :
    \E borrower \in {h, a} : LoanNews(h, a, borrower, type, onTime)

Next ==
  \/ OpenSome \/ FinishSome \/ SettleSome \/ CaptureSome \/ PreserveSome
  \/ (\E s \in Askers : ReadDay(s)) \/ (\E s \in Subjects : DeclareBankruptcy(s))
  \/ CheckInSome \/ ExchangeSome \/ BorrowSome \/ LoanNewsSome
  \/ Tick \/ Restart

Spec == Init /\ [][Next]_vars

----------------------------------------------------------------------------
(* Properties.                                                             *)

Wallets == {s \in Subjects : db.wallet[s].open}
Lines(s) == DOMAIN db.ledger[s]
Keyed(s) == {i \in Lines(s) : db.ledger[s][i].key # ResetLine}
Before(s, i) == IF i = 1 THEN 0 ELSE db.ledger[s][i - 1].after
Bankruptcies(s) == {i \in Lines(s) : db.ledger[s][i].key = ResetLine}

\* The ledger explains every wallet: each line starts from the balance the
\* one before it left, the last one is the balance, the bankruptcies are the
\* reset lines and the recorded events, and the badge stays exactly until the
\* balance has been whole again (chips.py:254-304, 618-665).  No line is booked
\* twice, be it late, repeated or done again at the next start: one grant of a
\* day, one settlement of a room, one reward of an achievement.
LedgerExplains ==
  \A s \in Wallets :
    LET w == db.wallet[s]
        wholeSince(i) == \E j \in (i + 1)..Len(db.ledger[s]) : db.ledger[s][j].after >= InitialBalance
    IN /\ \A i \in Lines(s) : db.ledger[s][i].after = Before(s, i) + db.ledger[s][i].amount
       /\ w.balance = Last(db.ledger[s]).after
       /\ w.bankruptcies = Cardinality(Bankruptcies(s))
       /\ w.bankruptcies = Cardinality(Events(db, s, "bankruptcy"))
       /\ w.badge <=> \E i \in Bankruptcies(s) : ~wholeSince(i) /\ \A j \in Bankruptcies(s) : j <= i
       /\ \A i, j \in Keyed(s) : db.ledger[s][i].key = db.ledger[s][j].key => i = j

\* A settlement is whole: of a staked table whose result settles, each seat
\* with a wallet has the one line of its delta, and nobody else has one; what
\* the seats win and pay sums to zero, but at a bank's table.  A table that
\* does not settle leaves no trace, and one that does leaves its batch or, from
\* before there were any, its lines: whoever settles it again, before or after
\* a restart, books nothing (chips.py:363-467, 498-560).
SettlementWhole ==
  \A r \in RoomIds :
    LET t == db.rooms[r]
        settled == t.status = "finished" /\ t.stake > 0 /\ t.settles
        Paying(s) == {i \in Lines(s) : db.ledger[s][i].key = SettlementKey(r)}
    IN /\ settled /\ t.game \notin Banks => Total(t.delta, ToSet(t.roster)) = 0
       /\ \A s \in Subjects :
            IF settled /\ s \in ToSet(t.roster) /\ t.delta[s] # 0
            THEN {db.ledger[s][i].amount : i \in Paying(s)} = {t.delta[s]}
            ELSE Paying(s) = {}
       /\ settled <=> r \in db.batches \/ \E s \in Subjects : Paying(s) # {}

\* Not settled by the facts of the call that completes them: a check-in of
\* which the other side knows no more, a balance that a later win may upset.
Lapsed == {"pair_same_day_check_in", "pair_balanced_twenty", Recovery}

\* Unlocked is exactly what the permanent facts prove: no fact waits for a
\* later call, and no later fact, order of calls or restart unproves one.
\* Each was paid its reward, and each reward line belongs to one
\* (achievements.py:966-1032).
UnlockedIsProven ==
  /\ \A s \in Subjects :
       {id \in Catalogue : <<s, id, Global>> \in db.unlocked} \ Lapsed = Proven(db, s) \ Lapsed
  /\ \A pair \in db.pairs : \A s \in {pair[1], pair[2]} :
       {id \in Catalogue : <<s, id, pair>> \in db.unlocked} \ Lapsed
         = ProvenTogether(db, pair[1], pair[2]) \ Lapsed
  /\ \A s \in Subjects, id \in Catalogue, context \in {Global} \cup (Humans \X Ais) :
       Rewards[id] > 0 =>
         (<<s, id, context>> \in db.unlocked <=> Holds(db, s, RewardKey(id, context)))

Unjudged == {"exchange_settlement", "duel_settlement"}

\* A wallet that is whole again after a bankruptcy has its recovery, except
\* while its last line is of the shop or of a game that does not count: these
\* evaluate nobody (README.md:734; achievements.py:1253-1261, 1352-1361).
RecoveryAwarded ==
  \A s \in Wallets :
    Recovered(db, s) =>
      \/ <<s, Recovery, Global>> \in db.unlocked
      \/ Last(db.ledger[s]).key[1] \in Unjudged
=============================================================================
