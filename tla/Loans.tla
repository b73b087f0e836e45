------------------------------- MODULE Loans -------------------------------
(***************************************************************************)
(* Negotiated IOUs between a human and a bound machine (app/loans.py).     *)
(*                                                                         *)
(* A loan row starts as a proposal of the borrower, is countered and       *)
(* finally accepted, rejected, withdrawn or left to expire; acceptance     *)
(* moves the principal, and the debt then accrues simple interest with a   *)
(* carried remainder until it is repaid.  Expiry, accrual and overdue are  *)
(* LAZY: they happen only inside a transaction that refreshes the row.     *)
(*                                                                         *)
(* Every operation is one SQLite write transaction, hence one action; a    *)
(* request the code refuses rolls everything back, its own refresh too, so *)
(* a refusal is a disabled action.  Each operation reads its "now" BEFORE  *)
(* it obtains the writer lock: "now" is any instant at most Lag behind the *)
(* clock, and transactions may commit in another order than their nows.    *)
(***************************************************************************)
EXTENDS Integers, Sequences, FiniteSetsExt

CONSTANTS
  Humans, Ais,        \* the two kinds of wallet owners
  LoanIds,            \* the loan ids the run may allocate
  Keys,               \* idempotency keys a client may send
  Principals, Rates,  \* the terms a proposal may carry
  Denominator,        \* ACCRUAL_DENOMINATOR: rate units per chip
  DayLength,          \* instants in a Shanghai calendar day
  MaxDueDays,         \* a due date is at most this many days ahead
  ProposalLifetime,   \* instants a proposal stays open
  MaxOpenLoans,       \* MAX_OPEN_LOANS
  MaxInteger,         \* MAX_SQLITE_INTEGER
  MaxReward,          \* chips the loan achievements can still pay a subject
  InitialBalances,    \* balances a wallet may start with
  ExternalDeltas,     \* what a game, a check-in, ... may do to a wallet
  MaxExternal,        \* bound: how many such changes a run makes
  MaxRevision,        \* bound: revisions of one proposal
  MaxTime,            \* bound: the clock
  Lag,                \* bound: how old a transaction's "now" may be
  Nobody              \* awaiting_id IS NULL

Subjects == Humans \cup Ais
Due == 0..(MaxTime \div DayLength + MaxDueDays)

ASSUME LoanAssumption ==
  /\ Humans \cap Ais = {}
  /\ Nobody \notin Subjects /\ IsFiniteSet(Subjects)
  /\ Denominator \in Nat \ {0}
  /\ DayLength \in Nat \ {0}
  /\ MaxDueDays \in Nat /\ ProposalLifetime \in Nat /\ MaxTime \in Nat
  /\ MaxOpenLoans \in Nat /\ MaxReward \in Nat /\ MaxInteger \in Nat
  /\ MaxExternal \in Nat /\ MaxRevision \in Nat /\ Lag \in Nat
  /\ Principals \subseteq Nat \ {0}
  /\ Rates \subseteq Nat
  /\ InitialBalances \subseteq Int /\ ExternalDeltas \subseteq Int

VARIABLES
  clock,        \* the wall clock
  balance,      \* chip_wallets.balance of each subject
  rewardsLeft,  \* chips of the subject's still locked loan achievements
  external,     \* how many external wallet changes were made
  status,       \* loans.status, "none" while the id is free
  party,        \* borrower and lender of each loan
  offers,       \* loan_revisions: the sequence of proposed terms
  awaiting,     \* awaiting_id: whose answer the proposal waits for
  expires,      \* proposal_expires_at
  debt,         \* the accounting columns of an accepted loan
  exact,        \* history: principal*rate*seconds, summed, never rounded
  ops,          \* loan_operations
  sent, unread  \* notifications by (subject, event key); the unread ones

ledger == <<balance, rewardsLeft>>
proposal == <<party, offers, awaiting, expires>>
notices == <<sent, unread>>
vars == <<clock, balance, rewardsLeft, external, status, party, offers,
          awaiting, expires, debt, exact, ops, sent, unread>>

----------------------------------------------------------------------------
(* Data.                                                                   *)

Open == {"negotiating", "active", "overdue"}
Activated == {"active", "overdue", "repaid"}
Closed == {"repaid", "rejected", "withdrawn", "expired"}
Statuses == {"none"} \cup Open \cup Closed

Terms == [proposer : Subjects, principal : Principals, rate : Rates,
          cap : BOOLEAN, due : Due]

NoDebt == [original |-> 0, remaining |-> 0, rate |-> 0, cap |-> FALSE,
           due |-> 0, accrued |-> 0, remainder |-> 0, ipaid |-> 0,
           ppaid |-> 0, last |-> 0, capReached |-> FALSE]

Larger(a, b) == IF a >= b THEN a ELSE b
Smaller(a, b) == IF a <= b THEN a ELSE b

Day(t) == t \div DayLength

Times == 0..MaxTime

\* A transaction's "now", read before BEGIN IMMEDIATE was granted.
Now == {t \in Times : clock - Lag <= t /\ t <= clock}

\* _validate_due_date: at least tomorrow, at most MaxDueDays ahead.
ValidDueDate(due, now) == Day(now) + 1 <= due /\ due <= Day(now) + MaxDueDays

Revision(l) == Len(offers[l])
CurrentTerms(l) == offers[l][Len(offers[l])]
Parties(l) == {party[l].borrower, party[l].lender}
Counterparty(l, s) ==
  IF s = party[l].borrower THEN party[l].lender ELSE party[l].borrower

LoansOf(b) == {l \in LoanIds : status[l] # "none" /\ party[l].borrower = b}

Notice(to, l, event, rev) == [to |-> to, loan |-> l, event |-> event, rev |-> rev]
ProposalNotice(l) == Notice(awaiting[l], l, "proposal", Revision(l))

----------------------------------------------------------------------------
(* Interest.                                                               *)

Elapsed(d, now) == Larger(0, now - d.last)
Accrual(d, now) == d.remaining * d.rate * Elapsed(d, now)

\* Interest the cap still allows over the life of the loan.
CapRoom(d) == Larger(0, d.original - (d.ipaid + d.accrued))

CapHit(d, charged) ==
  d.cap /\ charged >= CapRoom(d) /\ (charged > 0 \/ CapRoom(d) = 0)

\* Mutant: the fraction of a chip is dropped at every settlement.
AccrueTruncated(d, now) ==
  LET charged == (Accrual(d, now) + d.remainder) \div Denominator
  IN IF Elapsed(d, now) = 0 THEN d
     ELSE IF CapHit(d, charged)
     THEN [d EXCEPT !.accrued = @ + CapRoom(d), !.remainder = 0,
                    !.last = now, !.capReached = TRUE]
     ELSE [d EXCEPT !.accrued = @ + charged, !.remainder = 0, !.last = now]

\* _accrue_interest: whole chips are charged, the rest is carried over.
AccrueInterest(d, now) ==
  LET numerator == Accrual(d, now) + d.remainder
      charged   == numerator \div Denominator
  IN IF Elapsed(d, now) = 0 THEN d
     ELSE IF CapHit(d, charged)
     THEN [d EXCEPT !.accrued = @ + CapRoom(d), !.remainder = 0,
                    !.last = now, !.capReached = TRUE]
     ELSE [d EXCEPT !.accrued = @ + charged,
                    !.remainder = numerator % Denominator, !.last = now]

----------------------------------------------------------------------------
(* Refreshing rows inside a transaction.                                   *)

ProposalExpired(l, now) == status[l] = "negotiating" /\ expires[l] <= now
IsDebt(l) == status[l] \in {"active", "overdue"}

BecomesOverdue(l, now) == status[l] = "active" /\ Day(now) > debt[l].due

\* _refresh_one as it reads from the current row.
RefreshedStatus(l, now) ==
  IF ProposalExpired(l, now) THEN "expired"
  ELSE IF BecomesOverdue(l, now) THEN "overdue" ELSE status[l]

RefreshedAwaiting(l, now) == IF ProposalExpired(l, now) THEN Nobody ELSE awaiting[l]
RefreshedDebt(l, now) ==
  IF IsDebt(l) THEN AccrueInterest(debt[l], now) ELSE debt[l]
RefreshedExact(l, now) ==
  IF IsDebt(l) THEN exact[l] + Accrual(debt[l], now) ELSE exact[l]

\* An uncapped debt whose interest outgrows the column refuses every refresh.
Storable(l, now) == RefreshedDebt(l, now).accrued <= MaxInteger

\* Mutant: expiry leaves the invitation to answer unread.
ClosedNothing(l, now) == {}

\* Notifications _refresh_one closes and creates.
ClosedNotices(l, now) ==
  IF ProposalExpired(l, now) THEN {ProposalNotice(l)} ELSE {}
OpenedNotices(l, now) ==
  (IF ProposalExpired(l, now)
     THEN {Notice(CurrentTerms(l).proposer, l, "expired", Revision(l))} ELSE {})
  \cup (IF BecomesOverdue(l, now)
     THEN {Notice(s, l, "overdue", 0) : s \in Parties(l)} ELSE {})

\* record_loan_event is called, so achievements of the pair are evaluated.
RecordsEvent(l, now) ==
  BecomesOverdue(l, now)
    \/ (RefreshedDebt(l, now).capReached /\ ~debt[l].capReached)

\* create_notification never resurrects a key it has inserted before.
Notify(opened, closed) ==
  /\ sent' = sent \cup opened
  /\ unread' = (unread \ closed) \cup (opened \ sent)

EventParties(S, now) == UNION {Parties(l) : l \in {x \in S : RecordsEvent(x, now)}}

\* Mutant: an achievement pays again each time its event repeats.
GrantsRepeated(subjects) ==
  {grant \in [Subjects -> 0..MaxReward] : \A s \in Subjects :
     grant[s] <= (IF s \in subjects THEN MaxReward ELSE 0)}

\* Rewards the achievements of `subjects` may pay within one transaction: an
\* unlock is permanent, so each locked chip is paid at most once.
Grants(subjects) ==
  {grant \in [Subjects -> 0..MaxReward] : \A s \in Subjects :
     grant[s] <= (IF s \in subjects THEN rewardsLeft[s] ELSE 0)}

\* The wallets end as `paid` with `grant` on top; SQLite rejects an integer
\* wider than its column, which rolls the transaction back.
Settle(paid, grant) ==
  /\ balance' = [s \in Subjects |-> paid[s] + grant[s]]
  /\ \A s \in Subjects : balance'[s] <= MaxInteger
  /\ rewardsLeft' = [s \in Subjects |-> rewardsLeft[s] - grant[s]]

\* The columns after the rows of S were refreshed.
StatusAfter(S, now) ==
  [l \in LoanIds |-> IF l \in S THEN RefreshedStatus(l, now) ELSE status[l]]
AwaitingAfter(S, now) ==
  [l \in LoanIds |-> IF l \in S THEN RefreshedAwaiting(l, now) ELSE awaiting[l]]
DebtAfter(S, now) ==
  [l \in LoanIds |-> IF l \in S THEN RefreshedDebt(l, now) ELSE debt[l]]
ExactAfter(S, now) ==
  [l \in LoanIds |-> IF l \in S THEN RefreshedExact(l, now) ELSE exact[l]]
NoticesOpened(S, now) == UNION {OpenedNotices(l, now) : l \in S}
NoticesClosed(S, now) == UNION {ClosedNotices(l, now) : l \in S}

\* A transaction that refreshes the rows of S and changes nothing else.
RefreshRows(S, now) ==
  /\ \A l \in S : Storable(l, now)
  /\ status' = StatusAfter(S, now)
  /\ awaiting' = AwaitingAfter(S, now)
  /\ debt' = DebtAfter(S, now)
  /\ exact' = ExactAfter(S, now)
  /\ Notify(NoticesOpened(S, now), NoticesClosed(S, now))
  /\ \E grant \in Grants(EventParties(S, now)) : Settle(balance, grant)
  /\ UNCHANGED <<clock, external, party, offers, expires, ops>>

----------------------------------------------------------------------------
(* The operations.                                                         *)

\* Mutant: the idempotency key is never looked up.
FreshKeyAlways(s, key) == TRUE

\* _existing_operation: the actor has not used this idempotency key yet.
FreshKey(s, key) == ~\E o \in ops : o.actor = s /\ o.key = key

Operation(s, key, action, l, revision, amount) ==
  [actor |-> s, key |-> key, action |-> action, loan |-> l,
   revision |-> revision, amount |-> amount]

\* _open_loan_count, after the borrower's open rows were refreshed.
BelowLimit(mine, now) ==
  Cardinality({x \in mine : RefreshedStatus(x, now) \in Open}) < MaxOpenLoans

\* create_loan: only the borrower proposes; an overdue debt of his or too
\* many open loans, counted after a refresh, refuse the proposal.
Create(b, lender, l, key, t, now) ==
  LET mine == {x \in LoansOf(b) : status[x] \in Open}
  IN /\ FreshKey(b, key)
     /\ status[l] = "none"
     /\ t.proposer = b /\ ValidDueDate(t.due, now)
     /\ \A x \in mine : Storable(x, now)
     /\ \A x \in mine : RefreshedStatus(x, now) # "overdue"
     /\ BelowLimit(mine, now)
     /\ status' = [StatusAfter(mine, now) EXCEPT ![l] = "negotiating"]
     /\ awaiting' = [AwaitingAfter(mine, now) EXCEPT ![l] = lender]
     /\ party' = [party EXCEPT ![l] = [borrower |-> b, lender |-> lender]]
     /\ offers' = [offers EXCEPT ![l] = <<t>>]
     /\ expires' = [expires EXCEPT ![l] = now + ProposalLifetime]
     /\ debt' = DebtAfter(mine, now)
     /\ exact' = ExactAfter(mine, now)
     /\ ops' = ops \cup {Operation(b, key, "create", l, 1, 0)}
     /\ Notify(NoticesOpened(mine, now) \cup {Notice(lender, l, "proposal", 1)},
               NoticesClosed(mine, now))
     /\ \E grant \in Grants(EventParties(mine, now)) : Settle(balance, grant)
     /\ UNCHANGED <<clock, external>>

\* Mutant: any revision of an open proposal may be answered.
NegotiableAnyRevision(l, revision, now) ==
  status[l] = "negotiating" /\ ~ProposalExpired(l, now)

\* The row is still an open proposal once refreshed at `now`, and the
\* request names its current revision.
Negotiable(l, revision, now) ==
  /\ status[l] = "negotiating" /\ ~ProposalExpired(l, now)
  /\ revision = Revision(l)

\* counter_loan: the party asked to answer proposes other terms instead.
Counter(l, s, key, revision, t, now) ==
  LET other == Counterparty(l, s)
  IN /\ FreshKey(s, key)
     /\ Negotiable(l, revision, now)
     /\ awaiting[l] = s
     /\ t.proposer = s /\ ValidDueDate(t.due, now)
     /\ [t EXCEPT !.proposer = CurrentTerms(l).proposer] # CurrentTerms(l)
     /\ Revision(l) < MaxRevision
     /\ offers' = [offers EXCEPT ![l] = Append(@, t)]
     /\ awaiting' = [awaiting EXCEPT ![l] = other]
     /\ expires' = [expires EXCEPT ![l] = now + ProposalLifetime]
     /\ ops' = ops \cup {Operation(s, key, "counter", l, Revision(l) + 1, 0)}
     /\ Notify({Notice(other, l, "proposal", Revision(l) + 1)}, {ProposalNotice(l)})
     /\ UNCHANGED <<clock, balance, rewardsLeft, external, status, party, debt, exact>>

\* Mutant: any positive balance is enough.
CoversPositive(lender, principal) == balance[lender] > 0

\* The lender's wallet, read under the writer lock, pays the whole principal.
Covers(lender, principal) == balance[lender] > 0 /\ principal <= balance[lender]

\* The accounting columns accept_loan writes.
OpenedDebt(t, now) ==
  [original |-> t.principal, remaining |-> t.principal, rate |-> t.rate,
   cap |-> t.cap, due |-> t.due, accrued |-> 0, remainder |-> 0, ipaid |-> 0,
   ppaid |-> 0, last |-> now, capReached |-> FALSE]

\* Mutant: the credit is lost.
TransferHalf(from, to, amount) == [balance EXCEPT ![from] = @ - amount]

Transfer(from, to, amount) ==
  [balance EXCEPT ![from] = @ - amount, ![to] = @ + amount]

\* accept_loan: the lender's balance is checked under the writer lock and
\* the principal moves in the same transaction.
Accept(l, s, key, revision, now) ==
  LET t        == offers[l][revision]
      lender   == party[l].lender
      borrower == party[l].borrower
  IN /\ FreshKey(s, key)
     /\ Negotiable(l, revision, now)
     /\ awaiting[l] = s
     /\ ValidDueDate(t.due, now)
     /\ Covers(lender, t.principal)
     /\ balance[borrower] + t.principal <= MaxInteger
     /\ status' = [status EXCEPT ![l] = "active"]
     /\ awaiting' = [awaiting EXCEPT ![l] = Nobody]
     /\ debt' = [debt EXCEPT ![l] = OpenedDebt(t, now)]
     /\ ops' = ops \cup {Operation(s, key, "accept", l, revision, 0)}
     /\ Notify({Notice(Counterparty(l, s), l, "accepted", revision)}, {ProposalNotice(l)})
     /\ \E grant \in Grants(Parties(l)) :
          Settle(Transfer(lender, borrower, t.principal), grant)
     /\ UNCHANGED <<clock, external, party, offers, expires, exact>>

\* close_proposal: the party asked may reject, the initiator may withdraw.
Close(l, s, key, action, revision, now) ==
  /\ FreshKey(s, key)
  /\ Negotiable(l, revision, now)
  /\ \/ action = "reject" /\ awaiting[l] = s
     \/ action = "withdraw" /\ party[l].borrower = s
  /\ status' = [status EXCEPT ![l] = IF action = "reject" THEN "rejected" ELSE "withdrawn"]
  /\ awaiting' = [awaiting EXCEPT ![l] = Nobody]
  /\ ops' = ops \cup {Operation(s, key, action, l, revision, 0)}
  /\ Notify(IF action = "reject"
              THEN {Notice(Counterparty(l, s), l, "rejected", revision)} ELSE {},
            {ProposalNotice(l)})
  /\ UNCHANGED <<clock, balance, rewardsLeft, external, party, offers, expires, debt, exact>>

\* Mutant: the whole payment reduces the principal.
RepaidPrincipal(d, amount) ==
  LET interest == Smaller(amount, d.accrued)
  IN [d EXCEPT !.accrued = @ - interest, !.ipaid = @ + interest,
               !.remaining = @ - amount, !.ppaid = @ + (amount - interest)]

\* A payment settles interest first, then principal.
Repaid(d, amount) ==
  LET interest == Smaller(amount, d.accrued)
  IN [d EXCEPT !.accrued = @ - interest, !.ipaid = @ + interest,
               !.remaining = @ - (amount - interest),
               !.ppaid = @ + (amount - interest)]

FullyRepaid(d) == d.accrued = 0 /\ d.remaining = 0

\* repay_loan: rewards of the refresh are in the wallet before it is checked.
Repay(l, s, key, amount, now) ==
  LET due    == RefreshedDebt(l, now)
      after  == Repaid(due, amount)
      lender == party[l].lender
      early  == EventParties({l}, now)
  IN /\ FreshKey(s, key)
     /\ IsDebt(l) /\ Storable(l, now)
     /\ s = party[l].borrower
     /\ amount <= due.remaining + due.accrued
     /\ after.ipaid <= MaxInteger
     /\ status' = [status EXCEPT ![l] =
                     IF FullyRepaid(after) THEN "repaid" ELSE RefreshedStatus(l, now)]
     /\ debt' = [debt EXCEPT ![l] = after]
     /\ exact' = ExactAfter({l}, now)
     /\ ops' = ops \cup {Operation(s, key, "repay", l, 0, amount)}
     /\ Notify(OpenedNotices(l, now) \cup {Notice(lender, l, "repayment", key)}, {})
     /\ \E grant \in Grants(Parties(l)) :
          /\ balance[s] + (IF s \in early THEN grant[s] ELSE 0) >= amount
          /\ Settle(Transfer(s, lender, amount), grant)
     /\ UNCHANGED <<clock, external, party, offers, awaiting, expires>>

\* A retried request whose key is recorded only refreshes and answers
\* (close_proposal answers without a refresh).
Retry(o, now) ==
  /\ o.action \notin {"reject", "withdraw"}
  /\ RefreshRows({o.loan}, now)

\* get_loan.
GetLoan(l, now) == status[l] # "none" /\ RefreshRows({l}, now)

\* list_loans refreshes every row it returns.
ListLoans(s, now) ==
  RefreshRows({l \in LoanIds : status[l] # "none" /\ s \in Parties(l)}, now)

\* ack_notifications of the loan category: of all loans or of one.
AckNotices(s, loans) ==
  /\ unread' = {n \in unread : n.to # s \/ n.loan \notin loans}
  /\ UNCHANGED <<clock, ledger, external, status, proposal, debt, exact, ops, sent>>

\* Games, check-ins, bankruptcies and exchanges use the same wallets.
ExternalChange(s, delta) ==
  /\ external < MaxExternal
  /\ balance[s] + delta <= MaxInteger
  /\ external' = external + 1
  /\ balance' = [balance EXCEPT ![s] = @ + delta]
  /\ UNCHANGED <<clock, rewardsLeft, status, proposal, debt, exact, ops, notices>>

Tick ==
  /\ clock < MaxTime
  /\ clock' = clock + 1
  /\ UNCHANGED <<ledger, external, status, proposal, debt, exact, ops, notices>>

----------------------------------------------------------------------------
(* The specification.                                                      *)

Init ==
  /\ clock = 0
  /\ balance \in [Subjects -> InitialBalances]
  /\ rewardsLeft = [s \in Subjects |-> MaxReward]
  /\ external = 0
  /\ status = [l \in LoanIds |-> "none"]
  /\ party = [l \in LoanIds |-> [borrower |-> Nobody, lender |-> Nobody]]
  /\ offers = [l \in LoanIds |-> <<>>]
  /\ awaiting = [l \in LoanIds |-> Nobody]
  /\ expires = [l \in LoanIds |-> 0]
  /\ debt = [l \in LoanIds |-> NoDebt]
  /\ exact = [l \in LoanIds |-> 0]
  /\ ops = {} /\ sent = {} /\ unread = {}

\* The borrower's counterpart is of the other kind.
Pairs == (Humans \X Ais) \cup (Ais \X Humans)

Negotiate(l, now) ==
  \E key \in Keys :
    \/ \E pair \in Pairs : \E t \in Terms : Create(pair[1], pair[2], l, key, t, now)
    \/ \E s \in Parties(l) : \E revision \in 1..Revision(l) :
         \/ \E t \in Terms : Counter(l, s, key, revision, t, now)
         \/ Accept(l, s, key, revision, now)
         \/ \E action \in {"reject", "withdraw"} : Close(l, s, key, action, revision, now)

Service(l, now) ==
  \/ \E s \in Parties(l), key \in Keys, amount \in 1..MaxInteger :
       Repay(l, s, key, amount, now)
  \/ GetLoan(l, now)

Next ==
  \/ \E now \in Now, l \in LoanIds : Negotiate(l, now) \/ Service(l, now)
  \/ \E now \in Now, o \in ops : Retry(o, now)
  \/ \E now \in Now, s \in Subjects : ListLoans(s, now)
  \/ \E s \in Subjects, loans \in {LoanIds} \cup {{l} : l \in LoanIds} :
       AckNotices(s, loans)
  \/ \E s \in Subjects, delta \in ExternalDeltas : ExternalChange(s, delta)
  \/ Tick

Spec == Init /\ [][Next]_vars

----------------------------------------------------------------------------
(* Correctness.                                                            *)

Debts == [original : Nat, remaining : Int, rate : Nat, cap : BOOLEAN,
          due : Due, accrued : Int, remainder : Int, ipaid : Int,
          ppaid : Int, last : Times, capReached : BOOLEAN]

Actions == {"create", "counter", "accept", "reject", "withdraw", "repay"}

\* Every column of the schema keeps its type, whatever the requests were.
TypeOK ==
  /\ clock \in Times
  /\ balance \in [Subjects -> Int]
  /\ rewardsLeft \in [Subjects -> 0..MaxReward]
  /\ external \in 0..MaxExternal
  /\ status \in [LoanIds -> Statuses]
  /\ party \in [LoanIds -> [borrower : Subjects \cup {Nobody},
                           lender : Subjects \cup {Nobody}]]
  /\ offers \in [LoanIds -> Seq(Terms)]
  /\ awaiting \in [LoanIds -> Subjects \cup {Nobody}]
  /\ expires \in [LoanIds -> Nat]
  /\ debt \in [LoanIds -> Debts]
  /\ exact \in [LoanIds -> Int]
  /\ \A o \in ops : o.actor \in Subjects /\ o.action \in Actions /\ o.loan \in LoanIds

Lifetime(d) == d.ipaid + d.accrued

\* The accounting columns of a debt agree with each other after any mix of
\* partial accruals and partial repayments: principal is paid or owed, never
\* both, the carry stays below one chip, the cap bounds lifetime interest,
\* and a debt is "repaid" exactly when nothing is owed.
Balanced(l) ==
  LET d == debt[l]
  IN /\ d.remaining >= 0 /\ d.accrued >= 0
     /\ d.remaining + d.ppaid = d.original
     /\ 0 <= d.remainder /\ d.remainder < Denominator
     /\ d.cap => Lifetime(d) <= d.original
     /\ d.capReached => d.cap /\ Lifetime(d) = d.original
     /\ status[l] = "repaid" <=> FullyRepaid(d)

DebtAccounted == \A l \in LoanIds : status[l] \in Activated => Balanced(l)

\* Whatever the moments at which requests happened to refresh the row, and
\* whatever was repaid between, the interest ever charged is the exact
\* interest rounded down ONCE, and at most the principal when capped.
InterestExact ==
  \A l \in LoanIds : status[l] \in Activated =>
    LET whole == exact[l] \div Denominator
    IN Lifetime(debt[l]) =
         IF debt[l].cap THEN Smaller(debt[l].original, whole) ELSE whole

\* A debt exists only on the terms of the latest revision, and one accept
\* operation of the party that did not propose them recorded the consent.
ConsentedTerms ==
  \A l \in LoanIds : status[l] \in Activated =>
    \E o \in ops :
      /\ o.action = "accept" /\ o.loan = l /\ o.revision = Revision(l)
      /\ o.actor \in Parties(l) \ {CurrentTerms(l).proposer}
      /\ LET t == CurrentTerms(l) d == debt[l]
         IN <<t.principal, t.rate, t.cap, t.due>> = <<d.original, d.rate, d.cap, d.due>>
      /\ \A p \in ops : p.action = "accept" /\ p.loan = l => p = o

\* What the repayment operations of a loan add up to is what its columns say
\* was paid: a retried or concurrent request is not booked twice.
RepaymentsRecorded ==
  \A l \in LoanIds :
    MapThenSumSet(LAMBDA o : o.amount, {o \in ops : o.loan = l /\ o.action = "repay"})
      = debt[l].ipaid + debt[l].ppaid

\* A proposal awaits exactly the party that did not propose its last terms, and
\* an unread invitation to answer names an open proposal, its current revision
\* and that party.
NoticeMatchesTurn ==
  /\ \A l \in LoanIds :
       awaiting[l] = IF status[l] = "negotiating"
                       THEN Counterparty(l, CurrentTerms(l).proposer) ELSE Nobody
  /\ \A n \in unread : n.event = "proposal" =>
       /\ status[n.loan] = "negotiating"
       /\ n = ProposalNotice(n.loan)

TotalChips == MapThenSumSet(LAMBDA s : balance[s] + rewardsLeft[s], Subjects)

\* Loans move chips between the two wallets and pay rewards; no sequence of
\* operations creates or destroys a chip.
ChipsConserved == [][external' = external => TotalChips' = TotalChips]_vars

\* No loan operation leaves a wallet it took chips from below zero, though
\* wallets may be negative otherwise.
PayerCovers ==
  [][external' = external =>
       \A s \in Subjects : balance'[s] < balance[s] => balance'[s] >= 0]_vars

\* README.md:751 says that being overdue blocks new borrowing.
OverdueBlocksNewBorrowing ==
  [][\A l \in LoanIds :
       status[l] = "negotiating" /\ status'[l] = "active" =>
         ~\E x \in LoansOf(party[l].borrower) : status[x] = "overdue"]_vars

============================================================================
