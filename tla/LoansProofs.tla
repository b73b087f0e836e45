---------------------------- MODULE LoansProofs ----------------------------
(***************************************************************************)
(* The loan ledger for any number of loans, parties and keys: the columns  *)
(* of a debt, the negotiation that leads to it, and the sums of the books.  *)
(***************************************************************************)
EXTENDS Loans, SumLemmas, TLAPS

Good(d, x) ==
  /\ d.original > 0 /\ d.remaining >= 0 /\ d.accrued >= 0
  /\ d.ipaid >= 0 /\ d.ppaid >= 0
  /\ d.remaining + d.ppaid = d.original
  /\ 0 <= d.remainder /\ d.remainder < Denominator
  /\ d.capReached => /\ d.cap /\ Lifetime(d) = d.original
                     /\ x >= d.original * Denominator
  /\ d.cap /\ ~d.capReached => Lifetime(d) < d.original
  /\ ~d.capReached => x = Lifetime(d) * Denominator + d.remainder

LEMMA DivMod ==
  ASSUME NEW n \in Nat, NEW k \in Nat, k > 0
  PROVE  /\ n \div k \in Nat /\ n % k \in Nat
         /\ n = (k * (n \div k)) + (n % k)
         /\ n % k < k
BY SMT

LEMMA NatTimes == \A m \in Nat, n \in Nat : m * n \in Nat
BY SMT

LEMMA AccrualNat ==
  ASSUME NEW d \in Debts, d.remaining >= 0, NEW now \in Times
  PROVE  Accrual(d, now) \in Nat /\ Elapsed(d, now) \in Nat
<1>1. d.remaining \in Nat /\ d.rate \in Nat
  BY DEF Debts
<1>2. Elapsed(d, now) \in Nat
  BY LoanAssumption DEF Elapsed, Larger, Debts, Times
<1>3. d.remaining * d.rate \in Nat
  BY <1>1, NatTimes
<1>4. QED
  BY <1>2, <1>3, NatTimes DEF Accrual

\* The two UPDATEs of the accrual columns, and what they leave in the row.
Charged(d, u, v, w) == [d EXCEPT !.accrued = @ + u, !.remainder = v, !.last = w]
Capped(d, u, w) == [d EXCEPT !.accrued = @ + u, !.remainder = 0, !.last = w,
                             !.capReached = TRUE]

LEMMA SetCharged ==
  ASSUME NEW d \in Debts, NEW u \in Int, NEW v \in Int, NEW w \in Times
  PROVE  LET e == Charged(d, u, v, w)
         IN /\ e \in Debts /\ e.original = d.original /\ e.remaining = d.remaining
            /\ e.cap = d.cap /\ e.ipaid = d.ipaid /\ e.ppaid = d.ppaid
            /\ e.accrued = d.accrued + u /\ e.remainder = v
            /\ e.capReached = d.capReached
<1> DEFINE d1 == [d EXCEPT !.accrued = d.accrued + u]
<1> DEFINE d2 == [d1 EXCEPT !.remainder = v]
<1>1. d1 \in Debts
  BY DEF Debts
<1>2. d2 \in Debts
  BY <1>1 DEF Debts
<1>3. [d2 EXCEPT !.last = w] \in Debts
  <2> HIDE DEF d2
  <2>. QED
    BY <1>2 DEF Debts
<1>. QED
  BY <1>3 DEF Debts, Charged

LEMMA SetCapped ==
  ASSUME NEW d \in Debts, NEW u \in Int, NEW w \in Times
  PROVE  LET e == Capped(d, u, w)
         IN /\ e \in Debts /\ e.original = d.original /\ e.remaining = d.remaining
            /\ e.cap = d.cap /\ e.ipaid = d.ipaid /\ e.ppaid = d.ppaid
            /\ e.accrued = d.accrued + u /\ e.remainder = 0 /\ e.capReached
<1> DEFINE c == Charged(d, u, 0, w)
<1>1. Capped(d, u, w) = [c EXCEPT !.capReached = TRUE]
  BY DEF Charged, Capped
<1>2. /\ c \in Debts /\ c.original = d.original /\ c.remaining = d.remaining
      /\ c.cap = d.cap /\ c.ipaid = d.ipaid /\ c.ppaid = d.ppaid
      /\ c.accrued = d.accrued + u /\ c.remainder = 0
  BY SetCharged
<1> HIDE DEF c
<1>. QED
  BY <1>1, <1>2 DEF Debts

LEMMA AccrueGood ==
  ASSUME NEW d \in Debts, NEW x \in Int, Good(d, x), NEW now \in Times
  PROVE  /\ AccrueInterest(d, now) \in Debts
         /\ Good(AccrueInterest(d, now), x + Accrual(d, now))
         /\ FullyRepaid(AccrueInterest(d, now)) => FullyRepaid(d)
<1> DEFINE n == Accrual(d, now) + d.remainder
<1> DEFINE c == n \div Denominator
<1> DEFINE r == n % Denominator
<1> DEFINE e == AccrueInterest(d, now)
<1>1. Accrual(d, now) \in Nat /\ Elapsed(d, now) \in Nat
  BY AccrualNat DEF Good
<1>2. n \in Nat /\ n >= d.remainder
  BY <1>1 DEF Good, Debts
<1>3. c \in Nat /\ r \in Nat /\ r < Denominator /\ n = Denominator * c + r
  BY <1>2, DivMod, LoanAssumption
<1> HIDE DEF n, c, r, e
<1>4. CASE Elapsed(d, now) = 0
  <2>1. Accrual(d, now) = 0
    BY <1>4, <1>1, NatTimes DEF Accrual, Debts, Good
  <2>2. e = d
    BY <1>4 DEF AccrueInterest, e
  <2>3. x + Accrual(d, now) = x
    BY <2>1
  <2>. QED
    BY <2>2, <2>3 DEF e
<1>5. CASE Elapsed(d, now) # 0 /\ CapHit(d, c)
  <2>1. e = Capped(d, CapRoom(d), now)
    BY <1>5 DEF Capped, AccrueInterest, n, c, e
  <2>2. CapRoom(d) \in Nat /\ CapRoom(d) = d.original - Lifetime(d) /\ c >= CapRoom(d)
    BY <1>5 DEF CapRoom, Larger, Good, Debts, Lifetime, CapHit
  <2>3. /\ e \in Debts /\ e.original = d.original /\ e.remaining = d.remaining
        /\ e.cap = d.cap /\ e.ipaid = d.ipaid /\ e.ppaid = d.ppaid
        /\ e.accrued = d.accrued + CapRoom(d) /\ e.remainder = 0 /\ e.capReached
    BY <2>1, <2>2, SetCapped
  <2>4. Lifetime(e) = d.original /\ d.cap /\ Lifetime(d) \in Int
    BY <1>5, <2>2, <2>3 DEF Lifetime, CapHit, Debts
  <2>5. x + Accrual(d, now) >= d.original * Denominator
    <3>1. CASE d.capReached
      BY <3>1, <1>1, NatTimes, LoanAssumption DEF Good, Debts
    <3>2. CASE ~d.capReached
      <4>1. x + Accrual(d, now) = Lifetime(d) * Denominator + Denominator * c + r
        BY <3>2, <1>1, <1>3, <2>4, LoanAssumption DEF Good, Debts, n
      <4>2. (Lifetime(d) + c) * Denominator >= d.original * Denominator
        BY <2>2, <2>4, <1>3, LoanAssumption DEF Debts
      <4>. QED
        BY <4>1, <4>2, <1>3, <2>4, LoanAssumption DEF Debts
    <3>. QED
      BY <3>1, <3>2
  <2>6. Good(e, x + Accrual(d, now))
    BY <2>2, <2>3, <2>4, <2>5, LoanAssumption DEF Good, Debts
  <2>7. FullyRepaid(e) => FullyRepaid(d)
    BY <2>2, <2>3 DEF FullyRepaid, Good, Debts
  <2>. QED
    BY <2>3, <2>6, <2>7 DEF e
<1>6. CASE Elapsed(d, now) # 0 /\ ~CapHit(d, c)
  <2>1. e = Charged(d, c, r, now)
    BY <1>6 DEF Charged, AccrueInterest, n, c, r, e
  <2>2. /\ e \in Debts /\ e.original = d.original /\ e.remaining = d.remaining
        /\ e.cap = d.cap /\ e.ipaid = d.ipaid /\ e.ppaid = d.ppaid
        /\ e.accrued = d.accrued + c /\ e.remainder = r
        /\ e.capReached = d.capReached
    BY <2>1, <1>3, SetCharged
  <2>3. d.cap => (~d.capReached /\ c < d.original - Lifetime(d)) \/ c = 0
    BY <1>6, <1>3 DEF CapHit, CapRoom, Larger, Good, Debts, Lifetime
  <2>4. Lifetime(e) = Lifetime(d) + c /\ Lifetime(d) \in Int
    BY <2>2, <1>3 DEF Lifetime, Debts
  <2>5. d.capReached => x + Accrual(d, now) >= d.original * Denominator
    BY <1>1, NatTimes, LoanAssumption DEF Good, Debts
  <2>6. ~d.capReached =>
          x + Accrual(d, now) = (Lifetime(d) + c) * Denominator + r
    BY <1>1, <1>3, <2>4, LoanAssumption DEF Good, Debts, n
  <2>7. Good(e, x + Accrual(d, now))
    BY <2>2, <2>3, <2>4, <2>5, <2>6, <1>3, LoanAssumption DEF Good, Debts
  <2>8. FullyRepaid(e) => FullyRepaid(d)
    BY <2>2, <1>3 DEF FullyRepaid, Good, Debts
  <2>. QED
    BY <2>2, <2>7, <2>8 DEF e
<1>. QED
  BY <1>4, <1>5, <1>6

LEMMA OpenedGood ==
  ASSUME NEW t \in Terms, NEW now \in Times
  PROVE  OpenedDebt(t, now) \in Debts /\ Good(OpenedDebt(t, now), 0)
<1>1. t.principal \in Nat /\ t.principal > 0 /\ t.rate \in Nat
      /\ t.cap \in BOOLEAN /\ t.due \in Due
  <2>1. t.principal \in Principals /\ t.rate \in Rates /\ t.cap \in BOOLEAN /\ t.due \in Due
    BY DEF Terms
  <2>2. \A p \in Principals : p \in Nat /\ p > 0
    BY LoanAssumption
  <2>3. \A p \in Rates : p \in Nat
    BY LoanAssumption
  <2>. QED
    BY <2>1, <2>2, <2>3
<1>2. OpenedDebt(t, now) \in Debts
  BY <1>1 DEF OpenedDebt, Debts
<1>3. Good(OpenedDebt(t, now), 0)
  BY <1>1, LoanAssumption DEF OpenedDebt, Good, Lifetime
<1>. QED
  BY <1>2, <1>3

LEMMA RepaidGood ==
  ASSUME NEW d \in Debts, NEW x \in Int, Good(d, x), NEW amount \in Nat,
         amount <= d.remaining + d.accrued
  PROVE  Repaid(d, amount) \in Debts /\ Good(Repaid(d, amount), x)
<1> DEFINE i == Smaller(amount, d.accrued)
<1> DEFINE e == Repaid(d, amount)
<1>1. i \in Nat /\ i <= amount /\ i <= d.accrued /\ amount - i <= d.remaining
  BY DEF Smaller, Good, Debts
<1> HIDE DEF i
<1> DEFINE d1 == [d EXCEPT !.accrued = d.accrued - i]
<1> DEFINE d2 == [d1 EXCEPT !.ipaid = d.ipaid + i]
<1> DEFINE d3 == [d2 EXCEPT !.remaining = d.remaining - (amount - i)]
<1> DEFINE d4 == [d3 EXCEPT !.ppaid = d.ppaid + (amount - i)]
<1>2. d1 \in Debts
  BY <1>1 DEF Debts
<1>3. d2 \in Debts
  <2>1. d.ipaid + i \in Int
    BY <1>1 DEF Debts
  <2> HIDE DEF d1
  <2>. QED
    BY <1>2, <2>1 DEF Debts
<1>4. d3 \in Debts
  <2>1. d.remaining - (amount - i) \in Int
    BY <1>1 DEF Debts
  <2> HIDE DEF d2
  <2>. QED
    BY <1>3, <2>1 DEF Debts
<1>5. d4 \in Debts
  <2>1. d.ppaid + (amount - i) \in Int
    BY <1>1 DEF Debts
  <2> HIDE DEF d3
  <2>. QED
    BY <1>4, <2>1 DEF Debts
<1>6. e = d4
  BY DEF Repaid, i
<1>7. /\ e.original = d.original /\ e.remaining = d.remaining - (amount - i)
      /\ e.cap = d.cap /\ e.ipaid = d.ipaid + i /\ e.ppaid = d.ppaid + (amount - i)
      /\ e.accrued = d.accrued - i /\ e.remainder = d.remainder
      /\ e.capReached = d.capReached
  BY <1>6 DEF Debts
<1> HIDE DEF e, d1, d2, d3, d4
<1>8. Lifetime(e) = Lifetime(d)
  BY <1>1, <1>7 DEF Lifetime, Debts
<1>9. Good(e, x)
  BY <1>1, <1>7, <1>8 DEF Good, Debts
<1>. QED
  BY <1>5, <1>6, <1>9 DEF e

\* A row whose status is st, accounting d and exact interest x.
RowOK(st, d, x) ==
  /\ st \notin Activated => d = NoDebt /\ x = 0
  /\ st \in Activated => Good(d, x) /\ (st = "repaid" <=> FullyRepaid(d))

RowsOK == \A l \in LoanIds : RowOK(status[l], debt[l], exact[l])

PartiesKnown ==
  \A l \in LoanIds : status[l] # "none" =>
    party[l].borrower \in Subjects /\ party[l].lender \in Subjects

\* The inductive invariant.
IInv == TypeOK /\ RowsOK /\ PartiesKnown

LEMMA RefreshedRow ==
  ASSUME IInv, NEW l \in LoanIds, NEW now \in Times
  PROVE  /\ RefreshedStatus(l, now) \in Statuses
         /\ RefreshedAwaiting(l, now) \in Subjects \cup {Nobody}
         /\ RefreshedDebt(l, now) \in Debts
         /\ RefreshedExact(l, now) \in Int
         /\ RowOK(RefreshedStatus(l, now), RefreshedDebt(l, now), RefreshedExact(l, now))
<1>1. /\ status[l] \in Statuses /\ awaiting[l] \in Subjects \cup {Nobody}
      /\ debt[l] \in Debts /\ exact[l] \in Int
      /\ RowOK(status[l], debt[l], exact[l])
  BY DEF IInv, TypeOK, RowsOK
<1>2. /\ RefreshedStatus(l, now) \in Statuses
      /\ RefreshedAwaiting(l, now) \in Subjects \cup {Nobody}
  BY <1>1 DEF RefreshedStatus, RefreshedAwaiting, Statuses, Open, Closed
<1>3. CASE IsDebt(l)
  <2>1. Good(debt[l], exact[l]) /\ ~FullyRepaid(debt[l])
    BY <1>1, <1>3 DEF RowOK, IsDebt, Activated
  <2>2. /\ RefreshedDebt(l, now) = AccrueInterest(debt[l], now)
        /\ RefreshedExact(l, now) = exact[l] + Accrual(debt[l], now)
    BY <1>3 DEF RefreshedDebt, RefreshedExact
  <2>3. /\ AccrueInterest(debt[l], now) \in Debts
        /\ Good(AccrueInterest(debt[l], now), exact[l] + Accrual(debt[l], now))
        /\ ~FullyRepaid(AccrueInterest(debt[l], now))
    BY <1>1, <2>1, AccrueGood
  <2>4. Accrual(debt[l], now) \in Nat
    BY <1>1, <2>1, AccrualNat DEF Good
  <2>5. RefreshedStatus(l, now) \in {"active", "overdue"}
    BY <1>3 DEF RefreshedStatus, IsDebt, ProposalExpired
  <2>. QED
    BY <1>1, <1>2, <2>2, <2>3, <2>4, <2>5 DEF RowOK, Activated
<1>4. CASE ~IsDebt(l)
  <2>1. RefreshedDebt(l, now) = debt[l] /\ RefreshedExact(l, now) = exact[l]
    BY <1>4 DEF RefreshedDebt, RefreshedExact
  <2>2. \/ RefreshedStatus(l, now) = status[l]
        \/ status[l] = "negotiating" /\ RefreshedStatus(l, now) = "expired"
    BY <1>4 DEF RefreshedStatus, IsDebt, ProposalExpired, BecomesOverdue
  <2>. QED
    BY <1>1, <1>2, <2>1, <2>2 DEF RowOK, Activated
<1>. QED
  BY <1>3, <1>4

\* The columns after a transaction refreshed the rows of S.
LEMMA RefreshedColumns ==
  ASSUME IInv, NEW S \in SUBSET LoanIds, NEW now \in Times
  PROVE  /\ StatusAfter(S, now) \in [LoanIds -> Statuses]
         /\ AwaitingAfter(S, now) \in [LoanIds -> Subjects \cup {Nobody}]
         /\ DebtAfter(S, now) \in [LoanIds -> Debts]
         /\ ExactAfter(S, now) \in [LoanIds -> Int]
         /\ \A l \in LoanIds : RowOK(StatusAfter(S, now)[l], DebtAfter(S, now)[l],
                                     ExactAfter(S, now)[l])
<1>1. \A l \in LoanIds :
        /\ status[l] \in Statuses /\ awaiting[l] \in Subjects \cup {Nobody}
        /\ debt[l] \in Debts /\ exact[l] \in Int
        /\ RowOK(status[l], debt[l], exact[l])
  BY DEF IInv, TypeOK, RowsOK
<1>2. \A l \in LoanIds :
        /\ RefreshedStatus(l, now) \in Statuses
        /\ RefreshedAwaiting(l, now) \in Subjects \cup {Nobody}
        /\ RefreshedDebt(l, now) \in Debts
        /\ RefreshedExact(l, now) \in Int
        /\ RowOK(RefreshedStatus(l, now), RefreshedDebt(l, now), RefreshedExact(l, now))
  BY RefreshedRow
<1>. QED
  BY <1>1, <1>2 DEF StatusAfter, AwaitingAfter, DebtAfter, ExactAfter

\* The wallets after a transaction that paid rewards.
LEMMA SettledWallets ==
  ASSUME TypeOK, NEW paid \in [Subjects -> Int], NEW who,
         NEW grant \in Grants(who), Settle(paid, grant)
  PROVE  /\ balance' \in [Subjects -> Int]
         /\ rewardsLeft' \in [Subjects -> 0..MaxReward]
<1>1. \A s \in Subjects : grant[s] \in 0..MaxReward /\ grant[s] <= rewardsLeft[s]
  <2> TAKE s \in Subjects
  <2>1. grant \in [Subjects -> 0..MaxReward]
    BY DEF Grants
  <2>2. grant[s] <= IF s \in who THEN rewardsLeft[s] ELSE 0
    BY DEF Grants
  <2>3. rewardsLeft[s] \in 0..MaxReward
    BY DEF TypeOK
  <2>. QED
    BY <2>1, <2>2, <2>3, LoanAssumption
<1>2. \A s \in Subjects : /\ paid[s] + grant[s] \in Int
                          /\ rewardsLeft[s] - grant[s] \in 0..MaxReward
  BY <1>1, LoanAssumption DEF TypeOK
<1>. QED
  BY <1>2 DEF Settle

LEMMA InitHolds == Init => IInv
<1> SUFFICES ASSUME Init PROVE IInv
  OBVIOUS
<1>1. 0 \in Times /\ 0 \in Due
  BY LoanAssumption DEF Times, Due
<1>2. NoDebt \in Debts
  BY <1>1 DEF NoDebt, Debts
<1>3. TypeOK
  <2>1. balance \in [Subjects -> Int] /\ rewardsLeft \in [Subjects -> 0..MaxReward]
    <3>1. \A b \in InitialBalances : b \in Int
      BY LoanAssumption
    <3>2. MaxReward \in 0..MaxReward
      BY LoanAssumption
    <3>. QED
      BY <3>1, <3>2 DEF Init
  <2>2. clock \in Times /\ external \in 0..MaxExternal
    BY <1>1, LoanAssumption DEF Init
  <2>. QED
    BY <1>2, <2>1, <2>2 DEF Init, TypeOK, Statuses
<1>4. RowsOK
  BY DEF Init, RowsOK, RowOK, Activated
<1>. QED
  BY <1>3, <1>4 DEF IInv, Init, PartiesKnown

LEMMA RefreshKeeps ==
  ASSUME IInv, NEW S \in SUBSET LoanIds, NEW now \in Times, RefreshRows(S, now)
  PROVE  IInv'
<1>1. /\ status' \in [LoanIds -> Statuses]
      /\ awaiting' \in [LoanIds -> Subjects \cup {Nobody}]
      /\ debt' \in [LoanIds -> Debts] /\ exact' \in [LoanIds -> Int]
      /\ RowsOK'
  BY RefreshedColumns DEF RefreshRows, RowsOK
<1>2. balance' \in [Subjects -> Int] /\ rewardsLeft' \in [Subjects -> 0..MaxReward]
  BY SettledWallets DEF RefreshRows, IInv, TypeOK
<1>3. TypeOK'
  BY <1>1, <1>2 DEF RefreshRows, IInv, TypeOK
<1>4. PartiesKnown'
  BY DEF RefreshRows, IInv, TypeOK, PartiesKnown, StatusAfter, RefreshedStatus,
         ProposalExpired, BecomesOverdue
<1>. QED
  BY <1>1, <1>3, <1>4 DEF IInv

LEMMA CreateKeeps ==
  ASSUME IInv, NEW now \in Times, NEW l \in LoanIds, NEW key,
         NEW b \in Subjects, NEW lender \in Subjects, NEW t \in Terms,
         Create(b, lender, l, key, t, now)
  PROVE  IInv'
<1> DEFINE mine == {x \in LoansOf(b) : status[x] \in Open}
<1>1. mine \in SUBSET LoanIds
  BY DEF LoansOf
<1>2. /\ StatusAfter(mine, now) \in [LoanIds -> Statuses]
      /\ AwaitingAfter(mine, now) \in [LoanIds -> Subjects \cup {Nobody}]
      /\ DebtAfter(mine, now) \in [LoanIds -> Debts]
      /\ ExactAfter(mine, now) \in [LoanIds -> Int]
      /\ \A x \in LoanIds : RowOK(StatusAfter(mine, now)[x], DebtAfter(mine, now)[x],
                                  ExactAfter(mine, now)[x])
  BY <1>1, RefreshedColumns
<1>3. /\ status' = [StatusAfter(mine, now) EXCEPT ![l] = "negotiating"]
      /\ awaiting' = [AwaitingAfter(mine, now) EXCEPT ![l] = lender]
      /\ debt' = DebtAfter(mine, now) /\ exact' = ExactAfter(mine, now)
      /\ party' = [party EXCEPT ![l] = [borrower |-> b, lender |-> lender]]
      /\ offers' = [offers EXCEPT ![l] = <<t>>]
      /\ expires' = [expires EXCEPT ![l] = now + ProposalLifetime]
      /\ ops' = ops \cup {Operation(b, key, "create", l, 1, 0)}
      /\ clock' = clock /\ external' = external
      /\ status[l] = "none"
  BY DEF Create
<1>4. balance' \in [Subjects -> Int] /\ rewardsLeft' \in [Subjects -> 0..MaxReward]
  <2>1. PICK grant \in Grants(EventParties(mine, now)) : Settle(balance, grant)
    BY DEF Create
  <2>. QED
    BY <2>1, SettledWallets DEF IInv, TypeOK
<1>5. StatusAfter(mine, now)[l] = "none"
  BY <1>1, <1>3 DEF StatusAfter, Open
<1> HIDE DEF mine
<1>6. RowsOK'
  BY <1>2, <1>3, <1>5 DEF RowsOK, RowOK, Activated
<1>7. TypeOK'
  <2>1. status' \in [LoanIds -> Statuses]
    BY <1>2, <1>3 DEF Statuses, Open
  <2>2. awaiting' \in [LoanIds -> Subjects \cup {Nobody}]
    BY <1>2, <1>3
  <2>3. expires' \in [LoanIds -> Nat]
    BY <1>3, LoanAssumption DEF IInv, TypeOK, Times
  <2>4. offers' \in [LoanIds -> Seq(Terms)]
    BY <1>3 DEF IInv, TypeOK
  <2>5. \A o \in ops' : o.actor \in Subjects /\ o.action \in Actions /\ o.loan \in LoanIds
    BY <1>3 DEF IInv, TypeOK, Operation, Actions
  <2>6. party' \in [LoanIds -> [borrower : Subjects \cup {Nobody},
                               lender : Subjects \cup {Nobody}]]
    BY <1>3 DEF IInv, TypeOK
  <2>. QED
    BY <1>2, <1>3, <1>4, <2>1, <2>2, <2>3, <2>4, <2>5, <2>6 DEF IInv, TypeOK
<1>8. PartiesKnown'
  <2>1. \A x \in LoanIds : StatusAfter(mine, now)[x] = "none" <=> status[x] = "none"
    BY DEF StatusAfter, RefreshedStatus, ProposalExpired, BecomesOverdue
  <2>2. \A x \in LoanIds \ {l} : status'[x] = StatusAfter(mine, now)[x] /\ party'[x] = party[x]
    BY <1>2, <1>3 DEF IInv, TypeOK
  <2>3. party'[l] = [borrower |-> b, lender |-> lender]
    BY <1>3 DEF IInv, TypeOK
  <2>. QED
    BY <2>1, <2>2, <2>3 DEF IInv, PartiesKnown
<1>. QED
  BY <1>6, <1>7, <1>8 DEF IInv

LEMMA CounterKeeps ==
  ASSUME IInv, NEW now \in Times, NEW l \in LoanIds, NEW key, NEW s \in Parties(l),
         NEW revision, NEW t \in Terms, Counter(l, s, key, revision, t, now)
  PROVE  IInv'
<1>1. status[l] = "negotiating"
  BY DEF Counter, Negotiable
<1>2. s \in Subjects /\ Counterparty(l, s) \in Subjects
  BY <1>1 DEF Parties, Counterparty, IInv, PartiesKnown
<1>3. TypeOK'
  <2>1. offers' \in [LoanIds -> Seq(Terms)]
    BY DEF Counter, IInv, TypeOK
  <2>0. now + ProposalLifetime \in Nat
    BY LoanAssumption DEF Times
  <2>2. expires' \in [LoanIds -> Nat]
    <3>1. expires \in [LoanIds -> Nat]
      BY DEF IInv, TypeOK
    <3>2. expires' = [expires EXCEPT ![l] = now + ProposalLifetime]
      BY DEF Counter
    <3>. QED
      BY <2>0, <3>1, <3>2
  <2>3. \A o \in ops' : o.actor \in Subjects /\ o.action \in Actions /\ o.loan \in LoanIds
    BY <1>2 DEF Counter, IInv, TypeOK, Operation, Actions
  <2>4. awaiting' \in [LoanIds -> Subjects \cup {Nobody}]
    BY <1>2 DEF Counter, IInv, TypeOK
  <2>. QED
    BY <2>1, <2>2, <2>3, <2>4 DEF Counter, IInv, TypeOK
<1>. QED
  BY <1>3 DEF IInv, Counter, RowsOK, PartiesKnown

LEMMA TransferTyped ==
  ASSUME TypeOK, NEW from \in Subjects, NEW to \in Subjects, NEW n \in Int
  PROVE  Transfer(from, to, n) \in [Subjects -> Int]
BY DEF TypeOK, Transfer

LEMMA AcceptKeeps ==
  ASSUME IInv, NEW now \in Times, NEW l \in LoanIds, NEW key, NEW s \in Parties(l),
         NEW revision \in 1..Revision(l), Accept(l, s, key, revision, now)
  PROVE  IInv'
<1> DEFINE t == offers[l][revision]
<1>1. status[l] = "negotiating"
  BY DEF Accept, Negotiable
<1>2. /\ s \in Subjects
      /\ party[l].borrower \in Subjects /\ party[l].lender \in Subjects
  BY <1>1 DEF Parties, IInv, PartiesKnown
<1>3. t \in Terms /\ t.principal \in Int
  <2>1. offers[l] \in Seq(Terms)
    BY DEF IInv, TypeOK
  <2>2. t \in Terms
    BY <2>1 DEF Revision
  <2>3. \A p \in Principals : p \in Int
    BY LoanAssumption
  <2>. QED
    BY <2>2, <2>3 DEF Terms
<1>4. OpenedDebt(t, now) \in Debts /\ Good(OpenedDebt(t, now), 0)
  BY <1>3, OpenedGood
<1>5. ~FullyRepaid(OpenedDebt(t, now))
  <2>1. OpenedDebt(t, now).remaining = OpenedDebt(t, now).original
    BY DEF OpenedDebt
  <2>. QED
    BY <1>4, <2>1 DEF FullyRepaid, Good
<1>6. /\ status' = [status EXCEPT ![l] = "active"]
      /\ awaiting' = [awaiting EXCEPT ![l] = Nobody]
      /\ debt' = [debt EXCEPT ![l] = OpenedDebt(t, now)]
      /\ ops' = ops \cup {Operation(s, key, "accept", l, revision, 0)}
      /\ UNCHANGED <<clock, external, party, offers, expires, exact>>
      /\ \E grant \in Grants(Parties(l)) :
           Settle(Transfer(party[l].lender, party[l].borrower, t.principal), grant)
  BY DEF Accept
<1>7. balance' \in [Subjects -> Int] /\ rewardsLeft' \in [Subjects -> 0..MaxReward]
  <2>1. Transfer(party[l].lender, party[l].borrower, t.principal) \in [Subjects -> Int]
    BY <1>2, <1>3, TransferTyped DEF IInv
  <2>. QED
    BY <1>6, <2>1, SettledWallets DEF IInv
<1> HIDE DEF t
<1>8. TypeOK'
  <2>1. \A o \in ops' : o.actor \in Subjects /\ o.action \in Actions /\ o.loan \in LoanIds
    BY <1>2, <1>6 DEF IInv, TypeOK, Operation, Actions
  <2>. QED
    BY <1>4, <1>6, <1>7, <2>1 DEF IInv, TypeOK, Statuses, Open
<1>9. RowsOK'
  BY <1>1, <1>4, <1>5, <1>6 DEF IInv, TypeOK, RowsOK, RowOK, Activated
<1>10. PartiesKnown'
  BY <1>1, <1>6 DEF IInv, TypeOK, PartiesKnown
<1>. QED
  BY <1>8, <1>9, <1>10 DEF IInv

LEMMA CloseKeeps ==
  ASSUME IInv, NEW now \in Times, NEW l \in LoanIds, NEW key, NEW s \in Parties(l),
         NEW action \in {"reject", "withdraw"}, NEW revision,
         Close(l, s, key, action, revision, now)
  PROVE  IInv'
<1>1. status[l] = "negotiating"
  BY DEF Close, Negotiable
<1>2. s \in Subjects
  BY <1>1 DEF Parties, IInv, PartiesKnown
<1>3. TypeOK'
  <2>1. \A o \in ops' : o.actor \in Subjects /\ o.action \in Actions /\ o.loan \in LoanIds
    BY <1>2 DEF Close, IInv, TypeOK, Operation, Actions
  <2>. QED
    BY <2>1 DEF Close, IInv, TypeOK, Statuses, Closed
<1>4. RowsOK'
  BY <1>1 DEF Close, IInv, TypeOK, RowsOK, RowOK, Activated
<1>5. PartiesKnown'
  BY <1>1 DEF Close, IInv, TypeOK, PartiesKnown
<1>. QED
  BY <1>3, <1>4, <1>5 DEF IInv

LEMMA RepayKeeps ==
  ASSUME IInv, NEW now \in Times, NEW l \in LoanIds, NEW key, NEW s \in Parties(l),
         NEW amount \in 1..MaxInteger, Repay(l, s, key, amount, now)
  PROVE  IInv'
<1> DEFINE due == RefreshedDebt(l, now)
<1> DEFINE after == Repaid(due, amount)
<1>1. /\ IsDebt(l) /\ s = party[l].borrower
      /\ amount <= due.remaining + due.accrued
      /\ status' = [status EXCEPT ![l] =
                      IF FullyRepaid(after) THEN "repaid" ELSE RefreshedStatus(l, now)]
      /\ debt' = [debt EXCEPT ![l] = after]
      /\ exact' = ExactAfter({l}, now)
      /\ ops' = ops \cup {Operation(s, key, "repay", l, 0, amount)}
      /\ UNCHANGED <<clock, external, party, offers, awaiting, expires>>
      /\ \E grant \in Grants(Parties(l)) : Settle(Transfer(s, party[l].lender, amount), grant)
  BY DEF Repay
<1>2. amount \in Nat
  BY LoanAssumption
<1>3. s \in Subjects /\ party[l].lender \in Subjects
  BY <1>1 DEF IsDebt, IInv, PartiesKnown
<1>4. /\ due \in Debts /\ RefreshedExact(l, now) \in Int
      /\ RefreshedStatus(l, now) \in {"active", "overdue"}
      /\ Good(due, RefreshedExact(l, now))
  <2>1. RefreshedStatus(l, now) \in {"active", "overdue"}
    BY <1>1 DEF RefreshedStatus, IsDebt, ProposalExpired
  <2>. QED
    BY <2>1, RefreshedRow DEF RowOK, Activated
<1>5. after \in Debts /\ Good(after, RefreshedExact(l, now))
  BY <1>1, <1>2, <1>4, RepaidGood
<1> HIDE DEF after, due
<1>6. exact' = [exact EXCEPT ![l] = RefreshedExact(l, now)]
  BY <1>1 DEF ExactAfter, IInv, TypeOK
<1>7. balance' \in [Subjects -> Int] /\ rewardsLeft' \in [Subjects -> 0..MaxReward]
  <2>1. amount \in Int /\ TypeOK
    BY <1>2 DEF IInv
  <2>2. Transfer(s, party[l].lender, amount) \in [Subjects -> Int]
    BY <1>3, <2>1, TransferTyped
  <2>. QED
    BY <1>1, <2>1, <2>2, SettledWallets
<1>8. TypeOK'
  <2>1. \A o \in ops' : o.actor \in Subjects /\ o.action \in Actions /\ o.loan \in LoanIds
    BY <1>1, <1>3 DEF IInv, TypeOK, Operation, Actions
  <2>2. status' \in [LoanIds -> Statuses]
    BY <1>1, <1>4 DEF IInv, TypeOK, Statuses, Closed, Open
  <2>3. debt' \in [LoanIds -> Debts] /\ exact' \in [LoanIds -> Int]
    BY <1>1, <1>4, <1>5, <1>6 DEF IInv, TypeOK
  <2>. QED
    BY <1>1, <1>7, <2>1, <2>2, <2>3 DEF IInv, TypeOK
<1>9. RowsOK'
  <2> SUFFICES ASSUME NEW x \in LoanIds PROVE RowOK(status[x], debt[x], exact[x])'
    BY DEF RowsOK
  <2>1. CASE x = l
    <3>1. /\ status'[l] = IF FullyRepaid(after) THEN "repaid" ELSE RefreshedStatus(l, now)
          /\ debt'[l] = after /\ exact'[l] = RefreshedExact(l, now)
      BY <1>1, <1>6 DEF IInv, TypeOK
    <3>. QED
      BY <1>4, <1>5, <2>1, <3>1 DEF RowOK, Activated
  <2>2. CASE x # l
    <3>1. status'[x] = status[x] /\ debt'[x] = debt[x] /\ exact'[x] = exact[x]
      BY <1>1, <1>6, <2>2 DEF IInv, TypeOK
    <3>. QED
      BY <3>1 DEF RowOK, IInv, RowsOK
  <2>. QED
    BY <2>1, <2>2
<1>10. PartiesKnown'
  BY <1>1, <1>3 DEF IInv, TypeOK, PartiesKnown, IsDebt
<1>. QED
  BY <1>8, <1>9, <1>10 DEF IInv

\* Steps that change neither a loan row nor its parties.
LEMMA OtherKeeps ==
  ASSUME IInv,
         \/ \E s \in Subjects, loans \in {LoanIds} \cup {{l} : l \in LoanIds} :
              AckNotices(s, loans)
         \/ \E s \in Subjects, delta \in ExternalDeltas : ExternalChange(s, delta)
         \/ Tick \/ UNCHANGED vars
  PROVE  IInv'
<1>1. UNCHANGED <<status, proposal, debt, exact, ops, rewardsLeft>>
  BY DEF AckNotices, ExternalChange, Tick, vars, ledger, proposal
<1>2. balance' \in [Subjects -> Int]
  <2>1. \A delta \in ExternalDeltas : delta \in Int
    BY LoanAssumption
  <2>. QED
    BY <2>1 DEF AckNotices, ExternalChange, Tick, vars, ledger, IInv, TypeOK
<1>3. clock' \in Times
  BY LoanAssumption
     DEF AckNotices, ExternalChange, Tick, vars, IInv, TypeOK, Times
<1>4. external' \in 0..MaxExternal
  BY LoanAssumption DEF AckNotices, ExternalChange, Tick, vars, IInv, TypeOK
<1>. QED
  BY <1>1, <1>2, <1>3, <1>4
     DEF IInv, TypeOK, RowsOK, PartiesKnown, proposal

LEMMA StepKeeps == IInv /\ [Next]_vars => IInv'
<1> SUFFICES ASSUME IInv, [Next]_vars PROVE IInv'
  OBVIOUS
<1>1. Now \subseteq Times
  BY DEF Now
<1>2. ASSUME NEW now \in Now, NEW l \in LoanIds, Negotiate(l, now) PROVE IInv'
  <2>1. PICK key \in Keys :
          \/ \E pair \in Pairs : \E t \in Terms : Create(pair[1], pair[2], l, key, t, now)
          \/ \E s \in Parties(l) : \E revision \in 1..Revision(l) :
               \/ \E t \in Terms : Counter(l, s, key, revision, t, now)
               \/ Accept(l, s, key, revision, now)
               \/ \E action \in {"reject", "withdraw"} : Close(l, s, key, action, revision, now)
    BY <1>2 DEF Negotiate
  <2>2. \A pair \in Pairs : pair[1] \in Subjects /\ pair[2] \in Subjects
    BY DEF Pairs, Subjects
  <2>. QED
    BY <1>1, <2>1, <2>2, CreateKeeps, CounterKeeps, AcceptKeeps, CloseKeeps
<1>3. ASSUME NEW now \in Now, NEW l \in LoanIds, Service(l, now) PROVE IInv'
  <2>1. CASE GetLoan(l, now)
    BY <1>1, <2>1, RefreshKeeps DEF GetLoan
  <2>2. CASE ~GetLoan(l, now)
    BY <1>1, <1>3, <2>2, RepayKeeps DEF Service
  <2>. QED
    BY <2>1, <2>2
<1>4. ASSUME NEW now \in Now, NEW o \in ops, Retry(o, now) PROVE IInv'
  BY <1>1, <1>4, RefreshKeeps DEF Retry, IInv, TypeOK
<1>5. ASSUME NEW now \in Now, NEW s \in Subjects, ListLoans(s, now) PROVE IInv'
  BY <1>1, <1>5, RefreshKeeps DEF ListLoans
<1>. QED
  BY <1>2, <1>3, <1>4, <1>5, OtherKeeps DEF Next

LEMMA Inductive == Spec => []IInv
<1>. QED
  BY InitHolds, StepKeeps, PTL DEF Spec

\* Every column keeps its type for all constants.
THEOREM TypeCorrect == Spec => []TypeOK
<1>1. IInv => TypeOK
  BY DEF IInv
<1>. QED
  BY Inductive, <1>1, PTL

\* The accounting columns of every debt stay balanced.
THEOREM DebtsBalanced == Spec => []DebtAccounted
<1>1. IInv => DebtAccounted
  BY DEF IInv, TypeOK, RowsOK, RowOK, Good, DebtAccounted, Balanced, Debts, Lifetime
<1>. QED
  BY Inductive, <1>1, PTL

LEMMA DivUnique ==
  ASSUME NEW k \in Nat, k > 0, NEW q \in Int, NEW r \in Nat, r < k
  PROVE  ((q * k) + r) \div k = q
BY SMT

LEMMA DivAtLeast ==
  ASSUME NEW k \in Nat, k > 0, NEW q \in Int, NEW n \in Int, n >= q * k
  PROVE  n \div k \in Int /\ n \div k >= q
BY SMT

\* Interest is the exact interest rounded once, however often it was settled.
THEOREM InterestIsExact == Spec => []InterestExact
<1>1. ASSUME IInv, NEW l \in LoanIds, status[l] \in Activated
      PROVE  LET whole == exact[l] \div Denominator
             IN Lifetime(debt[l]) =
                  IF debt[l].cap THEN Smaller(debt[l].original, whole) ELSE whole
  <2> DEFINE d == debt[l]
  <2> DEFINE whole == exact[l] \div Denominator
  <2>1. d \in Debts /\ exact[l] \in Int /\ Good(d, exact[l])
    BY <1>1 DEF IInv, TypeOK, RowsOK, RowOK
  <2>2. Lifetime(d) \in Int /\ d.original \in Int /\ d.remainder \in Nat
    BY <2>1 DEF Lifetime, Debts, Good
  <2>3. Denominator \in Nat /\ Denominator > 0
    BY LoanAssumption
  <2>4. CASE d.capReached
    <3>1. whole \in Int /\ whole >= d.original
      BY <2>1, <2>2, <2>3, <2>4, DivAtLeast DEF Good
    <3>. QED
      BY <2>1, <2>2, <2>4, <3>1 DEF Good, Smaller
  <2>5. CASE ~d.capReached
    <3>1. whole = Lifetime(d)
      BY <2>1, <2>2, <2>3, <2>5, DivUnique DEF Good
    <3>. QED
      BY <2>1, <2>2, <2>5, <3>1 DEF Good, Smaller
  <2>. QED
    BY <2>4, <2>5
<1>2. IInv => InterestExact
  BY <1>1 DEF InterestExact
<1>. QED
  BY Inductive, <1>2, PTL

-----------------------------------------------------------------------------
(* The talk about a loan: whose turn it is, who was asked, what both agreed *)
(* on and who pays, however late a call gets the writer lock.              *)

\* A proposal waits for the party that did not propose its last terms.
Turn ==
  \A l \in LoanIds :
    awaiting[l] = IF status[l] = "negotiating"
                    THEN Counterparty(l, CurrentTerms(l).proposer) ELSE Nobody

\* An unread invitation is that of an open proposal, the one an answer closes.
Invited ==
  \A n \in unread : n.event = "proposal" =>
    n.loan \in LoanIds /\ status[n.loan] = "negotiating" /\ n = ProposalNotice(n.loan)

\* What was proposed was proposed by one of two different parties.
Proposed ==
  \A l \in LoanIds : status[l] # "none" =>
    /\ Revision(l) \in 1..Len(offers[l]) /\ CurrentTerms(l).proposer \in Parties(l)
    /\ party[l].borrower # party[l].lender

\* Consent is recorded together with the debt, never before it.
NoEarlyConsent == \A o \in ops : o.action = "accept" => status[o.loan] \in Activated

Talk == Turn /\ Invited /\ Proposed /\ ConsentedTerms /\ NoEarlyConsent

\* No wallet is charged below zero.
Covered ==
  external' = external => \A s \in Subjects : balance'[s] < balance[s] => balance'[s] >= 0

-----------------------------------------------------------------------------
LEMMA InitTalks == Init => Talk
BY DEF Init, Talk, Turn, Invited, Proposed, ConsentedTerms, NoEarlyConsent, Activated

\* Rewards only add to what a transaction leaves in a wallet.
LEMMA SettleAdds ==
  ASSUME TypeOK, NEW paid \in [Subjects -> Int], NEW who,
         NEW grant \in Grants(who), Settle(paid, grant)
  PROVE  \A s \in Subjects : balance'[s] = paid[s] + grant[s] /\ grant[s] \in Nat
<1> TAKE s \in Subjects
<1>1. grant \in [Subjects -> 0..MaxReward]
  BY DEF Grants
<1>2. grant[s] \in Nat
  BY <1>1, LoanAssumption
<1>. QED
  BY <1>2 DEF Settle

LEMMA RewardsOnly ==
  ASSUME TypeOK, NEW who, \E grant \in Grants(who) : Settle(balance, grant)
  PROVE  Covered
<1>1. PICK grant \in Grants(who) : Settle(balance, grant)
  OBVIOUS
<1>2. balance \in [Subjects -> Int]
  BY DEF TypeOK
<1>3. \A s \in Subjects : balance'[s] = balance[s] + grant[s] /\ grant[s] \in Nat
  BY <1>1, <1>2, SettleAdds
<1>. QED
  BY <1>2, <1>3 DEF Covered

\* The agreed part of a debt's columns.
Agreed(d) == <<d.original, d.rate, d.cap, d.due>>

LEMMA AccrualAgrees ==
  ASSUME NEW d \in Debts, NEW now PROVE Agreed(AccrueInterest(d, now)) = Agreed(d)
<1> DEFINE numerator == Accrual(d, now) + d.remainder
<1> DEFINE charged == numerator \div Denominator
<1> DEFINE e == [d EXCEPT !.accrued = @ + CapRoom(d), !.remainder = 0,
                          !.last = now, !.capReached = TRUE]
<1> DEFINE f == [d EXCEPT !.accrued = @ + charged,
                          !.remainder = numerator % Denominator, !.last = now]
<1>1. AccrueInterest(d, now) \in {d, e, f}
  BY DEF AccrueInterest
<1> HIDE DEF numerator, charged
<1>2. Agreed(e) = Agreed(d) /\ Agreed(f) = Agreed(d)
  BY DEF Debts, Agreed
<1> HIDE DEF e, f
<1>. QED
  BY <1>1, <1>2

LEMMA RepaymentAgrees ==
  ASSUME NEW d \in Debts, NEW amount PROVE Agreed(Repaid(d, amount)) = Agreed(d)
BY DEF Repaid, Debts, Agreed

\* What refreshing the rows of S does to them.
LEMMA RefreshTalks ==
  ASSUME IInv, NEW S \in SUBSET LoanIds, NEW now \in Times
  PROVE  /\ \A l \in LoanIds :
              \/ StatusAfter(S, now)[l] = status[l] /\ AwaitingAfter(S, now)[l] = awaiting[l]
              \/ /\ status[l] = "negotiating" /\ StatusAfter(S, now)[l] = "expired"
                 /\ AwaitingAfter(S, now)[l] = Nobody
                 /\ ProposalNotice(l) \in NoticesClosed(S, now)
              \/ /\ status[l] = "active" /\ StatusAfter(S, now)[l] = "overdue"
                 /\ AwaitingAfter(S, now)[l] = awaiting[l]
         /\ \A l \in LoanIds : Agreed(DebtAfter(S, now)[l]) = Agreed(debt[l])
         /\ \A n \in NoticesOpened(S, now) : n.event # "proposal"
<1>1. ASSUME NEW l \in LoanIds
      PROVE  \/ StatusAfter(S, now)[l] = status[l] /\ AwaitingAfter(S, now)[l] = awaiting[l]
             \/ /\ status[l] = "negotiating" /\ StatusAfter(S, now)[l] = "expired"
                /\ AwaitingAfter(S, now)[l] = Nobody
                /\ ProposalNotice(l) \in NoticesClosed(S, now)
             \/ /\ status[l] = "active" /\ StatusAfter(S, now)[l] = "overdue"
                /\ AwaitingAfter(S, now)[l] = awaiting[l]
  <2>1. CASE l \notin S
    BY <2>1 DEF StatusAfter, AwaitingAfter
  <2>2. CASE l \in S /\ ProposalExpired(l, now)
    <3>1. ClosedNotices(l, now) = {ProposalNotice(l)}
      BY <2>2 DEF ClosedNotices
    <3>2. ProposalNotice(l) \in NoticesClosed(S, now)
      BY <2>2, <3>1 DEF NoticesClosed
    <3>. QED
      BY <2>2, <3>2 DEF StatusAfter, AwaitingAfter, RefreshedStatus, RefreshedAwaiting,
                        ProposalExpired
  <2>3. CASE l \in S /\ ~ProposalExpired(l, now)
    BY <2>3 DEF StatusAfter, AwaitingAfter, RefreshedStatus, RefreshedAwaiting, BecomesOverdue
  <2>. QED
    BY <2>1, <2>2, <2>3
<1>2. ASSUME NEW l \in LoanIds PROVE Agreed(DebtAfter(S, now)[l]) = Agreed(debt[l])
  <2>1. debt[l] \in Debts
    BY DEF IInv, TypeOK
  <2>. QED
    BY <2>1, AccrualAgrees DEF DebtAfter, RefreshedDebt
<1>3. ASSUME NEW n \in NoticesOpened(S, now) PROVE n.event # "proposal"
  <2>1. PICK l \in S : n \in OpenedNotices(l, now)
    BY <1>3 DEF NoticesOpened
  <2>. QED
    BY <2>1 DEF OpenedNotices, Notice
<1>. QED
  BY <1>1, <1>2, <1>3

-----------------------------------------------------------------------------
\* A step after which every unread invitation is one that still stands or that
\* it sends itself.
LEMMA StillInvited ==
  ASSUME IInv, Talk, NEW opened, NEW closed, Notify(opened, closed),
         \A l \in LoanIds : status[l] = "negotiating" =>
           \/ ProposalNotice(l) \in closed
           \/ status'[l] = "negotiating" /\ ProposalNotice(l)' = ProposalNotice(l),
         \A n \in opened : n.event = "proposal" =>
           n.loan \in LoanIds /\ status'[n.loan] = "negotiating" /\ n = ProposalNotice(n.loan)'
  PROVE  Invited'
<1> SUFFICES ASSUME NEW n \in unread', n.event = "proposal"
             PROVE  /\ n.loan \in LoanIds /\ status'[n.loan] = "negotiating"
                    /\ n = ProposalNotice(n.loan)'
  BY DEF Invited
<1>1. n \in unread \ closed \/ n \in opened
  BY DEF Notify
<1>2. CASE n \in unread \ closed
  <2>1. n.loan \in LoanIds /\ status[n.loan] = "negotiating" /\ n = ProposalNotice(n.loan)
    BY <1>2 DEF Talk, Invited
  <2>. QED
    BY <1>2, <2>1
<1>. QED
  BY <1>1, <1>2

\* A step that records no consent and changes no debt's terms.
LEMMA StillConsented ==
  ASSUME IInv, Talk, ops \subseteq ops', \A o \in ops' \ ops : o.action # "accept",
         \A l \in LoanIds : status'[l] \in Activated <=> status[l] \in Activated,
         \A l \in LoanIds : status[l] \in Activated =>
           /\ offers'[l] = offers[l] /\ party'[l] = party[l]
           /\ Agreed(debt'[l]) = Agreed(debt[l])
  PROVE  ConsentedTerms' /\ NoEarlyConsent'
<1>1. NoEarlyConsent'
  BY DEF Talk, NoEarlyConsent, IInv, TypeOK
<1>2. ASSUME NEW l \in LoanIds, status'[l] \in Activated
      PROVE  \E o \in ops' :
               /\ o.action = "accept" /\ o.loan = l /\ o.revision = Revision(l)'
               /\ o.actor \in Parties(l)' \ {CurrentTerms(l).proposer'}
               /\ LET t == CurrentTerms(l)' d == debt'[l]
                  IN <<t.principal, t.rate, t.cap, t.due>> = <<d.original, d.rate, d.cap, d.due>>
               /\ \A p \in ops' : p.action = "accept" /\ p.loan = l => p = o
  <2>1. status[l] \in Activated
    BY <1>2
  <2>2. PICK o \in ops :
          /\ o.action = "accept" /\ o.loan = l /\ o.revision = Revision(l)
          /\ o.actor \in Parties(l) \ {CurrentTerms(l).proposer}
          /\ LET t == CurrentTerms(l) d == debt[l]
             IN <<t.principal, t.rate, t.cap, t.due>> = <<d.original, d.rate, d.cap, d.due>>
          /\ \A p \in ops : p.action = "accept" /\ p.loan = l => p = o
    BY <2>1 DEF Talk, ConsentedTerms
  <2>3. offers'[l] = offers[l] /\ party'[l] = party[l] /\ Agreed(debt'[l]) = Agreed(debt[l])
    BY <2>1
  <2>4. o \in ops' /\ \A p \in ops' : p.action = "accept" /\ p.loan = l => p = o
    BY <2>2
  <2>. QED
    BY <2>2, <2>3, <2>4 DEF Revision, Parties, CurrentTerms, Agreed
<1>3. ConsentedTerms'
  BY <1>2 DEF ConsentedTerms
<1>. QED
  BY <1>1, <1>3
-----------------------------------------------------------------------------
LEMMA RefreshKeepsTalk ==
  ASSUME IInv, Talk, NEW S \in SUBSET LoanIds, NEW now \in Times, RefreshRows(S, now)
  PROVE  Talk' /\ Covered
<1>1. /\ status' = StatusAfter(S, now) /\ awaiting' = AwaitingAfter(S, now)
      /\ debt' = DebtAfter(S, now)
      /\ Notify(NoticesOpened(S, now), NoticesClosed(S, now))
      /\ UNCHANGED <<party, offers, ops>>
      /\ \E grant \in Grants(EventParties(S, now)) : Settle(balance, grant)
  BY DEF RefreshRows
<1>2. \A l \in LoanIds :
        \/ status'[l] = status[l] /\ awaiting'[l] = awaiting[l]
        \/ /\ status[l] = "negotiating" /\ status'[l] = "expired" /\ awaiting'[l] = Nobody
           /\ ProposalNotice(l) \in NoticesClosed(S, now)
        \/ status[l] = "active" /\ status'[l] = "overdue" /\ awaiting'[l] = awaiting[l]
  BY <1>1, RefreshTalks
<1>3. Turn'
  BY <1>1, <1>2 DEF Talk, Turn, Counterparty, CurrentTerms
<1>4. Proposed'
  BY <1>1, <1>2 DEF Talk, Proposed, Revision, CurrentTerms, Parties
<1>5. Invited'
  <2>1. \A l \in LoanIds : status[l] = "negotiating" =>
          \/ ProposalNotice(l) \in NoticesClosed(S, now)
          \/ status'[l] = "negotiating" /\ ProposalNotice(l)' = ProposalNotice(l)
    BY <1>1, <1>2 DEF ProposalNotice, Revision
  <2>2. \A n \in NoticesOpened(S, now) : n.event # "proposal"
    BY RefreshTalks
  <2>. QED
    BY <1>1, <2>1, <2>2, StillInvited
<1>6. ConsentedTerms' /\ NoEarlyConsent'
  <2>1. \A l \in LoanIds : Agreed(debt'[l]) = Agreed(debt[l])
    BY <1>1, RefreshTalks
  <2>2. \A l \in LoanIds : status'[l] \in Activated <=> status[l] \in Activated
    BY <1>2 DEF Activated
  <2>. QED
    BY <1>1, <2>1, <2>2, StillConsented
<1>. QED
  BY <1>1, <1>3, <1>4, <1>5, <1>6, RewardsOnly DEF Talk, IInv

LEMMA CreateKeepsTalk ==
  ASSUME IInv, Talk, NEW now \in Times, NEW l \in LoanIds, NEW key,
         NEW b \in Subjects, NEW lender \in Subjects, b # lender, NEW t \in Terms,
         Create(b, lender, l, key, t, now)
  PROVE  Talk' /\ Covered
<1> DEFINE mine == {x \in LoansOf(b) : status[x] \in Open}
<1> DEFINE opened == NoticesOpened(mine, now) \cup {Notice(lender, l, "proposal", 1)}
<1>1. mine \in SUBSET LoanIds
  BY DEF LoansOf
<1>2. /\ status[l] = "none" /\ t.proposer = b
      /\ status' = [StatusAfter(mine, now) EXCEPT ![l] = "negotiating"]
      /\ awaiting' = [AwaitingAfter(mine, now) EXCEPT ![l] = lender]
      /\ party' = [party EXCEPT ![l] = [borrower |-> b, lender |-> lender]]
      /\ offers' = [offers EXCEPT ![l] = <<t>>]
      /\ debt' = DebtAfter(mine, now)
      /\ ops' = ops \cup {Operation(b, key, "create", l, 1, 0)}
      /\ Notify(opened, NoticesClosed(mine, now))
      /\ \E grant \in Grants(EventParties(mine, now)) : Settle(balance, grant)
  BY DEF Create
<1>3. /\ StatusAfter(mine, now) \in [LoanIds -> Statuses]
      /\ AwaitingAfter(mine, now) \in [LoanIds -> Subjects \cup {Nobody}]
  BY <1>1, RefreshedColumns
<1>4. /\ party \in [LoanIds -> [borrower : Subjects \cup {Nobody}, lender : Subjects \cup {Nobody}]]
      /\ offers \in [LoanIds -> Seq(Terms)]
  BY DEF IInv, TypeOK
<1>5. /\ status'[l] = "negotiating" /\ awaiting'[l] = lender /\ offers'[l] = <<t>>
      /\ party'[l] = [borrower |-> b, lender |-> lender]
  BY <1>2, <1>3, <1>4
<1>6. \A x \in LoanIds \ {l} :
        /\ status'[x] = StatusAfter(mine, now)[x] /\ awaiting'[x] = AwaitingAfter(mine, now)[x]
        /\ party'[x] = party[x] /\ offers'[x] = offers[x]
  BY <1>2, <1>3, <1>4
<1> HIDE DEF mine
<1>7. \A x \in LoanIds \ {l} :
        \/ status'[x] = status[x] /\ awaiting'[x] = awaiting[x]
        \/ /\ status[x] = "negotiating" /\ status'[x] = "expired" /\ awaiting'[x] = Nobody
           /\ ProposalNotice(x) \in NoticesClosed(mine, now)
        \/ status[x] = "active" /\ status'[x] = "overdue" /\ awaiting'[x] = awaiting[x]
  <2>1. \A x \in LoanIds :
          LET st == StatusAfter(mine, now)[x]
              aw == AwaitingAfter(mine, now)[x]
          IN \/ st = status[x] /\ aw = awaiting[x]
             \/ /\ status[x] = "negotiating" /\ st = "expired" /\ aw = Nobody
                /\ ProposalNotice(x) \in NoticesClosed(mine, now)
             \/ status[x] = "active" /\ st = "overdue" /\ aw = awaiting[x]
    BY <1>1, RefreshTalks
  <2>. QED
    BY <1>6, <2>1
<1>8. Len(<<t>>) = 1 /\ <<t>>[1] = t
  OBVIOUS
<1>9. Turn'
  <2>1. Counterparty(l, CurrentTerms(l).proposer)' = lender
    BY <1>2, <1>5, <1>8 DEF Counterparty, CurrentTerms
  <2>2. ASSUME NEW x \in LoanIds \ {l}
        PROVE  Counterparty(x, CurrentTerms(x).proposer)' = Counterparty(x, CurrentTerms(x).proposer)
    BY <1>6 DEF Counterparty, CurrentTerms
  <2>3. ASSUME NEW x \in LoanIds \ {l}
        PROVE  awaiting'[x] = IF status'[x] = "negotiating"
                 THEN Counterparty(x, CurrentTerms(x).proposer) ELSE Nobody
    BY <1>7 DEF Talk, Turn
  <2>. QED
    BY <1>5, <2>1, <2>2, <2>3 DEF Turn
<1>10. Proposed'
  <2>1. /\ Revision(l)' \in 1..Len(offers'[l]) /\ CurrentTerms(l)'.proposer \in Parties(l)'
        /\ party'[l].borrower # party'[l].lender
    BY <1>2, <1>5, <1>8 DEF Revision, CurrentTerms, Parties
  <2>. QED
    BY <1>6, <1>7, <2>1 DEF Talk, Proposed, Revision, CurrentTerms, Parties
<1>11. Invited'
  <2>1. ASSUME NEW x \in LoanIds, status[x] = "negotiating"
        PROVE  \/ ProposalNotice(x) \in NoticesClosed(mine, now)
               \/ status'[x] = "negotiating" /\ ProposalNotice(x)' = ProposalNotice(x)
    BY <1>2, <1>6, <1>7, <2>1 DEF ProposalNotice, Revision
  <2>2. Notice(lender, l, "proposal", 1).loan = l
        /\ Notice(lender, l, "proposal", 1) = ProposalNotice(l)'
    BY <1>5, <1>8 DEF Notice, ProposalNotice, Revision
  <2>3. \A n \in opened : n.event = "proposal" =>
          n.loan \in LoanIds /\ status'[n.loan] = "negotiating" /\ n = ProposalNotice(n.loan)'
    BY <1>1, <1>5, <2>2, RefreshTalks
  <2> HIDE DEF opened
  <2>. QED
    BY <1>2, <2>1, <2>3, StillInvited
<1>12. ConsentedTerms' /\ NoEarlyConsent'
  <2>1. \A x \in LoanIds : Agreed(debt'[x]) = Agreed(debt[x])
    BY <1>1, <1>2, RefreshTalks
  <2>2. \A x \in LoanIds : status'[x] \in Activated <=> status[x] \in Activated
    BY <1>2, <1>5, <1>7 DEF Activated
  <2>3. l \in LoanIds /\ status[l] \notin Activated
    BY <1>2 DEF Activated
  <2>4. \A o \in ops' \ ops : o.action # "accept"
    BY <1>2 DEF Operation
  <2>. QED
    BY <1>2, <1>6, <2>1, <2>2, <2>3, <2>4, StillConsented
<1>. QED
  BY <1>2, <1>9, <1>10, <1>11, <1>12, RewardsOnly DEF Talk, IInv
\* An answer concerns one open proposal, its current revision and whose turn it is.
LEMMA CounterKeepsTalk ==
  ASSUME IInv, Talk, NEW now \in Times, NEW l \in LoanIds, NEW key, NEW s \in Parties(l),
         NEW revision, NEW t \in Terms, Counter(l, s, key, revision, t, now)
  PROVE  Talk' /\ Covered
<1> DEFINE other == Counterparty(l, s)
<1>1. /\ status[l] = "negotiating" /\ t.proposer = s
      /\ offers' = [offers EXCEPT ![l] = Append(@, t)]
      /\ awaiting' = [awaiting EXCEPT ![l] = other]
      /\ ops' = ops \cup {Operation(s, key, "counter", l, Revision(l) + 1, 0)}
      /\ Notify({Notice(other, l, "proposal", Revision(l) + 1)}, {ProposalNotice(l)})
      /\ UNCHANGED <<balance, status, party, debt>>
  BY DEF Counter, Negotiable
<1>2. offers[l] \in Seq(Terms) /\ offers \in [LoanIds -> Seq(Terms)]
      /\ awaiting \in [LoanIds -> Subjects \cup {Nobody}]
  BY DEF IInv, TypeOK
<1>3. /\ awaiting'[l] = other /\ offers'[l] = Append(offers[l], t)
      /\ \A x \in LoanIds \ {l} : awaiting'[x] = awaiting[x] /\ offers'[x] = offers[x]
  BY <1>1, <1>2
<1>4. Revision(l)' = Revision(l) + 1 /\ CurrentTerms(l)' = t /\ Revision(l) \in Nat
  BY <1>2, <1>3 DEF Revision, CurrentTerms
<1>5. \A x \in LoanIds \ {l} : Revision(x)' = Revision(x) /\ CurrentTerms(x)' = CurrentTerms(x)
  BY <1>3 DEF Revision, CurrentTerms
<1>6. Turn'
  <2>1. \A x, y : Counterparty(x, y)' = Counterparty(x, y')
    BY <1>1 DEF Counterparty
  <2>. QED
    BY <1>1, <1>3, <1>4, <1>5, <2>1 DEF Talk, Turn
<1>7. Proposed'
  <2>1. \A x \in LoanIds : Parties(x)' = Parties(x)
    BY <1>1 DEF Parties
  <2>2. Revision(l)' \in 1..Len(offers'[l])
    BY <1>4 DEF Revision
  <2>. QED
    BY <1>1, <1>3, <1>4, <1>5, <2>1, <2>2 DEF Talk, Proposed
<1>8. Invited'
  <2> DEFINE opened == {Notice(other, l, "proposal", Revision(l) + 1)}
  <2>1. \A x \in LoanIds \ {l} : ProposalNotice(x)' = ProposalNotice(x)
    BY <1>3, <1>5 DEF ProposalNotice
  <2>2. \A n \in opened : n.loan = l /\ n = ProposalNotice(l)'
    BY <1>3, <1>4 DEF Notice, ProposalNotice
  <2> HIDE DEF opened
  <2>3. \A n \in opened : n.event = "proposal" =>
          n.loan \in LoanIds /\ status'[n.loan] = "negotiating" /\ n = ProposalNotice(n.loan)'
    BY <1>1, <2>2
  <2> DEFINE closed == {ProposalNotice(l)}
  <2>4. \A x \in LoanIds : status[x] = "negotiating" =>
          \/ ProposalNotice(x) \in closed
          \/ status'[x] = "negotiating" /\ ProposalNotice(x)' = ProposalNotice(x)
    BY <1>1, <2>1
  <2>5. Notify(opened, closed)
    BY <1>1 DEF opened
  <2> HIDE DEF closed
  <2>. QED
    BY <2>3, <2>4, <2>5, StillInvited
<1>9. ConsentedTerms' /\ NoEarlyConsent'
  <2>1. \A o \in ops' \ ops : o.action # "accept"
    BY <1>1 DEF Operation
  <2>2. status[l] \notin Activated
    BY <1>1 DEF Activated
  <2>. QED
    BY <1>1, <1>3, <2>1, <2>2, StillConsented
<1>. QED
  BY <1>1, <1>6, <1>7, <1>8, <1>9 DEF Talk, Covered, IInv, TypeOK

\* A closed proposal waits for nobody, and its invitation is read.
LEMMA AnsweredTalk ==
  ASSUME IInv, Talk, NEW l \in LoanIds, status[l] = "negotiating", NEW st, st # "negotiating",
         st # "none", status' = [status EXCEPT ![l] = st],
         awaiting' = [awaiting EXCEPT ![l] = Nobody],
         NEW opened, Notify(opened, {ProposalNotice(l)}), \A n \in opened : n.event # "proposal",
         UNCHANGED <<party, offers>>
  PROVE  Turn' /\ Proposed' /\ Invited'
<1>1. /\ status'[l] = st /\ awaiting'[l] = Nobody
      /\ \A x \in LoanIds \ {l} : status'[x] = status[x] /\ awaiting'[x] = awaiting[x]
  BY DEF IInv, TypeOK
<1>2. Turn'
  BY <1>1 DEF Talk, Turn, Counterparty, CurrentTerms
<1>3. Proposed'
  BY <1>1 DEF Talk, Proposed, Revision, CurrentTerms, Parties
<1>4. Invited'
  <2> DEFINE closed == {ProposalNotice(l)}
  <2>1. \A x \in LoanIds : status[x] = "negotiating" =>
          \/ ProposalNotice(x) \in closed
          \/ status'[x] = "negotiating" /\ ProposalNotice(x)' = ProposalNotice(x)
    BY <1>1 DEF ProposalNotice, Revision
  <2>2. Notify(opened, closed)
    OBVIOUS
  <2> HIDE DEF closed
  <2>. QED
    BY <2>1, <2>2, StillInvited
<1>. QED
  BY <1>2, <1>3, <1>4

LEMMA CloseKeepsTalk ==
  ASSUME IInv, Talk, NEW now \in Times, NEW l \in LoanIds, NEW key, NEW s \in Parties(l),
         NEW action \in {"reject", "withdraw"}, NEW revision,
         Close(l, s, key, action, revision, now)
  PROVE  Talk' /\ Covered
<1> DEFINE st == IF action = "reject" THEN "rejected" ELSE "withdrawn"
<1> DEFINE opened == IF action = "reject"
                       THEN {Notice(Counterparty(l, s), l, "rejected", revision)} ELSE {}
<1>1. /\ status[l] = "negotiating" /\ status' = [status EXCEPT ![l] = st]
      /\ awaiting' = [awaiting EXCEPT ![l] = Nobody]
      /\ ops' = ops \cup {Operation(s, key, action, l, revision, 0)}
      /\ Notify(opened, {ProposalNotice(l)})
      /\ UNCHANGED <<balance, party, offers, debt>>
  BY DEF Close, Negotiable
<1>2. st \in {"rejected", "withdrawn"} /\ \A n \in opened : n.event # "proposal"
  BY DEF Notice
<1> HIDE DEF st, opened
<1>3. Turn' /\ Proposed' /\ Invited'
  BY <1>1, <1>2, AnsweredTalk
<1>4. ConsentedTerms' /\ NoEarlyConsent'
  <2>1. \A o \in ops' \ ops : o.action # "accept"
    BY <1>1 DEF Operation
  <2>2. \A x \in LoanIds : status'[x] \in Activated <=> status[x] \in Activated
    BY <1>1, <1>2 DEF Activated, IInv, TypeOK
  <2>. QED
    BY <1>1, <2>1, <2>2, StillConsented
<1>. QED
  BY <1>1, <1>3, <1>4 DEF Talk, Covered, IInv, TypeOK
LEMMA TransferValues ==
  ASSUME TypeOK, NEW from \in Subjects, NEW to \in Subjects, from # to, NEW n \in Nat
  PROVE  /\ Transfer(from, to, n) \in [Subjects -> Int]
         /\ Transfer(from, to, n)[from] = balance[from] - n
         /\ \A x \in Subjects \ {from} : Transfer(from, to, n)[x] >= balance[x]
<1>1. balance \in [Subjects -> Int]
  BY DEF TypeOK
<1>2. /\ Transfer(from, to, n)[from] = balance[from] - n
      /\ Transfer(from, to, n)[to] = balance[to] + n
      /\ \A x \in Subjects \ {from, to} : Transfer(from, to, n)[x] = balance[x]
  BY <1>1 DEF Transfer
<1>3. \A x \in Subjects : balance[x] \in Int
  BY <1>1
<1>4. Transfer(from, to, n) \in [Subjects -> Int]
  BY TransferTyped
<1>5. ASSUME NEW x \in Subjects \ {from} PROVE Transfer(from, to, n)[x] >= balance[x]
  BY <1>2, <1>3
<1>. QED
  BY <1>2, <1>4, <1>5

\* The parties of a loan that exists.
LEMMA PartiesDiffer ==
  ASSUME IInv, Talk, NEW l \in LoanIds, status[l] # "none"
  PROVE  /\ party[l].borrower \in Subjects /\ party[l].lender \in Subjects
         /\ party[l].borrower # party[l].lender
BY DEF IInv, PartiesKnown, Talk, Proposed

LEMMA AcceptKeepsTalk ==
  ASSUME IInv, Talk, NEW now \in Times, NEW l \in LoanIds, NEW key, NEW s \in Parties(l),
         NEW revision \in 1..Revision(l), Accept(l, s, key, revision, now)
  PROVE  Talk' /\ Covered
<1> DEFINE t == offers[l][revision]
<1> DEFINE op == Operation(s, key, "accept", l, revision, 0)
<1> DEFINE opened == {Notice(Counterparty(l, s), l, "accepted", revision)}
<1> DEFINE lender == party[l].lender
<1> DEFINE borrower == party[l].borrower
<1>1. /\ status[l] = "negotiating" /\ revision = Revision(l) /\ awaiting[l] = s
      /\ Covers(lender, t.principal)
      /\ status' = [status EXCEPT ![l] = "active"]
      /\ awaiting' = [awaiting EXCEPT ![l] = Nobody]
      /\ debt' = [debt EXCEPT ![l] = OpenedDebt(t, now)]
      /\ ops' = ops \cup {op}
      /\ Notify(opened, {ProposalNotice(l)})
      /\ \E grant \in Grants(Parties(l)) :
           Settle(Transfer(lender, borrower, t.principal), grant)
      /\ UNCHANGED <<party, offers>>
  BY DEF Accept, Negotiable
<1>2. t = CurrentTerms(l) /\ t \in Terms
  <2>1. offers[l] \in Seq(Terms)
    BY DEF IInv, TypeOK
  <2>. QED
    BY <1>1, <2>1 DEF CurrentTerms, Revision
<1>3. borrower \in Subjects /\ lender \in Subjects /\ borrower # lender
  BY <1>1, PartiesDiffer
<1>4. s # CurrentTerms(l).proposer
  BY <1>1, <1>3 DEF Talk, Turn, Proposed, Counterparty, Parties
<1>5. t.principal \in Nat
  <2>1. \A p \in Principals : p \in Nat
    BY LoanAssumption
  <2>. QED
    BY <1>2, <2>1 DEF Terms
<1>6. op.actor = s /\ op.action = "accept" /\ op.loan = l /\ op.revision = revision
  BY DEF Operation
<1>7. \A n \in opened : n.event # "proposal"
  BY DEF Notice
<1> HIDE DEF t, op, opened
<1>8. Turn' /\ Proposed' /\ Invited'
  BY <1>1, <1>7, AnsweredTalk
<1>9. NoEarlyConsent'
  BY <1>1, <1>6 DEF Talk, NoEarlyConsent, Activated, IInv, TypeOK
<1>10. ConsentedTerms'
  <2>1. ASSUME NEW x \in LoanIds, x # l, status'[x] \in Activated
        PROVE  \E o \in ops' :
                 /\ o.action = "accept" /\ o.loan = x /\ o.revision = Revision(x)'
                 /\ o.actor \in Parties(x)' \ {CurrentTerms(x).proposer'}
                 /\ LET c == CurrentTerms(x)' d == debt'[x]
                    IN <<c.principal, c.rate, c.cap, c.due>> = <<d.original, d.rate, d.cap, d.due>>
                 /\ \A p \in ops' : p.action = "accept" /\ p.loan = x => p = o
    <3>1. status[x] \in Activated /\ debt'[x] = debt[x]
      BY <1>1, <2>1 DEF IInv, TypeOK
    <3>2. PICK o \in ops :
            /\ o.action = "accept" /\ o.loan = x /\ o.revision = Revision(x)
            /\ o.actor \in Parties(x) \ {CurrentTerms(x).proposer}
            /\ LET c == CurrentTerms(x) d == debt[x]
               IN <<c.principal, c.rate, c.cap, c.due>> = <<d.original, d.rate, d.cap, d.due>>
            /\ \A p \in ops : p.action = "accept" /\ p.loan = x => p = o
      BY <3>1 DEF Talk, ConsentedTerms
    <3>3. o \in ops' /\ \A p \in ops' : p.action = "accept" /\ p.loan = x => p = o
      BY <1>1, <1>6, <2>1, <3>2
    <3>. QED
      BY <1>1, <3>1, <3>2, <3>3 DEF Revision, Parties, CurrentTerms
  <2>2. /\ op \in ops' /\ op.action = "accept" /\ op.loan = l /\ op.revision = Revision(l)'
        /\ op.actor \in Parties(l)' \ {CurrentTerms(l).proposer'}
    BY <1>1, <1>4, <1>6 DEF Revision, Parties, CurrentTerms
  <2>3. LET c == CurrentTerms(l)' d == debt'[l]
        IN <<c.principal, c.rate, c.cap, c.due>> = <<d.original, d.rate, d.cap, d.due>>
    <3>1. debt'[l] = OpenedDebt(t, now) /\ CurrentTerms(l)' = t
      BY <1>1, <1>2 DEF CurrentTerms, IInv, TypeOK
    <3>. QED
      BY <3>1 DEF OpenedDebt
  <2>4. \A p \in ops' : p.action = "accept" /\ p.loan = l => p = op
    BY <1>1 DEF Talk, NoEarlyConsent, Activated
  <2>. QED
    BY <2>1, <2>2, <2>3, <2>4 DEF ConsentedTerms
<1>11. Covered
  <2>1. PICK grant \in Grants(Parties(l)) :
          Settle(Transfer(lender, borrower, t.principal), grant)
    BY <1>1
  <2>2. TypeOK
    BY DEF IInv
  <2>3. /\ Transfer(lender, borrower, t.principal) \in [Subjects -> Int]
        /\ Transfer(lender, borrower, t.principal)[lender] = balance[lender] - t.principal
        /\ \A x \in Subjects \ {lender} :
             Transfer(lender, borrower, t.principal)[x] >= balance[x]
    BY <1>3, <1>5, <2>2, TransferValues
  <2> DEFINE paid == Transfer(lender, borrower, t.principal)
  <2> HIDE DEF paid
  <2>4. \A x \in Subjects : balance'[x] = paid[x] + grant[x] /\ grant[x] \in Nat
    BY <2>1, <2>2, <2>3, SettleAdds DEF paid
  <2>5. paid[lender] >= 0 /\ \A x \in Subjects \ {lender} : paid[x] >= balance[x]
    BY <1>1, <1>3, <1>5, <2>2, <2>3 DEF paid, Covers, TypeOK
  <2>6. \A x \in Subjects : paid[x] \in Int /\ balance[x] \in Int
    BY <2>2, <2>3 DEF paid, TypeOK
  <2>. QED
    BY <1>3, <2>4, <2>5, <2>6 DEF Covered
<1>. QED
  BY <1>8, <1>9, <1>10, <1>11 DEF Talk

LEMMA RepayKeepsTalk ==
  ASSUME IInv, Talk, NEW now \in Times, NEW l \in LoanIds, NEW key, NEW s \in Parties(l),
         NEW amount \in 1..MaxInteger, Repay(l, s, key, amount, now)
  PROVE  Talk' /\ Covered
<1> DEFINE due == RefreshedDebt(l, now)
<1> DEFINE after == Repaid(due, amount)
<1> DEFINE lender == party[l].lender
<1> DEFINE opened == OpenedNotices(l, now) \cup {Notice(lender, l, "repayment", key)}
<1> DEFINE st == IF FullyRepaid(after) THEN "repaid" ELSE RefreshedStatus(l, now)
<1>1. /\ IsDebt(l) /\ s = party[l].borrower
      /\ status' = [status EXCEPT ![l] = st]
      /\ debt' = [debt EXCEPT ![l] = after]
      /\ ops' = ops \cup {Operation(s, key, "repay", l, 0, amount)}
      /\ Notify(opened, {})
      /\ UNCHANGED <<party, offers, awaiting>>
  BY DEF Repay
<1>2. PICK grant \in Grants(Parties(l)) :
        /\ balance[s] + (IF s \in EventParties({l}, now) THEN grant[s] ELSE 0) >= amount
        /\ Settle(Transfer(s, lender, amount), grant)
  BY DEF Repay
<1>3. s \in Subjects /\ lender \in Subjects /\ s # lender
  BY <1>1, PartiesDiffer DEF IsDebt
<1>4. amount \in Nat
  BY LoanAssumption
<1>5. debt[l] \in Debts /\ due \in Debts
  BY RefreshedRow DEF IInv, TypeOK
<1>6. Agreed(after) = Agreed(debt[l])
  <2>1. Agreed(due) = Agreed(debt[l])
    BY <1>5, AccrualAgrees DEF RefreshedDebt
  <2>. QED
    BY <1>5, <2>1, RepaymentAgrees
<1>7. st \in Activated /\ status[l] \in Activated
  BY <1>1 DEF RefreshedStatus, IsDebt, ProposalExpired, Activated
<1>8. \A n \in opened : n.event # "proposal"
  <2>1. ~ProposalExpired(l, now)
    BY <1>1 DEF ProposalExpired, IsDebt
  <2>. QED
    BY <2>1 DEF OpenedNotices, Notice
<1> HIDE DEF due, after, opened, st
<1>9. /\ status'[l] = st /\ debt'[l] = after
      /\ \A x \in LoanIds \ {l} : status'[x] = status[x] /\ debt'[x] = debt[x]
  BY <1>1 DEF IInv, TypeOK
<1>10. status[l] # "negotiating" /\ status[l] # "none" /\ st # "negotiating"
  BY <1>7 DEF Activated
<1>11. Turn'
  BY <1>1, <1>9, <1>10 DEF Talk, Turn, Counterparty, CurrentTerms
<1>12. Proposed'
  BY <1>1, <1>9, <1>10 DEF Talk, Proposed, Revision, CurrentTerms, Parties
<1>13. Invited'
  <2>1. \A x \in LoanIds : status[x] = "negotiating" =>
          status'[x] = "negotiating" /\ ProposalNotice(x)' = ProposalNotice(x)
    BY <1>1, <1>9, <1>10 DEF ProposalNotice, Revision
  <2>. QED
    BY <1>1, <1>8, <2>1, StillInvited
<1>14. ConsentedTerms' /\ NoEarlyConsent'
  <2>1. \A o \in ops' \ ops : o.action # "accept"
    BY <1>1 DEF Operation
  <2>2. \A x \in LoanIds : /\ status'[x] \in Activated <=> status[x] \in Activated
                           /\ Agreed(debt'[x]) = Agreed(debt[x])
    BY <1>6, <1>7, <1>9
  <2>. QED
    BY <1>1, <2>1, <2>2, StillConsented
<1>15. Covered
  <2>1. TypeOK
    BY DEF IInv
  <2> DEFINE paid == Transfer(s, lender, amount)
  <2>2. /\ paid \in [Subjects -> Int] /\ paid[s] = balance[s] - amount
        /\ \A x \in Subjects \ {s} : paid[x] >= balance[x]
    BY <1>3, <1>4, <2>1, TransferValues
  <2>3. \A x \in Subjects : balance'[x] = paid[x] + grant[x] /\ grant[x] \in Nat
    BY <1>2, <2>1, <2>2, SettleAdds
  <2> HIDE DEF paid
  <2>4. \A x \in Subjects : balance[x] \in Int /\ paid[x] \in Int
    BY <2>1, <2>2 DEF TypeOK
  <2>5. balance[s] + grant[s] >= amount
    BY <1>2, <1>3, <1>4, <2>3, <2>4
  <2>6. balance'[s] >= 0
    BY <1>3, <1>4, <2>2, <2>3, <2>4, <2>5
  <2>. QED
    BY <1>3, <2>2, <2>3, <2>4, <2>6 DEF Covered
<1>. QED
  BY <1>11, <1>12, <1>13, <1>14, <1>15 DEF Talk

\* Steps that change no loan.
LEMMA OtherKeepsTalk ==
  ASSUME IInv, Talk,
         \/ \E s \in Subjects, loans \in {LoanIds} \cup {{l} : l \in LoanIds} :
              AckNotices(s, loans)
         \/ \E s \in Subjects, delta \in ExternalDeltas : ExternalChange(s, delta)
         \/ Tick \/ UNCHANGED vars
  PROVE  Talk' /\ Covered
<1>1. UNCHANGED <<status, party, offers, awaiting, debt, ops>> /\ unread' \subseteq unread
  BY DEF AckNotices, ExternalChange, Tick, vars, proposal, notices
<1>2. external' = external => balance' = balance
  BY DEF AckNotices, ExternalChange, Tick, vars, ledger, IInv, TypeOK
<1>3. Turn' /\ Proposed'
  BY <1>1 DEF Talk, Turn, Proposed, Counterparty, CurrentTerms, Revision, Parties
<1>4. Invited'
  BY <1>1 DEF Talk, Invited, ProposalNotice, Revision
<1>5. ConsentedTerms' /\ NoEarlyConsent'
  BY <1>1, StillConsented
<1>6. Covered
  BY <1>2 DEF Covered, IInv, TypeOK
<1>. QED
  BY <1>3, <1>4, <1>5, <1>6 DEF Talk

-----------------------------------------------------------------------------
LEMMA StepTalks == IInv /\ Talk /\ [Next]_vars => Talk' /\ Covered
<1> SUFFICES ASSUME IInv, Talk, [Next]_vars PROVE Talk' /\ Covered
  OBVIOUS
<1>1. Now \subseteq Times
  BY DEF Now
<1>2. ASSUME NEW now \in Now, NEW l \in LoanIds, Negotiate(l, now) PROVE Talk' /\ Covered
  <2>1. PICK key \in Keys :
          \/ \E pair \in Pairs : \E t \in Terms : Create(pair[1], pair[2], l, key, t, now)
          \/ \E s \in Parties(l) : \E revision \in 1..Revision(l) :
               \/ \E t \in Terms : Counter(l, s, key, revision, t, now)
               \/ Accept(l, s, key, revision, now)
               \/ \E action \in {"reject", "withdraw"} : Close(l, s, key, action, revision, now)
    BY <1>2 DEF Negotiate
  <2>2. \A pair \in Pairs : /\ pair[1] \in Subjects /\ pair[2] \in Subjects
                            /\ pair[1] # pair[2]
    BY LoanAssumption DEF Pairs, Subjects
  <2>. QED
    BY <1>1, <2>1, <2>2, CreateKeepsTalk, CounterKeepsTalk, AcceptKeepsTalk, CloseKeepsTalk
<1>3. ASSUME NEW now \in Now, NEW l \in LoanIds, Service(l, now) PROVE Talk' /\ Covered
  <2>1. CASE GetLoan(l, now)
    BY <1>1, <2>1, RefreshKeepsTalk DEF GetLoan
  <2>2. CASE ~GetLoan(l, now)
    BY <1>1, <1>3, <2>2, RepayKeepsTalk DEF Service
  <2>. QED
    BY <2>1, <2>2
<1>4. ASSUME NEW now \in Now, NEW o \in ops, Retry(o, now) PROVE Talk' /\ Covered
  BY <1>1, <1>4, RefreshKeepsTalk DEF Retry, IInv, TypeOK
<1>5. ASSUME NEW now \in Now, NEW s \in Subjects, ListLoans(s, now) PROVE Talk' /\ Covered
  BY <1>1, <1>5, RefreshKeepsTalk DEF ListLoans
<1>. QED
  BY <1>2, <1>3, <1>4, <1>5, OtherKeepsTalk DEF Next

LEMMA TalkInductive == Spec => []Talk
BY InitTalks, StepTalks, Inductive, PTL DEF Spec

\* A debt exists only on the terms of the latest revision, by exactly one
\* acceptance of the party that had not proposed them (loans.py, accept_loan).
THEOREM ConsentRecorded == Spec => []ConsentedTerms
<1>1. Talk => ConsentedTerms
  BY DEF Talk
<1>. QED
  BY TalkInductive, <1>1, PTL

\* A proposal awaits the party that did not make it, and nobody else is asked.
THEOREM NoticesFollowTurn == Spec => []NoticeMatchesTurn
<1>1. Talk => NoticeMatchesTurn
  BY DEF Talk, Turn, Invited, NoticeMatchesTurn
<1>. QED
  BY TalkInductive, <1>1, PTL

\* No operation on loans takes a wallet it charges below zero.
THEOREM PayerAlwaysCovers == Spec => PayerCovers
<1>1. IInv /\ Talk /\ [Next]_vars =>
        [external' = external =>
           \A s \in Subjects : balance'[s] < balance[s] => balance'[s] >= 0]_vars
  BY StepTalks DEF Covered
<1>. QED
  BY <1>1, Inductive, TalkInductive, PTL DEF Spec, PayerCovers

-----------------------------------------------------------------------------
(* The books: repayments recorded once, and chips that only change hands.  *)

Settled(d) == d.ipaid + d.ppaid
RepaysOf(l) == {o \in ops : o.loan = l /\ o.action = "repay"}
RecordSums == \A l : MapThenSumSet(LAMBDA o : o.amount, {o \in ops : o.loan = l /\ o.action = "repay"})
                       = TotalAmount(RepaysOf(l))
ChipsAreSum == TotalChips = TotalOfBoth(balance, rewardsLeft, Subjects)

LEMMA RecordSumsHold == RecordSums
BY DEF RecordSums, RepaysOf, TotalAmount

LEMMA ChipsAreSumHolds == ChipsAreSum
BY DEF ChipsAreSum, TotalChips, TotalOfBoth

LEMMA ChipsAreSumNext == ChipsAreSum'
BY ChipsAreSumHolds, PTL

\* The operations are finitely many, with numbers for amounts, and those that
\* repay a loan add up to what its columns say.
Recorded ==
  /\ IsFiniteSet(ops) /\ \A o \in ops : o.amount \in Int
  /\ \A l \in LoanIds : TotalAmount(RepaysOf(l)) = Settled(debt[l])

Conserved == external' = external => TotalChips' = TotalChips

LEMMA InitRecorded == Init => Recorded
<1> SUFFICES ASSUME Init PROVE Recorded
  OBVIOUS
<1>1. ops = {} /\ IsFiniteSet(ops)
  BY FS_EmptySet DEF Init
<1>2. ASSUME NEW l \in LoanIds PROVE TotalAmount(RepaysOf(l)) = Settled(debt[l])
  <2>1. RepaysOf(l) = {}
    BY <1>1 DEF RepaysOf
  <2>2. debt[l] = NoDebt
    BY DEF Init
  <2>3. Settled(debt[l]) = 0
    BY <2>2 DEF Settled, NoDebt
  <2>. QED
    BY <2>1, <2>3, NoAmounts
<1>. QED
  BY <1>1, <1>2 DEF Recorded

\* An operation that is no repayment.
LEMMA StillRecorded ==
  ASSUME Recorded, NEW o, o.action # "repay", o.amount \in Int,
         ops' = ops \/ ops' = ops \cup {o},
         \A l \in LoanIds : Settled(debt'[l]) = Settled(debt[l])
  PROVE  Recorded'
<1>1. IsFiniteSet(ops') /\ \A p \in ops' : p.amount \in Int
  BY FS_AddElement DEF Recorded
<1>2. \A l : RepaysOf(l)' = RepaysOf(l)
  BY DEF RepaysOf
<1>. QED
  BY <1>1, <1>2 DEF Recorded

LEMMA AccrualSettles ==
  ASSUME NEW d \in Debts, NEW now PROVE Settled(AccrueInterest(d, now)) = Settled(d)
<1> DEFINE numerator == Accrual(d, now) + d.remainder
<1> DEFINE charged == numerator \div Denominator
<1> DEFINE e == [d EXCEPT !.accrued = @ + CapRoom(d), !.remainder = 0,
                          !.last = now, !.capReached = TRUE]
<1> DEFINE f == [d EXCEPT !.accrued = @ + charged,
                          !.remainder = numerator % Denominator, !.last = now]
<1>1. AccrueInterest(d, now) \in {d, e, f}
  BY DEF AccrueInterest
<1> HIDE DEF numerator, charged
<1>2. Settled(e) = Settled(d) /\ Settled(f) = Settled(d)
  BY DEF Debts, Settled
<1> HIDE DEF e, f
<1>. QED
  BY <1>1, <1>2

LEMMA RepaymentSettles ==
  ASSUME NEW d \in Debts, NEW amount \in Int
  PROVE  Settled(Repaid(d, amount)) = Settled(d) + amount
<1> DEFINE i == Smaller(amount, d.accrued)
           a == [d EXCEPT !.accrued = @ - i, !.ipaid = @ + i,
                          !.remaining = @ - (amount - i), !.ppaid = @ + (amount - i)]
<1>1. i \in Int
  BY DEF Smaller, Debts
<1>2. Repaid(d, amount) = a
  BY DEF Repaid
<1> HIDE DEF i
<1>3. a.ipaid = d.ipaid + i /\ a.ppaid = d.ppaid + (amount - i)
  BY DEF Debts
<1>4. d.ipaid \in Int /\ d.ppaid \in Int
  BY DEF Debts
<1> HIDE DEF a
<1>. QED
  BY <1>1, <1>2, <1>3, <1>4 DEF Settled

LEMMA RefreshSettles ==
  ASSUME IInv, NEW S \in SUBSET LoanIds, NEW now \in Times
  PROVE  \A l \in LoanIds : Settled(DebtAfter(S, now)[l]) = Settled(debt[l])
<1>1. \A l \in LoanIds : debt[l] \in Debts
  BY DEF IInv, TypeOK
<1>. QED
  BY <1>1, AccrualSettles DEF DebtAfter, RefreshedDebt

-----------------------------------------------------------------------------
\* A reward moves chips that were counted as still locked.
LEMMA SettleConserves ==
  ASSUME TypeOK, NEW paid \in [Subjects -> Int], NEW who,
         NEW grant \in Grants(who), Settle(paid, grant),
         Total(Both(paid, rewardsLeft, Subjects), Subjects)
           = Total(Both(balance, rewardsLeft, Subjects), Subjects)
  PROVE  TotalChips' = TotalChips
<1>1. \A s \in Subjects : /\ balance[s] \in Int /\ rewardsLeft[s] \in Int
                          /\ balance'[s] \in Int /\ rewardsLeft'[s] \in Int
                          /\ paid[s] \in Int /\ grant[s] \in Int
  <2>1. \A n \in 0..MaxReward : n \in Int
    BY LoanAssumption
  <2>2. /\ balance \in [Subjects -> Int] /\ rewardsLeft \in [Subjects -> 0..MaxReward]
        /\ balance' \in [Subjects -> Int] /\ rewardsLeft' \in [Subjects -> 0..MaxReward]
    BY SettledWallets DEF TypeOK
  <2>3. grant \in [Subjects -> 0..MaxReward]
    BY DEF Grants
  <2>. QED
    BY <2>1, <2>2, <2>3
<1>2. \A s \in Subjects : /\ balance'[s] = paid[s] + grant[s]
                          /\ rewardsLeft'[s] = rewardsLeft[s] - grant[s]
  BY DEF Settle
<1> DEFINE now == Both(balance, rewardsLeft, Subjects)
           mid == Both(paid, rewardsLeft, Subjects)
           later == Both(balance', rewardsLeft', Subjects)
<1>3. \A s \in Subjects : later[s] = mid[s] /\ mid[s] \in Int
  BY <1>1, <1>2 DEF Both
<1>4. Total(later, Subjects) = Total(mid, Subjects)
  <2> HIDE DEF later, mid
  <2>. QED
    BY <1>3, LoanAssumption, TotalSame
<1>5. \A s \in Subjects : /\ balance[s] + rewardsLeft[s] \in Int
                          /\ balance'[s] + rewardsLeft'[s] \in Int
  BY <1>1
<1>6. TotalOfBoth(balance, rewardsLeft, Subjects) = Total(now, Subjects)
  BY <1>5, LoanAssumption, BothAreTotal
<1>7. TotalOfBoth(balance', rewardsLeft', Subjects) = Total(later, Subjects)
  BY <1>5, LoanAssumption, BothAreTotal
<1> HIDE DEF now, mid, later
<1>8. TotalChips = Total(now, Subjects) /\ TotalChips' = Total(later, Subjects)
  BY <1>6, <1>7, ChipsAreSumHolds, ChipsAreSumNext DEF ChipsAreSum
<1>9. Total(mid, Subjects) = Total(now, Subjects)
  BY DEF mid, now
<1>. QED
  BY <1>4, <1>8, <1>9

\* A transfer takes from one purse what it puts into another.
LEMMA TransferConserves ==
  ASSUME TypeOK, NEW from \in Subjects, NEW to \in Subjects, from # to, NEW n \in Int
  PROVE  Total(Both(Transfer(from, to, n), rewardsLeft, Subjects), Subjects)
           = Total(Both(balance, rewardsLeft, Subjects), Subjects)
<1> DEFINE half == [balance EXCEPT ![from] = @ - n]
           paid == Transfer(from, to, n)
           f == Both(balance, rewardsLeft, Subjects)
           g == Both(half, rewardsLeft, Subjects)
           h == Both(paid, rewardsLeft, Subjects)
<1>1. \A s \in Subjects : balance[s] \in Int /\ rewardsLeft[s] \in Int
  <2>1. \A m \in 0..MaxReward : m \in Int
    BY LoanAssumption
  <2>. QED
    BY <2>1 DEF TypeOK
<1>2. /\ half[from] = balance[from] - n
      /\ \A s \in Subjects \ {from} : half[s] = balance[s]
  BY DEF TypeOK
<1>3. /\ paid[to] = balance[to] + n /\ paid[from] = balance[from] - n
      /\ \A s \in Subjects \ {from, to} : paid[s] = balance[s]
  BY DEF TypeOK, Transfer
<1> HIDE DEF half, paid
<1>4. /\ \A s \in Subjects : f[s] \in Int
      /\ g[from] = f[from] - n /\ g[from] \in Int
      /\ \A s \in Subjects \ {from} : g[s] = f[s]
  BY <1>1, <1>2 DEF Both
<1>5. /\ h[to] = g[to] + n /\ h[to] \in Int
      /\ \A s \in Subjects \ {to} : h[s] = g[s]
  BY <1>1, <1>2, <1>3 DEF Both
<1> HIDE DEF f, g, h
<1>6. \A s \in Subjects : g[s] \in Int
  BY <1>4
<1>7. Total(g, Subjects) = Total(f, Subjects) + g[from] - f[from]
  BY <1>4, LoanAssumption, TotalUpdate
<1>8. Total(h, Subjects) = Total(g, Subjects) + h[to] - g[to]
  BY <1>5, <1>6, LoanAssumption, TotalUpdate
<1>9. Total(f, Subjects) \in Int /\ Total(g, Subjects) \in Int
  BY <1>4, <1>6, LoanAssumption, TotalType
<1>10. Total(h, Subjects) = Total(f, Subjects)
  BY <1>4, <1>5, <1>6, <1>7, <1>8, <1>9
<1>. QED
  BY <1>10 DEF f, h, paid

LEMMA RewardsConserve ==
  ASSUME TypeOK, NEW who, \E grant \in Grants(who) : Settle(balance, grant)
  PROVE  Conserved
<1>1. balance \in [Subjects -> Int]
  BY DEF TypeOK
<1>. QED
  BY <1>1, SettleConserves DEF Conserved

LEMMA PaymentConserves ==
  ASSUME TypeOK, NEW from \in Subjects, NEW to \in Subjects, from # to, NEW n \in Int, NEW who,
         NEW grant \in Grants(who), Settle(Transfer(from, to, n), grant)
  PROVE  Conserved
<1>1. Transfer(from, to, n) \in [Subjects -> Int]
  BY TransferTyped
<1>. QED
  BY <1>1, TransferConserves, SettleConserves DEF Conserved

\* Nothing happens to the purses.
LEMMA SamePurses ==
  ASSUME UNCHANGED <<balance, rewardsLeft>> PROVE Conserved
BY ChipsAreSumHolds, ChipsAreSumNext DEF ChipsAreSum, Conserved

-----------------------------------------------------------------------------
LEMMA RefreshKeepsBooks ==
  ASSUME IInv, Recorded, NEW S \in SUBSET LoanIds, NEW now \in Times, RefreshRows(S, now)
  PROVE  Recorded' /\ Conserved
<1>1. /\ debt' = DebtAfter(S, now) /\ ops' = ops
      /\ \E grant \in Grants(EventParties(S, now)) : Settle(balance, grant)
  BY DEF RefreshRows
<1>2. \A l \in LoanIds : Settled(debt'[l]) = Settled(debt[l])
  BY <1>1, RefreshSettles
<1> DEFINE o == [action |-> "create", amount |-> 0]
<1>3. Recorded'
  <2>1. o.action # "repay" /\ o.amount \in Int
    OBVIOUS
  <2> HIDE DEF o
  <2>. QED
    BY <1>1, <1>2, <2>1, StillRecorded
<1>4. Conserved
  BY <1>1, RewardsConserve DEF IInv
<1>. QED
  BY <1>3, <1>4

LEMMA NegotiateKeepsBooks ==
  ASSUME IInv, Talk, Recorded, NEW now \in Times, NEW l \in LoanIds, NEW key,
         \/ \E pair \in Pairs : \E t \in Terms : Create(pair[1], pair[2], l, key, t, now)
         \/ \E s \in Parties(l) : \E revision \in 1..Revision(l) :
              \/ \E t \in Terms : Counter(l, s, key, revision, t, now)
              \/ Accept(l, s, key, revision, now)
              \/ \E action \in {"reject", "withdraw"} : Close(l, s, key, action, revision, now)
  PROVE  Recorded' /\ Conserved
<1>1. ASSUME NEW b, NEW lender, NEW t, Create(b, lender, l, key, t, now)
      PROVE  Recorded' /\ Conserved
  <2> DEFINE mine == {x \in LoansOf(b) : status[x] \in Open}
             o == Operation(b, key, "create", l, 1, 0)
  <2>1. mine \in SUBSET LoanIds
    BY DEF LoansOf
  <2>2. /\ debt' = DebtAfter(mine, now) /\ ops' = ops \cup {o}
        /\ \E grant \in Grants(EventParties(mine, now)) : Settle(balance, grant)
    BY <1>1 DEF Create
  <2>3. o.action # "repay" /\ o.amount \in Int
    BY DEF Operation
  <2> HIDE DEF mine, o
  <2>4. \A x \in LoanIds : Settled(debt'[x]) = Settled(debt[x])
    BY <2>1, <2>2, RefreshSettles
  <2>. QED
    BY <2>2, <2>3, <2>4, StillRecorded, RewardsConserve DEF IInv
<1>2. ASSUME NEW s, NEW revision, NEW t, Counter(l, s, key, revision, t, now)
      PROVE  Recorded' /\ Conserved
  <2> DEFINE o == Operation(s, key, "counter", l, Revision(l) + 1, 0)
  <2>1. UNCHANGED <<debt, balance, rewardsLeft>> /\ ops' = ops \cup {o}
    BY <1>2 DEF Counter
  <2>2. o.action # "repay" /\ o.amount \in Int
    BY DEF Operation
  <2> HIDE DEF o
  <2>. QED
    BY <2>1, <2>2, StillRecorded, SamePurses
<1>3. ASSUME NEW s \in Parties(l), NEW revision \in 1..Revision(l), Accept(l, s, key, revision, now)
      PROVE  Recorded' /\ Conserved
  <2> DEFINE o == Operation(s, key, "accept", l, revision, 0)
             t == offers[l][revision]
             lender == party[l].lender
             borrower == party[l].borrower
  <2>1. /\ status[l] = "negotiating" /\ debt' = [debt EXCEPT ![l] = OpenedDebt(t, now)]
        /\ ops' = ops \cup {o}
        /\ \E grant \in Grants(Parties(l)) : Settle(Transfer(lender, borrower, t.principal), grant)
    BY <1>3 DEF Accept, Negotiable
  <2>2. o.action # "repay" /\ o.amount \in Int
    BY DEF Operation
  <2>3. t.principal \in Int
    <3>1. t \in Terms
      <4>1. offers[l] \in Seq(Terms)
        BY DEF IInv, TypeOK
      <4>. QED
        BY <1>3, <4>1 DEF Revision
    <3>2. \A p \in Principals : p \in Int
      BY LoanAssumption
    <3>. QED
      BY <3>1, <3>2 DEF Terms
  <2>4. borrower \in Subjects /\ lender \in Subjects /\ borrower # lender
    BY <2>1, PartiesDiffer
  <2>5. debt[l] = NoDebt
    BY <2>1 DEF IInv, RowsOK, RowOK, Activated
  <2> HIDE DEF o, t, lender, borrower
  <2>6. \A x \in LoanIds : Settled(debt'[x]) = Settled(debt[x])
    <3>1. debt'[l] = OpenedDebt(t, now) /\ \A x \in LoanIds \ {l} : debt'[x] = debt[x]
      BY <2>1 DEF IInv, TypeOK
    <3>2. Settled(OpenedDebt(t, now)) = 0 /\ Settled(NoDebt) = 0
      BY DEF Settled, OpenedDebt, NoDebt
    <3>. QED
      BY <2>5, <3>1, <3>2
  <2>7. Recorded'
    BY <2>1, <2>2, <2>6, StillRecorded
  <2>8. Conserved
    BY <2>1, <2>3, <2>4, PaymentConserves DEF IInv
  <2>. QED
    BY <2>7, <2>8
<1>4. ASSUME NEW s, NEW revision, NEW action \in {"reject", "withdraw"},
             Close(l, s, key, action, revision, now)
      PROVE  Recorded' /\ Conserved
  <2> DEFINE o == Operation(s, key, action, l, revision, 0)
  <2>1. UNCHANGED <<debt, balance, rewardsLeft>> /\ ops' = ops \cup {o}
    BY <1>4 DEF Close
  <2>2. o.action # "repay" /\ o.amount \in Int
    BY DEF Operation
  <2> HIDE DEF o
  <2>. QED
    BY <2>1, <2>2, StillRecorded, SamePurses
<1>. QED
  BY <1>1, <1>2, <1>3, <1>4

\* A key is fresh, so the repayment is an operation not yet recorded.
LEMMA RepayKeepsBooks ==
  ASSUME IInv, Talk, Recorded, NEW now \in Times, NEW l \in LoanIds, NEW key,
         NEW s \in Parties(l), NEW amount \in 1..MaxInteger, Repay(l, s, key, amount, now)
  PROVE  Recorded' /\ Conserved
<1> DEFINE o == Operation(s, key, "repay", l, 0, amount)
           due == RefreshedDebt(l, now)
           lender == party[l].lender
<1>1. /\ IsDebt(l) /\ s = party[l].borrower /\ debt' = [debt EXCEPT ![l] = Repaid(due, amount)]
      /\ FreshKey(s, key) /\ ops' = ops \cup {o}
      /\ \E grant \in Grants(Parties(l)) : Settle(Transfer(s, lender, amount), grant)
  BY DEF Repay
<1>2. amount \in Int
  BY LoanAssumption
<1>3. /\ o.actor = s /\ o.key = key /\ o.action = "repay" /\ o.loan = l /\ o.amount = amount
  BY DEF Operation
<1>4. due \in Debts /\ Settled(due) = Settled(debt[l])
  <2>1. debt[l] \in Debts
    BY DEF IInv, TypeOK
  <2>. QED
    BY <2>1, RefreshedRow, AccrualSettles DEF RefreshedDebt
<1>5. s \in Subjects /\ lender \in Subjects /\ s # lender
  BY <1>1, PartiesDiffer DEF IsDebt
<1> HIDE DEF o, due, lender
<1>6. o \notin ops
  BY <1>1, <1>3 DEF FreshKey
<1>7. /\ debt'[l] = Repaid(due, amount)
      /\ \A x \in LoanIds \ {l} : debt'[x] = debt[x]
  BY <1>1 DEF IInv, TypeOK
<1>8. IsFiniteSet(ops') /\ \A p \in ops' : p.amount \in Int
  BY <1>1, <1>2, <1>3, FS_AddElement DEF Recorded
<1>9. RepaysOf(l)' = RepaysOf(l) \cup {o} /\ \A x : x # l => RepaysOf(x)' = RepaysOf(x)
  BY <1>1, <1>3 DEF RepaysOf
<1>10. TotalAmount(RepaysOf(l)') = Settled(debt'[l])
  <2>1. TotalAmount(RepaysOf(l) \cup {o}) = TotalAmount(RepaysOf(l)) + o.amount
    <3>1. IsFiniteSet(RepaysOf(l)) /\ o \notin RepaysOf(l)
      BY <1>6, FS_Subset DEF RepaysOf, Recorded
    <3>2. \A p \in RepaysOf(l) \cup {o} : p.amount \in Int
      BY <1>2, <1>3 DEF RepaysOf, Recorded
    <3>. QED
      BY <3>1, <3>2, AmountsGrow
  <2>2. Settled(debt'[l]) = Settled(debt[l]) + amount
    BY <1>2, <1>4, <1>7, RepaymentSettles
  <2>3. TotalAmount(RepaysOf(l)) = Settled(debt[l])
    BY DEF Recorded
  <2>. QED
    BY <1>3, <1>9, <2>1, <2>2, <2>3
<1>11. Recorded'
  BY <1>7, <1>8, <1>9, <1>10 DEF Recorded
<1>12. Conserved
  BY <1>1, <1>2, <1>5, PaymentConserves DEF IInv
<1>. QED
  BY <1>11, <1>12

LEMMA OtherKeepsBooks ==
  ASSUME IInv, Recorded,
         \/ \E s \in Subjects, loans \in {LoanIds} \cup {{l} : l \in LoanIds} :
              AckNotices(s, loans)
         \/ \E s \in Subjects, delta \in ExternalDeltas : ExternalChange(s, delta)
         \/ Tick \/ UNCHANGED vars
  PROVE  Recorded' /\ Conserved
<1>1. UNCHANGED <<debt, ops>>
  BY DEF AckNotices, ExternalChange, Tick, vars, notices
<1>2. external' = external => UNCHANGED <<balance, rewardsLeft>>
  BY DEF AckNotices, ExternalChange, Tick, vars, ledger, IInv, TypeOK
<1>3. Recorded'
  BY <1>1 DEF Recorded, RepaysOf
<1>4. Conserved
  BY <1>2, SamePurses DEF Conserved
<1>. QED
  BY <1>3, <1>4

LEMMA StepBooks == IInv /\ Talk /\ Recorded /\ [Next]_vars => Recorded' /\ Conserved
<1> SUFFICES ASSUME IInv, Talk, Recorded, [Next]_vars PROVE Recorded' /\ Conserved
  OBVIOUS
<1>1. Now \subseteq Times
  BY DEF Now
<1>2. ASSUME NEW now \in Now, NEW l \in LoanIds, Negotiate(l, now) PROVE Recorded' /\ Conserved
  BY <1>1, <1>2, NegotiateKeepsBooks DEF Negotiate
<1>3. ASSUME NEW now \in Now, NEW l \in LoanIds, Service(l, now) PROVE Recorded' /\ Conserved
  <2>1. CASE GetLoan(l, now)
    BY <1>1, <2>1, RefreshKeepsBooks DEF GetLoan
  <2>2. CASE ~GetLoan(l, now)
    BY <1>1, <1>3, <2>2, RepayKeepsBooks DEF Service
  <2>. QED
    BY <2>1, <2>2
<1>4. ASSUME NEW now \in Now, NEW o \in ops, Retry(o, now) PROVE Recorded' /\ Conserved
  BY <1>1, <1>4, RefreshKeepsBooks DEF Retry, IInv, TypeOK
<1>5. ASSUME NEW now \in Now, NEW s \in Subjects, ListLoans(s, now) PROVE Recorded' /\ Conserved
  BY <1>1, <1>5, RefreshKeepsBooks DEF ListLoans
<1>. QED
  BY <1>2, <1>3, <1>4, <1>5, OtherKeepsBooks DEF Next

LEMMA RecordedInductive == Spec => []Recorded
BY InitRecorded, StepBooks, Inductive, TalkInductive, PTL DEF Spec

\* The repayments a loan recorded add up to what its columns say was paid,
\* however often a request is sent again (loans.py, repay_loan).
THEOREM RepaymentsAddUp == Spec => []RepaymentsRecorded
<1>1. Recorded => RepaymentsRecorded
  BY RecordSumsHold DEF Recorded, RepaymentsRecorded, RecordSums, Settled
<1>. QED
  BY <1>1, RecordedInductive, PTL

\* Loans only move chips and pay what achievements still owe: none is made or
\* lost, over all wallets together.
THEOREM ChipsAreConserved == Spec => ChipsConserved
<1>1. IInv /\ Talk /\ Recorded /\ [Next]_vars =>
        [external' = external => TotalChips' = TotalChips]_vars
  BY StepBooks DEF Conserved
<1>. QED
  BY <1>1, Inductive, TalkInductive, RecordedInductive, PTL DEF Spec, ChipsConserved
=============================================================================
