---------------------------- MODULE ServicesProofs ---------------------------
(***************************************************************************)
(* Proofs about the services of MCServices, for every value of their       *)
(* constants: the purse, the takeover and the notices as they are          *)
(* instantiated there, the exchanges on their own specification, and the   *)
(* long waits from the theorems of WaitsProofs.                            *)
(***************************************************************************)
EXTENDS MCServices, SumLemmas

-----------------------------------------------------------------------------
(* The purse: the ledger explains every wallet, a table is settled whole,   *)
(* and what is unlocked is what the permanent facts prove, whatever rooms   *)
(* end, loans, check-ins, bankruptcies and restarts there are and in which  *)
(* order.  Each fold over rewards, subjects, pairs or rooms is shown to be  *)
(* one step after another; facts are only ever added, and all metrics but   *)
(* those of Lapsed only grow with them.                                     *)

-----------------------------------------------------------------------------
(* The folds.                                                              *)

\* Rewards are booked one after another.
RewardsSteps(d, g, D) ==
  g = [s \in D |-> IF s = {} THEN d ELSE Till!Unlocked(g[s \ {Picked(s)}], Picked(s)[1], Picked(s)[2], Picked(s)[3])]

LEMMA RewardsExist ==
  ASSUME NEW d, NEW S, IsFiniteSet(S)
  PROVE  \E g : RewardsSteps(d, g, SUBSET S)
<1> DEFINE N == {n \in Nat : \E g : RewardsSteps(d, g, Upto(S, n))}
<1>1. 0 \in N
  <2> DEFINE g == [s \in Upto(S, 0) |-> d]
  <2>1. \A s \in Upto(S, 0) : s = {}
    BY FS_Subset, FS_CardinalityType, FS_EmptySet DEF Upto
  <2>2. RewardsSteps(d, g, Upto(S, 0))
    BY <2>1 DEF RewardsSteps
  <2>. QED
    BY <2>2
<1>2. ASSUME NEW n \in N PROVE n + 1 \in N
  <2>1. PICK g : RewardsSteps(d, g, Upto(S, n))
    OBVIOUS
  <2> DEFINE h == [s \in Upto(S, n + 1) |->
                     IF s = {} THEN d ELSE Till!Unlocked(g[s \ {Picked(s)}], Picked(s)[1], Picked(s)[2], Picked(s)[3])]
  <2>2. ASSUME NEW s \in Upto(S, n + 1), s # {}
        PROVE  s \ {Picked(s)} \in Upto(S, n)
    BY <2>2, PickedLess DEF Upto
  <2>3. ASSUME NEW s \in Upto(S, n) PROVE s \in Upto(S, n + 1) /\ h[s] = g[s]
    <3>1. s \in Upto(S, n + 1)
      BY FS_Subset, FS_CardinalityType DEF Upto
    <3>2. g[s] = IF s = {} THEN d ELSE Till!Unlocked(g[s \ {Picked(s)}], Picked(s)[1], Picked(s)[2], Picked(s)[3])
      BY <2>1, Zenon DEF RewardsSteps
    <3>. QED
      BY <3>1, <3>2
  <2>4. RewardsSteps(d, h, Upto(S, n + 1))
    <3>1. \A s \in Upto(S, n + 1) :
            h[s] = IF s = {} THEN d ELSE Till!Unlocked(h[s \ {Picked(s)}], Picked(s)[1], Picked(s)[2], Picked(s)[3])
      BY <2>2, <2>3
    <3>. QED
      BY <3>1, Zenon DEF RewardsSteps
  <2>5. \E e : RewardsSteps(d, e, Upto(S, n + 1))
    <3> HIDE DEF h
    <3>. QED
      BY <2>4
  <2>6. n + 1 \in Nat
    OBVIOUS
  <2>. QED
    BY <2>5, <2>6
<1>3. N = Nat
  BY <1>1, <1>2, SetInduction
<1>4. Cardinality(S) \in N /\ Upto(S, Cardinality(S)) = SUBSET S
  BY <1>3, FS_CardinalityType, FS_Subset DEF Upto
<1>. QED
  BY <1>4

LEMMA RewardsIs ==
  ASSUME NEW d, NEW S, IsFiniteSet(S)
  PROVE  \E g : RewardsSteps(d, g, SUBSET S) /\ Till!UnlockedAll(d, S) = g[S]
<1> DEFINE Def(g) == g = [s \in SUBSET S |->
                            IF s = {} THEN d ELSE Till!Unlocked(g[s \ {Picked(s)}], Picked(s)[1], Picked(s)[2], Picked(s)[3])]
           it == CHOOSE g : Def(g)
<1>1. \A g : Def(g) <=> RewardsSteps(d, g, SUBSET S)
  BY Zenon DEF RewardsSteps
<1>2. \E g : Def(g)
  <2> HIDE DEF Def
  <2>. QED
    BY <1>1, RewardsExist
<1>3. Def(it)
  <2> HIDE DEF Def
  <2>. QED
    BY <1>2
<1>4. Till!UnlockedAll(d, S) = it[S]
  BY DEF Till!UnlockedAll, Till!FoldSet, Till!MapThenFoldSet, Picked
<1>. QED
  <2> HIDE DEF it, Def
  <2>. QED
    BY <1>1, <1>3, <1>4

\* Subjects are evaluated one after another.
JudgedSteps(d, g, D) ==
  g = [s \in D |-> IF s = {} THEN d ELSE Till!Evaluated(g[s \ {Picked(s)}], Picked(s))]

LEMMA JudgedExist ==
  ASSUME NEW d, NEW S, IsFiniteSet(S)
  PROVE  \E g : JudgedSteps(d, g, SUBSET S)
<1> DEFINE N == {n \in Nat : \E g : JudgedSteps(d, g, Upto(S, n))}
<1>1. 0 \in N
  <2> DEFINE g == [s \in Upto(S, 0) |-> d]
  <2>1. \A s \in Upto(S, 0) : s = {}
    BY FS_Subset, FS_CardinalityType, FS_EmptySet DEF Upto
  <2>2. JudgedSteps(d, g, Upto(S, 0))
    BY <2>1 DEF JudgedSteps
  <2>. QED
    BY <2>2
<1>2. ASSUME NEW n \in N PROVE n + 1 \in N
  <2>1. PICK g : JudgedSteps(d, g, Upto(S, n))
    OBVIOUS
  <2> DEFINE h == [s \in Upto(S, n + 1) |->
                     IF s = {} THEN d ELSE Till!Evaluated(g[s \ {Picked(s)}], Picked(s))]
  <2>2. ASSUME NEW s \in Upto(S, n + 1), s # {}
        PROVE  s \ {Picked(s)} \in Upto(S, n)
    BY <2>2, PickedLess DEF Upto
  <2>3. ASSUME NEW s \in Upto(S, n) PROVE s \in Upto(S, n + 1) /\ h[s] = g[s]
    <3>1. s \in Upto(S, n + 1)
      BY FS_Subset, FS_CardinalityType DEF Upto
    <3>2. g[s] = IF s = {} THEN d ELSE Till!Evaluated(g[s \ {Picked(s)}], Picked(s))
      BY <2>1, Zenon DEF JudgedSteps
    <3>. QED
      BY <3>1, <3>2
  <2>4. JudgedSteps(d, h, Upto(S, n + 1))
    <3>1. \A s \in Upto(S, n + 1) :
            h[s] = IF s = {} THEN d ELSE Till!Evaluated(h[s \ {Picked(s)}], Picked(s))
      BY <2>2, <2>3
    <3>. QED
      BY <3>1, Zenon DEF JudgedSteps
  <2>5. \E e : JudgedSteps(d, e, Upto(S, n + 1))
    <3> HIDE DEF h
    <3>. QED
      BY <2>4
  <2>6. n + 1 \in Nat
    OBVIOUS
  <2>. QED
    BY <2>5, <2>6
<1>3. N = Nat
  BY <1>1, <1>2, SetInduction
<1>4. Cardinality(S) \in N /\ Upto(S, Cardinality(S)) = SUBSET S
  BY <1>3, FS_CardinalityType, FS_Subset DEF Upto
<1>. QED
  BY <1>4

LEMMA JudgedIs ==
  ASSUME NEW d, NEW S, IsFiniteSet(S)
  PROVE  \E g : JudgedSteps(d, g, SUBSET S) /\ Till!EvaluatedAll(d, S) = g[S]
<1> DEFINE Def(g) == g = [s \in SUBSET S |->
                            IF s = {} THEN d ELSE Till!Evaluated(g[s \ {Picked(s)}], Picked(s))]
           it == CHOOSE g : Def(g)
<1>1. \A g : Def(g) <=> JudgedSteps(d, g, SUBSET S)
  BY Zenon DEF JudgedSteps
<1>2. \E g : Def(g)
  <2> HIDE DEF Def
  <2>. QED
    BY <1>1, JudgedExist
<1>3. Def(it)
  <2> HIDE DEF Def
  <2>. QED
    BY <1>2
<1>4. Till!EvaluatedAll(d, S) = it[S]
  BY DEF Till!EvaluatedAll, Till!FoldSet, Till!MapThenFoldSet, Picked
<1>. QED
  <2> HIDE DEF it, Def
  <2>. QED
    BY <1>1, <1>3, <1>4

\* Pairs are evaluated one after another.
PairsSteps(d, g, D) ==
  g = [s \in D |-> IF s = {} THEN d ELSE Till!EvaluatedPair(g[s \ {Picked(s)}], Picked(s)[1], Picked(s)[2])]

LEMMA PairsExist ==
  ASSUME NEW d, NEW S, IsFiniteSet(S)
  PROVE  \E g : PairsSteps(d, g, SUBSET S)
<1> DEFINE N == {n \in Nat : \E g : PairsSteps(d, g, Upto(S, n))}
<1>1. 0 \in N
  <2> DEFINE g == [s \in Upto(S, 0) |-> d]
  <2>1. \A s \in Upto(S, 0) : s = {}
    BY FS_Subset, FS_CardinalityType, FS_EmptySet DEF Upto
  <2>2. PairsSteps(d, g, Upto(S, 0))
    BY <2>1 DEF PairsSteps
  <2>. QED
    BY <2>2
<1>2. ASSUME NEW n \in N PROVE n + 1 \in N
  <2>1. PICK g : PairsSteps(d, g, Upto(S, n))
    OBVIOUS
  <2> DEFINE h == [s \in Upto(S, n + 1) |->
                     IF s = {} THEN d ELSE Till!EvaluatedPair(g[s \ {Picked(s)}], Picked(s)[1], Picked(s)[2])]
  <2>2. ASSUME NEW s \in Upto(S, n + 1), s # {}
        PROVE  s \ {Picked(s)} \in Upto(S, n)
    BY <2>2, PickedLess DEF Upto
  <2>3. ASSUME NEW s \in Upto(S, n) PROVE s \in Upto(S, n + 1) /\ h[s] = g[s]
    <3>1. s \in Upto(S, n + 1)
      BY FS_Subset, FS_CardinalityType DEF Upto
    <3>2. g[s] = IF s = {} THEN d ELSE Till!EvaluatedPair(g[s \ {Picked(s)}], Picked(s)[1], Picked(s)[2])
      BY <2>1, Zenon DEF PairsSteps
    <3>. QED
      BY <3>1, <3>2
  <2>4. PairsSteps(d, h, Upto(S, n + 1))
    <3>1. \A s \in Upto(S, n + 1) :
            h[s] = IF s = {} THEN d ELSE Till!EvaluatedPair(h[s \ {Picked(s)}], Picked(s)[1], Picked(s)[2])
      BY <2>2, <2>3
    <3>. QED
      BY <3>1, Zenon DEF PairsSteps
  <2>5. \E e : PairsSteps(d, e, Upto(S, n + 1))
    <3> HIDE DEF h
    <3>. QED
      BY <2>4
  <2>6. n + 1 \in Nat
    OBVIOUS
  <2>. QED
    BY <2>5, <2>6
<1>3. N = Nat
  BY <1>1, <1>2, SetInduction
<1>4. Cardinality(S) \in N /\ Upto(S, Cardinality(S)) = SUBSET S
  BY <1>3, FS_CardinalityType, FS_Subset DEF Upto
<1>. QED
  BY <1>4

LEMMA PairsIs ==
  ASSUME NEW d, NEW S, IsFiniteSet(S)
  PROVE  \E g : PairsSteps(d, g, SUBSET S) /\ Till!EvaluatedPairs(d, S) = g[S]
<1> DEFINE Def(g) == g = [s \in SUBSET S |->
                            IF s = {} THEN d ELSE Till!EvaluatedPair(g[s \ {Picked(s)}], Picked(s)[1], Picked(s)[2])]
           it == CHOOSE g : Def(g)
<1>1. \A g : Def(g) <=> PairsSteps(d, g, SUBSET S)
  BY Zenon DEF PairsSteps
<1>2. \E g : Def(g)
  <2> HIDE DEF Def
  <2>. QED
    BY <1>1, PairsExist
<1>3. Def(it)
  <2> HIDE DEF Def
  <2>. QED
    BY <1>2
<1>4. Till!EvaluatedPairs(d, S) = it[S]
  BY DEF Till!EvaluatedPairs, Till!FoldSet, Till!MapThenFoldSet, Picked
<1>. QED
  <2> HIDE DEF it, Def
  <2>. QED
    BY <1>1, <1>3, <1>4

-----------------------------------------------------------------------------
(* One wallet and its ledger.                                              *)

Contexts == {Till!Global} \cup (Owners \X Machines)
CallKinds == {"exchange_settlement", "loan_repaid", "loan_partial_repayment"}

OpeningLine == <<"wallet_opened">>
RewardKeys == {Till!RewardKey(id, context) : id \in Till!Catalogue, context \in Contexts}
CallKeys == CallKinds \X Nat
LoanKeys == {"loan_principal"} \X Nat
RoomKeys == {"duel_settlement"} \X RoomIds
DayKeys == {"daily_check_in"} \X Int
OtherKeys == CallKeys \cup LoanKeys \cup RoomKeys \cup DayKeys

WalletRows == [open : BOOLEAN, balance : Int, bankruptcies : Nat, badge : BOOLEAN]
LineKeys == {OpeningLine, Till!ResetLine} \cup RewardKeys \cup OtherKeys
LineRows == [key : LineKeys, amount : Int, after : Int]

Resets(l) == {i \in 1..Len(l) : l[i].key = Till!ResetLine}
WholeAfter(l, i) == \E j \in (i + 1)..Len(l) : l[j].after >= InitialBalance

\* Each line starts from the one before it.
Chained(l) ==
  \A i \in 1..Len(l) : l[i].after = (IF i = 1 THEN 0 ELSE l[i - 1].after) + l[i].amount

\* The badge stays until the balance has been whole again.
Badged(l) == \E i \in Resets(l) : ~WholeAfter(l, i) /\ \A j \in Resets(l) : j <= i

Unrepeated(l) == \A i, j \in 1..Len(l) : l[i].key = l[j].key /\ l[i].key # Till!ResetLine => i = j

\* What a wallet and its ledger have to do with each other.
Account(w, l) ==
  /\ w \in WalletRows /\ l \in Seq(LineRows)
  /\ Chained(l) /\ Unrepeated(l)
  /\ w.open => Len(l) > 0 /\ w.balance = l[Len(l)].after /\ l[1].key = OpeningLine
  /\ ~w.open => w = Till!NoWallet /\ l = <<>>
  /\ w.bankruptcies = Cardinality(Resets(l))
  /\ w.badge <=> Badged(l)

\* Keys of different kinds differ.
LEMMA KeysDiffer ==
  /\ OpeningLine # Till!ResetLine
  /\ \A k \in RewardKeys \cup OtherKeys : k # OpeningLine /\ k # Till!ResetLine
  /\ \A k \in RewardKeys : k \notin OtherKeys
  BY DEF OpeningLine, Till!ResetLine, RewardKeys, Till!RewardKey, OtherKeys, CallKeys, LoanKeys, RoomKeys,
         DayKeys

LEMMA OpeningAccount ==
  ASSUME NEW w, w = [open |-> TRUE, balance |-> InitialBalance, bankruptcies |-> 0, badge |-> FALSE],
         NEW l, l = <<Till!Line(OpeningLine, InitialBalance, InitialBalance)>>
  PROVE  Account(w, l)
<1>1. /\ w \in WalletRows /\ w.open /\ w.balance = InitialBalance /\ w.bankruptcies = 0
      /\ ~w.badge
  BY PurseAssumption DEF WalletRows
<1>2. Till!Line(OpeningLine, InitialBalance, InitialBalance) \in LineRows
  BY PurseAssumption DEF Till!Line, LineRows, LineKeys
<1>3. Len(l) = 1 /\ l \in Seq(LineRows) /\ l[1] = Till!Line(OpeningLine, InitialBalance, InitialBalance)
  BY <1>2
<1>4. Resets(l) = {}
  BY <1>3, KeysDiffer DEF Resets, Till!Line
<1>5. Cardinality(Resets(l)) = 0
  BY <1>4, FS_EmptySet
<1>6. ~Badged(l) /\ Chained(l) /\ Unrepeated(l)
  BY <1>3, <1>4, PurseAssumption DEF Badged, Chained, Unrepeated, Till!Line
<1>7. l[Len(l)].after = InitialBalance /\ l[1].key = OpeningLine
  BY <1>3 DEF Till!Line
<1>. QED
  BY <1>1, <1>3, <1>5, <1>6, <1>7 DEF Account

\* A line with a key of its own.
LEMMA BookingAccount ==
  ASSUME NEW w, NEW l, Account(w, l), w.open,
         NEW chips \in Int, NEW key \in RewardKeys \cup OtherKeys,
         \A i \in 1..Len(l) : l[i].key # key,
         NEW after, after = w.balance + chips,
         NEW v, v = [w EXCEPT !.balance = after, !.badge = w.badge /\ after < InitialBalance],
         NEW m, m = Append(l, Till!Line(key, chips, after))
  PROVE  Account(v, m)
<1>1. /\ w \in WalletRows /\ l \in Seq(LineRows) /\ Len(l) \in Nat /\ Len(l) > 0
      /\ w.balance = l[Len(l)].after
  BY DEF Account
<1>2. after \in Int /\ v \in WalletRows /\ v.open /\ v.balance = after
      /\ v.bankruptcies = w.bankruptcies /\ (v.badge <=> w.badge /\ after < InitialBalance)
  <2>1. w.balance \in Int /\ after \in Int
    BY <1>1 DEF WalletRows
  <2>2. /\ v.open = w.open /\ v.balance = after /\ v.bankruptcies = w.bankruptcies
        /\ v.badge = (w.badge /\ after < InitialBalance)
    BY <1>1 DEF WalletRows
  <2>3. v \in WalletRows
    BY <1>1, <2>1, Zenon DEF WalletRows
  <2>. QED
    BY <2>1, <2>2, <2>3
<1>3. Till!Line(key, chips, after) \in LineRows
  BY <1>2 DEF Till!Line, LineRows, LineKeys
<1>4. /\ m \in Seq(LineRows) /\ Len(m) = Len(l) + 1
      /\ \A i \in 1..Len(l) : m[i] = l[i]
      /\ m[Len(m)] = Till!Line(key, chips, after)
  BY <1>1, <1>3
<1>5. Resets(m) = Resets(l)
  BY <1>1, <1>4, KeysDiffer DEF Resets, Till!Line
<1>6. Chained(m)
  <2>1. \A i \in 1..Len(l) : l[i].after = (IF i = 1 THEN 0 ELSE l[i - 1].after) + l[i].amount
    BY DEF Account, Chained
  <2>2. ASSUME NEW i \in 1..Len(m)
        PROVE  m[i].after = (IF i = 1 THEN 0 ELSE m[i - 1].after) + m[i].amount
    <3>1. CASE i \in 1..Len(l)
      BY <1>1, <1>4, <2>1, <3>1
    <3>2. CASE i = Len(m)
      BY <1>1, <1>4, <3>2 DEF Till!Line
    <3>. QED
      BY <1>1, <1>4, <3>1, <3>2
  <2>. QED
    BY <2>2 DEF Chained
<1>7. Unrepeated(m)
  BY <1>1, <1>4 DEF Account, Unrepeated, Till!Line
<1>8. v.badge <=> Badged(m)
  <2>1. \A i \in Resets(l) : WholeAfter(m, i) <=> WholeAfter(l, i) \/ after >= InitialBalance
    BY <1>1, <1>4 DEF WholeAfter, Resets, Till!Line
  <2>2. Badged(m) <=> Badged(l) /\ ~(after >= InitialBalance)
    BY <1>5, <2>1 DEF Badged
  <2>. QED
    BY <1>2, <2>2, PurseAssumption DEF Account
<1>9. m[1].key = OpeningLine
  BY <1>1, <1>4 DEF Account
<1>. QED
  BY <1>2, <1>4, <1>5, <1>6, <1>7, <1>8, <1>9 DEF Account, Till!Line

\* A bankruptcy.
LEMMA ResetAccount ==
  ASSUME NEW w, NEW l, Account(w, l), w.open,
         NEW v, v = [w EXCEPT !.balance = ResetBalance, !.bankruptcies = w.bankruptcies + 1,
                              !.badge = TRUE],
         NEW m, m = Append(l, Till!Line(Till!ResetLine, ResetBalance - w.balance, ResetBalance))
  PROVE  Account(v, m)
<1>1. /\ w \in WalletRows /\ l \in Seq(LineRows) /\ Len(l) \in Nat /\ Len(l) > 0
      /\ w.balance = l[Len(l)].after /\ w.balance \in Int /\ w.bankruptcies \in Nat
      /\ w.bankruptcies = Cardinality(Resets(l))
  BY DEF Account, WalletRows
<1>2. /\ v \in WalletRows /\ v.open /\ v.balance = ResetBalance
      /\ v.bankruptcies = w.bankruptcies + 1 /\ v.badge
  <2>1. w.bankruptcies + 1 \in Nat /\ ResetBalance \in Int
    BY <1>1, PurseAssumption
  <2>2. v.open = w.open /\ v.balance = ResetBalance /\ v.bankruptcies = w.bankruptcies + 1 /\ v.badge
    BY <1>1 DEF WalletRows
  <2>3. v \in WalletRows
    BY <1>1, <2>1, Zenon DEF WalletRows
  <2>. QED
    BY <2>2, <2>3
<1>3. Till!Line(Till!ResetLine, ResetBalance - w.balance, ResetBalance) \in LineRows
  BY <1>1, PurseAssumption DEF Till!Line, LineRows, LineKeys
<1>4. /\ m \in Seq(LineRows) /\ Len(m) = Len(l) + 1
      /\ \A i \in 1..Len(l) : m[i] = l[i]
      /\ m[Len(m)] = Till!Line(Till!ResetLine, ResetBalance - w.balance, ResetBalance)
  BY <1>1, <1>3
<1>5. Resets(m) = Resets(l) \cup {Len(m)} /\ Len(m) \notin Resets(l)
  BY <1>1, <1>4 DEF Resets, Till!Line
<1>6. Cardinality(Resets(m)) = w.bankruptcies + 1
  <2>1. IsFiniteSet(Resets(l))
    <3>1. IsFiniteSet(1..Len(l))
      <4>1. Len(l) \in Int /\ 1 \in Int
        BY <1>1
      <4>. QED
        BY <4>1, FS_Interval
    <3>2. Resets(l) \subseteq 1..Len(l)
      BY DEF Resets
    <3>. QED
      BY <3>1, <3>2, FS_Subset
  <2>. QED
    BY <1>1, <1>5, <2>1, FS_AddElement
<1>7. Chained(m)
  <2>1. \A i \in 1..Len(l) : l[i].after = (IF i = 1 THEN 0 ELSE l[i - 1].after) + l[i].amount
    BY DEF Account, Chained
  <2>2. ASSUME NEW i \in 1..Len(m)
        PROVE  m[i].after = (IF i = 1 THEN 0 ELSE m[i - 1].after) + m[i].amount
    <3>1. CASE i \in 1..Len(l)
      BY <1>1, <1>4, <2>1, <3>1
    <3>2. CASE i = Len(m)
      BY <1>1, <1>4, <3>2, PurseAssumption DEF Till!Line
    <3>. QED
      BY <1>1, <1>4, <3>1, <3>2
  <2>. QED
    BY <2>2 DEF Chained
<1>8. Unrepeated(m)
  BY <1>1, <1>4 DEF Account, Unrepeated, Till!Line
<1>9. Badged(m)
  <2>1. Len(m) \in Resets(m) /\ \A j \in Resets(m) : j <= Len(m)
    BY <1>1, <1>4, <1>5 DEF Resets
  <2>2. ~WholeAfter(m, Len(m))
    BY <1>1, <1>4 DEF WholeAfter
  <2>. QED
    BY <2>1, <2>2 DEF Badged
<1>10. m[1].key = OpeningLine
  BY <1>1, <1>4 DEF Account
<1>. QED
  BY <1>2, <1>4, <1>6, <1>7, <1>8, <1>9, <1>10 DEF Account, Till!Line

-----------------------------------------------------------------------------
(* The database.                                                           *)

Shaped(d) ==
  d = [wallet |-> d.wallet, ledger |-> d.ledger, batches |-> d.batches, rooms |-> d.rooms,
       openings |-> d.openings, matches |-> d.matches, events |-> d.events,
       loanFacts |-> d.loanFacts, debts |-> d.debts, lent |-> d.lent,
       unlocked |-> d.unlocked, pairs |-> d.pairs]

Db(d) ==
  /\ Shaped(d)
  /\ d.wallet \in [Till!Subjects -> WalletRows] /\ d.ledger \in [Till!Subjects -> Seq(LineRows)]

Held(l, key) == \E i \in 1..Len(l) : l[i].key = key
Values(l, key) == {l[i].amount : i \in {i \in 1..Len(l) : l[i].key = key}}

\* A reward was booked when its achievement was unlocked.
Rewarded(d) ==
  \A s \in Till!Subjects, id \in Till!Catalogue, context \in Contexts :
    Rewards[id] > 0 => (<<s, id, context>> \in d.unlocked <=> Held(d.ledger[s], Till!RewardKey(id, context)))

Fine(d) ==
  /\ Db(d) /\ Rewarded(d)
  /\ \A s \in Till!Subjects : Account(d.wallet[s], d.ledger[s])

Falls(d) == {e \in d.events : e.type = "bankruptcy"}

\* What openings, rewards and facts leave as it was.
SameRooms(d, e) == e.batches = d.batches /\ e.rooms = d.rooms /\ e.lent = d.lent
Same(d, e) ==
  /\ SameRooms(d, e) /\ Falls(e) = Falls(d) /\ d.unlocked \subseteq e.unlocked
  /\ \A s \in Till!Subjects : e.wallet[s].bankruptcies = d.wallet[s].bankruptcies
  /\ \A s \in Till!Subjects, key \in OtherKeys : Values(e.ledger[s], key) = Values(d.ledger[s], key)

Untouched(d, e, S) ==
  \A p \in Till!Subjects \ S : e.wallet[p] = d.wallet[p] /\ e.ledger[p] = d.ledger[p]

\* The fields beside wallets and ledgers.
SameFacts(d, e) ==
  /\ SameRooms(d, e)
  /\ e.openings = d.openings /\ e.matches = d.matches /\ e.events = d.events
  /\ e.loanFacts = d.loanFacts /\ e.debts = d.debts /\ e.unlocked = d.unlocked
  /\ e.pairs = d.pairs

SameEvidence(d, e) ==
  e.matches = d.matches /\ e.events = d.events /\ e.loanFacts = d.loanFacts /\ e.pairs = d.pairs

LEMMA SameItself == \A d, S : Same(d, d) /\ Untouched(d, d, S)
  BY DEF Same, SameRooms, Untouched

LEMMA SameThrough ==
  ASSUME NEW d, NEW e, NEW f, Same(d, e), Same(e, f)
  PROVE  Same(d, f)
  BY DEF Same, SameRooms

LEMMA UntouchedThrough ==
  ASSUME NEW d, NEW e, NEW f, NEW S, Untouched(d, e, S), Untouched(e, f, S)
  PROVE  Untouched(d, f, S)
  BY DEF Untouched

LEMMA HeldValues ==
  ASSUME NEW l, NEW key
  PROVE  Held(l, key) <=> Values(l, key) # {}
  BY DEF Held, Values

LEMMA LineHeld ==
  ASSUME NEW d, Db(d), NEW s \in Till!Subjects, NEW key
  PROVE  Till!Holds(d, s, key) <=> Held(d.ledger[s], key)
<1>1. DOMAIN d.ledger[s] = 1..Len(d.ledger[s])
  BY DEF Db
<1>. QED
  BY <1>1 DEF Till!Holds, Held

\* What a line adds.
Added(l, m, x) ==
  /\ \A key : Held(m, key) <=> (Held(l, key) \/ key = x.key)
  /\ \A key : key # x.key => Values(m, key) = Values(l, key)
  /\ Values(m, x.key) = Values(l, x.key) \cup {x.amount}

LEMMA AppendedLine ==
  ASSUME NEW l \in Seq(LineRows), NEW x \in LineRows, NEW m, m = Append(l, x)
  PROVE  Added(l, m, x)
<1>1. /\ Len(l) \in Nat /\ Len(m) = Len(l) + 1
      /\ \A i \in 1..Len(l) : m[i] = l[i]
      /\ m[Len(m)] = x
  OBVIOUS
<1>2. \A i : i \in 1..Len(m) <=> i \in 1..Len(l) \/ i = Len(m)
  BY <1>1
<1>3. ASSUME NEW key PROVE Held(m, key) <=> Held(l, key) \/ key = x.key
  BY <1>1, <1>2 DEF Held
<1>4. ASSUME NEW key, key # x.key PROVE Values(m, key) = Values(l, key)
  <2>1. {i \in 1..Len(m) : m[i].key = key} = {i \in 1..Len(l) : l[i].key = key}
    BY <1>1, <1>2, <1>4
  <2>. QED
    BY <1>1, <2>1 DEF Values
<1>5. Values(m, x.key) = Values(l, x.key) \cup {x.amount}
  <2>1. {i \in 1..Len(m) : m[i].key = x.key} = {i \in 1..Len(l) : l[i].key = x.key} \cup {Len(m)}
    BY <1>1, <1>2
  <2>. QED
    BY <1>1, <2>1 DEF Values
<1>. QED
  BY <1>3, <1>4, <1>5, Zenon DEF Added

\* A wallet and its ledger are written.
Wrote(d, e, s, w, l) ==
  /\ Shaped(e) /\ SameFacts(d, e)
  /\ e.wallet = [d.wallet EXCEPT ![s] = w] /\ e.ledger = [d.ledger EXCEPT ![s] = l]

LEMMA WroteDb ==
  ASSUME NEW d, NEW e, NEW s \in Till!Subjects, NEW w, NEW l,
         Db(d), Wrote(d, e, s, w, l), Account(w, l)
  PROVE  /\ Db(e) /\ Untouched(d, e, {s})
         /\ e.wallet[s] = w /\ e.ledger[s] = l
         /\ (\A p \in Till!Subjects : Account(d.wallet[p], d.ledger[p]))
              => \A p \in Till!Subjects : Account(e.wallet[p], e.ledger[p])
<1>1. w \in WalletRows /\ l \in Seq(LineRows)
  BY DEF Account
<1>2. /\ e.wallet[s] = w /\ e.ledger[s] = l
      /\ \A p \in Till!Subjects \ {s} : e.wallet[p] = d.wallet[p] /\ e.ledger[p] = d.ledger[p]
  BY DEF Db, Wrote
<1>3. e.wallet \in [Till!Subjects -> WalletRows] /\ e.ledger \in [Till!Subjects -> Seq(LineRows)]
  BY <1>1 DEF Db, Wrote
<1>. QED
  BY <1>2, <1>3 DEF Db, Wrote, Untouched

LEMMA OpenedWrites ==
  ASSUME NEW d, Db(d), NEW s \in Till!Subjects, ~d.wallet[s].open, d.ledger[s] = <<>>
  PROVE  Wrote(d, Till!Opened(d, s), s,
               [open |-> TRUE, balance |-> InitialBalance, bankruptcies |-> 0, badge |-> FALSE],
               <<Till!Line(OpeningLine, InitialBalance, InitialBalance)>>)
<1> DEFINE w == [open |-> TRUE, balance |-> InitialBalance, bankruptcies |-> 0, badge |-> FALSE]
           e == Till!Opened(d, s)
<1>2. e = Till!Noted([d EXCEPT !.wallet[s] = w], s, OpeningLine, InitialBalance, InitialBalance)
  BY DEF Till!Opened, OpeningLine
<1> HIDE DEF w, e
<1>3. e = [d EXCEPT !.wallet[s] = w,
                    !.ledger[s] = Append(d.ledger[s], Till!Line(OpeningLine, InitialBalance, InitialBalance))]
  BY <1>2 DEF Till!Noted, Db, Shaped
<1>4. Append(<<>>, Till!Line(OpeningLine, InitialBalance, InitialBalance))
        = <<Till!Line(OpeningLine, InitialBalance, InitialBalance)>>
  OBVIOUS
<1>5. Wrote(d, e, s, w, <<Till!Line(OpeningLine, InitialBalance, InitialBalance)>>)
  BY <1>3, <1>4 DEF Wrote, Db, Shaped, SameFacts, SameRooms
<1>. QED
  BY <1>5 DEF w, e

LEMMA BookedWrites ==
  ASSUME NEW d, Db(d), NEW s \in Till!Subjects, NEW chips, NEW key, NEW after,
         after = d.wallet[s].balance + chips
  PROVE  Wrote(d, Till!Booked(d, s, chips, key), s,
               [d.wallet[s] EXCEPT !.balance = after,
                                   !.badge = d.wallet[s].badge /\ after < InitialBalance],
               Append(d.ledger[s], Till!Line(key, chips, after)))
<1> DEFINE w == [d.wallet[s] EXCEPT !.balance = after,
                                    !.badge = d.wallet[s].badge /\ after < InitialBalance]
           l == Append(d.ledger[s], Till!Line(key, chips, after))
           e == Till!Booked(d, s, chips, key)
<1>1. e = Till!Noted([d EXCEPT !.wallet[s].balance = after, !.wallet[s].badge = @ /\ after < InitialBalance],
                s, key, chips, after)
  BY DEF Till!Booked
<1>2. [d EXCEPT !.wallet[s].balance = after, !.wallet[s].badge = @ /\ after < InitialBalance]
        = [d EXCEPT !.wallet[s] = w]
  BY DEF Db, Shaped, WalletRows
<1> HIDE DEF w, e
<1>3. e = [d EXCEPT !.wallet[s] = w, !.ledger[s] = l]
  BY <1>1, <1>2 DEF Till!Noted, Db, Shaped
<1> HIDE DEF l
<1>4. Wrote(d, e, s, w, l)
  BY <1>3 DEF Wrote, Db, Shaped, SameFacts, SameRooms
<1>. QED
  BY <1>4 DEF w, e, l

LEMMA ResetWrites ==
  ASSUME NEW d, Db(d), NEW s \in Till!Subjects
  PROVE  Wrote(d, Till!Reset(d, s), s,
               [d.wallet[s] EXCEPT !.balance = ResetBalance,
                                   !.bankruptcies = d.wallet[s].bankruptcies + 1, !.badge = TRUE],
               Append(d.ledger[s], Till!Line(Till!ResetLine, ResetBalance - d.wallet[s].balance, ResetBalance)))
<1> DEFINE w == [d.wallet[s] EXCEPT !.balance = ResetBalance,
                                    !.bankruptcies = d.wallet[s].bankruptcies + 1, !.badge = TRUE]
           l == Append(d.ledger[s], Till!Line(Till!ResetLine, ResetBalance - d.wallet[s].balance, ResetBalance))
           e == Till!Reset(d, s)
<1>1. e = Till!Noted([d EXCEPT !.wallet[s].balance = ResetBalance, !.wallet[s].bankruptcies = @ + 1,
                          !.wallet[s].badge = TRUE],
                s, Till!ResetLine, ResetBalance - d.wallet[s].balance, ResetBalance)
  BY DEF Till!Reset
<1>2. [d EXCEPT !.wallet[s].balance = ResetBalance, !.wallet[s].bankruptcies = @ + 1,
                !.wallet[s].badge = TRUE]
        = [d EXCEPT !.wallet[s] = w]
  BY DEF Db, Shaped, WalletRows
<1> HIDE DEF w, e
<1>3. e = [d EXCEPT !.wallet[s] = w, !.ledger[s] = l]
  BY <1>1, <1>2 DEF Till!Noted, Db, Shaped
<1> HIDE DEF l
<1>4. Wrote(d, e, s, w, l)
  BY <1>3 DEF Wrote, Db, Shaped, SameFacts, SameRooms
<1>. QED
  BY <1>4 DEF w, e, l

-----------------------------------------------------------------------------
(* Openings, bookings and rewards.                                         *)

\* Only the wallets of T are written, and only for openings and rewards.
Quiet(d, e, T) == Fine(e) /\ Same(d, e) /\ Untouched(d, e, T)

LEMMA QuietItself == ASSUME NEW d, Fine(d), NEW T PROVE Quiet(d, d, T)
  BY SameItself DEF Quiet

LEMMA QuietThrough ==
  ASSUME NEW d, NEW e, NEW f, NEW T, Quiet(d, e, T), Quiet(e, f, T)
  PROVE  Quiet(d, f, T)
  BY SameThrough, UntouchedThrough DEF Quiet

LEMMA QuietWider ==
  ASSUME NEW d, NEW e, NEW T, NEW U, Quiet(d, e, T), T \subseteq U
  PROVE  Quiet(d, e, U)
  BY DEF Quiet, Untouched

LEMMA OpenedFine ==
  ASSUME NEW d, Fine(d), NEW s \in Till!Subjects
  PROVE  /\ Quiet(d, Till!Opened(d, s), {s}) /\ SameFacts(d, Till!Opened(d, s))
         /\ Till!Opened(d, s).wallet[s].open
         /\ d.wallet[s].open => Till!Opened(d, s) = d
         /\ ~d.wallet[s].open => Till!Opened(d, s).wallet[s].bankruptcies = 0
<1> DEFINE e == Till!Opened(d, s)
<1>1. CASE d.wallet[s].open
  <2>1. e = d
    BY <1>1 DEF Till!Opened
  <2>2. SameFacts(d, d)
    BY DEF SameFacts, SameRooms
  <2>. QED
    BY <1>1, <2>1, <2>2, QuietItself
<1>2. CASE ~d.wallet[s].open
  <2> DEFINE w == [open |-> TRUE, balance |-> InitialBalance, bankruptcies |-> 0, badge |-> FALSE]
             x == Till!Line(OpeningLine, InitialBalance, InitialBalance)
  <2>1. Db(d) /\ d.ledger[s] = <<>> /\ d.wallet[s].bankruptcies = 0
    BY <1>2 DEF Fine, Account, Till!NoWallet
  <2>2. Wrote(d, e, s, w, <<x>>)
    BY <1>2, <2>1, OpenedWrites
  <2>3. Account(w, <<x>>)
    BY OpeningAccount
  <2>4. w.open /\ w.bankruptcies = 0 /\ x \in LineRows /\ x.key = OpeningLine /\ <<x>> = Append(<<>>, x)
    BY PurseAssumption DEF Till!Line, LineRows, LineKeys
  <2> HIDE DEF e, w, x
  <2>5. /\ Db(e) /\ Untouched(d, e, {s}) /\ e.wallet[s] = w /\ e.ledger[s] = <<x>>
        /\ \A p \in Till!Subjects : Account(e.wallet[p], e.ledger[p])
    BY <2>1, <2>2, <2>3, WroteDb DEF Fine
  <2>6. SameFacts(d, e)
    BY <2>2 DEF Wrote
  <2>7. \A key \in RewardKeys \cup OtherKeys :
          /\ Held(<<x>>, key) <=> Held(<<>>, key)
          /\ Values(<<x>>, key) = Values(<<>>, key)
    <3>1. <<>> \in Seq(LineRows)
      OBVIOUS
    <3>2. Added(<<>>, <<x>>, x)
      BY <2>4, <3>1, AppendedLine, Zenon
    <3>. QED
      BY <2>4, <3>2, KeysDiffer DEF Added
  <2>8. \A p \in Till!Subjects, key \in RewardKeys \cup OtherKeys :
          /\ Held(e.ledger[p], key) <=> Held(d.ledger[p], key)
          /\ Values(e.ledger[p], key) = Values(d.ledger[p], key)
    BY <2>1, <2>5, <2>7 DEF Untouched
  <2>9. Rewarded(e)
    BY <2>6, <2>8 DEF Rewarded, RewardKeys, SameFacts, Fine
  <2>10. \A p \in Till!Subjects : e.wallet[p].bankruptcies = d.wallet[p].bankruptcies
    BY <2>1, <2>4, <2>5 DEF Untouched
  <2>11. Same(d, e)
    BY <2>6, <2>8, <2>10 DEF Same, SameFacts, Falls
  <2>. QED
    BY <1>2, <2>4, <2>5, <2>6, <2>9, <2>10, <2>11 DEF Quiet, Fine, e
<1>. QED
  BY <1>1, <1>2

\* Opening a wallet pays no reward.
LEMMA OpenedHolds ==
  ASSUME NEW d, Fine(d), NEW s \in Till!Subjects
  PROVE  \A p \in Till!Subjects, key \in RewardKeys \cup OtherKeys :
           Held(Till!Opened(d, s).ledger[p], key) <=> Held(d.ledger[p], key)
<1>1. CASE d.wallet[s].open
  BY <1>1 DEF Till!Opened
<1>2. CASE ~d.wallet[s].open
  <2> DEFINE x == Till!Line(OpeningLine, InitialBalance, InitialBalance)
             e == Till!Opened(d, s)
             w == [open |-> TRUE, balance |-> InitialBalance, bankruptcies |-> 0, badge |-> FALSE]
  <2>1. Db(d) /\ d.ledger[s] = <<>>
    BY <1>2 DEF Fine, Account, Till!NoWallet
  <2>2. Wrote(d, e, s, w, <<x>>)
    BY <1>2, <2>1, OpenedWrites
  <2>3. x.key = OpeningLine
    BY DEF Till!Line
  <2> HIDE DEF e, w, x
  <2>4. e.ledger = [d.ledger EXCEPT ![s] = <<x>>]
    BY <2>2 DEF Wrote
  <2>5. \A key \in RewardKeys \cup OtherKeys : ~Held(<<x>>, key) /\ ~Held(<<>>, key)
    BY <2>3, KeysDiffer DEF Held
  <2>6. \A p \in Till!Subjects : e.ledger[p] = IF p = s THEN <<x>> ELSE d.ledger[p]
    BY <2>1, <2>4 DEF Db
  <2>. QED
    BY <2>1, <2>5, <2>6 DEF e
<1>. QED
  BY <1>1, <1>2

\* A line that is no reward.
Booking(d, e, s, chips, key) ==
  /\ SameFacts(d, e) /\ Untouched(d, e, {s})
  /\ \A p \in Till!Subjects : e.wallet[p].bankruptcies = d.wallet[p].bankruptcies
  /\ e.wallet[s].open
  /\ Values(e.ledger[s], key) = {chips}
  /\ e.ledger[s][Len(e.ledger[s])].key = key
  /\ \A p \in Till!Subjects, k \in OtherKeys :
       p # s \/ k # key => Values(e.ledger[p], k) = Values(d.ledger[p], k)

\* Any line with a key of its own; a reward is not yet marked as unlocked.
LEMMA BookedLine ==
  ASSUME NEW d, Fine(d), NEW s \in Till!Subjects, d.wallet[s].open, NEW chips \in Int,
         NEW key \in RewardKeys \cup OtherKeys, ~Held(d.ledger[s], key)
  PROVE  /\ Db(Till!Booked(d, s, chips, key)) /\ Booking(d, Till!Booked(d, s, chips, key), s, chips, key)
         /\ \A p \in Till!Subjects : Account(Till!Booked(d, s, chips, key).wallet[p],
                                        Till!Booked(d, s, chips, key).ledger[p])
         /\ \A p \in Till!Subjects, k \in RewardKeys :
              Held(Till!Booked(d, s, chips, key).ledger[p], k)
                <=> (Held(d.ledger[p], k) \/ (p = s /\ k = key))
<1> DEFINE e == Till!Booked(d, s, chips, key)
           after == d.wallet[s].balance + chips
           w == [d.wallet[s] EXCEPT !.balance = after,
                                    !.badge = d.wallet[s].badge /\ after < InitialBalance]
           x == Till!Line(key, chips, after)
           l == Append(d.ledger[s], x)
<1>1. /\ Db(d) /\ Account(d.wallet[s], d.ledger[s]) /\ d.wallet[s] \in WalletRows
      /\ d.ledger[s] \in Seq(LineRows)
  BY DEF Fine, Account
<1>2. Wrote(d, e, s, w, l)
  BY <1>1, BookedWrites
<1>3. \A i \in 1..Len(d.ledger[s]) : d.ledger[s][i].key # key
  BY DEF Held
<1>4. Account(w, l)
  BY <1>1, <1>3, BookingAccount
<1>5. w.open /\ w.bankruptcies = d.wallet[s].bankruptcies
  BY <1>1 DEF WalletRows
<1>6. x \in LineRows /\ x.key = key /\ x.amount = chips
  BY <1>1 DEF Till!Line, LineRows, LineKeys, WalletRows
<1>7. l[Len(l)] = x
  BY <1>1, <1>6
<1>8. /\ \A k : Held(l, k) <=> (Held(d.ledger[s], k) \/ k = key)
      /\ \A k : k # key => Values(l, k) = Values(d.ledger[s], k)
      /\ Values(l, key) = Values(d.ledger[s], key) \cup {chips}
  <2> HIDE DEF x, l
  <2>1. l = Append(d.ledger[s], x)
    BY DEF l
  <2>2. Added(d.ledger[s], l, x)
    BY <1>1, <1>6, <2>1, AppendedLine, Zenon
  <2>. QED
    BY <1>6, <2>2 DEF Added
<1> HIDE DEF e, w, x, l, after
<1>9. /\ Db(e) /\ Untouched(d, e, {s}) /\ e.wallet[s] = w /\ e.ledger[s] = l
      /\ \A p \in Till!Subjects : Account(e.wallet[p], e.ledger[p])
  BY <1>1, <1>2, <1>4, WroteDb DEF Fine
<1>10. Values(l, key) = {chips}
  BY <1>8, HeldValues
<1>11. Booking(d, e, s, chips, key)
  BY <1>2, <1>5, <1>6, <1>7, <1>8, <1>9, <1>10 DEF Booking, Wrote, Untouched
<1>12. \A p \in Till!Subjects, k \in RewardKeys :
         Held(e.ledger[p], k) <=> (Held(d.ledger[p], k) \/ (p = s /\ k = key))
  BY <1>8, <1>9 DEF Untouched
<1>. QED
  BY <1>9, <1>11, <1>12 DEF e

LEMMA BookedFine ==
  ASSUME NEW d, Fine(d), NEW s \in Till!Subjects, d.wallet[s].open, NEW chips \in Int,
         NEW key \in OtherKeys, ~Held(d.ledger[s], key)
  PROVE  /\ Fine(Till!Booked(d, s, chips, key))
         /\ Booking(d, Till!Booked(d, s, chips, key), s, chips, key)
<1> DEFINE e == Till!Booked(d, s, chips, key)
<1>1. /\ Db(e) /\ Booking(d, e, s, chips, key)
      /\ \A p \in Till!Subjects : Account(e.wallet[p], e.ledger[p])
      /\ \A p \in Till!Subjects, k \in RewardKeys :
           Held(e.ledger[p], k) <=> (Held(d.ledger[p], k) \/ (p = s /\ k = key))
  BY BookedLine
<1> HIDE DEF e
<1>2. key \notin RewardKeys /\ e.unlocked = d.unlocked
  BY <1>1, KeysDiffer DEF Booking, SameFacts
<1>3. \A i \in Till!Catalogue, cc \in Contexts : Till!RewardKey(i, cc) \in RewardKeys
  BY DEF RewardKeys
<1>4. Rewarded(e)
  BY <1>1, <1>2, <1>3 DEF Rewarded, Fine
<1>. QED
  BY <1>1, <1>4 DEF Fine, e

LEMMA UnlockedFine ==
  ASSUME NEW d, Fine(d), NEW s \in Till!Subjects, NEW id \in Till!Catalogue, NEW context \in Contexts
  PROVE  /\ Quiet(d, Till!Unlocked(d, s, id, context), {s})
         /\ <<s, id, context>> \in Till!Unlocked(d, s, id, context).unlocked
<1>1. CASE <<s, id, context>> \in d.unlocked
  BY <1>1, QuietItself DEF Till!Unlocked
<1>2. CASE <<s, id, context>> \notin d.unlocked
  <2> DEFINE key == Till!RewardKey(id, context)
             o == Till!Opened(d, s)
             b == Till!Booked(o, s, Rewards[id], key)
             c == IF Rewards[id] = 0 THEN d ELSE b
             e == Till!Unlocked(d, s, id, context)
  <2>1. Rewards[id] \in Nat /\ Rewards[id] \in Int /\ key \in RewardKeys
    BY PurseAssumption DEF Till!Catalogue, RewardKeys
  <2>2. e = [c EXCEPT !.unlocked = @ \cup {<<s, id, context>>}]
    BY <1>2 DEF Till!Unlocked
  <2> HIDE DEF e
  <2>3. \A p \in Till!Subjects, i \in Till!Catalogue, cc \in Contexts :
          <<p, i, cc>> = <<s, id, context>> <=> (p = s /\ Till!RewardKey(i, cc) = key)
    BY DEF Till!RewardKey
  <2>4. /\ Db(c) /\ SameFacts(d, c) /\ Untouched(d, c, {s})
        /\ \A p \in Till!Subjects : Account(c.wallet[p], c.ledger[p])
        /\ \A p \in Till!Subjects : c.wallet[p].bankruptcies = d.wallet[p].bankruptcies
        /\ \A p \in Till!Subjects, k \in OtherKeys : Values(c.ledger[p], k) = Values(d.ledger[p], k)
        /\ \A p \in Till!Subjects, k \in RewardKeys :
             Held(c.ledger[p], k) <=> (Held(d.ledger[p], k) \/ (Rewards[id] > 0 /\ p = s /\ k = key))
    <3>1. CASE Rewards[id] = 0
      <4>1. c = d /\ ~(Rewards[id] > 0)
        BY <3>1
      <4> HIDE DEF c
      <4>2. SameFacts(d, d) /\ Untouched(d, d, {s})
        BY SameItself DEF SameFacts, SameRooms
      <4>. QED
        BY <4>1, <4>2 DEF Fine
    <3>2. CASE Rewards[id] # 0
      <4>1. Fine(o) /\ Same(d, o) /\ Untouched(d, o, {s}) /\ SameFacts(d, o) /\ o.wallet[s].open
        BY OpenedFine DEF Quiet
      <4>2. \A p \in Till!Subjects, k \in RewardKeys : Held(o.ledger[p], k) <=> Held(d.ledger[p], k)
        BY OpenedHolds
      <4>3. ~Held(o.ledger[s], key)
        BY <1>2, <2>1, <3>2, <4>2 DEF Fine, Rewarded
      <4> HIDE DEF o, key
      <4>4. /\ Db(b) /\ Booking(o, b, s, Rewards[id], key)
            /\ \A p \in Till!Subjects : Account(b.wallet[p], b.ledger[p])
            /\ \A p \in Till!Subjects, k \in RewardKeys :
                 Held(b.ledger[p], k) <=> (Held(o.ledger[p], k) \/ (p = s /\ k = key))
        BY <2>1, <4>1, <4>3, BookedLine
      <4>5. c = b /\ Rewards[id] > 0
        BY <2>1, <3>2
      <4> HIDE DEF b, c
      <4>6. key \notin OtherKeys
        BY <2>1, KeysDiffer
      <4>7. SameFacts(d, b) /\ Untouched(d, b, {s})
        BY <4>1, <4>4 DEF Booking, SameFacts, SameRooms, Untouched
      <4>8. /\ \A p \in Till!Subjects : b.wallet[p].bankruptcies = d.wallet[p].bankruptcies
            /\ \A p \in Till!Subjects, k \in OtherKeys : Values(b.ledger[p], k) = Values(d.ledger[p], k)
        BY <4>1, <4>4, <4>6 DEF Booking, Same
      <4>. QED
        BY <4>2, <4>4, <4>5, <4>7, <4>8
    <3>. QED
      BY <3>1, <3>2
  <2> HIDE DEF c, key
  <2>5. /\ Db(e) /\ e.wallet = c.wallet /\ e.ledger = c.ledger
        /\ e.unlocked = d.unlocked \cup {<<s, id, context>>}
        /\ SameRooms(d, e) /\ e.events = d.events
    BY <2>2, <2>4 DEF Db, Shaped, SameFacts, SameRooms
  <2>9. \A i \in Till!Catalogue, cc \in Contexts : Till!RewardKey(i, cc) \in RewardKeys
    BY DEF RewardKeys
  <2>10. \A p \in Till!Subjects, i \in Till!Catalogue, cc \in Contexts :
          Till!RewardKey(i, cc) = key => i = id /\ cc = context
    BY DEF Till!RewardKey, key
  <2>11. ASSUME NEW p \in Till!Subjects, NEW i \in Till!Catalogue, NEW cc \in Contexts, Rewards[i] > 0
         PROVE  <<p, i, cc>> \in e.unlocked <=> Held(e.ledger[p], Till!RewardKey(i, cc))
    <3>1. <<p, i, cc>> \in d.unlocked <=> Held(d.ledger[p], Till!RewardKey(i, cc))
      BY <2>11 DEF Fine, Rewarded
    <3>2. Held(e.ledger[p], Till!RewardKey(i, cc))
            <=> (Held(d.ledger[p], Till!RewardKey(i, cc))
                 \/ (Rewards[id] > 0 /\ p = s /\ Till!RewardKey(i, cc) = key))
      BY <2>4, <2>5, <2>9
    <3>3. <<p, i, cc>> \in e.unlocked <=> <<p, i, cc>> \in d.unlocked \/ <<p, i, cc>> = <<s, id, context>>
      BY <2>5
    <3>4. (Rewards[id] > 0 /\ p = s /\ Till!RewardKey(i, cc) = key) <=> <<p, i, cc>> = <<s, id, context>>
      BY <2>3, <2>10, <2>11
    <3>. QED
      BY <3>1, <3>2, <3>3, <3>4
  <2>6. Rewarded(e)
    BY <2>11 DEF Rewarded
  <2>7. Same(d, e) /\ Untouched(d, e, {s})
    BY <2>4, <2>5 DEF Same, Untouched, Falls
  <2>8. Fine(e)
    BY <2>4, <2>5, <2>6 DEF Fine
  <2>. QED
    BY <2>5, <2>7, <2>8 DEF Quiet, e
<1>. QED
  BY <1>1, <1>2

-----------------------------------------------------------------------------
(* Evaluations.                                                            *)

\* Induction over the subsets a fold goes through.
LEMMA SubsetInduction ==
  ASSUME NEW S, IsFiniteSet(S), NEW D, {} \in D,
         \A s \in SUBSET S : s # {} /\ s \ {Picked(s)} \in D => s \in D
  PROVE  S \in D
<1> DEFINE N == {n \in Nat : \A s \in SUBSET S : Cardinality(s) <= n => s \in D}
<1>1. 0 \in N
  <2>1. \A s \in SUBSET S : Cardinality(s) <= 0 => s = {}
    BY FS_Subset, FS_CardinalityType, FS_EmptySet
  <2>. QED
    BY <2>1
<1>2. ASSUME NEW n \in N PROVE n + 1 \in N
  <2>1. ASSUME NEW s \in SUBSET S, Cardinality(s) <= n + 1 PROVE s \in D
    <3>1. CASE s = {}
      BY <3>1
    <3>2. CASE s # {}
      <4>1. s \ {Picked(s)} \in SUBSET S /\ Cardinality(s \ {Picked(s)}) <= n
        BY <2>1, <3>2, PickedLess
      <4>. QED
        BY <3>2, <4>1
    <3>. QED
      BY <3>1, <3>2
  <2>2. n + 1 \in Nat
    OBVIOUS
  <2>. QED
    BY <2>1, <2>2
<1>3. N \subseteq Nat
  OBVIOUS
<1>4. N = Nat
  <2> HIDE DEF N
  <2>. QED
    BY <1>1, <1>2, <1>3, SetInduction
<1>5. Cardinality(S) \in N /\ Cardinality(S) <= Cardinality(S)
  BY <1>4, FS_CardinalityType
<1>. QED
  BY <1>5

LEMMA TripleFinite ==
  ASSUME NEW A, IsFiniteSet(A), NEW B, IsFiniteSet(B), NEW C, IsFiniteSet(C)
  PROVE  IsFiniteSet(A \X B \X C)
<1> DEFINE f == [x \in (A \X B) \X C |-> <<x[1][1], x[1][2], x[2]>>]
<1>1. IsFiniteSet((A \X B) \X C)
  BY FS_Product
<1>2. f \in [(A \X B) \X C -> A \X B \X C]
  OBVIOUS
<1>3. ASSUME NEW a \in A, NEW b \in B, NEW c \in C
      PROVE  \E x \in (A \X B) \X C : f[x] = <<a, b, c>>
  <2>1. <<<<a, b>>, c>> \in (A \X B) \X C /\ f[<<<<a, b>>, c>>] = <<a, b, c>>
    OBVIOUS
  <2>. QED
    BY <2>1
<1>4. \A t \in A \X B \X C : \E a \in A, b \in B, c \in C : t = <<a, b, c>>
  OBVIOUS
<1> HIDE DEF f
<1>5. ASSUME NEW t \in A \X B \X C PROVE \E x \in (A \X B) \X C : f[x] = t
  <2>1. PICK a \in A, b \in B, c \in C : t = <<a, b, c>>
    BY <1>4
  <2>. QED
    BY <1>3, <2>1, Zenon
<1>6. f \in Surjection((A \X B) \X C, A \X B \X C)
  BY <1>2, <1>5, Zenon DEF Surjection
<1>. QED
  BY <1>1, <1>6, FS_Surjection

LEMMA UnlockedAllFine ==
  ASSUME NEW d, Fine(d), NEW T, T \subseteq Till!Subjects,
         NEW S, IsFiniteSet(S), S \subseteq T \X Till!Catalogue \X Contexts
  PROVE  Quiet(d, Till!UnlockedAll(d, S), T)
<1>1. PICK g : RewardsSteps(d, g, SUBSET S) /\ Till!UnlockedAll(d, S) = g[S]
  BY RewardsIs
<1> DEFINE D == {s \in SUBSET S : Quiet(d, g[s], T)}
<1>2. /\ g[{}] = d
      /\ \A s \in SUBSET S : s # {} =>
           g[s] = Till!Unlocked(g[s \ {Picked(s)}], Picked(s)[1], Picked(s)[2], Picked(s)[3])
  BY <1>1, Zenon DEF RewardsSteps
<1>3. {} \in D
  BY <1>2, QuietItself
<1>4. ASSUME NEW s \in SUBSET S, s # {}, s \ {Picked(s)} \in D
      PROVE  s \in D
  <2> DEFINE x == Picked(s)
             e == g[s \ {x}]
  <2>1. x \in S /\ Quiet(d, e, T)
    BY <1>4 DEF Picked
  <2>2. x[1] \in T /\ x[1] \in Till!Subjects /\ x[2] \in Till!Catalogue /\ x[3] \in Contexts
    BY <2>1
  <2>3. g[s] = Till!Unlocked(e, x[1], x[2], x[3])
    BY <1>2, <1>4
  <2> HIDE DEF e, x
  <2>4. Quiet(e, g[s], {x[1]})
    BY <2>1, <2>2, <2>3, UnlockedFine DEF Quiet
  <2>5. Quiet(e, g[s], T)
    BY <2>2, <2>4, QuietWider
  <2>. QED
    BY <2>1, <2>5, QuietThrough
<1> HIDE DEF D
<1>5. S \in D
  BY <1>3, <1>4, SubsetInduction
<1>. QED
  BY <1>1, <1>5 DEF D

\* Either the recovery is awarded, or the last line is one that evaluates nobody.
Judged(d, s) ==
  Till!Recovered(d, s) =>
    <<s, Till!Recovery, Till!Global>> \in d.unlocked \/ Till!Last(d.ledger[s]).key[1] \in Till!Unjudged

LEMMA JudgedUntouched ==
  ASSUME NEW d, NEW e, NEW s, Judged(d, s), e.wallet[s] = d.wallet[s],
         e.ledger[s] = d.ledger[s], d.unlocked \subseteq e.unlocked
  PROVE  Judged(e, s)
  BY DEF Judged, Till!Recovered

LEMMA JudgedQuiet ==
  ASSUME NEW d, NEW e, NEW T, Quiet(d, e, T), NEW s \in Till!Subjects \ T, Judged(d, s)
  PROVE  Judged(e, s)
<1>1. e.wallet[s] = d.wallet[s] /\ e.ledger[s] = d.ledger[s] /\ d.unlocked \subseteq e.unlocked
  BY DEF Quiet, Untouched, Same
<1>. QED
  BY <1>1, JudgedUntouched

LEMMA RefreshedFine ==
  ASSUME NEW d, Fine(d), NEW s \in Till!Subjects
  PROVE  Quiet(d, Till!Refreshed(d, s), {s}) /\ Judged(Till!Refreshed(d, s), s)
<1>1. Till!Recovery \in Till!Catalogue /\ Till!Global \in Contexts
  BY PurseAssumption DEF Till!Recovery, Till!Catalogue, Contexts
<1>2. CASE Till!Recovered(d, s)
  <2>1. Till!Refreshed(d, s) = Till!Unlocked(d, s, Till!Recovery, Till!Global)
    BY <1>1, <1>2 DEF Till!Refreshed
  <2>2. /\ Quiet(d, Till!Refreshed(d, s), {s})
        /\ <<s, Till!Recovery, Till!Global>> \in Till!Refreshed(d, s).unlocked
    BY <1>1, <2>1, UnlockedFine
  <2>. QED
    BY <2>2 DEF Judged
<1>3. CASE ~Till!Recovered(d, s)
  <2>1. Till!Refreshed(d, s) = d
    BY <1>3 DEF Till!Refreshed
  <2>. QED
    BY <1>3, <2>1, QuietItself DEF Judged
<1>. QED
  BY <1>2, <1>3

LEMMA CatalogueFinite == IsFiniteSet(Till!Catalogue)
  BY PurseAssumption DEF Till!Catalogue

LEMMA EvaluatedFine ==
  ASSUME NEW d, Fine(d), NEW s \in Till!Subjects
  PROVE  Quiet(d, Till!Evaluated(d, s), {s}) /\ Judged(Till!Evaluated(d, s), s)
<1> DEFINE P == Till!Proven(d, s)
           S == {s} \X P \X {Till!Global}
           e == Till!Refreshed(d, s)
           f == Till!UnlockedAll(e, S)
<1>1. P \subseteq Till!Catalogue
  BY DEF Till!Proven, Till!EarnedByGames, Till!EarnedByFacts
<1>2. IsFiniteSet(P)
  BY <1>1, CatalogueFinite, FS_Subset
<1>3. IsFiniteSet({s}) /\ IsFiniteSet({Till!Global})
  BY FS_Singleton
<1>4. Till!Evaluated(d, s) = Till!Refreshed(f, s)
  BY DEF Till!Evaluated
<1> HIDE DEF P
<1>5. IsFiniteSet(S)
  BY <1>2, <1>3, TripleFinite
<1>6. S \subseteq {s} \X Till!Catalogue \X Contexts
  BY <1>1 DEF Contexts
<1>7. Quiet(d, e, {s})
  BY RefreshedFine
<1> HIDE DEF S, e
<1>8. Quiet(e, f, {s})
  BY <1>5, <1>6, <1>7, UnlockedAllFine DEF Quiet
<1> HIDE DEF f
<1>9. Quiet(f, Till!Refreshed(f, s), {s}) /\ Judged(Till!Refreshed(f, s), s)
  BY <1>8, RefreshedFine DEF Quiet
<1>10. Quiet(d, f, {s})
  BY <1>7, <1>8, QuietThrough
<1>. QED
  BY <1>4, <1>9, <1>10, QuietThrough

LEMMA EvaluatedAllFine ==
  ASSUME NEW d, Fine(d), NEW S, IsFiniteSet(S), S \subseteq Till!Subjects
  PROVE  /\ Quiet(d, Till!EvaluatedAll(d, S), S)
         /\ \A s \in S : Judged(Till!EvaluatedAll(d, S), s)
<1>1. PICK g : JudgedSteps(d, g, SUBSET S) /\ Till!EvaluatedAll(d, S) = g[S]
  BY JudgedIs
<1> DEFINE D == {s \in SUBSET S : Quiet(d, g[s], S) /\ \A p \in s : Judged(g[s], p)}
<1>2. /\ g[{}] = d
      /\ \A s \in SUBSET S : s # {} => g[s] = Till!Evaluated(g[s \ {Picked(s)}], Picked(s))
  BY <1>1, Zenon DEF JudgedSteps
<1>3. {} \in D
  BY <1>2, QuietItself
<1>4. ASSUME NEW s \in SUBSET S, s # {}, s \ {Picked(s)} \in D
      PROVE  s \in D
  <2> DEFINE x == Picked(s)
             e == g[s \ {x}]
  <2>1. x \in s /\ x \in S /\ x \in Till!Subjects /\ Quiet(d, e, S) /\ \A p \in s \ {x} : Judged(e, p)
    BY <1>4 DEF Picked
  <2>2. g[s] = Till!Evaluated(e, x)
    BY <1>2, <1>4
  <2> HIDE DEF e, x
  <2>3. Quiet(e, g[s], {x}) /\ Judged(g[s], x)
    BY <2>1, <2>2, EvaluatedFine DEF Quiet
  <2>4. Quiet(e, g[s], S)
    BY <2>1, <2>3, QuietWider
  <2>5. Quiet(d, g[s], S)
    BY <2>1, <2>4, QuietThrough
  <2>6. \A p \in s : Judged(g[s], p)
    <3>1. ASSUME NEW p \in s, p # x PROVE Judged(g[s], p)
      <4>1. p \in Till!Subjects \ {x} /\ Judged(e, p)
        BY <2>1, <3>1
      <4>. QED
        BY <2>3, <4>1, JudgedQuiet
    <3>. QED
      BY <2>3, <3>1
  <2>. QED
    BY <2>5, <2>6
<1> HIDE DEF D
<1>5. S \in D
  BY <1>3, <1>4, SubsetInduction
<1>. QED
  BY <1>1, <1>5 DEF D

-----------------------------------------------------------------------------
(* Pairs and facts.                                                        *)

\* Nothing but openings, rewards and facts, and no recovery is missed.
Calm(d, e) ==
  /\ Fine(e) /\ Same(d, e)
  /\ \A s \in Till!Subjects : Judged(d, s) => Judged(e, s)

LEMMA CalmItself == ASSUME NEW d, Fine(d) PROVE Calm(d, d)
  BY SameItself DEF Calm

LEMMA CalmThrough ==
  ASSUME NEW d, NEW e, NEW f, Calm(d, e), Calm(e, f)
  PROVE  Calm(d, f)
  BY SameThrough DEF Calm

LEMMA QuietCalm ==
  ASSUME NEW d, NEW e, NEW T, Quiet(d, e, T), \A s \in T : Judged(d, s) => Judged(e, s)
  PROVE  Calm(d, e)
<1>1. ASSUME NEW s \in Till!Subjects, Judged(d, s) PROVE Judged(e, s)
  <2>1. CASE s \in T
    BY <1>1, <2>1
  <2>2. CASE s \notin T
    BY <1>1, <2>2, JudgedQuiet
  <2>. QED
    BY <2>1, <2>2
<1>. QED
  BY <1>1 DEF Calm, Quiet

LEMMA EvaluatedCalm ==
  ASSUME NEW d, Fine(d), NEW s \in Till!Subjects
  PROVE  Calm(d, Till!Evaluated(d, s)) /\ Judged(Till!Evaluated(d, s), s)
<1>1. Quiet(d, Till!Evaluated(d, s), {s}) /\ Judged(Till!Evaluated(d, s), s)
  BY EvaluatedFine
<1>. QED
  BY <1>1, QuietCalm

LEMMA EvaluatedAllCalm ==
  ASSUME NEW d, Fine(d), NEW S, IsFiniteSet(S), S \subseteq Till!Subjects
  PROVE  Calm(d, Till!EvaluatedAll(d, S)) /\ \A s \in S : Judged(Till!EvaluatedAll(d, S), s)
<1>1. /\ Quiet(d, Till!EvaluatedAll(d, S), S)
      /\ \A s \in S : Judged(Till!EvaluatedAll(d, S), s)
  BY EvaluatedAllFine
<1>. QED
  BY <1>1, QuietCalm

LEMMA EvaluatedPairCalm ==
  ASSUME NEW d, Fine(d), NEW h \in Owners, NEW a \in Machines
  PROVE  Calm(d, Till!EvaluatedPair(d, h, a))
<1> DEFINE P == Till!ProvenTogether(d, h, a)
           S == {h, a} \X P \X {<<h, a>>}
           e == Till!UnlockedAll(d, S)
           f == Till!Refreshed(e, h)
<1>1. CASE <<h, a>> \notin d.pairs
  <2>1. Till!EvaluatedPair(d, h, a) = d
    BY <1>1 DEF Till!EvaluatedPair
  <2>. QED
    BY <2>1, CalmItself
<1>2. CASE <<h, a>> \in d.pairs
  <2>1. Till!EvaluatedPair(d, h, a) = Till!Refreshed(f, a)
    BY <1>2 DEF Till!EvaluatedPair
  <2>2. P \subseteq Till!Catalogue
    BY DEF Till!ProvenTogether
  <2>3. h \in Till!Subjects /\ a \in Till!Subjects /\ {h, a} \subseteq Till!Subjects /\ <<h, a>> \in Contexts
    BY DEF Till!Subjects, Contexts
  <2>4. IsFiniteSet(P) /\ IsFiniteSet({h, a}) /\ IsFiniteSet({<<h, a>>})
    <3>1. {h, a} = {h} \cup {a}
      OBVIOUS
    <3>2. IsFiniteSet({h}) /\ IsFiniteSet({a}) /\ IsFiniteSet({<<h, a>>})
      BY FS_Singleton
    <3>. QED
      BY <2>2, <3>1, <3>2, CatalogueFinite, FS_Subset, FS_Union
  <2> HIDE DEF P
  <2>5. IsFiniteSet(S)
    BY <2>4, TripleFinite
  <2>6. S \subseteq {h, a} \X Till!Catalogue \X Contexts
    BY <2>2, <2>3
  <2> HIDE DEF S
  <2>7. Quiet(d, e, {h, a})
    BY <2>3, <2>5, <2>6, UnlockedAllFine
  <2> HIDE DEF e
  <2>8. Quiet(e, f, {h}) /\ Judged(f, h)
    BY <2>3, <2>7, RefreshedFine DEF Quiet
  <2> HIDE DEF f
  <2>9. Quiet(f, Till!Refreshed(f, a), {a}) /\ Judged(Till!Refreshed(f, a), a)
    BY <2>3, <2>8, RefreshedFine DEF Quiet
  <2>10. Quiet(d, Till!Refreshed(f, a), {h, a})
    <3>1. Quiet(e, f, {h, a}) /\ Quiet(f, Till!Refreshed(f, a), {h, a})
      BY <2>8, <2>9, QuietWider
    <3>2. Quiet(d, f, {h, a})
      BY <2>7, <3>1, QuietThrough
    <3>. QED
      BY <3>1, <3>2, QuietThrough
  <2>11. Judged(Till!Refreshed(f, a), h)
    <3>1. CASE h = a
      BY <2>9, <3>1
    <3>2. CASE h # a
      <4>1. h \in Till!Subjects \ {a}
        BY <2>3, <3>2
      <4>. QED
        BY <2>8, <2>9, <4>1, JudgedQuiet
    <3>. QED
      BY <3>1, <3>2
  <2>. QED
    BY <2>1, <2>9, <2>10, <2>11, QuietCalm
<1>. QED
  BY <1>1, <1>2

LEMMA EvaluatedPairsCalm ==
  ASSUME NEW d, Fine(d), NEW S, IsFiniteSet(S), S \subseteq Owners \X Machines
  PROVE  Calm(d, Till!EvaluatedPairs(d, S))
<1>1. PICK g : PairsSteps(d, g, SUBSET S) /\ Till!EvaluatedPairs(d, S) = g[S]
  BY PairsIs
<1> DEFINE D == {s \in SUBSET S : Calm(d, g[s])}
<1>2. /\ g[{}] = d
      /\ \A s \in SUBSET S : s # {} =>
           g[s] = Till!EvaluatedPair(g[s \ {Picked(s)}], Picked(s)[1], Picked(s)[2])
  BY <1>1, Zenon DEF PairsSteps
<1>3. {} \in D
  BY <1>2, CalmItself
<1>4. ASSUME NEW s \in SUBSET S, s # {}, s \ {Picked(s)} \in D
      PROVE  s \in D
  <2> DEFINE x == Picked(s)
             e == g[s \ {x}]
  <2>1. x \in S /\ Calm(d, e)
    BY <1>4 DEF Picked
  <2>2. x[1] \in Owners /\ x[2] \in Machines
    BY <2>1
  <2>3. g[s] = Till!EvaluatedPair(e, x[1], x[2])
    BY <1>2, <1>4
  <2> HIDE DEF e, x
  <2>4. Calm(e, g[s])
    BY <2>1, <2>2, <2>3, EvaluatedPairCalm DEF Calm
  <2>. QED
    BY <2>1, <2>4, CalmThrough
<1> HIDE DEF D
<1>5. S \in D
  BY <1>3, <1>4, SubsetInduction
<1>. QED
  BY <1>1, <1>5 DEF D

\* A change beside wallets, ledgers and rewards.
Beside(d, e) ==
  /\ Shaped(e) /\ e.wallet = d.wallet /\ e.ledger = d.ledger /\ e.unlocked = d.unlocked

LEMMA BesideFine ==
  ASSUME NEW d, NEW e, Fine(d), Beside(d, e)
  PROVE  Fine(e) /\ \A s : Judged(d, s) <=> Judged(e, s)
<1>1. Db(e) /\ Rewarded(e)
  BY DEF Fine, Db, Beside, Rewarded
<1>2. \A s : Judged(d, s) <=> Judged(e, s)
  BY DEF Beside, Judged, Till!Recovered
<1>. QED
  BY <1>1, <1>2 DEF Fine, Beside

LEMMA BesideCalm ==
  ASSUME NEW d, NEW e, Fine(d), Beside(d, e), SameRooms(d, e), Falls(e) = Falls(d)
  PROVE  Calm(d, e)
<1>1. Fine(e) /\ \A s : Judged(d, s) => Judged(e, s)
  BY BesideFine
<1>. QED
  BY <1>1 DEF Calm, Same, Beside

LEMMA RegisteredCalm ==
  ASSUME NEW d, Fine(d), NEW pairs
  PROVE  Calm(d, Till!Registered(d, pairs))
<1> DEFINE e == Till!Registered(d, pairs)
           k == d.pairs \cup pairs
<1>1. e = [d EXCEPT !.pairs = k]
  BY DEF Till!Registered
<1> HIDE DEF e, k
<1>2. Beside(d, e) /\ SameRooms(d, e) /\ Falls(e) = Falls(d)
  BY <1>1 DEF Fine, Db, Shaped, Beside, SameRooms, Falls
<1>3. Calm(d, e)
  BY <1>2, BesideCalm
<1>. QED
  BY <1>3 DEF e

LEMMA RecordedCalm ==
  ASSUME NEW d, Fine(d), NEW f, f.type # "bankruptcy"
  PROVE  Calm(d, Till!Recorded(d, f))
<1> DEFINE e == Till!Recorded(d, f)
<1>1. Beside(d, e) /\ SameRooms(d, e) /\ Falls(e) = Falls(d)
  BY DEF Till!Recorded, Fine, Db, Shaped, Beside, SameRooms, Falls
<1>. QED
  BY <1>1, BesideCalm

\* A fact of one subject, who is evaluated.
LEMMA NotedCalm ==
  ASSUME NEW d, Fine(d), NEW s \in Till!Subjects, NEW type, type # "bankruptcy", NEW ref, NEW data
  PROVE  /\ Calm(d, Till!Evaluated(Till!Recorded(d, Till!Event(type, s, ref, data)), s))
         /\ Judged(Till!Evaluated(Till!Recorded(d, Till!Event(type, s, ref, data)), s), s)
<1> DEFINE e == Till!Recorded(d, Till!Event(type, s, ref, data))
<1>1. Till!Event(type, s, ref, data).type # "bankruptcy"
  BY DEF Till!Event
<1>2. Calm(d, e)
  BY <1>1, RecordedCalm
<1> HIDE DEF e
<1>3. Calm(e, Till!Evaluated(e, s)) /\ Judged(Till!Evaluated(e, s), s)
  BY <1>2, EvaluatedCalm DEF Calm
<1>4. Calm(d, Till!Evaluated(e, s))
  BY <1>2, <1>3, CalmThrough
<1>. QED
  BY <1>3, <1>4 DEF e

LEMMA CreationFactCalm ==
  ASSUME NEW d, Fine(d), NEW r, d.rooms[r].initiator \in Till!Subjects
  PROVE  Calm(d, Till!CreationFact(d, r))
<1> DEFINE t == d.rooms[r]
<1>1. CASE t.rematch = <<>>
  <2>1. Till!CreationFact(d, r)
          = Till!Evaluated(Till!Recorded(d, Till!Event("room_created", t.initiator, r, 0)), t.initiator)
    BY <1>1 DEF Till!CreationFact
  <2>. QED
    BY <2>1, NotedCalm
<1>2. CASE t.rematch # <<>>
  <2>1. Till!CreationFact(d, r)
          = Till!Evaluated(Till!Recorded(d, Till!Event("rematch_created", t.initiator, r, t.rematch[1])), t.initiator)
    BY <1>2 DEF Till!CreationFact
  <2>. QED
    BY <2>1, NotedCalm
<1>. QED
  BY <1>1, <1>2

LEMMA CreatedCalm ==
  ASSUME NEW d, Fine(d), NEW r, d.rooms[r].initiator \in Till!Subjects
  PROVE  Calm(d, Till!Created(d, r))
<1> DEFINE roster == d.rooms[r].roster
           opening == [p \in Till!ToSet(roster) |-> IF p \in Till!Subjects THEN <<Till!Balance(d, p)>> ELSE <<>>]
           o == [d EXCEPT !.openings = (r :> opening) @@ @]
           e == Till!Registered(o, Till!Pairs(roster))
<1>1. Till!Created(d, r) = IF d.rooms[r].kind = "party" THEN e ELSE Till!CreationFact(e, r)
  BY DEF Till!Created
<1>2. Beside(d, o) /\ SameRooms(d, o) /\ Falls(o) = Falls(d)
  <2> DEFINE k == (r :> opening) @@ d.openings
  <2>1. o = [d EXCEPT !.openings = k]
    OBVIOUS
  <2> HIDE DEF o, k
  <2>. QED
    BY <2>1 DEF Fine, Db, Shaped, Beside, SameRooms, Falls
<1> HIDE DEF o
<1>3. Calm(d, o)
  BY <1>2, BesideCalm
<1>4. Calm(o, e)
  BY <1>3, RegisteredCalm DEF Calm
<1> HIDE DEF e
<1>5. Calm(d, e)
  BY <1>3, <1>4, CalmThrough
<1>6. e.rooms = d.rooms
  BY <1>5 DEF Calm, Same, SameRooms
<1>7. Calm(e, Till!CreationFact(e, r))
  BY <1>5, <1>6, CreationFactCalm DEF Calm
<1>8. Calm(d, Till!CreationFact(e, r))
  BY <1>5, <1>7, CalmThrough
<1>. QED
  BY <1>1, <1>5, <1>8

-----------------------------------------------------------------------------
(* Several wallets at once.                                                *)

\* Each wallet of e is the one of some database in order, and nothing else differs.
Apart(d, e, s, o) ==
  /\ Fine(o) /\ o.unlocked = d.unlocked
  /\ e.wallet[s] = o.wallet[s] /\ e.ledger[s] = o.ledger[s]

LEMMA ApartFine ==
  ASSUME NEW d, NEW e, Shaped(e), SameFacts(d, e),
         NEW W, NEW L, e.wallet = [s \in Till!Subjects |-> W[s]], e.ledger = [s \in Till!Subjects |-> L[s]],
         \A s \in Till!Subjects : \E o : Apart(d, e, s, o)
  PROVE  Fine(e)
<1>1. ASSUME NEW s \in Till!Subjects
      PROVE  /\ Account(e.wallet[s], e.ledger[s])
             /\ \A id \in Till!Catalogue, context \in Contexts :
                  Rewards[id] > 0 =>
                    (<<s, id, context>> \in e.unlocked <=> Held(e.ledger[s], Till!RewardKey(id, context)))
  <2>1. PICK o : Apart(d, e, s, o)
    OBVIOUS
  <2>2. Account(o.wallet[s], o.ledger[s]) /\ Rewarded(o) /\ e.unlocked = o.unlocked
    BY <2>1 DEF Apart, Fine, SameFacts
  <2>. QED
    BY <2>1, <2>2 DEF Apart, Rewarded
<1>2. \A s \in Till!Subjects : e.wallet[s] \in WalletRows /\ e.ledger[s] \in Seq(LineRows)
  BY <1>1 DEF Account
<1>3. Db(e)
  <2>1. \A s \in Till!Subjects : W[s] \in WalletRows /\ L[s] \in Seq(LineRows)
    BY <1>2
  <2>2. e.wallet \in [Till!Subjects -> WalletRows] /\ e.ledger \in [Till!Subjects -> Seq(LineRows)]
    BY <2>1
  <2>. QED
    BY <2>2 DEF Db
<1>4. Rewarded(e)
  BY <1>1 DEF Rewarded
<1>. QED
  BY <1>1, <1>3, <1>4 DEF Fine

\* Wallets are opened.
LEMMA EachOpened ==
  ASSUME NEW d, Fine(d), NEW S, S \subseteq Till!Subjects, NEW e, e = Till!Each(d, S, Till!Opened)
  PROVE  /\ Calm(d, e) /\ SameFacts(d, e)
         /\ \A s \in S : e.wallet[s].open
<1> DEFINE W == [s \in Till!Subjects |-> IF s \in S THEN Till!Opened(d, s).wallet[s] ELSE d.wallet[s]]
           L == [s \in Till!Subjects |-> IF s \in S THEN Till!Opened(d, s).ledger[s] ELSE d.ledger[s]]
<1>1. e = [d EXCEPT !.wallet = W, !.ledger = L]
  BY DEF Till!Each
<1>2. /\ \A s \in S : W[s] = Till!Opened(d, s).wallet[s] /\ L[s] = Till!Opened(d, s).ledger[s]
      /\ \A s \in Till!Subjects \ S : W[s] = d.wallet[s] /\ L[s] = d.ledger[s]
      /\ W = [s \in Till!Subjects |-> W[s]] /\ L = [s \in Till!Subjects |-> L[s]]
  OBVIOUS
<1> HIDE DEF W, L
<1>3. Shaped(e) /\ SameFacts(d, e) /\ e.wallet = W /\ e.ledger = L
  BY <1>1 DEF Fine, Db, Shaped, SameFacts, SameRooms
<1>4. ASSUME NEW s \in S
      PROVE  /\ Quiet(d, Till!Opened(d, s), {s}) /\ SameFacts(d, Till!Opened(d, s))
             /\ Till!Opened(d, s).wallet[s].open
             /\ d.wallet[s].open => Till!Opened(d, s) = d
             /\ ~d.wallet[s].open => Till!Opened(d, s).wallet[s].bankruptcies = 0
  BY OpenedFine
<1>5. ASSUME NEW s \in Till!Subjects PROVE \E o : Apart(d, e, s, o)
  <2>1. CASE s \in S
    <3>1. Apart(d, e, s, Till!Opened(d, s))
      BY <1>2, <1>3, <1>4, <2>1 DEF Apart, Quiet, SameFacts
    <3>. QED
      BY <3>1
  <2>2. CASE s \notin S
    <3>1. Apart(d, e, s, d)
      BY <1>2, <1>3, <2>2 DEF Apart
    <3>. QED
      BY <3>1
  <2>. QED
    BY <2>1, <2>2
<1>6. Fine(e)
  BY <1>2, <1>3, <1>5, ApartFine
<1>7. ASSUME NEW s \in Till!Subjects
      PROVE  /\ e.wallet[s].bankruptcies = d.wallet[s].bankruptcies
             /\ \A key \in OtherKeys : Values(e.ledger[s], key) = Values(d.ledger[s], key)
             /\ Judged(d, s) => Judged(e, s)
             /\ s \in S => e.wallet[s].open
  <2>1. CASE s \notin S
    <3>1. e.wallet[s] = d.wallet[s] /\ e.ledger[s] = d.ledger[s] /\ e.unlocked = d.unlocked
      BY <1>2, <1>3, <2>1 DEF SameFacts
    <3>. QED
      BY <2>1, <3>1 DEF Judged, Till!Recovered
  <2>2. CASE s \in S
    <3> DEFINE o == Till!Opened(d, s)
    <3>1. Quiet(d, o, {s}) /\ e.wallet[s] = o.wallet[s] /\ e.ledger[s] = o.ledger[s] /\ o.wallet[s].open
      BY <1>2, <1>3, <1>4, <2>2
    <3>2. Judged(d, s) => Judged(e, s)
      <4>1. CASE d.wallet[s].open
        <5>1. e.wallet[s] = d.wallet[s] /\ e.ledger[s] = d.ledger[s] /\ e.unlocked = d.unlocked
          BY <1>3, <1>4, <2>2, <3>1, <4>1 DEF SameFacts
        <5>. QED
          BY <5>1 DEF Judged, Till!Recovered
      <4>2. CASE ~d.wallet[s].open
        <5>1. e.wallet[s].bankruptcies = 0
          BY <1>4, <2>2, <3>1, <4>2
        <5>. QED
          BY <5>1 DEF Judged, Till!Recovered
      <4>. QED
        BY <4>1, <4>2
    <3> HIDE DEF o
    <3>. QED
      BY <3>1, <3>2 DEF Quiet, Same
  <2>. QED
    BY <2>1, <2>2
<1>8. Same(d, e)
  BY <1>3, <1>7 DEF Same, SameFacts, Falls
<1>. QED
  BY <1>3, <1>6, <1>7, <1>8 DEF Calm

-----------------------------------------------------------------------------
(* Facts of rooms.                                                         *)

Seats == Owners \cup Machines \cup Bots

LEMMA SubjectsFinite == IsFiniteSet(Till!Subjects) /\ IsFiniteSet(Owners) /\ IsFiniteSet(Machines)
  BY PurseAssumption, FS_Union DEF Till!Subjects

LEMMA PairsFinite ==
  ASSUME NEW roster
  PROVE  IsFiniteSet(Till!Pairs(roster)) /\ Till!Pairs(roster) \subseteq Owners \X Machines
<1>1. /\ IsFiniteSet(Till!ToSet(roster) \cap Owners) /\ IsFiniteSet(Till!ToSet(roster) \cap Machines)
  BY SubjectsFinite, FS_Intersection
<1>. QED
  BY <1>1, FS_Product DEF Till!Pairs

LEMMA TerminalRecordedCalm ==
  ASSUME NEW d, Fine(d), NEW r, NEW outcome
  PROVE  Calm(d, Till!TerminalRecorded(d, r, outcome))
<1> DEFINE t == d.rooms[r]
           normal == outcome /\ t.kind # "party"
           seats == Till!ToSet(t.roster)
           real == seats \cap Till!Subjects
           open == IF normal THEN Till!Each(d, real, Till!Opened) ELSE d
           proven == r \in DOMAIN d.openings \/ t.stake = 0 \/ r \in d.batches
           match == [room |-> r, kind |-> t.kind, game |-> t.game, stake |-> t.stake, rematch |-> t.rematch,
                     created |-> t.created, ended |-> t.ended, normal |-> normal,
                     roster |-> t.roster, winners |-> t.winners,
                     delta |-> [p \in seats |-> IF proven THEN <<t.delta[p]>> ELSE <<>>],
                     opening |-> IF r \in DOMAIN d.openings THEN d.openings[r]
                                 ELSE [p \in seats |-> <<>>],
                     after |-> [p \in real |-> Till!AfterRoom(open, r, p)]]
           list == Append(open.matches, match)
           m == [open EXCEPT !.matches = list]
           met == Till!Registered(m, Till!Pairs(t.roster))
           all == Till!EvaluatedAll(met, real)
<1>1. Till!TerminalRecorded(d, r, outcome)
        = IF ~Till!Recordable(d, r) THEN d
          ELSE IF normal THEN Till!EvaluatedPairs(all, Till!Pairs(t.roster)) ELSE met
  BY Zenon DEF Till!TerminalRecorded
<1>2. Calm(d, open)
  <2>1. Calm(d, d)
    BY CalmItself
  <2>2. Calm(d, Till!Each(d, real, Till!Opened))
    BY EachOpened
  <2>. QED
    BY <2>1, <2>2
<1> HIDE DEF open, list
<1>11. m = [open EXCEPT !.matches = list]
  BY DEF m
<1> HIDE DEF m
<1>3. Beside(open, m) /\ SameRooms(open, m) /\ Falls(m) = Falls(open)
  BY <1>2, <1>11 DEF Calm, Fine, Db, Shaped, Beside, SameRooms, Falls
<1>4. Calm(open, m)
  BY <1>2, <1>3, BesideCalm DEF Calm
<1>5. Calm(m, met)
  BY <1>4, RegisteredCalm DEF Calm
<1>6. Calm(d, met)
  BY <1>2, <1>4, <1>5, CalmThrough
<1> HIDE DEF met
<1>7. Calm(met, all)
  <2>1. IsFiniteSet(real) /\ real \subseteq Till!Subjects
    BY SubjectsFinite, FS_Intersection
  <2> HIDE DEF real
  <2>. QED
    BY <1>6, <2>1, EvaluatedAllCalm DEF Calm
<1> HIDE DEF all
<1>8. Calm(all, Till!EvaluatedPairs(all, Till!Pairs(t.roster)))
  BY <1>7, PairsFinite, EvaluatedPairsCalm DEF Calm
<1>9. Calm(d, Till!EvaluatedPairs(all, Till!Pairs(t.roster)))
  <2>1. Calm(d, all)
    BY <1>6, <1>7, CalmThrough
  <2>. QED
    BY <1>8, <2>1, CalmThrough
<1>10. Calm(d, d)
  BY CalmItself
<1> HIDE DEF normal
<1>. QED
  BY <1>1, <1>6, <1>9, <1>10

LEMMA PreservedLossCalm ==
  ASSUME NEW d, Fine(d), NEW h \in Owners, NEW r
  PROVE  Calm(d, Till!PreservedLoss(d, h, r))
<1>1. Till!PreservedLoss(d, h, r) \in {d, Till!Evaluated(Till!Recorded(d, Till!Event("preserved_loss", h, r, 0)), h)}
  BY DEF Till!PreservedLoss
<1>2. h \in Till!Subjects
  BY DEF Till!Subjects
<1>3. Calm(d, Till!Evaluated(Till!Recorded(d, Till!Event("preserved_loss", h, r, 0)), h))
  BY <1>2, NotedCalm
<1>. QED
  BY <1>1, <1>3, CalmItself

LEMMA CheckInRecordedCalm ==
  ASSUME NEW d, Fine(d), NEW s \in Till!Subjects, NEW day,
         NEW partners, IsFiniteSet(partners),
         partners \subseteq IF s \in Owners THEN Machines ELSE Owners
  PROVE  /\ Calm(d, Till!CheckInRecorded(d, s, day, partners))
         /\ Judged(Till!CheckInRecorded(d, s, day, partners), s)
<1> DEFINE pairs == IF s \in Owners THEN {s} \X partners ELSE partners \X {s}
           e == Till!Evaluated(Till!Recorded(d, Till!Event("check_in", s, day, 0)), s)
           f == Till!Registered(e, pairs)
<1>1. Till!CheckInRecorded(d, s, day, partners) = Till!EvaluatedPairs(f, pairs)
  BY Zenon DEF Till!CheckInRecorded
<1>2. IsFiniteSet(pairs)
  BY FS_Singleton, FS_Product
<1>3. pairs \subseteq Owners \X Machines
  BY DEF Till!Subjects
<1>4. Calm(d, e) /\ Judged(e, s)
  BY NotedCalm
<1> HIDE DEF e, pairs
<1>5. Calm(e, f)
  BY <1>4, RegisteredCalm DEF Calm
<1> HIDE DEF f
<1>6. Calm(f, Till!EvaluatedPairs(f, pairs))
  BY <1>2, <1>3, <1>5, EvaluatedPairsCalm DEF Calm
<1>7. Calm(e, Till!EvaluatedPairs(f, pairs))
  BY <1>5, <1>6, CalmThrough
<1>8. Calm(d, Till!EvaluatedPairs(f, pairs))
  BY <1>4, <1>7, CalmThrough
<1>. QED
  BY <1>1, <1>4, <1>7, <1>8 DEF Calm

\* Facts of a loan of one pair: both sides are evaluated.
LEMMA LoanRecordedCalm ==
  ASSUME NEW d, Fine(d), NEW h \in Owners, NEW a \in Machines,
         NEW facts, facts # {}, \A f \in facts : f.pair = <<h, a>>,
         NEW borrower \in Till!Subjects, NEW lender \in Till!Subjects
  PROVE  /\ Calm(d, Till!LoanRecorded(d, facts, borrower, lender))
         /\ Judged(Till!LoanRecorded(d, facts, borrower, lender), borrower)
         /\ Judged(Till!LoanRecorded(d, facts, borrower, lender), lender)
<1> DEFINE pair == (CHOOSE f \in facts : TRUE).pair
           known == d.loanFacts \cup facts
           k == [d EXCEPT !.loanFacts = known]
           e == Till!Registered(k, {pair})
           f == Till!Evaluated(e, borrower)
           g == Till!Evaluated(f, lender)
<1>1. Till!LoanRecorded(d, facts, borrower, lender) = Till!EvaluatedPair(g, pair[1], pair[2])
  BY Zenon DEF Till!LoanRecorded
<1>2. pair[1] = h /\ pair[2] = a
  <2>1. pair = <<h, a>>
    OBVIOUS
  <2> HIDE DEF pair
  <2>. QED
    BY <2>1
<1> HIDE DEF known, pair
<1>10. k = [d EXCEPT !.loanFacts = known]
  BY DEF k
<1> HIDE DEF k
<1>3. Beside(d, k) /\ SameRooms(d, k) /\ Falls(k) = Falls(d)
  BY <1>10 DEF Fine, Db, Shaped, Beside, SameRooms, Falls
<1>4. Calm(d, k)
  BY <1>3, BesideCalm
<1>5. Calm(k, e)
  BY <1>4, RegisteredCalm DEF Calm
<1> HIDE DEF e
<1>6. Calm(e, f) /\ Judged(f, borrower)
  BY <1>5, EvaluatedCalm DEF Calm
<1> HIDE DEF f
<1>7. Calm(f, g) /\ Judged(g, lender)
  BY <1>6, EvaluatedCalm DEF Calm
<1> HIDE DEF g
<1>8. Calm(g, Till!EvaluatedPair(g, h, a))
  BY <1>7, EvaluatedPairCalm DEF Calm
<1>9. Calm(d, Till!EvaluatedPair(g, h, a))
  <2>1. Calm(d, e)
    BY <1>4, <1>5, CalmThrough
  <2>2. Calm(d, f)
    BY <1>6, <2>1, CalmThrough
  <2>3. Calm(d, g)
    BY <1>7, <2>2, CalmThrough
  <2>. QED
    BY <1>8, <2>3, CalmThrough
<1>. QED
  BY <1>1, <1>2, <1>6, <1>7, <1>8, <1>9 DEF Calm

-----------------------------------------------------------------------------
(* The backfill: rooms one after another, the one that ended last at the   *)
(* end.                                                                    *)

EndedBefore(d, x, y) ==
  \/ d.rooms[x].ended < d.rooms[y].ended
  \/ d.rooms[x].ended = d.rooms[y].ended /\ x <= y
LatestOf(d, s) == CHOOSE y \in s : \A x \in s : EndedBefore(d, x, y)

LEMMA LatestThere ==
  ASSUME NEW d, NEW S, S \subseteq RoomIds, \A r \in S : d.rooms[r].ended \in Int,
         NEW s \in SUBSET S, s # {}
  PROVE  LatestOf(d, s) \in s
<1>1. IsFiniteSet(s) /\ s \subseteq Nat /\ \A r \in s : r \in Nat /\ d.rooms[r].ended \in Int
  <2>1. IsFiniteSet(RoomIds) /\ RoomIds \subseteq Nat
    BY PurseAssumption
  <2>. QED
    BY <2>1, FS_Subset
<1> DEFINE D == {u \in SUBSET s : u # {} => \E y \in u : \A x \in u : EndedBefore(d, x, y)}
<1>2. ASSUME NEW u \in SUBSET s, u # {}, u \ {Picked(u)} \in D PROVE u \in D
  <2> DEFINE c == Picked(u)
             w == u \ {c}
  <2>4. c \in u
    BY <1>2, Zenon DEF Picked
  <2> HIDE DEF c
  <2>1. c \in u /\ c \in Nat /\ d.rooms[c].ended \in Int /\ EndedBefore(d, c, c)
    BY <1>1, <2>4 DEF EndedBefore
  <2>2. CASE w = {}
    <3>1. \A x \in u : EndedBefore(d, x, c)
      BY <2>1, <2>2
    <3>. QED
      BY <2>1, <3>1
  <2>3. CASE w # {}
    <3>1. PICK y \in w : \A x \in w : EndedBefore(d, x, y)
      BY <1>2, <2>3 DEF c
    <3>2. CASE EndedBefore(d, c, y)
      <4>1. y \in u /\ \A x \in u : EndedBefore(d, x, y)
        BY <3>1, <3>2
      <4>. QED
        BY <4>1
    <3>3. CASE ~EndedBefore(d, c, y)
      <4>1. ASSUME NEW x \in w PROVE EndedBefore(d, x, c)
        <5>1. EndedBefore(d, x, y)
          BY <3>1
        <5>2. /\ x \in Nat /\ y \in Nat /\ c \in Nat
              /\ d.rooms[x].ended \in Int /\ d.rooms[y].ended \in Int /\ d.rooms[c].ended \in Int
          BY <1>1, <2>1
        <5>. QED
          BY ONLY <3>3, <5>1, <5>2 DEF EndedBefore
      <4>2. \A x \in u : EndedBefore(d, x, c)
        BY <2>1, <4>1
      <4>. QED
        BY <2>1, <4>2
    <3>. QED
      BY <3>2, <3>3
  <2>. QED
    BY <2>2, <2>3
<1>3. s \in D
  <2>1. {} \in D
    OBVIOUS
  <2> HIDE DEF D
  <2>. QED
    BY <1>1, <1>2, <2>1, SubsetInduction
<1>4. \E y \in s : \A x \in s : EndedBefore(d, x, y)
  BY <1>3
<1>. QED
  BY <1>4 DEF LatestOf

BackSteps(d, g, D) ==
  g = [s \in D |-> IF s = {} THEN d ELSE Till!BackfilledRoom(g[s \ {LatestOf(d, s)}], LatestOf(d, s))]

\* The rooms of a backfill.
Ripe(d, S) == IsFiniteSet(S) /\ S \subseteq RoomIds /\ \A r \in S : d.rooms[r].ended \in Int

LEMMA LatestLess ==
  ASSUME NEW d, NEW S, Ripe(d, S), NEW s \in SUBSET S, s # {}
  PROVE  /\ LatestOf(d, s) \in s
         /\ s \ {LatestOf(d, s)} \in SUBSET S
         /\ Cardinality(s) \in Nat /\ Cardinality(s) # 0
         /\ Cardinality(s \ {LatestOf(d, s)}) = Cardinality(s) - 1
<1>1. LatestOf(d, s) \in s
  BY LatestThere DEF Ripe
<1>2. IsFiniteSet(s)
  BY FS_Subset DEF Ripe
<1>. QED
  BY <1>1, <1>2, FS_CardinalityType, FS_RemoveElement, FS_EmptySet

LEMMA LatestInduction ==
  ASSUME NEW d, NEW S, Ripe(d, S), NEW D, {} \in D,
         \A s \in SUBSET S : s # {} /\ s \ {LatestOf(d, s)} \in D => s \in D
  PROVE  S \in D
<1> DEFINE N == {n \in Nat : \A s \in SUBSET S : Cardinality(s) <= n => s \in D}
<1>1. 0 \in N
  <2>1. \A s \in SUBSET S : Cardinality(s) <= 0 => s = {}
    BY FS_Subset, FS_CardinalityType, FS_EmptySet DEF Ripe
  <2>. QED
    BY <2>1
<1>2. ASSUME NEW n \in N PROVE n + 1 \in N
  <2>1. ASSUME NEW s \in SUBSET S, Cardinality(s) <= n + 1 PROVE s \in D
    <3>1. CASE s = {}
      BY <3>1
    <3>2. CASE s # {}
      <4>1. s \ {LatestOf(d, s)} \in SUBSET S /\ Cardinality(s \ {LatestOf(d, s)}) <= n
        BY <2>1, <3>2, LatestLess
      <4>. QED
        BY <3>2, <4>1
    <3>. QED
      BY <3>1, <3>2
  <2>2. n + 1 \in Nat
    OBVIOUS
  <2>. QED
    BY <2>1, <2>2
<1>3. N \subseteq Nat
  OBVIOUS
<1>4. N = Nat
  <2> HIDE DEF N
  <2>. QED
    BY <1>1, <1>2, <1>3, SetInduction
<1>5. Cardinality(S) \in N /\ Cardinality(S) <= Cardinality(S)
  BY <1>4, FS_CardinalityType DEF Ripe
<1>. QED
  BY <1>5

LEMMA BackExist ==
  ASSUME NEW d, NEW S, Ripe(d, S)
  PROVE  \E g : BackSteps(d, g, SUBSET S)
<1> DEFINE N == {n \in Nat : \E g : BackSteps(d, g, Upto(S, n))}
<1>1. 0 \in N
  <2> DEFINE g == [s \in Upto(S, 0) |-> d]
  <2>1. \A s \in Upto(S, 0) : s = {}
    BY FS_Subset, FS_CardinalityType, FS_EmptySet DEF Upto, Ripe
  <2>2. BackSteps(d, g, Upto(S, 0))
    BY <2>1 DEF BackSteps
  <2>. QED
    BY <2>2
<1>2. ASSUME NEW n \in N PROVE n + 1 \in N
  <2>1. PICK g : BackSteps(d, g, Upto(S, n))
    OBVIOUS
  <2> DEFINE h == [s \in Upto(S, n + 1) |->
                     IF s = {} THEN d ELSE Till!BackfilledRoom(g[s \ {LatestOf(d, s)}], LatestOf(d, s))]
  <2>2. ASSUME NEW s \in Upto(S, n + 1), s # {}
        PROVE  s \ {LatestOf(d, s)} \in Upto(S, n)
    BY <2>2, LatestLess DEF Upto
  <2>3. ASSUME NEW s \in Upto(S, n) PROVE s \in Upto(S, n + 1) /\ h[s] = g[s]
    <3>1. s \in Upto(S, n + 1)
      BY FS_Subset, FS_CardinalityType DEF Upto, Ripe
    <3>2. g[s] = IF s = {} THEN d ELSE Till!BackfilledRoom(g[s \ {LatestOf(d, s)}], LatestOf(d, s))
      BY <2>1, Zenon DEF BackSteps
    <3>. QED
      BY <3>1, <3>2
  <2>4. BackSteps(d, h, Upto(S, n + 1))
    <3>1. \A s \in Upto(S, n + 1) :
            h[s] = IF s = {} THEN d ELSE Till!BackfilledRoom(h[s \ {LatestOf(d, s)}], LatestOf(d, s))
      BY <2>2, <2>3
    <3>. QED
      BY <3>1, Zenon DEF BackSteps
  <2>5. \E e : BackSteps(d, e, Upto(S, n + 1))
    <3> HIDE DEF h
    <3>. QED
      BY <2>4
  <2>6. n + 1 \in Nat
    OBVIOUS
  <2>. QED
    BY <2>5, <2>6
<1>3. N = Nat
  BY <1>1, <1>2, SetInduction
<1>4. Cardinality(S) \in N /\ Upto(S, Cardinality(S)) = SUBSET S
  BY <1>3, FS_CardinalityType, FS_Subset DEF Upto, Ripe
<1>. QED
  BY <1>4

LEMMA BackIs ==
  ASSUME NEW d, NEW S, Ripe(d, S),
         S = {r \in DOMAIN d.rooms : Till!Backfillable(d, r)}
  PROVE  \E g : BackSteps(d, g, SUBSET S) /\ Till!Backfilled(d) = g[S]
<1> DEFINE Def(g) == g = [s \in SUBSET S |->
                            IF s = {} THEN d ELSE Till!BackfilledRoom(g[s \ {LatestOf(d, s)}], LatestOf(d, s))]
           it == CHOOSE g : Def(g)
<1>1. \A g : Def(g) <=> BackSteps(d, g, SUBSET S)
  BY Zenon DEF BackSteps
<1>2. \E g : Def(g)
  <2> HIDE DEF Def
  <2>. QED
    BY <1>1, BackExist
<1>3. Def(it)
  <2> HIDE DEF Def
  <2>. QED
    BY <1>2
<1>4. Till!Backfilled(d) = it[S]
  BY DEF Till!Backfilled, Till!MapThenFoldSet, LatestOf, EndedBefore
<1>. QED
  <2> HIDE DEF it, Def
  <2>. QED
    BY <1>1, <1>3, <1>4

\* The rooms a backfill may need.
RoomsTyped(d) ==
  /\ DOMAIN d.rooms = RoomIds
  /\ \A r \in RoomIds :
       /\ d.rooms[r].ended \in Int
       /\ d.rooms[r].status # "free" => d.rooms[r].initiator \in Till!Subjects

LEMMA BackfilledRoomCalm ==
  ASSUME NEW d, Fine(d), NEW r, d.rooms[r].initiator \in Till!Subjects
  PROVE  Calm(d, Till!BackfilledRoom(d, r))
<1> DEFINE f == Till!TerminalRecorded(d, r, TRUE)
           e == Till!CreationFact(f, r)
           losers == {p \in Till!ToSet(d.rooms[r].roster) \cap Owners : p \notin d.rooms[r].winners}
           h == CHOOSE h \in losers : TRUE
<1>1. Calm(d, f)
  BY TerminalRecordedCalm
<1>2. f.rooms = d.rooms
  BY <1>1 DEF Calm, Same, SameRooms
<1>3. Till!BackfilledRoom(d, r)
        = IF d.rooms[r].preserved /\ d.rooms[r].winners # {} /\ Cardinality(losers) = 1
          THEN Till!PreservedLoss(e, h, r) ELSE e
  BY DEF Till!BackfilledRoom, Cardinality, Till!Cardinality
<1> HIDE DEF f
<1>4. Calm(f, e)
  BY <1>1, <1>2, CreationFactCalm DEF Calm
<1> HIDE DEF e
<1>5. Calm(d, e)
  BY <1>1, <1>4, CalmThrough
<1>6. ASSUME Cardinality(losers) = 1 PROVE h \in Owners
  <2>1. IsFiniteSet(losers)
    BY SubjectsFinite, FS_Subset, FS_Intersection
  <2>2. losers # {}
    BY <1>6, <2>1, FS_EmptySet
  <2>. QED
    BY <2>2
<1> HIDE DEF h
<1>7. ASSUME h \in Owners PROVE Calm(d, Till!PreservedLoss(e, h, r))
  <2>1. Calm(e, Till!PreservedLoss(e, h, r))
    BY <1>5, <1>7, PreservedLossCalm DEF Calm
  <2>. QED
    BY <1>5, <2>1, CalmThrough
<1> HIDE DEF losers
<1>. QED
  BY <1>3, <1>5, <1>6, <1>7

LEMMA BackfilledCalm ==
  ASSUME NEW d, Fine(d), RoomsTyped(d)
  PROVE  Calm(d, Till!Backfilled(d))
<1> DEFINE S == {r \in DOMAIN d.rooms : Till!Backfillable(d, r)}
<1>1. Ripe(d, S)
  <2>1. S \subseteq RoomIds
    BY DEF RoomsTyped
  <2>2. IsFiniteSet(S)
    BY <2>1, PurseAssumption, FS_Subset
  <2>. QED
    BY <2>1, <2>2 DEF Ripe, RoomsTyped
<1>2. \A r \in S : d.rooms[r].initiator \in Till!Subjects
  BY DEF RoomsTyped, Till!Backfillable
<1>3. PICK g : BackSteps(d, g, SUBSET S) /\ Till!Backfilled(d) = g[S]
  BY <1>1, BackIs
<1> HIDE DEF S
<1> DEFINE D == {s \in SUBSET S : Calm(d, g[s])}
<1>4. /\ g[{}] = d
      /\ \A s \in SUBSET S : s # {} =>
           g[s] = Till!BackfilledRoom(g[s \ {LatestOf(d, s)}], LatestOf(d, s))
  BY <1>3, Zenon DEF BackSteps
<1>5. {} \in D
  BY <1>4, CalmItself
<1>6. ASSUME NEW s \in SUBSET S, s # {}, s \ {LatestOf(d, s)} \in D
      PROVE  s \in D
  <2> DEFINE x == LatestOf(d, s)
             e == g[s \ {x}]
  <2>1. x \in S /\ Calm(d, e)
    BY <1>1, <1>6, LatestLess
  <2>2. g[s] = Till!BackfilledRoom(e, x)
    BY <1>4, <1>6
  <2> HIDE DEF e, x
  <2>3. e.rooms[x].initiator \in Till!Subjects
    BY <1>2, <2>1 DEF Calm, Same, SameRooms
  <2>4. Calm(e, g[s])
    BY <2>1, <2>2, <2>3, BackfilledRoomCalm DEF Calm
  <2>. QED
    BY <2>1, <2>4, CalmThrough
<1> HIDE DEF D
<1>7. S \in D
  BY <1>1, <1>5, <1>6, LatestInduction
<1>. QED
  BY <1>3, <1>7 DEF D

-----------------------------------------------------------------------------
(* Settlements.                                                            *)

LEMMA RoomKeyOther == \A r \in RoomIds : Till!SettlementKey(r) \in OtherKeys
  BY DEF Till!SettlementKey, OtherKeys, RoomKeys

LEMMA NoValues ==
  ASSUME NEW d, Db(d), NEW s \in Till!Subjects, NEW key
  PROVE  /\ Till!Holds(d, s, key) <=> Held(d.ledger[s], key)
         /\ Held(d.ledger[s], key) <=> Values(d.ledger[s], key) # {}
  BY LineHeld, HeldValues

\* What a settlement leaves as it was.
Settling(d, e) ==
  /\ Fine(e) /\ e.rooms = d.rooms /\ e.lent = d.lent /\ Falls(e) = Falls(d)
  /\ \A s \in Till!Subjects : e.wallet[s].bankruptcies = d.wallet[s].bankruptcies
  /\ \A s \in Till!Subjects : Judged(d, s) => Judged(e, s)

\* Who is at a table that is settled has the line of its delta.
TablePaid(d, e, r) ==
  /\ Settling(d, e)
  /\ e.batches = IF d.rooms[r].stake = 0 \/ ~d.rooms[r].settles
                 THEN d.batches ELSE d.batches \cup {r}
  /\ \A s \in Till!Subjects, key \in OtherKeys :
       key # Till!SettlementKey(r) => Values(e.ledger[s], key) = Values(d.ledger[s], key)
  /\ \A s \in Till!Subjects :
       Values(e.ledger[s], Till!SettlementKey(r))
         = IF r \in e.batches /\ s \in Till!ToSet(d.rooms[r].roster) /\ d.rooms[r].delta[s] # 0
           THEN {d.rooms[r].delta[s]} ELSE {}

\* A booking of the shop or of a table is no reason to be judged.
LEMMA BookedJudged ==
  ASSUME NEW d, NEW e, NEW s \in Till!Subjects, NEW chips, NEW key,
         Booking(d, e, s, chips, key), key[1] \in Till!Unjudged
  PROVE  Judged(e, s)
  BY DEF Booking, Judged, Till!Last

LEMMA SettledFine ==
  ASSUME NEW d, Fine(d), NEW r \in RoomIds, r \notin d.batches,
         \A p \in Till!ToSet(d.rooms[r].roster) : d.rooms[r].delta[p] \in Int,
         \A s \in Till!Subjects : Values(d.ledger[s], Till!SettlementKey(r)) = {},
         NEW e, e = Till!Settled(d, r)
  PROVE  TablePaid(d, e, r)
<1> DEFINE t == d.rooms[r]
           k == Till!SettlementKey(r)
           real == Till!ToSet(t.roster) \cap Till!Subjects
           open == Till!Each(d, real, Till!Opened)
           payers == Till!Payers(t)
           written == Till!Written(d, r)
           more == open.batches \cup {r}
           batch == [open EXCEPT !.batches = more]
           Charge(x, p) == Till!Booked(x, p, t.delta[p], k)
           W == [s \in Till!Subjects |-> IF s \in payers THEN Charge(batch, s).wallet[s] ELSE batch.wallet[s]]
           L == [s \in Till!Subjects |-> IF s \in payers THEN Charge(batch, s).ledger[s] ELSE batch.ledger[s]]
<1>1. CASE t.stake = 0 \/ ~t.settles
  <2>1. e = d
    BY <1>1 DEF Till!Settled
  <2>. QED
    BY <1>1, <2>1 DEF TablePaid, Settling
<1>2. CASE ~(t.stake = 0 \/ ~t.settles)
  <2>1. e = IF payers # {} /\ written = payers THEN batch ELSE [batch EXCEPT !.wallet = W, !.ledger = L]
    BY <1>2 DEF Till!Settled, Till!Each
  <2>2. Calm(d, open) /\ SameFacts(d, open) /\ \A s \in real : open.wallet[s].open
    BY EachOpened
  <2>3. k \in OtherKeys
    BY RoomKeyOther
  <2>4. /\ \A s \in payers : s \in Till!Subjects /\ s \in real /\ t.delta[s] \in Int /\ t.delta[s] # 0
        /\ \A s \in Till!Subjects \ payers : ~(s \in Till!ToSet(t.roster) /\ t.delta[s] # 0)
    BY DEF Till!Payers
  <2> HIDE DEF open, k, payers, real
  <2>5. \A s \in Till!Subjects : Values(open.ledger[s], k) = {}
    BY <2>2, <2>3 DEF Calm, Same, k
  <2>6. written = {}
    <3>1. Db(d) /\ \A s \in payers : s \in Till!Subjects
      BY <2>4 DEF Fine
    <3>2. \A s \in Till!Subjects : Values(d.ledger[s], k) = {}
      BY DEF k
    <3>3. \A s \in payers : ~Till!Holds(d, s, k)
      BY <3>1, <3>2, NoValues
    <3>. QED
      BY <3>3 DEF Till!Written, k, payers
  <2>7. e = [batch EXCEPT !.wallet = W, !.ledger = L]
    BY <2>1, <2>6
  <2> HIDE DEF written
  <2>8. more = d.batches \cup {r}
    BY <2>2 DEF SameFacts, SameRooms
  <2>9. batch = [open EXCEPT !.batches = more]
    BY DEF batch
  <2>10. /\ \A s \in payers : /\ W[s] = Till!Booked(batch, s, t.delta[s], k).wallet[s]
                              /\ L[s] = Till!Booked(batch, s, t.delta[s], k).ledger[s]
         /\ \A s \in Till!Subjects \ payers : W[s] = batch.wallet[s] /\ L[s] = batch.ledger[s]
         /\ W = [s \in Till!Subjects |-> W[s]] /\ L = [s \in Till!Subjects |-> L[s]]
    BY <2>4
  <2> HIDE DEF batch, W, L, more
  <2>11. /\ Beside(open, batch) /\ batch.batches = d.batches \cup {r}
         /\ batch.rooms = d.rooms /\ batch.lent = d.lent /\ Falls(batch) = Falls(d)
    BY <2>2, <2>8, <2>9 DEF Calm, Fine, Db, Shaped, Beside, SameFacts, SameRooms, Falls
  <2>12. Fine(batch) /\ \A s : Judged(open, s) <=> Judged(batch, s)
    BY <2>2, <2>11, BesideFine DEF Calm
  <2>13. Shaped(e) /\ SameFacts(batch, e) /\ e.wallet = W /\ e.ledger = L
    BY <2>7, <2>12 DEF Fine, Db, Shaped, SameFacts, SameRooms
  <2>14. ASSUME NEW s \in payers
         PROVE  /\ Fine(Till!Booked(batch, s, t.delta[s], k))
                /\ Booking(batch, Till!Booked(batch, s, t.delta[s], k), s, t.delta[s], k)
    <3>1. s \in Till!Subjects /\ t.delta[s] \in Int /\ batch.wallet[s].open
      BY <2>2, <2>4, <2>11 DEF Beside
    <3>2. ~Held(batch.ledger[s], k)
      BY <2>5, <2>11, <3>1, HeldValues DEF Beside
    <3>. QED
      BY <2>3, <2>12, <3>1, <3>2, BookedFine
  <2>15. Fine(e)
    <3>1. ASSUME NEW s \in Till!Subjects PROVE \E o : Apart(batch, e, s, o)
      <4>1. CASE s \in payers
        <5>1. Apart(batch, e, s, Till!Booked(batch, s, t.delta[s], k))
          BY <2>10, <2>13, <2>14, <4>1 DEF Apart, Booking, SameFacts
        <5>. QED
          BY <5>1
      <4>2. CASE s \notin payers
        <5>1. Apart(batch, e, s, batch)
          BY <2>10, <2>12, <2>13, <4>2 DEF Apart
        <5>. QED
          BY <5>1
      <4>. QED
        BY <4>1, <4>2
    <3>. QED
      BY <2>10, <2>13, <3>1, ApartFine
  <2>16. ASSUME NEW s \in Till!Subjects
         PROVE  /\ e.wallet[s].bankruptcies = d.wallet[s].bankruptcies
                /\ Judged(d, s) => Judged(e, s)
                /\ \A key \in OtherKeys : key # k => Values(e.ledger[s], key) = Values(d.ledger[s], key)
                /\ Values(e.ledger[s], k) = IF s \in payers THEN {t.delta[s]} ELSE {}
    <3>1. /\ batch.wallet[s].bankruptcies = d.wallet[s].bankruptcies
          /\ Judged(d, s) => Judged(batch, s)
          /\ \A key \in OtherKeys : Values(batch.ledger[s], key) = Values(d.ledger[s], key)
          /\ Values(batch.ledger[s], k) = {}
      BY <2>2, <2>5, <2>11, <2>12 DEF Calm, Same, Beside
    <3>2. CASE s \in payers
      <4> DEFINE b == Till!Booked(batch, s, t.delta[s], k)
      <4>1. Booking(batch, b, s, t.delta[s], k) /\ e.wallet[s] = b.wallet[s] /\ e.ledger[s] = b.ledger[s]
        BY <2>10, <2>13, <2>14, <3>2
      <4>2. k[1] \in Till!Unjudged
        BY DEF k, Till!SettlementKey, Till!Unjudged
      <4> HIDE DEF b
      <4>5. Judged(b, s)
        BY <4>1, <4>2, BookedJudged, Zenon
      <4>3. Judged(b, s) /\ b.unlocked = batch.unlocked /\ e.unlocked = batch.unlocked
        BY <2>13, <4>1, <4>5 DEF Booking, SameFacts
      <4>4. Judged(e, s)
        BY <4>1, <4>3 DEF Judged, Till!Recovered
      <4>. QED
        BY <3>1, <3>2, <4>1, <4>4 DEF Booking
    <3>3. CASE s \notin payers
      <4>1. e.wallet[s] = batch.wallet[s] /\ e.ledger[s] = batch.ledger[s] /\ e.unlocked = batch.unlocked
        BY <2>10, <2>13, <3>3 DEF SameFacts
      <4>2. Judged(batch, s) => Judged(e, s)
        BY <4>1 DEF Judged, Till!Recovered
      <4>. QED
        BY <3>1, <3>3, <4>1, <4>2
    <3>. QED
      BY <3>2, <3>3
  <2>17. /\ e.rooms = d.rooms /\ e.lent = d.lent /\ Falls(e) = Falls(d)
         /\ e.batches = d.batches \cup {r}
    BY <2>11, <2>13 DEF SameFacts, SameRooms, Falls
  <2>18. Settling(d, e)
    BY <2>15, <2>16, <2>17 DEF Settling
  <2>19. \A s \in Till!Subjects : s \in payers <=> s \in Till!ToSet(t.roster) /\ t.delta[s] # 0
    <3>1. \A s \in real : s \in Till!ToSet(t.roster)
      BY Zenon DEF real
    <3>2. TAKE s \in Till!Subjects
    <3>3. CASE s \in payers
      BY ONLY <2>4, <3>1, <3>3, Zenon
    <3>4. CASE s \notin payers
      <4>1. s \in Till!Subjects \ payers
        BY ONLY <3>2, <3>4, Zenon
      <4>. QED
        BY ONLY <2>4, <3>4, <4>1, Zenon
    <3>. QED
      BY ONLY <3>3, <3>4, Zenon
  <2>. QED
    BY <1>2, <2>16, <2>17, <2>18, <2>19 DEF TablePaid, k
<1>. QED
  BY <1>1, <1>2

-----------------------------------------------------------------------------
(* Settlements sum to zero.                                                *)

LEMMA TotalsAgree == ASSUME NEW f, NEW S PROVE Till!Total(f, S) = Total(f, S)
<1> DEFINE Def(g) == g = [s \in SUBSET S |->
                            IF s = {} THEN 0
                            ELSE f[CHOOSE x \in s : TRUE] + g[s \ {CHOOSE x \in s : TRUE}]]
           it == CHOOSE g : Def(g)
<1>1. Till!Total(f, S) = it[S]
  BY DEF Till!Total, Till!MapThenSumSet, Till!MapThenFoldSet
<1>2. Total(f, S) = it[S]
  BY DEF Total, MapThenSumSet, MapThenFoldSet
<1>. QED
  BY <1>1, <1>2

LEMMA SeatsFinite ==
  ASSUME NEW roster \in Seq(Seats)
  PROVE  IsFiniteSet(Till!ToSet(roster)) /\ Till!ToSet(roster) \subseteq Seats
<1>1. /\ roster \in [1..Len(roster) -> Seats] /\ Len(roster) \in Nat
      /\ DOMAIN roster = 1..Len(roster)
  OBVIOUS
<1>2. Till!ToSet(roster) = {roster[i] : i \in 1..Len(roster)}
  BY <1>1 DEF Till!ToSet
<1>3. roster \in [1..Len(roster) -> Till!ToSet(roster)]
  BY <1>1, <1>2
<1>4. roster \in Surjection(1..Len(roster), Till!ToSet(roster))
  BY <1>2, <1>3, Zenon DEF Surjection
<1>5. IsFiniteSet(1..Len(roster))
  <2>1. Len(roster) \in Int
    BY <1>1
  <2>. QED
    BY <2>1, FS_Interval
<1>. QED
  BY <1>1, <1>2, <1>4, <1>5, FS_Surjection

\* What a room that ends must be like.
Ending(t) ==
  /\ t.roster \in Seq(Seats) /\ t.stake \in Nat /\ t.winners \subseteq Till!ToSet(t.roster)

Balanced(t, delta) ==
  /\ \A p \in Till!ToSet(t.roster) : delta[p] \in Int
  /\ Total(delta, Till!ToSet(t.roster)) = 0

LEMMA AllZero ==
  ASSUME NEW t, Ending(t), NEW f, \A p \in Till!ToSet(t.roster) : f[p] = 0
  PROVE  Balanced(t, f)
<1>1. IsFiniteSet(Till!ToSet(t.roster))
  BY SeatsFinite DEF Ending
<1>. QED
  BY <1>1, TotalZero DEF Balanced

\* Of two seats one wins what the other pays.
LEMMA DuelBalanced ==
  ASSUME NEW t, Ending(t), NEW p, NEW q, p # q, Till!ToSet(t.roster) = {p, q}, t.winners = {p}
  PROVE  Balanced(t, Till!WinnerTakes(t))
<1> DEFINE f == Till!WinnerTakes(t)
<1>1. t.stake \in Int /\ f[p] = t.stake /\ f[q] = -t.stake
  BY DEF Ending, Till!WinnerTakes
<1> HIDE DEF f
<1>2. f[p] \in Int /\ f[q] \in Int /\ f[p] + f[q] = 0
  BY <1>1
<1>3. IsFiniteSet({p, q}) /\ IsFiniteSet({q}) /\ {p, q} \ {p} = {q} /\ {q} \ {q} = {}
  BY SeatsFinite, FS_Singleton DEF Ending
<1>4. Total(f, {p, q}) = f[p] + Total(f, {q})
  BY <1>2, <1>3, TotalRemove
<1>5. Total(f, {q}) = f[q] + Total(f, {})
  BY <1>2, <1>3, TotalRemove
<1>6. Total(f, {}) = 0
  BY TotalEmpty
<1>7. Total(f, {p, q}) = 0
  BY <1>2, <1>4, <1>5, <1>6
<1>. QED
  BY <1>2, <1>7 DEF Balanced, f

\* Division by a common factor.
LEMMA TimesLess ==
  ASSUME NEW c \in Nat \ {0}, NEW m \in Int, NEW n \in Int, c * m <= n * c
  PROVE  m <= n
<1>1. SUFFICES ASSUME m >= n + 1 PROVE FALSE
  OBVIOUS
<1>2. c * (m - n) >= c
  BY <1>1
<1>. QED
  BY <1>2

LEMMA RestLess ==
  ASSUME NEW pool \in Nat, NEW w \in Nat \ {0}, NEW x \in Int, NEW n \in Nat,
         pool * w <= w * x + n * (w - 1)
  PROVE  pool - x <= n
<1>1. pool * w - w * x <= n * w - n
  OBVIOUS
<1>2. w * (pool - x) <= n * w
  BY <1>1
<1>. QED
  BY <1>2, TimesLess

\* Losers pay no more than they have; who wins shares what they pay.
OneSeat(roster) == \A i, j \in DOMAIN roster : roster[i] = roster[j] => i = j

LEMMA BalanceType ==
  ASSUME NEW d, Fine(d), NEW s \in Till!Subjects
  PROVE  Till!Balance(d, s) \in Int
  BY PurseAssumption DEF Fine, Db, WalletRows, Till!Balance

LEMMA SmallerOfTwo ==
  ASSUME NEW a \in Int, NEW b \in Int
  PROVE  /\ Till!Min({a, b}) = IF a <= b THEN a ELSE b
         /\ Till!Max({a, b}) = IF a <= b THEN b ELSE a
<1>1. \A x \in {a, b} : (\A y \in {a, b} : x <= y) <=> x = IF a <= b THEN a ELSE b
  OBVIOUS
<1>2. \A x \in {a, b} : (\A y \in {a, b} : x >= y) <=> x = IF a <= b THEN b ELSE a
  OBVIOUS
<1>3. Till!Min({a, b}) = CHOOSE x \in {a, b} : x = IF a <= b THEN a ELSE b
  BY <1>1 DEF Till!Min
<1>4. Till!Max({a, b}) = CHOOSE x \in {a, b} : x = IF a <= b THEN b ELSE a
  BY <1>2 DEF Till!Max
<1>. QED
  BY <1>3, <1>4

LEMMA CappedBalanced ==
  ASSUME NEW d, Fine(d), NEW t, Ending(t), OneSeat(t.roster),
         NEW asked, Balanced(t, asked)
  PROVE  Balanced(t, Till!Capped(d, t, asked))
<1> DEFINE S == Till!ToSet(t.roster)
           pay == [p \in S |-> IF asked[p] >= 0 THEN asked[p]
                               ELSE IF p \in Bots THEN asked[p]
                               ELSE -Till!Min({-asked[p], Till!Max({0, Till!Balance(d, p)})})]
           Paying == {p \in S : pay[p] < 0}
           pool == -Till!Total(pay, Paying)
           W == {p \in S : asked[p] > 0}
           wanted == Till!Total(asked, W)
           share == [p \in S |-> IF p \in W THEN (pool * asked[p]) \div wanted ELSE pay[p]]
           rest == pool - Till!Total(share, W)
           Ahead(p) == {q \in W : Till!Seat(t, q) < Till!Seat(t, p)}
           bonus == [p \in S |-> IF p \in W /\ Till!Cardinality(Ahead(p)) < rest THEN 1 ELSE 0]
           f == Till!Capped(d, t, asked)
           seat == [p \in S |-> Till!Seat(t, p)]
           First == {p \in W : Cardinality({q \in W : seat[q] < seat[p]}) < rest}
<1>1. /\ IsFiniteSet(S) /\ S \subseteq Seats
      /\ \A p \in S : asked[p] \in Int
      /\ Total(asked, S) = 0
  BY SeatsFinite DEF Ending, Balanced
<1>2. ASSUME NEW p \in S
      PROVE  /\ pay[p] \in Int
             /\ asked[p] >= 0 => pay[p] = asked[p]
             /\ asked[p] < 0 => pay[p] <= 0
  <2>1. CASE asked[p] >= 0 \/ p \in Bots
    BY <1>1, <2>1
  <2>2. CASE ~(asked[p] >= 0) /\ p \notin Bots
    <3> DEFINE b == Till!Balance(d, p)
               m == Till!Max({0, b})
               n == Till!Min({-asked[p], m})
    <3>1. b \in Int
      BY <1>1, <2>2, BalanceType DEF Seats, Till!Subjects
    <3>2. pay[p] = -n
      BY <2>2
    <3> HIDE DEF b
    <3>3. m \in Int /\ m >= 0
      <4>1. m = IF 0 <= b THEN b ELSE 0
        <5>1. 0 \in Int
          OBVIOUS
        <5>. QED
          BY <3>1, <5>1, SmallerOfTwo
      <4> HIDE DEF m
      <4>. QED
        BY <3>1, <4>1
    <3> HIDE DEF m
    <3>4. -asked[p] \in Int /\ -asked[p] > 0 /\ asked[p] \in Int
      BY <1>1, <2>2
    <3>5. n \in Int /\ n >= 0
      BY <3>3, <3>4, SmallerOfTwo
    <3> HIDE DEF n, pay
    <3>. QED
      BY <2>2, <3>2, <3>4, <3>5
  <2>. QED
    BY <2>1, <2>2
<1>3. /\ W \in SUBSET S /\ Paying \in SUBSET (S \ W) /\ S \ W \in SUBSET S
      /\ \A p \in (S \ W) \ Paying : pay[p] = 0
      /\ \A p \in S \ W : pay[p] \in Int /\ asked[p] <= 0
      /\ \A p \in Paying : pay[p] \in Int /\ pay[p] <= 0
      /\ \A p \in W : asked[p] \in Nat /\ asked[p] >= 1
  BY <1>1, <1>2
<1>4. /\ pool = -Total(pay, Paying) /\ wanted = Total(asked, W) /\ rest = pool - Total(share, W)
  BY TotalsAgree
<1>5. /\ IsFiniteSet(W) /\ IsFiniteSet(S \ W) /\ IsFiniteSet(Paying)
      /\ IsFiniteSet((S \ W) \ Paying)
  BY <1>1, <1>3, FS_Subset, FS_Difference
<1>6. /\ \A p \in W : share[p] = (pool * asked[p]) \div wanted
      /\ \A p \in S \ W : share[p] = pay[p]
  OBVIOUS
<1>7. f = [p \in S |-> share[p] + (IF p \in W /\ Till!Cardinality(Ahead(p)) < rest THEN 1 ELSE 0)]
  BY DEF Till!Capped
<1> HIDE DEF pay, share, pool, wanted, rest, Paying, W, S
<1>8. pool \in Nat
  <2>1. Total(pay, Paying) \in Int /\ Total(pay, Paying) <= 0
    BY <1>3, <1>5, TotalNonPositive
  <2>. QED
    BY <1>4, <2>1
<1>9. Total(share, S \ W) = -pool
  <2>1. Total(share, S \ W) = Total(pay, S \ W)
    BY <1>3, <1>5, <1>6, TotalSame
  <2>2. Total(pay, S \ W) = Total(pay, Paying) + Total(pay, (S \ W) \ Paying)
    BY <1>3, <1>5, TotalSplit
  <2>3. Total(pay, (S \ W) \ Paying) = 0
    BY <1>3, <1>5, TotalZero
  <2>4. Total(pay, Paying) \in Int
    BY <1>3, <1>5, TotalType
  <2>. QED
    BY <1>4, <2>1, <2>2, <2>3, <2>4
<1>10. /\ \A p \in W : share[p] \in Int
       /\ rest \in Nat /\ rest <= Cardinality(W)
  <2>1. CASE W = {}
    <3>1. Total(share, W) = 0 /\ Cardinality(W) = 0
      BY <2>1, TotalEmpty, FS_EmptySet
    <3>2. pool = 0
      <4>1. ASSUME NEW p \in Paying PROVE FALSE
        <5>1. p \in S /\ asked[p] \in Int /\ asked[p] < 0
          <6>1. p \in S /\ p \notin W /\ asked[p] \in Int /\ pay[p] < 0
            BY <1>1, <1>3 DEF Paying
          <6>2. asked[p] >= 0 => pay[p] = asked[p]
            BY <1>2, <6>1
          <6>. QED
            BY <6>1, <6>2
        <5>2. Total(asked, S) = asked[p] + Total(asked, S \ {p})
          BY <1>1, <5>1, TotalRemove
        <5>3. IsFiniteSet(S \ {p}) /\ \A q \in S \ {p} : asked[q] \in Int /\ asked[q] <= 0
          BY <1>1, <1>3, <2>1, FS_Difference
        <5>4. Total(asked, S \ {p}) \in Int /\ Total(asked, S \ {p}) <= 0
          BY <5>3, TotalNonPositive
        <5>. QED
          BY <1>1, <5>1, <5>2, <5>4
      <4>2. Paying = {}
        BY <4>1
      <4>. QED
        BY <1>4, <4>2, TotalEmpty
    <3>. QED
      BY <1>4, <2>1, <3>1, <3>2
  <2>2. CASE W # {}
    <3>1. wanted \in Nat \ {0}
      <4>1. PICK p \in W : TRUE
        BY <2>2
      <4>2. \A q \in W : asked[q] \in Int
        BY <1>3
      <4>3. wanted = asked[p] + Total(asked, W \ {p})
        BY <1>4, <1>5, <4>2, TotalRemove
      <4>4. Total(asked, W \ {p}) \in Nat
        <5>1. IsFiniteSet(W \ {p}) /\ \A q \in W \ {p} : asked[q] \in Nat
          BY <1>3, <1>5, FS_Difference
        <5>. QED
          BY <5>1, TotalNatural
      <4>. QED
        BY <1>3, <4>3, <4>4
    <3>2. \A p \in W : asked[p] \in Nat /\ share[p] = (pool * asked[p]) \div wanted
      BY <1>3, <1>6
    <3>3. /\ Total(share, W) \in Int
          /\ wanted * Total(share, W) <= pool * wanted
          /\ pool * wanted <= wanted * Total(share, W) + Cardinality(W) * (wanted - 1)
      BY <1>4, <1>5, <1>8, <3>1, <3>2, TotalShares
    <3>4. Cardinality(W) \in Nat
      BY <1>5, FS_CardinalityType
    <3>6. Total(share, W) <= pool
      BY <1>8, <3>1, <3>3, TimesLess
    <3>7. rest <= Cardinality(W)
      BY <1>4, <1>8, <3>1, <3>3, <3>4, RestLess
    <3>8. ASSUME NEW p \in W PROVE share[p] \in Int
      <4>1. pool * asked[p] \in Int
        BY <1>3, <1>8
      <4>2. \A n \in Int : n \div wanted \in Int
        BY <3>1
      <4>. QED
        BY <3>2, <4>1, <4>2
    <3>. QED
      BY <1>4, <1>8, <3>3, <3>6, <3>7, <3>8
  <2>. QED
    BY <2>1, <2>2
<1>11. \A p \in S : share[p] \in Int
  BY <1>3, <1>6, <1>10
<1>12. Total(share, S) = -rest
  <2>1. Total(share, S) = Total(share, W) + Total(share, S \ W)
    BY <1>1, <1>3, <1>11, TotalSplit
  <2>2. Total(share, W) \in Int
    BY <1>5, <1>10, TotalType
  <2>. QED
    BY <1>4, <1>8, <1>9, <2>1, <2>2
<1>13. /\ \A p \in S : seat[p] \in Nat
       /\ \A p, q \in S : seat[p] = seat[q] => p = q
  <2>1. \A p \in S : seat[p] \in DOMAIN t.roster /\ t.roster[seat[p]] = p
    BY DEF S, Till!ToSet, Till!Seat
  <2>2. DOMAIN t.roster \subseteq Nat
    BY DEF Ending
  <2>. QED
    BY <2>1, <2>2
<1>14. Cardinality(First) = rest /\ First \in SUBSET S
  <2>1. Cardinality(First) = rest
    <3>1. \A p \in W : seat[p] \in Nat
      BY <1>3, <1>13
    <3>2. \A p, q \in W : seat[p] = seat[q] => p = q
      BY <1>3, <1>13
    <3> HIDE DEF seat
    <3>. QED
      BY <1>5, <1>10, <3>1, <3>2, FirstOnes
  <2>. QED
    BY <1>3, <2>1
<1>15. \A p \in S : bonus[p] = IF p \in First THEN 1 ELSE 0
  <2>1. ASSUME NEW p \in S
        PROVE  p \in First <=> p \in W /\ Till!Cardinality(Ahead(p)) < rest
    <3>1. CASE p \in W
      <4>1. {q \in W : seat[q] < seat[p]} = Ahead(p)
        BY <1>3
      <4>2. Cardinality(Ahead(p)) = Till!Cardinality(Ahead(p))
        BY DEF Cardinality, Till!Cardinality
      <4> HIDE DEF Ahead, seat
      <4>. QED
        BY <3>1, <4>1, <4>2
    <3>2. CASE p \notin W
      BY <3>2
    <3>. QED
      BY <3>1, <3>2
  <2> HIDE DEF First, Ahead
  <2>. QED
    BY <2>1
<1>16. \A p \in S : f[p] = share[p] + bonus[p]
  BY <1>7
<1> HIDE DEF f, bonus, First
<1>17. Total(bonus, S) = rest
  <2>1. /\ \A p \in First : bonus[p] = 1
        /\ \A p \in S \ First : bonus[p] = 0 /\ bonus[p] \in Int
    BY <1>14, <1>15
  <2>2. Total(bonus, S) = Cardinality(First) * 1 + Total(bonus, S \ First)
    BY <1>1, <1>14, <2>1, TotalLevels
  <2>3. Total(bonus, S \ First) = 0
    <3>1. IsFiniteSet(S \ First)
      BY <1>1, FS_Difference
    <3>. QED
      BY <2>1, <3>1, TotalZero
  <2>. QED
    BY <1>10, <1>14, <2>2, <2>3
<1>18. \A p \in S : bonus[p] \in Int /\ share[p] \in Int /\ f[p] = share[p] + bonus[p] /\ f[p] \in Int
  BY <1>11, <1>15, <1>16
<1>19. Total(f, S) = Total(share, S) + Total(bonus, S)
  BY <1>1, <1>18, TotalSum
<1>. QED
  BY <1>10, <1>12, <1>17, <1>18, <1>19 DEF Balanced, f, S

\* What a table may book: only a bank's need not sum to zero.
Payable(t, delta) ==
  /\ \A p \in Till!ToSet(t.roster) : delta[p] \in Int
  /\ t.game \notin Banks => Balanced(t, delta)

LEMMA SettlementPayable ==
  ASSUME NEW t, Ending(t), OneSeat(t.roster), NEW settlement \in Till!Settlements(t)
  PROVE  Payable(t, settlement.asked)
<1> DEFINE S == Till!ToSet(t.roster)
           asked == settlement.asked
<1>1. CASE settlement = Till!Unsettled(t)
  <2>1. \A p \in S : asked[p] = 0
    BY <1>1 DEF Till!Unsettled
  <2>2. Balanced(t, asked)
    BY <2>1, AllZero
  <2>. QED
    BY <2>2 DEF Payable, Balanced
<1>2. CASE asked \in Till!Explicit(t)
  <2>1. asked \in [S -> GameDeltas] /\ (t.game \in Banks \/ Till!Total(asked, S) = 0)
    BY <1>2 DEF Till!Explicit
  <2>2. \A p \in S : asked[p] \in Int
    BY <2>1, PurseAssumption
  <2>. QED
    BY <2>1, <2>2, TotalsAgree DEF Payable, Balanced
<1>3. CASE asked = Till!WinnerTakes(t) /\ Len(t.roster) = 2 /\ Till!Cardinality(t.winners) = 1
  <2>1. t.roster \in Seq(Seats) /\ t.winners \subseteq S
    BY DEF Ending
  <2>2. DOMAIN t.roster = {1, 2}
    BY <1>3, <2>1
  <2>3. S = {t.roster[1], t.roster[2]}
    BY <2>2 DEF Till!ToSet
  <2>4. t.roster[1] # t.roster[2]
    BY <2>2 DEF OneSeat
  <2>5. IsFiniteSet(t.winners) /\ Cardinality(t.winners) = 1
    <3>1. IsFiniteSet(S)
      BY <2>1, SeatsFinite
    <3>2. Cardinality(t.winners) = Till!Cardinality(t.winners)
      BY DEF Cardinality, Till!Cardinality
    <3>. QED
      BY <1>3, <2>1, <3>1, <3>2, FS_Subset
  <2>6. PICK p : t.winners = {p}
    BY <2>5, FS_Singleton
  <2>7. PICK q : S = {p, q} /\ p # q
    <3>1. p \in S
      BY <2>1, <2>6
    <3>2. p = t.roster[1] \/ p = t.roster[2]
      BY <2>3, <3>1
    <3>3. CASE p = t.roster[1]
      <4>1. S = {p, t.roster[2]} /\ p # t.roster[2]
        BY <2>3, <2>4, <3>3
      <4>. QED
        BY <4>1
    <3>4. CASE p = t.roster[2]
      <4>1. S = {p, t.roster[1]} /\ p # t.roster[1]
        BY <2>3, <2>4, <3>4
      <4>. QED
        BY <4>1
    <3>. QED
      BY <3>2, <3>3, <3>4
  <2>8. Balanced(t, asked)
    BY <1>3, <2>6, <2>7, DuelBalanced
  <2>. QED
    BY <2>8 DEF Payable, Balanced
<1>4. \/ settlement = Till!Unsettled(t) \/ asked \in Till!Explicit(t)
      \/ asked = Till!WinnerTakes(t) /\ Len(t.roster) = 2 /\ Till!Cardinality(t.winners) = 1
  <2>1. CASE settlement = Till!Unsettled(t)
    BY <2>1
  <2>2. CASE \E a \in Till!Explicit(t) : settlement = Till!Settlement(a)
    <3>1. PICK a \in Till!Explicit(t) : settlement = Till!Settlement(a)
      BY <2>2
    <3>2. asked = a
      BY <3>1 DEF Till!Settlement
    <3>. QED
      BY <3>1, <3>2
  <2>3. CASE /\ settlement = Till!Settlement(Till!WinnerTakes(t))
             /\ Len(t.roster) = 2 /\ Till!Cardinality(t.winners) = 1
    <3>1. asked = Till!WinnerTakes(t)
      BY <2>3 DEF Till!Settlement
    <3>. QED
      BY <2>3, <3>1
  <2>4. \/ settlement = Till!Unsettled(t)
        \/ \E a \in Till!Explicit(t) : settlement = Till!Settlement(a)
        \/ /\ settlement = Till!Settlement(Till!WinnerTakes(t))
           /\ Len(t.roster) = 2 /\ Till!Cardinality(t.winners) = 1
    BY DEF Till!Settlements
  <2>. QED
    BY <2>1, <2>2, <2>3, <2>4
<1>. QED
  BY <1>1, <1>2, <1>3, <1>4

LEMMA DeltasPayable ==
  ASSUME NEW d, Fine(d), NEW t, Ending(t), OneSeat(t.roster), NEW asked, Payable(t, asked)
  PROVE  Payable(t, Till!Deltas(d, t, asked))
<1>1. CASE t.game \in CappedGames
  <2>1. t.game \notin Banks
    BY <1>1, PurseAssumption
  <2>2. Balanced(t, Till!Capped(d, t, asked))
    BY <2>1, CappedBalanced DEF Payable
  <2>. QED
    BY <1>1, <2>2 DEF Till!Deltas, Payable, Balanced
<1>2. CASE t.game \notin CappedGames
  BY <1>2 DEF Till!Deltas
<1>. QED
  BY <1>1, <1>2

-----------------------------------------------------------------------------
(* What holds between two transactions.                                    *)

\* Each bankruptcy has its event, and there is no other.
Counted(d) ==
  \A e : e \in Falls(d) <=>
    \E s \in Till!Subjects : \E n \in 1..d.wallet[s].bankruptcies : e = Till!Event("bankruptcy", s, n, 0)

\* Keys of calls and loans to come are free.
Fresh(d, n) ==
  /\ d.lent \in Nat
  /\ \A s \in Till!Subjects, kind \in CallKinds, c \in Nat :
       c >= n => Values(d.ledger[s], <<kind, c>>) = {}
  /\ \A s \in Till!Subjects, c \in Nat :
       c > d.lent => Values(d.ledger[s], <<"loan_principal", c>>) = {}

Row(t) ==
  t = [status |-> t.status, kind |-> t.kind, game |-> t.game, stake |-> t.stake,
       roster |-> t.roster, initiator |-> t.initiator, rematch |-> t.rematch,
       created |-> t.created, ended |-> t.ended, winners |-> t.winners, settles |-> t.settles,
       delta |-> t.delta, reason |-> t.reason, preserved |-> t.preserved]

RoomRow(t) ==
  /\ Row(t)
  /\ t.ended \in Int
  /\ Ending(t)
  /\ t.status # "free" => t.initiator \in Till!Subjects
  /\ t.status = "playing" => OneSeat(t.roster)
  /\ t.status = "finished" => Payable(t, t.delta)

RoomsKept(d) == DOMAIN d.rooms = RoomIds /\ \A r \in RoomIds : RoomRow(d.rooms[r])

Won(t) == t.status = "finished" /\ t.stake > 0 /\ t.settles

\* Who is due at a table that settles.
Owing(t, s) == Won(t) /\ s \in Till!ToSet(t.roster) /\ t.delta[s] # 0

\* The lines of a settled table, and no other; its batch or a line is there.
TableSettled(d, r) ==
  /\ r \in d.batches => Won(d.rooms[r])
  /\ \A s \in Till!Subjects :
       Values(d.ledger[s], Till!SettlementKey(r))
         = IF Owing(d.rooms[r], s) THEN {d.rooms[r].delta[s]} ELSE {}
  /\ Won(d.rooms[r]) => r \in d.batches \/ \E s \in Till!Subjects : Owing(d.rooms[r], s)

SettledTables(d) == \A r \in RoomIds : TableSettled(d, r)

\* Of the subjects outside S all are judged.
PurseKept(d, n, S) ==
  /\ Fine(d) /\ Counted(d) /\ Fresh(d, n) /\ RoomsKept(d) /\ SettledTables(d)
  /\ \A s \in Till!Subjects \ S : Judged(d, s)

LEMMA KeyKinds ==
  /\ \A kind \in CallKinds, c \in Nat : <<kind, c>> \in OtherKeys
  /\ \A c \in Nat : <<"loan_principal", c>> \in OtherKeys
  /\ \A r \in RoomIds : Till!SettlementKey(r) \in OtherKeys
  /\ \A day \in Int : Till!CheckInKey(day) \in OtherKeys
  BY DEF OtherKeys, CallKeys, LoanKeys, RoomKeys, DayKeys, Till!SettlementKey, Till!CheckInKey

LEMMA CalmKeeps ==
  ASSUME NEW d, NEW e, NEW n, NEW S, PurseKept(d, n, S), Calm(d, e)
  PROVE  PurseKept(e, n, S)
<1>1. /\ Fine(e) /\ SameRooms(d, e) /\ Falls(e) = Falls(d)
      /\ \A s \in Till!Subjects : e.wallet[s].bankruptcies = d.wallet[s].bankruptcies
      /\ \A s \in Till!Subjects, key \in OtherKeys : Values(e.ledger[s], key) = Values(d.ledger[s], key)
      /\ \A s \in Till!Subjects : Judged(d, s) => Judged(e, s)
  BY DEF Calm, Same
<1>2. Counted(e)
  BY <1>1 DEF PurseKept, Counted
<1>3. Fresh(e, n)
  BY <1>1, KeyKinds DEF PurseKept, Fresh, SameRooms
<1>4. RoomsKept(e)
  BY <1>1 DEF PurseKept, RoomsKept, SameRooms
<1>5. SettledTables(e)
  BY <1>1, KeyKinds DEF PurseKept, SettledTables, TableSettled, SameRooms
<1>. QED
  BY <1>1, <1>2, <1>3, <1>4, <1>5 DEF PurseKept

LEMMA LaterKept ==
  ASSUME NEW d, NEW n \in Nat, NEW S, PurseKept(d, n, S)
  PROVE  PurseKept(d, n + 1, S)
<1>1. \A c \in Nat : c >= n + 1 => c >= n
  OBVIOUS
<1>2. Fresh(d, n + 1)
  BY <1>1 DEF PurseKept, Fresh
<1>. QED
  BY <1>2 DEF PurseKept

\* Lines with one key, not of a table, are written.
Moving(d, e, S, key) ==
  /\ Fine(e) /\ SameFacts(d, e)
  /\ \A s \in Till!Subjects : e.wallet[s].bankruptcies = d.wallet[s].bankruptcies
  /\ \A s \in Till!Subjects, k \in OtherKeys : k # key => Values(e.ledger[s], k) = Values(d.ledger[s], k)
  /\ \A s \in Till!Subjects \ S : Judged(d, s) => Judged(e, s)

\* A key that is taken before call n.
Taken(d, key, n) ==
  /\ key \in CallKeys \cup LoanKeys \cup DayKeys
  /\ \A kind \in CallKinds, c \in Nat : c >= n => key # <<kind, c>>
  /\ \A c \in Nat : c > d.lent => key # <<"loan_principal", c>>

LEMMA MovingKeeps ==
  ASSUME NEW d, NEW e, NEW n \in Nat, NEW S, NEW T, NEW key,
         PurseKept(d, n, S), Moving(d, e, T, key), NEW m \in Nat, n <= m, Taken(d, key, m)
  PROVE  PurseKept(e, m, S \cup T)
<1>1. /\ Fine(e) /\ SameRooms(d, e) /\ Falls(e) = Falls(d)
      /\ \A s \in Till!Subjects : e.wallet[s].bankruptcies = d.wallet[s].bankruptcies
      /\ \A s \in Till!Subjects, k \in OtherKeys : k # key => Values(e.ledger[s], k) = Values(d.ledger[s], k)
      /\ \A s \in Till!Subjects \ T : Judged(d, s) => Judged(e, s)
  BY DEF Moving, SameFacts, Falls
<1>2. Counted(e)
  BY <1>1 DEF PurseKept, Counted
<1>3. Fresh(e, m)
  <2>1. e.lent = d.lent /\ d.lent \in Nat
    BY <1>1 DEF SameRooms, PurseKept, Fresh
  <2>2. ASSUME NEW s \in Till!Subjects, NEW kind \in CallKinds, NEW c \in Nat, c >= m
        PROVE  Values(e.ledger[s], <<kind, c>>) = {}
    <3>1. <<kind, c>> # key /\ <<kind, c>> \in OtherKeys /\ c >= n
      BY <2>2, KeyKinds DEF Taken
    <3>2. Values(d.ledger[s], <<kind, c>>) = {}
      BY <3>1 DEF PurseKept, Fresh
    <3>. QED
      BY <1>1, <3>1, <3>2
  <2>3. ASSUME NEW s \in Till!Subjects, NEW c \in Nat, c > d.lent
        PROVE  Values(e.ledger[s], <<"loan_principal", c>>) = {}
    <3>1. <<"loan_principal", c>> # key /\ <<"loan_principal", c>> \in OtherKeys
      BY <2>3, KeyKinds DEF Taken
    <3>2. Values(d.ledger[s], <<"loan_principal", c>>) = {}
      BY <2>3 DEF PurseKept, Fresh
    <3>. QED
      BY <1>1, <3>1, <3>2
  <2>. QED
    BY <2>1, <2>2, <2>3 DEF Fresh
<1>4. RoomsKept(e)
  BY <1>1 DEF PurseKept, RoomsKept, SameRooms
<1>5. SettledTables(e)
  <2>1. \A r \in RoomIds : Till!SettlementKey(r) # key
    BY DEF Taken, CallKeys, CallKinds, LoanKeys, DayKeys, Till!SettlementKey
  <2>. QED
    BY <1>1, <2>1, KeyKinds DEF PurseKept, SettledTables, TableSettled, SameRooms
<1>. QED
  BY <1>1, <1>2, <1>3, <1>4, <1>5 DEF PurseKept

LEMMA MovingThrough ==
  ASSUME NEW d, NEW e, NEW f, NEW S, NEW key, Moving(d, e, S, key), Moving(e, f, S, key)
  PROVE  Moving(d, f, S, key)
  BY DEF Moving, SameFacts, SameRooms

LEMMA MovingWider ==
  ASSUME NEW d, NEW e, NEW S, NEW T, NEW key, Moving(d, e, S, key), S \subseteq T
  PROVE  Moving(d, e, T, key)
  BY DEF Moving

LEMMA OpenedMoves ==
  ASSUME NEW d, Fine(d), NEW s \in Till!Subjects, NEW key
  PROVE  Moving(d, Till!Opened(d, s), {}, key) /\ Calm(d, Till!Opened(d, s))
<1> DEFINE e == Till!Opened(d, s)
<1>1. /\ Quiet(d, e, {s}) /\ SameFacts(d, e) /\ e.wallet[s].open
      /\ d.wallet[s].open => e = d
      /\ ~d.wallet[s].open => e.wallet[s].bankruptcies = 0
  BY OpenedFine
<1> HIDE DEF e
<1>2. Judged(d, s) => Judged(e, s)
  BY <1>1 DEF Judged, Till!Recovered
<1>3. Calm(d, e)
  BY <1>1, <1>2, QuietCalm
<1>. QED
  BY <1>1, <1>3 DEF Moving, Calm, Same, e

LEMMA BookedMoves ==
  ASSUME NEW d, Fine(d), NEW s \in Till!Subjects, d.wallet[s].open, NEW chips \in Int,
         NEW key \in OtherKeys, ~Held(d.ledger[s], key), NEW S, s \in S
  PROVE  Moving(d, Till!Booked(d, s, chips, key), S, key)
<1> DEFINE e == Till!Booked(d, s, chips, key)
<1>1. Fine(e) /\ Booking(d, e, s, chips, key)
  BY BookedFine
<1> HIDE DEF e
<1>2. ASSUME NEW p \in Till!Subjects \ S, Judged(d, p) PROVE Judged(e, p)
  <2>1. e.wallet[p] = d.wallet[p] /\ e.ledger[p] = d.ledger[p] /\ d.unlocked \subseteq e.unlocked
    BY <1>1, <1>2 DEF Booking, Untouched, SameFacts
  <2>. QED
    BY <1>2, <2>1, JudgedUntouched
<1>. QED
  BY <1>1, <1>2 DEF Moving, Booking, e

\* Two purses, one key.
LEMMA MovedMoves ==
  ASSUME NEW d, Fine(d), NEW from \in Till!Subjects, NEW to \in Till!Subjects, from # to,
         NEW chips \in Int, NEW type, NEW id, <<type, id>> \in OtherKeys,
         \A s \in Till!Subjects : Values(d.ledger[s], <<type, id>>) = {}
  PROVE  /\ Moving(d, Till!Moved(d, from, to, chips, type, id), {from, to}, <<type, id>>)
         /\ type \in Till!Unjudged =>
              /\ Judged(Till!Moved(d, from, to, chips, type, id), from)
              /\ Judged(Till!Moved(d, from, to, chips, type, id), to)
<1> DEFINE key == <<type, id>>
           S == {from, to}
           o == Till!Opened(d, from)
           p == Till!Opened(o, to)
           b == Till!Booked(p, from, -chips, key)
           c == Till!Booked(b, to, chips, key)
<1>1. Till!Moved(d, from, to, chips, type, id) = c
  BY DEF Till!Moved
<1>2. key \in OtherKeys /\ key[1] = type /\ from \in S /\ to \in S /\ {} \subseteq S
  OBVIOUS
<1>3. \A s \in Till!Subjects : Values(d.ledger[s], key) = {}
  OBVIOUS
<1> HIDE DEF key, S
<1>4. Moving(d, o, {}, key) /\ Calm(d, o) /\ o.wallet[from].open
  BY OpenedMoves, OpenedFine
<1> HIDE DEF o
<1>5. Moving(o, p, {}, key) /\ Calm(o, p) /\ Quiet(o, p, {to}) /\ p.wallet[to].open
  BY <1>4, OpenedMoves, OpenedFine DEF Calm
<1> HIDE DEF p
<1>6. Moving(d, o, S, key) /\ Moving(o, p, S, key)
  BY <1>2, <1>4, <1>5, MovingWider
<1>7. Moving(d, p, S, key)
  BY <1>6, MovingThrough
<1>8. /\ Fine(p) /\ p.wallet[from].open
      /\ ~Held(p.ledger[from], key) /\ ~Held(p.ledger[to], key)
  <2>1. Fine(p) /\ p.wallet[from] = o.wallet[from]
    BY <1>5 DEF Calm, Quiet, Untouched
  <2>2. \A s \in Till!Subjects : Values(p.ledger[s], key) = {}
    BY <1>2, <1>3, <1>4, <1>5 DEF Calm, Same
  <2>. QED
    BY <1>4, <2>1, <2>2, HeldValues
<1>9. -chips \in Int
  OBVIOUS
<1>10. Booking(p, b, from, -chips, key) /\ Fine(b)
  BY <1>2, <1>8, <1>9, BookedFine
<1>11. Moving(p, b, S, key)
  BY <1>2, <1>8, <1>9, BookedMoves
<1> HIDE DEF b
<1>12. b.wallet[to].open /\ ~Held(b.ledger[to], key)
  BY <1>5, <1>8, <1>10 DEF Booking, Untouched
<1>13. Booking(b, c, to, chips, key) /\ Fine(c)
  BY <1>2, <1>10, <1>12, BookedFine
<1>14. Moving(b, c, S, key)
  BY <1>2, <1>10, <1>12, BookedMoves
<1> HIDE DEF c
<1>15. Moving(d, c, S, key)
  <2>1. Moving(d, b, S, key)
    BY <1>7, <1>11, MovingThrough
  <2>. QED
    BY <1>14, <2>1, MovingThrough
<1>16. ASSUME type \in Till!Unjudged PROVE Judged(c, from) /\ Judged(c, to)
  <2>1. key[1] \in Till!Unjudged
    BY <1>2, <1>16
  <2>2. Judged(b, from)
    BY <1>10, <2>1, BookedJudged, Zenon
  <2>3. Judged(c, to)
    BY <1>13, <2>1, BookedJudged, Zenon
  <2>4. c.wallet[from] = b.wallet[from] /\ c.ledger[from] = b.ledger[from] /\ b.unlocked \subseteq c.unlocked
    BY <1>13 DEF Booking, Untouched, SameFacts
  <2>. QED
    BY <2>2, <2>3, <2>4, JudgedUntouched
<1>. QED
  BY <1>1, <1>15, <1>16 DEF key, S

-----------------------------------------------------------------------------
(* Rooms that open, change and end.                                        *)

LEMMA RoomWritten ==
  ASSUME NEW d, Fine(d), DOMAIN d.rooms = RoomIds, NEW r \in RoomIds, NEW t,
         NEW e, e = [d EXCEPT !.rooms[r] = t]
  PROVE  /\ Beside(d, e) /\ e.lent = d.lent /\ e.batches = d.batches /\ Falls(e) = Falls(d)
         /\ DOMAIN e.rooms = RoomIds /\ e.rooms[r] = t
         /\ \A x \in RoomIds \ {r} : e.rooms[x] = d.rooms[x]
<1> DEFINE k == [d.rooms EXCEPT ![r] = t]
<1>1. e = [d EXCEPT !.rooms = k]
  OBVIOUS
<1>2. DOMAIN k = RoomIds /\ k[r] = t /\ \A x \in RoomIds \ {r} : k[x] = d.rooms[x]
  OBVIOUS
<1> HIDE DEF k
<1>3. /\ Shaped(e) /\ e.wallet = d.wallet /\ e.ledger = d.ledger /\ e.unlocked = d.unlocked
      /\ e.lent = d.lent /\ e.batches = d.batches /\ e.events = d.events /\ e.rooms = k
  BY <1>1 DEF Fine, Db, Shaped
<1>. QED
  BY <1>2, <1>3 DEF Beside, Falls

LEMMA RoomChanged ==
  ASSUME NEW d, NEW n, PurseKept(d, n, {}), NEW r \in RoomIds, NEW t, RoomRow(t),
         Won(t) <=> Won(d.rooms[r]),
         Won(t) => t.roster = d.rooms[r].roster /\ t.delta = d.rooms[r].delta
  PROVE  PurseKept([d EXCEPT !.rooms[r] = t], n, {})
<1> DEFINE e == [d EXCEPT !.rooms[r] = t]
<1>1. Fine(d) /\ DOMAIN d.rooms = RoomIds
  BY DEF PurseKept, RoomsKept
<1>2. /\ Beside(d, e) /\ e.lent = d.lent /\ e.batches = d.batches /\ Falls(e) = Falls(d)
      /\ DOMAIN e.rooms = RoomIds /\ e.rooms[r] = t
      /\ \A x \in RoomIds \ {r} : e.rooms[x] = d.rooms[x]
  BY <1>1, RoomWritten
<1> HIDE DEF e
<1>3. Fine(e) /\ \A s : Judged(d, s) <=> Judged(e, s)
  BY <1>1, <1>2, BesideFine
<1>4. e.wallet = d.wallet /\ e.ledger = d.ledger
  BY <1>2 DEF Beside
<1>5. Counted(e) /\ Fresh(e, n)
  BY <1>2, <1>4 DEF PurseKept, Counted, Fresh
<1>6. RoomsKept(e)
  BY <1>2 DEF PurseKept, RoomsKept
<1>7. SettledTables(e)
  <2>1. \A x \in RoomIds \ {r} : TableSettled(e, x)
    BY <1>2, <1>4 DEF PurseKept, SettledTables, TableSettled
  <2>2. TableSettled(e, r)
    <3>1. TableSettled(d, r)
      BY DEF PurseKept, SettledTables
    <3>2. \A s : Owing(t, s) <=> Owing(d.rooms[r], s)
      BY DEF Owing
    <3>3. \A s : Owing(t, s) => t.delta[s] = d.rooms[r].delta[s]
      BY DEF Owing
    <3>4. e.batches = d.batches /\ e.ledger = d.ledger /\ e.rooms[r] = t
      BY <1>2, <1>4
    <3>5. \A s \in Till!Subjects :
            Values(e.ledger[s], Till!SettlementKey(r)) = IF Owing(t, s) THEN {t.delta[s]} ELSE {}
      BY <3>1, <3>2, <3>3, <3>4 DEF TableSettled
    <3>. QED
      BY <3>1, <3>2, <3>4, <3>5 DEF TableSettled
  <2>. QED
    BY <2>1, <2>2 DEF SettledTables
<1>. QED
  BY <1>3, <1>5, <1>6, <1>7 DEF PurseKept, e

LEMMA RoomEnded ==
  ASSUME NEW d, NEW n, PurseKept(d, n, {}), NEW r \in RoomIds, ~Won(d.rooms[r]),
         NEW t, RoomRow(t), t.status = "finished"
  PROVE  /\ PurseKept(Till!Settled([d EXCEPT !.rooms[r] = t], r), n, {})
         /\ Till!Settled([d EXCEPT !.rooms[r] = t], r).rooms[r] = t
         /\ \A x \in RoomIds \ {r} :
              Till!Settled([d EXCEPT !.rooms[r] = t], r).rooms[x] = d.rooms[x]
<1> DEFINE e == [d EXCEPT !.rooms[r] = t]
           f == Till!Settled(e, r)
<1>1. Fine(d) /\ DOMAIN d.rooms = RoomIds
  BY DEF PurseKept, RoomsKept
<1>2. /\ Beside(d, e) /\ e.lent = d.lent /\ e.batches = d.batches /\ Falls(e) = Falls(d)
      /\ DOMAIN e.rooms = RoomIds /\ e.rooms[r] = t
      /\ \A x \in RoomIds \ {r} : e.rooms[x] = d.rooms[x]
  BY <1>1, RoomWritten
<1> HIDE DEF e
<1>3. Fine(e) /\ \A s : Judged(d, s) <=> Judged(e, s)
  BY <1>1, <1>2, BesideFine
<1>4. e.wallet = d.wallet /\ e.ledger = d.ledger
  BY <1>2 DEF Beside
<1>5. r \notin d.batches /\ \A s \in Till!Subjects : Values(d.ledger[s], Till!SettlementKey(r)) = {}
  BY DEF PurseKept, SettledTables, TableSettled, Owing
<1>6. Payable(t, t.delta) /\ t.stake \in Nat
  BY DEF RoomRow, Ending
<1>7. TablePaid(e, f, r)
  <2>1. \A p \in Till!ToSet(e.rooms[r].roster) : e.rooms[r].delta[p] \in Int
    BY <1>2, <1>6 DEF Payable
  <2>2. r \notin e.batches /\ \A s \in Till!Subjects : Values(e.ledger[s], Till!SettlementKey(r)) = {}
    BY <1>2, <1>4, <1>5
  <2>3. Fine(e) /\ f = Till!Settled(e, r)
    BY <1>3
  <2> HIDE DEF f
  <2>. QED
    BY <2>1, <2>2, <2>3, SettledFine, Zenon
<1>8. /\ Settling(e, f)
      /\ f.batches = IF t.stake = 0 \/ ~t.settles THEN d.batches ELSE d.batches \cup {r}
      /\ \A s \in Till!Subjects, key \in OtherKeys :
           key # Till!SettlementKey(r) => Values(f.ledger[s], key) = Values(d.ledger[s], key)
      /\ \A s \in Till!Subjects :
           Values(f.ledger[s], Till!SettlementKey(r))
             = IF r \in f.batches /\ s \in Till!ToSet(t.roster) /\ t.delta[s] # 0
               THEN {t.delta[s]} ELSE {}
  BY <1>2, <1>4, <1>7 DEF TablePaid
<1> HIDE DEF f
<1>9. /\ Fine(f) /\ f.rooms = e.rooms /\ f.lent = d.lent /\ Falls(f) = Falls(d)
      /\ \A s \in Till!Subjects : f.wallet[s].bankruptcies = d.wallet[s].bankruptcies
      /\ \A s \in Till!Subjects : Judged(d, s) => Judged(f, s)
  BY <1>2, <1>3, <1>4, <1>8 DEF Settling
<1>10. Counted(f)
  BY <1>9 DEF PurseKept, Counted
<1>11. Fresh(f, n)
  <2>1. /\ \A kind \in CallKinds, c \in Nat : <<kind, c>> # Till!SettlementKey(r)
        /\ \A c \in Nat : <<"loan_principal", c>> # Till!SettlementKey(r)
    BY DEF Till!SettlementKey, CallKinds
  <2>. QED
    BY <1>4, <1>8, <1>9, <2>1, KeyKinds DEF PurseKept, Fresh
<1>12. RoomsKept(f)
  BY <1>2, <1>9 DEF PurseKept, RoomsKept
<1>13. \A x \in RoomIds \ {r} : TableSettled(f, x)
  <2>1. ASSUME NEW x \in RoomIds \ {r} PROVE TableSettled(f, x)
    <3>1. Till!SettlementKey(x) # Till!SettlementKey(r) /\ Till!SettlementKey(x) \in OtherKeys
      BY KeyKinds DEF Till!SettlementKey
    <3>2. x \in f.batches <=> x \in d.batches
      BY <1>2, <1>8
    <3>3. f.rooms[x] = d.rooms[x]
      BY <1>2, <1>9
    <3>4. \A s \in Till!Subjects : Values(f.ledger[s], Till!SettlementKey(x)) = Values(d.ledger[s], Till!SettlementKey(x))
      BY <1>4, <1>8, <3>1
    <3>5. TableSettled(d, x)
      BY DEF PurseKept, SettledTables
    <3>. QED
      BY <3>2, <3>3, <3>4, <3>5 DEF TableSettled
  <2>. QED
    BY <2>1
<1>14. TableSettled(f, r)
  <2>1. r \in f.batches <=> Won(t)
    BY <1>2, <1>5, <1>6, <1>8 DEF Won
  <2>. QED
    BY <1>2, <1>8, <1>9, <2>1 DEF TableSettled, Owing
<1>15. SettledTables(f)
  BY <1>13, <1>14 DEF SettledTables
<1>. QED
  BY <1>2, <1>9, <1>10, <1>11, <1>12, <1>15 DEF PurseKept, f, e

\* Batches are noted or forgotten.
LEMMA BatchesChanged ==
  ASSUME NEW d, NEW n, NEW S, PurseKept(d, n, S), NEW more,
         \A x \in RoomIds : x \in more => Won(d.rooms[x]),
         \A x \in RoomIds : Won(d.rooms[x]) => x \in more \/ \E s \in Till!Subjects : Owing(d.rooms[x], s),
         NEW e, e = [d EXCEPT !.batches = more]
  PROVE  PurseKept(e, n, S) /\ Beside(d, e) /\ SameEvidence(d, e)
<1>1. Fine(d) /\ Shaped(d)
  BY DEF PurseKept, Fine, Db
<1>2. /\ Beside(d, e) /\ e.rooms = d.rooms /\ e.lent = d.lent /\ Falls(e) = Falls(d)
      /\ e.batches = more /\ SameEvidence(d, e)
  BY <1>1 DEF Shaped, Beside, Falls, SameEvidence
<1>3. Fine(e) /\ \A s : Judged(d, s) <=> Judged(e, s)
  BY <1>1, <1>2, BesideFine
<1>4. e.wallet = d.wallet /\ e.ledger = d.ledger
  BY <1>2 DEF Beside
<1>5. Counted(e) /\ Fresh(e, n) /\ RoomsKept(e)
  BY <1>2, <1>4 DEF PurseKept, Counted, Fresh, RoomsKept
<1>6. ASSUME NEW r \in RoomIds PROVE TableSettled(e, r)
  <2>1. TableSettled(d, r)
    BY DEF PurseKept, SettledTables
  <2>2. e.rooms[r] = d.rooms[r] /\ (r \in e.batches <=> r \in more)
    BY <1>2
  <2>. QED
    BY <1>4, <2>1, <2>2 DEF TableSettled
<1>. QED
  BY <1>2, <1>3, <1>5, <1>6 DEF PurseKept, SettledTables

-----------------------------------------------------------------------------
(* The start.                                                              *)

LEMMA NewDbKept == PurseKept(Till!NewDb, 0, {})
<1> DEFINE d == Till!NewDb
<1>1. /\ Shaped(d) /\ d.wallet = [s \in Till!Subjects |-> Till!NoWallet] /\ d.ledger = [s \in Till!Subjects |-> <<>>]
      /\ d.batches = {} /\ d.rooms = [r \in RoomIds |-> Till!NoRoom] /\ d.events = {} /\ d.lent = 0
      /\ d.unlocked = {}
  BY DEF Till!NewDb, Shaped
<1> HIDE DEF d
<1>2. Till!NoWallet \in WalletRows /\ ~Till!NoWallet.open /\ Till!NoWallet.bankruptcies = 0 /\ ~Till!NoWallet.badge
  BY DEF Till!NoWallet, WalletRows
<1>3. <<>> \in Seq(LineRows) /\ Len(<<>>) = 0 /\ \A i : i \notin 1..Len(<<>>)
  OBVIOUS
<1>4. Account(Till!NoWallet, <<>>)
  <2>1. Resets(<<>>) = {}
    BY <1>3 DEF Resets
  <2>2. Cardinality(Resets(<<>>)) = 0
    BY <2>1, FS_EmptySet
  <2>3. Chained(<<>>) /\ Unrepeated(<<>>) /\ ~Badged(<<>>)
    BY <1>3, <2>1 DEF Chained, Unrepeated, Badged
  <2>. QED
    BY <1>2, <1>3, <2>2, <2>3 DEF Account
<1>5. \A key : ~Held(<<>>, key) /\ Values(<<>>, key) = {}
  BY <1>3 DEF Held, Values
<1>6. Fine(d)
  BY <1>1, <1>2, <1>3, <1>4, <1>5 DEF Fine, Db, Rewarded
<1>7. Counted(d)
  BY <1>1, <1>2 DEF Counted, Falls
<1>8. Fresh(d, 0)
  BY <1>1, <1>5 DEF Fresh
<1>9. RoomRow(Till!NoRoom) /\ ~Won(Till!NoRoom)
  <2>1. /\ Till!NoRoom.status = "free" /\ Till!NoRoom.ended = 0 /\ Till!NoRoom.roster = <<>> /\ Till!NoRoom.stake = 0
        /\ Till!NoRoom.winners = {}
        /\ Row(Till!NoRoom)
    BY DEF Till!NoRoom, Row
  <2>2. <<>> \in Seq(Seats)
    OBVIOUS
  <2> HIDE DEF Till!NoRoom
  <2>. QED
    BY <2>1, <2>2 DEF RoomRow, Won, Ending
<1>10. RoomsKept(d)
  BY <1>1, <1>9 DEF RoomsKept
<1>11. SettledTables(d)
  BY <1>1, <1>5, <1>9 DEF SettledTables, TableSettled, Owing
<1>12. \A s \in Till!Subjects : Judged(d, s)
  BY <1>1, <1>2 DEF Judged, Till!Recovered
<1>. QED
  BY <1>6, <1>7, <1>8, <1>10, <1>11, <1>12 DEF PurseKept, d

LEMMA LegacyRow ==
  ASSUME NEW t \in Legacy, NEW row, row = [t EXCEPT !.settles = TRUE, !.delta = Till!WinnerTakes(t)]
  PROVE  /\ RoomRow(row) /\ row.status = "finished"
         /\ Won(row) => \E s \in Till!Subjects : Owing(row, s)
<1>1. EndedRoom(t)
  BY PurseAssumption
<1>2. Till!ToSet(t.roster) = {t.roster[i] : i \in DOMAIN t.roster} /\ DOMAIN t.roster = {1, 2}
  BY <1>1 DEF EndedRoom, Till!ToSet
<1>3. Till!ToSet(t.roster) = {t.roster[1], t.roster[2]}
  BY <1>2
<1>4. Ending(t)
  BY <1>1, <1>2 DEF EndedRoom, Ending, Seats
<1>5. Balanced(t, Till!WinnerTakes(t))
  <2>1. t.roster[1] # t.roster[2] /\ (t.winners = {t.roster[1]} \/ t.winners = {t.roster[2]})
    BY ONLY <1>1 DEF EndedRoom
  <2>2. CASE t.winners = {t.roster[1]}
    BY <1>3, <1>4, <2>1, <2>2, DuelBalanced
  <2>3. CASE t.winners = {t.roster[2]}
    <3>1. Till!ToSet(t.roster) = {t.roster[2], t.roster[1]}
      BY <1>3
    <3>. QED
      BY <1>4, <2>1, <2>3, <3>1, DuelBalanced
  <2>. QED
    BY <2>1, <2>2, <2>3
<1>6. /\ Row(row)
      /\ row.delta = Till!WinnerTakes(t) /\ row.status = "finished" /\ row.stake = t.stake
      /\ row.roster = t.roster /\ row.winners = t.winners /\ row.ended = t.ended
      /\ row.initiator = t.initiator /\ row.settles
  BY <1>1 DEF EndedRoom, Row
<1>7. Payable(row, row.delta)
  BY <1>5, <1>6 DEF Payable, Balanced
<1>8. RoomRow(row)
  <2>1. Ending(row)
    BY <1>4, <1>6 DEF Ending
  <2>2. row.ended \in Int /\ row.initiator \in Till!Subjects
    BY <1>1, <1>6 DEF EndedRoom, Till!Subjects
  <2>. QED
    BY <1>6, <1>7, <2>1, <2>2 DEF RoomRow
<1>9. ASSUME Won(row) PROVE Owing(row, t.initiator) /\ t.initiator \in Till!Subjects
  <2>1. t.initiator \in Till!Subjects /\ t.initiator \in Till!ToSet(t.roster) /\ t.stake \in Nat
    BY <1>1, <1>3 DEF EndedRoom, Till!Subjects
  <2>2. row.delta[t.initiator] \in {t.stake, -t.stake}
    BY <1>6, <2>1 DEF Till!WinnerTakes
  <2>3. t.stake > 0
    BY <1>6, <1>9 DEF Won
  <2>4. row.delta[t.initiator] # 0
    BY <2>1, <2>2, <2>3
  <2>. QED
    BY <1>6, <1>9, <2>1, <2>4 DEF Owing
<1>. QED
  BY <1>6, <1>8, <1>9

LEMMA LegacyDbKept ==
  ASSUME NEW t \in Legacy
  PROVE  \E d : /\ PurseKept(Till!LegacyDb(t), 0, {})
               /\ d = [Till!NewDb EXCEPT !.rooms[Till!Min(RoomIds)] = d.rooms[Till!Min(RoomIds)]]
               /\ Fine(Till!Settled(d, Till!Min(RoomIds)))
               /\ SameEvidence(Till!Settled(d, Till!Min(RoomIds)), Till!LegacyDb(t))
               /\ Till!LegacyDb(t).unlocked = Till!Settled(d, Till!Min(RoomIds)).unlocked
<1> DEFINE r == Till!Min(RoomIds)
           row == [t EXCEPT !.settles = TRUE, !.delta = Till!WinnerTakes(t)]
           d == [Till!NewDb EXCEPT !.rooms[r] = row]
           f == Till!Settled(d, r)
           e == [f EXCEPT !.batches = {}]
<1>1. Till!LegacyDb(t) = e
  BY DEF Till!LegacyDb
<1>2. r \in RoomIds
  <2>1. RoomIds # {} /\ RoomIds \subseteq Nat
    BY PurseAssumption
  <2>2. PICK m \in RoomIds : \A x \in RoomIds : m <= x
    BY <2>1, LeastNatural
  <2>. QED
    BY <2>2 DEF Till!Min
<1>3. /\ RoomRow(row) /\ row.status = "finished"
      /\ Won(row) => \E s \in Till!Subjects : Owing(row, s)
  BY LegacyRow
<1> HIDE DEF row, r
<1>4. Till!NewDb.rooms = [x \in RoomIds |-> Till!NoRoom] /\ ~Won(Till!NoRoom)
  BY DEF Till!NewDb, Till!NoRoom, Won
<1>5. d = [Till!NewDb EXCEPT !.rooms[r] = d.rooms[r]]
  <2>1. Fine(Till!NewDb) /\ DOMAIN Till!NewDb.rooms = RoomIds
    BY <1>4, NewDbKept DEF PurseKept
  <2> HIDE DEF d
  <2>2. d = [Till!NewDb EXCEPT !.rooms[r] = row]
    BY DEF d
  <2>3. d.rooms[r] = row
    BY <1>2, <2>1, <2>2, RoomWritten
  <2>. QED
    BY <2>2, <2>3
<1>6. /\ PurseKept(f, 0, {}) /\ f.rooms[r] = row
      /\ \A x \in RoomIds \ {r} : f.rooms[x] = Till!NewDb.rooms[x]
  <2>1. PurseKept(Till!NewDb, 0, {}) /\ ~Won(Till!NewDb.rooms[r])
    BY <1>2, <1>4, NewDbKept
  <2>. QED
    BY <1>2, <1>3, <2>1, RoomEnded
<1> HIDE DEF f
<1>7. /\ \A x \in RoomIds : x \in {} => Won(f.rooms[x])
      /\ \A x \in RoomIds : Won(f.rooms[x]) => x \in {} \/ \E s \in Till!Subjects : Owing(f.rooms[x], s)
  BY <1>3, <1>4, <1>6
<1>8. e = [f EXCEPT !.batches = {}]
  OBVIOUS
<1> HIDE DEF e
<1>9. PurseKept(e, 0, {}) /\ Beside(f, e) /\ SameEvidence(f, e)
  BY <1>6, <1>7, <1>8, BatchesChanged
<1>10. Fine(f) /\ e.unlocked = f.unlocked
  BY <1>6, <1>9 DEF PurseKept, Beside
<1> HIDE DEF d
<1>. QED
  BY <1>1, <1>5, <1>9, <1>10 DEF f, r

-----------------------------------------------------------------------------
(* What the permanent facts prove only grows.                              *)

\* The games of all of S among the first n of q.
WithGame(q, S, i, rows) ==
  IF q[i].normal /\ S \subseteq Till!ToSet(q[i].roster) THEN Append(rows, q[i]) ELSE rows
RowsSteps(q, S, f, n) == f = [i \in 0..n |-> IF i = 0 THEN <<>> ELSE WithGame(q, S, i, f[i - 1])]

Listed(q) == \E T : q \in Seq(T)

LEMMA RowsExist ==
  ASSUME NEW q, NEW S, NEW n \in Nat
  PROVE  \E f : RowsSteps(q, S, f, n)
<1> DEFINE N == {k \in Nat : \E f : RowsSteps(q, S, f, k)}
<1>1. 0 \in N
  <2>1. RowsSteps(q, S, [i \in 0..0 |-> <<>>], 0)
    BY DEF RowsSteps
  <2>. QED
    BY <2>1
<1>2. ASSUME NEW k \in N PROVE k + 1 \in N
  <2>1. PICK f : RowsSteps(q, S, f, k)
    OBVIOUS
  <2> DEFINE h == [i \in 0..(k + 1) |-> IF i = 0 THEN <<>> ELSE WithGame(q, S, i, f[i - 1])]
  <2>2. \A i \in 0..k : f[i] = IF i = 0 THEN <<>> ELSE WithGame(q, S, i, f[i - 1])
    BY <2>1, Zenon DEF RowsSteps
  <2>3. \A i \in 0..k : i \in 0..(k + 1) /\ h[i] = f[i]
    BY <2>2
  <2>4. \A i \in 0..(k + 1) : i # 0 => i - 1 \in 0..k
    OBVIOUS
  <2>5. \A i \in 0..(k + 1) : h[i] = IF i = 0 THEN <<>> ELSE WithGame(q, S, i, h[i - 1])
    BY <2>3, <2>4
  <2>6. RowsSteps(q, S, h, k + 1)
    BY <2>5, Zenon DEF RowsSteps
  <2> HIDE DEF h
  <2>. QED
    BY <2>6
<1>3. N = Nat
  BY <1>1, <1>2, SetInduction
<1>. QED
  BY <1>3

LEMMA RowsIs ==
  ASSUME NEW d, Len(d.matches) \in Nat, NEW S
  PROVE  \E f : RowsSteps(d.matches, S, f, Len(d.matches)) /\ Till!NormalRows(d, S) = f[Len(d.matches)]
<1> DEFINE Def(f) == f = [n \in 0..Len(d.matches) |->
                            IF n = 0 THEN <<>>
                            ELSE IF d.matches[n].normal /\ S \subseteq Till!ToSet(d.matches[n].roster)
                                 THEN Append(f[n - 1], d.matches[n]) ELSE f[n - 1]]
           it == CHOOSE f : Def(f)
<1>1. \A f : Def(f) <=> RowsSteps(d.matches, S, f, Len(d.matches))
  BY Zenon DEF RowsSteps, WithGame
<1>2. \E f : Def(f)
  <2> HIDE DEF Def
  <2>. QED
    BY <1>1, RowsExist
<1>3. Def(it)
  <2> HIDE DEF Def
  <2>. QED
    BY <1>2
<1>4. Till!NormalRows(d, S) = it[Len(d.matches)]
  BY DEF Till!NormalRows
<1>. QED
  <2> HIDE DEF it, Def
  <2>. QED
    BY <1>1, <1>3, <1>4

LEMMA RowsUnfold ==
  ASSUME NEW q, NEW S, NEW n \in Nat, NEW f, RowsSteps(q, S, f, n)
  PROVE  f[0] = <<>> /\ \A i \in 1..n : f[i] = WithGame(q, S, i, f[i - 1])
<1>1. \A i \in 0..n : f[i] = IF i = 0 THEN <<>> ELSE WithGame(q, S, i, f[i - 1])
  BY Zenon DEF RowsSteps
<1>. QED
  BY <1>1

LEMMA RowsAgree ==
  ASSUME NEW q, NEW r, NEW S, NEW n \in Nat, NEW k \in Nat, n <= k,
         \A i \in 1..n : q[i] = r[i],
         NEW f, RowsSteps(q, S, f, n), NEW g, RowsSteps(r, S, g, k)
  PROVE  f[n] = g[n]
<1> DEFINE N == {i \in Nat : i <= n => f[i] = g[i]}
<1>1. /\ f[0] = <<>> /\ g[0] = <<>>
      /\ \A i \in 1..n : f[i] = WithGame(q, S, i, f[i - 1])
      /\ \A i \in 1..k : g[i] = WithGame(r, S, i, g[i - 1])
  BY RowsUnfold
<1>2. 0 \in N
  BY <1>1
<1>3. ASSUME NEW i \in N PROVE i + 1 \in N
  <2>1. SUFFICES ASSUME i + 1 <= n PROVE f[i + 1] = g[i + 1]
    OBVIOUS
  <2>2. i + 1 \in 1..n /\ i + 1 \in 1..k /\ (i + 1) - 1 = i /\ i <= n
    BY <2>1
  <2>3. WithGame(q, S, i + 1, f[i]) = WithGame(r, S, i + 1, f[i])
    BY <2>2, Zenon DEF WithGame
  <2>. QED
    BY <1>1, <2>2, <2>3
<1>4. N = Nat
  BY <1>2, <1>3, SetInduction
<1>. QED
  BY <1>4

LEMMA RowsListed ==
  ASSUME NEW q, NEW T, q \in Seq(T), NEW S, NEW f, RowsSteps(q, S, f, Len(q))
  PROVE  f[Len(q)] \in Seq(T)
<1> DEFINE N == {i \in Nat : i <= Len(q) => f[i] \in Seq(T)}
<1>1. /\ f[0] = <<>>
      /\ \A i \in 1..Len(q) : f[i] = WithGame(q, S, i, f[i - 1])
  BY RowsUnfold
<1>2. 0 \in N
  <2>1. <<>> \in Seq(T)
    OBVIOUS
  <2>. QED
    BY <1>1, <2>1
<1>3. ASSUME NEW i \in N PROVE i + 1 \in N
  <2>1. SUFFICES ASSUME i + 1 <= Len(q) PROVE f[i + 1] \in Seq(T)
    OBVIOUS
  <2>2. i + 1 \in 1..Len(q) /\ (i + 1) - 1 = i /\ i <= Len(q)
    BY <2>1
  <2>3. f[i] \in Seq(T) /\ q[i + 1] \in T
    BY <2>2
  <2>4. WithGame(q, S, i + 1, f[i]) \in Seq(T)
    BY <2>3 DEF WithGame
  <2>. QED
    BY <1>1, <2>2, <2>4
<1>4. N = Nat
  BY <1>2, <1>3, SetInduction
<1>. QED
  BY <1>4

\* The same games, the same rows; one game more, one row more at most.
LEMMA RowsSame ==
  ASSUME NEW d, NEW e, Listed(d.matches), e.matches = d.matches, NEW S
  PROVE  Till!NormalRows(e, S) = Till!NormalRows(d, S)
<1>1. Len(d.matches) \in Nat /\ Len(e.matches) = Len(d.matches)
  BY DEF Listed
<1>2. PICK f : RowsSteps(d.matches, S, f, Len(d.matches)) /\ Till!NormalRows(d, S) = f[Len(d.matches)]
  BY <1>1, RowsIs
<1>3. PICK g : RowsSteps(d.matches, S, g, Len(d.matches)) /\ Till!NormalRows(e, S) = g[Len(d.matches)]
  BY <1>1, RowsIs
<1>4. f[Len(d.matches)] = g[Len(d.matches)]
  BY <1>1, <1>2, <1>3, RowsAgree
<1>. QED
  BY <1>2, <1>3, <1>4

\* One game more.
OneMore(d, e, m) == Listed(d.matches) /\ e.matches = Append(d.matches, m)

LEMMA RowsAppend ==
  ASSUME NEW d, NEW e, NEW m, OneMore(d, e, m), NEW S
  PROVE  Till!NormalRows(e, S) = WithGame(e.matches, S, Len(e.matches), Till!NormalRows(d, S))
<1>0. PICK T : d.matches \in Seq(T)
  BY DEF OneMore, Listed
<1> DEFINE q == d.matches
           r == e.matches
           n == Len(q)
<1>1. /\ n \in Nat /\ Len(r) = n + 1 /\ r[n + 1] = m
      /\ \A i \in 1..n : q[i] = r[i]
  BY <1>0 DEF OneMore
<1>2. PICK f : RowsSteps(q, S, f, n) /\ Till!NormalRows(d, S) = f[n]
  BY <1>1, RowsIs
<1>3. PICK g : RowsSteps(r, S, g, n + 1) /\ Till!NormalRows(e, S) = g[n + 1]
  <2>1. Len(e.matches) \in Nat
    BY <1>1
  <2>2. PICK g : RowsSteps(e.matches, S, g, Len(e.matches)) /\ Till!NormalRows(e, S) = g[Len(e.matches)]
    BY <2>1, RowsIs
  <2>. QED
    BY <1>1, <2>2
<1>4. f[n] = g[n]
  <2> HIDE DEF q, r, n
  <2>. QED
    BY <1>1, <1>2, <1>3, RowsAgree
<1>6. g[n + 1] = WithGame(r, S, n + 1, g[n])
  <2> HIDE DEF q, r, n
  <2>1. n + 1 \in 1..(n + 1) /\ (n + 1) - 1 = n /\ n + 1 \in Nat
    BY <1>1
  <2>2. \A i \in 1..(n + 1) : g[i] = WithGame(r, S, i, g[i - 1])
    BY <1>3, <2>1, RowsUnfold
  <2>. QED
    BY <2>1, <2>2
<1>. QED
  BY <1>1, <1>2, <1>3, <1>4, <1>6

-----------------------------------------------------------------------------
(* More games prove more.                                                  *)

\* One list of games begins with the other.
Longer(rows, more) ==
  /\ Listed(rows) /\ Listed(more)
  /\ Len(rows) <= Len(more) /\ \A i \in 1..Len(rows) : more[i] = rows[i]

LEMMA LongerRows ==
  ASSUME NEW rows, NEW more, Longer(rows, more)
  PROVE  /\ Len(rows) \in Nat /\ Len(more) \in Nat /\ Len(rows) <= Len(more)
         /\ DOMAIN rows = 1..Len(rows) /\ DOMAIN more = 1..Len(more)
         /\ \A i \in DOMAIN rows : i \in Nat /\ i \in DOMAIN more /\ more[i] = rows[i]
         /\ rows # <<>> => more # <<>>
<1>1. Len(rows) \in Nat /\ Len(more) \in Nat /\ DOMAIN rows = 1..Len(rows) /\ DOMAIN more = 1..Len(more)
  BY DEF Longer, Listed
<1>2. rows # <<>> => Len(rows) # 0
  BY DEF Longer, Listed
<1>3. Len(<<>>) = 0
  OBVIOUS
<1>. QED
  BY <1>1, <1>2, <1>3 DEF Longer

LEMMA TypesGrow ==
  ASSUME NEW rows, NEW more, Longer(rows, more)
  PROVE  /\ Cardinality(Till!Types(rows)) \in Nat /\ Cardinality(Till!Types(more)) \in Nat
         /\ Cardinality(Till!Types(rows)) <= Cardinality(Till!Types(more))
<1>1. /\ Len(rows) \in Nat /\ Len(more) \in Nat
      /\ DOMAIN rows = 1..Len(rows) /\ DOMAIN more = 1..Len(more)
      /\ \A i \in DOMAIN rows : i \in DOMAIN more /\ more[i] = rows[i]
  BY LongerRows
<1>2. Till!Types(rows) \subseteq Till!Types(more)
  BY <1>1 DEF Till!Types
<1> DEFINE f == [i \in DOMAIN more |-> more[i].game]
<1>3. f \in Surjection(DOMAIN more, Till!Types(more))
  BY DEF Surjection, Till!Types
<1>4. IsFiniteSet(Till!Types(more))
  <2>1. IsFiniteSet(DOMAIN more)
    BY <1>1, FS_Interval
  <2> HIDE DEF f
  <2>. QED
    BY <1>3, <2>1, FS_Surjection
<1>. QED
  BY <1>2, <1>4, FS_Subset, FS_CardinalityType

\* Any selection of the games.
Selected(rows, G) == {i \in DOMAIN rows : rows[i] \in G}

LEMMA SelectionsGrow ==
  ASSUME NEW rows, NEW more, Longer(rows, more), NEW G
  PROVE  /\ Cardinality(Selected(rows, G)) \in Nat /\ Cardinality(Selected(more, G)) \in Nat
         /\ Cardinality(Selected(rows, G)) <= Cardinality(Selected(more, G))
<1> DEFINE A == Selected(rows, G)
           B == Selected(more, G)
<1>1. /\ Len(rows) \in Nat /\ Len(more) \in Nat
      /\ DOMAIN rows = 1..Len(rows) /\ DOMAIN more = 1..Len(more)
      /\ \A i \in DOMAIN rows : i \in DOMAIN more /\ more[i] = rows[i]
  BY LongerRows
<1>2. A \subseteq B /\ B \subseteq 1..Len(more)
  BY <1>1 DEF Selected
<1>3. IsFiniteSet(1..Len(more))
  BY <1>1, FS_Interval
<1>. QED
  BY <1>2, <1>3, FS_Subset, FS_CardinalityType

\* The length of a chain is that of the games before.
LinkOf(rows, s, i, f) ==
  IF ~Till!Duel(rows[i]) THEN 0
  ELSE IF rows[i].rematch = <<>> THEN 1
  ELSE LET before == {j \in 1..(i - 1) :
             /\ <<rows[j].room>> = rows[i].rematch /\ f[j] > 0
             /\ rows[j].game = rows[i].game
             /\ Till!Opponents(rows[j], s) = Till!Opponents(rows[i], s)}
       IN IF before = {} THEN 0 ELSE f[Till!Max(before)] + 1

LEMMA MaxThere ==
  ASSUME NEW n \in Nat, NEW S, S \subseteq 1..n, S # {}
  PROVE  Till!Max(S) \in S
<1>1. S \in SUBSET Nat /\ IsFiniteSet(S)
  <2>1. 1..n \subseteq Nat
    OBVIOUS
  <2>2. IsFiniteSet(1..n)
    BY FS_Interval
  <2>. QED
    BY <2>1, <2>2, FS_Subset
<1>2. \E x \in S : \A y \in S : x >= y
  BY <1>1, LargestNatural
<1>. QED
  BY <1>2 DEF Till!Max

LEMMA LinkAgrees ==
  ASSUME NEW rows, NEW more, NEW s, NEW i \in Nat, i # 0, more[i] = rows[i],
         NEW f, NEW g, \A j \in 1..(i - 1) : more[j] = rows[j] /\ g[j] = f[j]
  PROVE  LinkOf(rows, s, i, f) = LinkOf(more, s, i, g)
<1> DEFINE A == {j \in 1..(i - 1) :
                   /\ <<rows[j].room>> = rows[i].rematch /\ f[j] > 0
                   /\ rows[j].game = rows[i].game
                   /\ Till!Opponents(rows[j], s) = Till!Opponents(rows[i], s)}
           B == {j \in 1..(i - 1) :
                   /\ <<more[j].room>> = more[i].rematch /\ g[j] > 0
                   /\ more[j].game = more[i].game
                   /\ Till!Opponents(more[j], s) = Till!Opponents(more[i], s)}
<1>1. A = B
  OBVIOUS
<1>2. i - 1 \in Nat /\ A \subseteq 1..(i - 1)
  OBVIOUS
<1>3. /\ LinkOf(rows, s, i, f) = IF ~Till!Duel(rows[i]) THEN 0 ELSE IF rows[i].rematch = <<>> THEN 1
                                ELSE IF A = {} THEN 0 ELSE f[Till!Max(A)] + 1
      /\ LinkOf(more, s, i, g) = IF ~Till!Duel(more[i]) THEN 0 ELSE IF more[i].rematch = <<>> THEN 1
                                ELSE IF B = {} THEN 0 ELSE g[Till!Max(B)] + 1
  BY Zenon DEF LinkOf
<1> HIDE DEF A, B
<1>4. A # {} => g[Till!Max(A)] = f[Till!Max(A)]
  <2>1. A # {} => Till!Max(A) \in 1..(i - 1)
    BY <1>2, MaxThere
  <2>. QED
    BY <2>1
<1>. QED
  BY <1>1, <1>3, <1>4

ChainSteps(rows, s, f, n) == f = [i \in 1..n |-> LinkOf(rows, s, i, f)]

LEMMA ChainExists ==
  ASSUME NEW rows, NEW s, NEW n \in Nat
  PROVE  \E f : ChainSteps(rows, s, f, n)
<1> DEFINE N == {k \in Nat : \E f : ChainSteps(rows, s, f, k)}
<1>1. 0 \in N
  <2>1. ChainSteps(rows, s, [i \in 1..0 |-> 0], 0)
    BY DEF ChainSteps
  <2>. QED
    BY <2>1
<1>2. ASSUME NEW k \in N PROVE k + 1 \in N
  <2>1. PICK f : ChainSteps(rows, s, f, k)
    OBVIOUS
  <2> DEFINE h == [i \in 1..(k + 1) |-> LinkOf(rows, s, i, f)]
  <2>2. \A i \in 1..k : f[i] = LinkOf(rows, s, i, f)
    BY <2>1, Zenon DEF ChainSteps
  <2>3. \A i \in 1..k : i \in 1..(k + 1) /\ h[i] = f[i]
    BY <2>2
  <2>4. \A i \in 1..(k + 1) : h[i] = LinkOf(rows, s, i, f)
    OBVIOUS
  <2>5. h = [i \in 1..(k + 1) |-> h[i]]
    OBVIOUS
  <2> HIDE DEF h
  <2>6. ASSUME NEW i \in 1..(k + 1) PROVE h[i] = LinkOf(rows, s, i, h)
    <3>1. i \in Nat /\ i # 0 /\ \A j \in 1..(i - 1) : j \in 1..k
      OBVIOUS
    <3>2. \A j \in 1..(i - 1) : rows[j] = rows[j] /\ h[j] = f[j]
      BY <2>3, <3>1
    <3>3. LinkOf(rows, s, i, f) = LinkOf(rows, s, i, h)
      BY <3>1, <3>2, LinkAgrees
    <3>. QED
      BY <2>4, <3>3
  <2>7. ChainSteps(rows, s, h, k + 1)
    BY <2>5, <2>6, Zenon DEF ChainSteps
  <2>. QED
    BY <2>7
<1>3. N = Nat
  BY <1>1, <1>2, SetInduction
<1>. QED
  BY <1>3

LEMMA ChainIs ==
  ASSUME NEW rows, NEW s, Len(rows) \in Nat, DOMAIN rows = 1..Len(rows)
  PROVE  ChainSteps(rows, s, Till!Chain(rows, s), Len(rows))
<1> DEFINE Def(f) == f = [i \in DOMAIN rows |->
                            IF ~Till!Duel(rows[i]) THEN 0
                            ELSE IF rows[i].rematch = <<>> THEN 1
                            ELSE LET before == {j \in 1..(i - 1) :
                                       /\ <<rows[j].room>> = rows[i].rematch /\ f[j] > 0
                                       /\ rows[j].game = rows[i].game
                                       /\ Till!Opponents(rows[j], s) = Till!Opponents(rows[i], s)}
                                 IN IF before = {} THEN 0 ELSE f[Till!Max(before)] + 1]
           it == CHOOSE f : Def(f)
<1>1. \A f : Def(f) <=> ChainSteps(rows, s, f, Len(rows))
  BY Zenon DEF ChainSteps, LinkOf
<1>2. \E f : Def(f)
  <2> HIDE DEF Def
  <2>. QED
    BY <1>1, ChainExists
<1>3. Def(it)
  <2> HIDE DEF Def
  <2>. QED
    BY <1>2
<1>4. Till!Chain(rows, s) = it
  BY DEF Till!Chain
<1>. QED
  <2> HIDE DEF it, Def
  <2>. QED
    BY <1>1, <1>3, <1>4

LEMMA ChainGrows ==
  ASSUME NEW rows, NEW more, Longer(rows, more), NEW s
  PROVE  \A i \in DOMAIN rows : Till!Chain(more, s)[i] = Till!Chain(rows, s)[i]
<1> DEFINE f == Till!Chain(rows, s)
           g == Till!Chain(more, s)
           n == Len(rows)
           N == {k \in Nat : \A i \in 1..n : i <= k => g[i] = f[i]}
<1>1. /\ Len(rows) \in Nat /\ Len(more) \in Nat /\ Len(rows) <= Len(more)
      /\ DOMAIN rows = 1..Len(rows) /\ DOMAIN more = 1..Len(more)
      /\ \A i \in 1..n : more[i] = rows[i]
  BY LongerRows
<1>2. ChainSteps(rows, s, f, Len(rows)) /\ ChainSteps(more, s, g, Len(more))
  BY <1>1, ChainIs
<1> HIDE DEF f, g
<1>3. /\ \A i \in 1..Len(rows) : f[i] = LinkOf(rows, s, i, f)
      /\ \A i \in 1..Len(more) : g[i] = LinkOf(more, s, i, g)
  BY <1>2, Zenon DEF ChainSteps
<1>4. 0 \in N
  OBVIOUS
<1>5. ASSUME NEW k \in N PROVE k + 1 \in N
  <2>1. SUFFICES ASSUME k + 1 \in 1..n PROVE g[k + 1] = f[k + 1]
    OBVIOUS
  <2>2. k + 1 \in Nat /\ k + 1 # 0 /\ (k + 1) - 1 = k /\ k + 1 \in 1..Len(rows) /\ k + 1 \in 1..Len(more)
    BY <1>1, <2>1
  <2>3. \A j \in 1..((k + 1) - 1) : more[j] = rows[j] /\ g[j] = f[j]
    BY <1>1, <2>1, <2>2
  <2>4. LinkOf(rows, s, k + 1, f) = LinkOf(more, s, k + 1, g)
    BY <1>1, <2>1, <2>2, <2>3, LinkAgrees
  <2>. QED
    BY <1>3, <2>2, <2>4
<1>6. N = Nat
  BY <1>4, <1>5, SetInduction
<1>7. n \in N
  BY <1>1, <1>6
<1>. QED
  BY <1>1, <1>7 DEF f, g

LEMMA CountsAgree == \A S : Till!Cardinality(S) = Cardinality(S)
  BY DEF Till!Cardinality, Cardinality

\* What a run of games shows stays shown.
LEMMA RunsGrow ==
  ASSUME NEW rows, NEW more, Longer(rows, more), NEW s, NEW n \in Nat
  PROVE  /\ Till!Comeback(rows, s, n) => Till!Comeback(more, s, n)
         /\ Till!SameOpponent(rows, s, n) => Till!SameOpponent(more, s, n)
         /\ Till!Revenge(rows, s, n) => Till!Revenge(more, s, n)
         /\ Till!Streak(rows, n, LAMBDA m : Till!Outcome(m, s) = "win")
              => Till!Streak(more, n, LAMBDA m : Till!Outcome(m, s) = "win")
         /\ Till!Defeated(rows, s) \subseteq Till!Defeated(more, s)
<1>1. /\ Len(rows) \in Nat /\ Len(more) \in Nat /\ Len(rows) <= Len(more)
      /\ DOMAIN rows = 1..Len(rows) /\ DOMAIN more = 1..Len(more)
      /\ \A i \in DOMAIN rows : i \in Nat /\ i \in DOMAIN more /\ more[i] = rows[i]
  BY LongerRows
<1>2. ASSUME NEW i \in DOMAIN rows, NEW k \in {i, i - 1}, k >= n, NEW j \in (k - n + 1)..k
      PROVE  more[j] = rows[j]
  BY <1>1, <1>2
<1>3. Till!Comeback(rows, s, n) => Till!Comeback(more, s, n)
  BY <1>1, <1>2 DEF Till!Comeback, Till!RunAt
<1>4. Till!SameOpponent(rows, s, n) => Till!SameOpponent(more, s, n)
  BY <1>1, <1>2 DEF Till!SameOpponent, Till!Streak, Till!RunAt
<1>5. Till!Revenge(rows, s, n) => Till!Revenge(more, s, n)
  BY <1>1, <1>2 DEF Till!Revenge, Till!RunAt
<1>6. Till!Streak(rows, n, LAMBDA m : Till!Outcome(m, s) = "win")
        => Till!Streak(more, n, LAMBDA m : Till!Outcome(m, s) = "win")
  BY <1>1, <1>2 DEF Till!Streak, Till!RunAt
<1>7. Till!Defeated(rows, s) \subseteq Till!Defeated(more, s)
  BY <1>1 DEF Till!Defeated, Till!Where
<1>. QED
  BY <1>3, <1>4, <1>5, <1>6, <1>7

LEMMA GamesGrow ==
  ASSUME NEW rows, NEW more, Longer(rows, more), NEW s
  PROVE  Till!EarnedByGames(rows, s) \subseteq Till!EarnedByGames(more, s)
<1> DEFINE Lost(m, n) == Till!Known(m.delta[s], LAMBDA v : v < 0 /\ -v >= n)
           LeftAt(m, P(_)) == Lost(m, 1) /\ Till!Known(m.after[s], P)
<1> SUFFICES ASSUME NEW id \in Till!EarnedByGames(rows, s) PROVE id \in Till!EarnedByGames(more, s)
  OBVIOUS
<1>1. /\ Len(rows) \in Nat /\ Len(more) \in Nat /\ Len(rows) <= Len(more)
      /\ DOMAIN rows = 1..Len(rows) /\ DOMAIN more = 1..Len(more)
      /\ \A i \in DOMAIN rows : i \in Nat /\ i \in DOMAIN more /\ more[i] = rows[i]
      /\ rows # <<>> => more # <<>>
  BY LongerRows
<1>2. id \in Till!Catalogue /\ Target[id] \in Nat
  BY CatalogueAssumption DEF Till!EarnedByGames, Till!Catalogue
<1>3. CASE id = "first_normal_game" /\ rows # <<>>
  BY <1>1, <1>2, <1>3 DEF Till!EarnedByGames
<1>4. CASE id = "first_authoritative_rematch" /\ Till!Once(rows, LAMBDA m : m.rematch # <<>>)
  BY <1>1, <1>2, <1>4 DEF Till!EarnedByGames, Till!Once
<1>5. CASE id = "first_normal_draw" /\ Till!Once(rows, LAMBDA m : Till!Outcome(m, s) = "draw")
  BY <1>1, <1>2, <1>5 DEF Till!EarnedByGames, Till!Once
<1>6. CASE id = "six_game_types" /\ Cardinality(Till!Types(rows)) >= Target[id]
  <2>1. Cardinality(Till!Types(more)) >= Target[id]
    BY <1>1, <1>2, <1>6, TypesGrow
  <2>. QED
    BY <1>2, <1>6, <2>1, CountsAgree DEF Till!EarnedByGames
<1>7. CASE id = "first_four_player_game" /\ Till!Once(rows, LAMBDA m : Len(m.roster) >= 4)
  BY <1>1, <1>2, <1>7 DEF Till!EarnedByGames, Till!Once
<1>8. CASE id = "first_staked_game" /\ Till!Once(rows, LAMBDA m : m.stake > 0)
  BY <1>1, <1>2, <1>8 DEF Till!EarnedByGames, Till!Once
<1>9. CASE id = "win_after_three_losses" /\ Till!Comeback(rows, s, Target[id])
  BY <1>2, <1>9, RunsGrow DEF Till!EarnedByGames
<1>10. CASE id = "first_negative_balance" /\ Till!Once(rows, LAMBDA m : LeftAt(m, LAMBDA v : v < 0))
  BY <1>1, <1>2, <1>10 DEF Till!EarnedByGames, Till!Once, Till!Known
<1>11. CASE id = "lose_100_in_game" /\ Till!Once(rows, LAMBDA m : Lost(m, Target[id]))
  BY <1>1, <1>2, <1>11 DEF Till!EarnedByGames, Till!Once, Till!Known
<1>12. CASE id = "win_zero_stake" /\ Till!Once(rows, LAMBDA m : Till!Outcome(m, s) = "win" /\ m.stake = 0)
  BY <1>1, <1>2, <1>12 DEF Till!EarnedByGames, Till!Once
<1>13. CASE id = "lose_zero_stake" /\ Till!Once(rows, LAMBDA m : Till!Outcome(m, s) = "loss" /\ m.stake = 0)
  BY <1>1, <1>2, <1>13 DEF Till!EarnedByGames, Till!Once
<1>14. CASE id = "ten_zero_stake_games" /\ Cardinality(Till!Where(rows, LAMBDA m : m.stake = 0)) >= Target[id]
  <2> DEFINE G == {m \in {more[i] : i \in DOMAIN more} : m.stake = 0}
             A == Till!Where(rows, LAMBDA m : m.stake = 0)
             B == Till!Where(more, LAMBDA m : m.stake = 0)
  <2>1. A = Selected(rows, G) /\ B = Selected(more, G)
    BY <1>1 DEF Till!Where, Selected
  <2>2. Cardinality(A) >= Target[id]
    BY <1>14
  <2> HIDE DEF A, B, G
  <2>3. Cardinality(B) >= Target[id]
    BY <1>2, <2>1, <2>2, SelectionsGrow
  <2>. QED
    BY <1>2, <1>14, <2>3, CountsAgree DEF Till!EarnedByGames, B
<1>15. CASE id = "five_zero_stake_same_opponent" /\ Till!SameOpponent(rows, s, Target[id])
  BY <1>2, <1>15, RunsGrow DEF Till!EarnedByGames
<1>16. CASE id = "all_in_loss"
          /\ Till!Once(rows, LAMBDA m : Till!Outcome(m, s) = "loss" /\ Till!Known(m.opening[s], LAMBDA v : v > 0 /\ v = m.stake))
  BY <1>1, <1>2, <1>16 DEF Till!EarnedByGames, Till!Once, Till!Known
<1>17. CASE id = "settlement_balance_minus_500"
          /\ Till!Once(rows, LAMBDA m : LeftAt(m, LAMBDA v : v <= BankruptcyThreshold))
  BY <1>1, <1>2, <1>17 DEF Till!EarnedByGames, Till!Once, Till!Known
<1>18. CASE id = "game_last_at_least_24h" /\ Till!Once(rows, LAMBDA m : m.ended - m.created >= Midnight)
  BY <1>1, <1>2, <1>18 DEF Till!EarnedByGames, Till!Once
<1>19. CASE id = "ten_game_rematch_chain" /\ \E i \in DOMAIN rows : Till!Chain(rows, s)[i] >= Target[id]
  <2>1. \E i \in DOMAIN more : Till!Chain(more, s)[i] >= Target[id]
    BY <1>1, <1>19, ChainGrows
  <2>. QED
    BY <1>2, <1>19, <2>1 DEF Till!EarnedByGames
<1>20. CASE id = "non_tictactoe_draw" /\ Till!Once(rows, LAMBDA m : Till!Outcome(m, s) = "draw" /\ m.game # "tictactoe")
  BY <1>1, <1>2, <1>20 DEF Till!EarnedByGames, Till!Once
<1>21. CASE id = "othello_win_both_sides"
          /\ \A i \in {1, 2} : Till!Once(rows, LAMBDA m : Till!Outcome(m, s) = "win" /\ m.game = "othello" /\ m.roster[i] = s)
  BY <1>1, <1>2, <1>21 DEF Till!EarnedByGames, Till!Once
<1>22. CASE \E game \in DOMAIN GameAward :
          id = GameAward[game] /\ Till!Once(rows, LAMBDA m : Till!Outcome(m, s) = "win" /\ m.game = game)
  BY <1>1, <1>2, <1>22 DEF Till!EarnedByGames, Till!Once
<1>23. CASE \E npc \in Till!Defeated(rows, s) : id = NpcAward[npc]
  BY <1>2, <1>23, RunsGrow DEF Till!EarnedByGames
<1>24. CASE id = "defeat_all_six_npcs" /\ Bots \subseteq Till!Defeated(rows, s)
  BY <1>2, <1>24, RunsGrow DEF Till!EarnedByGames
<1>25. CASE id = "human_loses_to_bound_ai"
          /\ Till!Once(rows, LAMBDA m : Till!Outcome(m, s) = "loss" /\ Till!SoleWinner(m) /\ m.winners \subseteq Machines)
  BY <1>1, <1>2, <1>25 DEF Till!EarnedByGames, Till!Once
<1>26. CASE id = "ai_beats_bound_human"
          /\ Till!Once(rows, LAMBDA m : Till!Outcome(m, s) = "win" /\ Till!Opponents(m, s) \cap Owners # {})
  BY <1>1, <1>2, <1>26 DEF Till!EarnedByGames, Till!Once
<1>27. CASE id = "ai_three_win_streak" /\ Till!Streak(rows, Target[id], LAMBDA m : Till!Outcome(m, s) = "win")
  BY <1>2, <1>27, RunsGrow DEF Till!EarnedByGames
<1>28. CASE id = "ai_revenge_bound_human" /\ Till!Revenge(rows, s, Target[id])
  BY <1>2, <1>28, RunsGrow DEF Till!EarnedByGames
<1>29. CASE id = "ai_six_game_types" /\ Cardinality(Till!Types(rows)) >= Target[id]
  <2>1. Cardinality(Till!Types(more)) >= Target[id]
    BY <1>1, <1>2, <1>29, TypesGrow
  <2>. QED
    BY <1>2, <1>29, <2>1, CountsAgree DEF Till!EarnedByGames
<1>. QED
  BY <1>3, <1>4, <1>5, <1>6, <1>7, <1>8, <1>9, <1>10, <1>11, <1>12, <1>13, <1>14, <1>15,
     <1>16, <1>17, <1>18, <1>19, <1>20, <1>21, <1>22, <1>23, <1>24, <1>25, <1>26, <1>27,
     <1>28, <1>29, CountsAgree DEF Till!EarnedByGames, Till!Once, Till!Where, Till!Streak, Till!RunAt, Till!Known

\* Facts of the database: games, events and loans.
Evident(d) ==
  /\ Listed(d.matches) /\ IsFiniteSet(d.events) /\ IsFiniteSet(d.loanFacts)
  /\ \A f \in d.loanFacts : f.who \in {f.pair[1], f.pair[2]}

\* At most one game more, and no fact less.
Grown(d, e) ==
  /\ Evident(d) /\ Evident(e)
  /\ e.matches = d.matches \/ \E m : e.matches = Append(d.matches, m)
  /\ d.events \subseteq e.events /\ d.loanFacts \subseteq e.loanFacts

LEMMA RowsGrow ==
  ASSUME NEW d, NEW e, Grown(d, e), NEW S
  PROVE  Longer(Till!NormalRows(d, S), Till!NormalRows(e, S))
<1>1. PICK T : d.matches \in Seq(T)
  BY DEF Grown, Evident, Listed
<1>2. Till!NormalRows(d, S) \in Seq(T)
  <2>1. Len(d.matches) \in Nat
    BY <1>1
  <2>2. PICK f : RowsSteps(d.matches, S, f, Len(d.matches)) /\ Till!NormalRows(d, S) = f[Len(d.matches)]
    BY <2>1, RowsIs
  <2>. QED
    BY <1>1, <2>2, RowsListed
<1>3. CASE e.matches = d.matches
  <2>1. Till!NormalRows(e, S) = Till!NormalRows(d, S)
    BY <1>3, RowsSame DEF Grown, Evident
  <2>2. Len(Till!NormalRows(d, S)) <= Len(Till!NormalRows(d, S))
    BY <1>2
  <2>. QED
    BY <1>2, <2>1, <2>2 DEF Longer, Listed
<1>4. CASE \E m : e.matches = Append(d.matches, m)
  <2>1. PICK m : e.matches = Append(d.matches, m)
    BY <1>4
  <2> DEFINE rows == Till!NormalRows(d, S)
             more == Till!NormalRows(e, S)
  <2>2. more = rows \/ more = Append(rows, m)
    <3>1. OneMore(d, e, m)
      BY <1>1, <2>1 DEF OneMore, Listed
    <3>2. e.matches[Len(e.matches)] = m
      BY <1>1, <2>1
    <3>. QED
      BY <3>1, <3>2, RowsAppend DEF WithGame
  <2> HIDE DEF rows, more
  <2>3. rows \in Seq(T \cup {m}) /\ m \in T \cup {m}
    BY <1>2 DEF rows
  <2>4. more \in Seq(T \cup {m})
    BY <2>2, <2>3
  <2>5. Len(rows) <= Len(more) /\ \A i \in 1..Len(rows) : more[i] = rows[i]
    BY <2>2, <2>3
  <2>6. Listed(rows) /\ Listed(more)
    BY <2>3, <2>4 DEF Listed
  <2>. QED
    BY <2>5, <2>6 DEF Longer, rows, more
<1>. QED
  BY <1>3, <1>4 DEF Grown

LEMMA FactsGrow ==
  ASSUME NEW d, NEW e, Grown(d, e), NEW s, NEW rows, NEW more, Longer(rows, more)
  PROVE  Till!EarnedByFacts(d, s, rows) \subseteq Till!EarnedByFacts(e, s, more)
<1> DEFINE OnTime(k) == {f \in Till!LoanFacts(k, s, "loan_repaid") : f.onTime}
<1> SUFFICES ASSUME NEW id \in Till!EarnedByFacts(d, s, rows) PROVE id \in Till!EarnedByFacts(e, s, more)
  OBVIOUS
<1>1. id \in Till!Catalogue /\ Target[id] \in Nat
  BY CatalogueAssumption DEF Till!EarnedByFacts, Till!Catalogue
<1>2. \A type : /\ Till!Events(d, s, type) \subseteq Till!Events(e, s, type)
                /\ Till!LoanFacts(d, s, type) \subseteq Till!LoanFacts(e, s, type)
  BY DEF Grown, Till!Events, Till!LoanFacts
<1>3. OnTime(d) \subseteq OnTime(e)
  BY <1>2
<1>4. ASSUME NEW type
      PROVE  /\ Cardinality(Till!Events(d, s, type)) \in Nat /\ Cardinality(Till!Events(e, s, type)) \in Nat
             /\ Cardinality(Till!Events(d, s, type)) <= Cardinality(Till!Events(e, s, type))
  <2>1. IsFiniteSet(Till!Events(e, s, type))
    BY FS_Subset DEF Grown, Evident, Till!Events
  <2>. QED
    BY <1>2, <2>1, FS_Subset, FS_CardinalityType
<1>5. ASSUME NEW type
      PROVE  /\ Cardinality(Till!LoanFacts(d, s, type)) \in Nat /\ Cardinality(Till!LoanFacts(e, s, type)) \in Nat
             /\ Cardinality(Till!LoanFacts(d, s, type)) <= Cardinality(Till!LoanFacts(e, s, type))
             /\ IsFiniteSet(Till!LoanFacts(e, s, type))
  <2>1. IsFiniteSet(Till!LoanFacts(e, s, type))
    BY FS_Subset DEF Grown, Evident, Till!LoanFacts
  <2>. QED
    BY <1>2, <2>1, FS_Subset, FS_CardinalityType
<1>6. /\ Cardinality(OnTime(d)) \in Nat /\ Cardinality(OnTime(e)) \in Nat
      /\ Cardinality(OnTime(d)) <= Cardinality(OnTime(e))
  <2>1. OnTime(e) \subseteq Till!LoanFacts(e, s, "loan_repaid")
    OBVIOUS
  <2>2. IsFiniteSet(OnTime(e))
    BY <1>5, <2>1, FS_Subset
  <2> HIDE DEF OnTime
  <2>. QED
    BY <1>3, <2>2, FS_Subset, FS_CardinalityType
<1>7. /\ Len(rows) \in Nat /\ Len(more) \in Nat /\ Len(rows) <= Len(more)
      /\ \A i \in DOMAIN rows : i \in DOMAIN more /\ more[i] = rows[i]
  BY LongerRows
<1> DEFINE Borrowed(k, n) == \E f \in Till!LoanFacts(k, s, "loan_activated_borrower") : f.debts >= n
           CountIn(k, type) == Cardinality(Till!Events(k, s, type))
           LoansIn(k, type) == Cardinality(Till!LoanFacts(k, s, type))
<1>8. CASE id \in {"first_bankruptcy", "three_bankruptcies"} /\ CountIn(d, "bankruptcy") >= Target[id]
  <2>1. CountIn(e, "bankruptcy") >= Target[id]
    BY <1>1, <1>4, <1>8
  <2>. QED
    BY <1>1, <1>8, <2>1, CountsAgree DEF Till!EarnedByFacts
<1>9. CASE id = "jungle_rat_captures_elephant" /\ CountIn(d, id) >= 1
  <2>1. CountIn(e, id) >= 1
    BY <1>1, <1>2, <1>4, <1>5, <1>6, <1>7, <1>9
  <2>. QED
    BY <1>1, <1>9, <2>1, CountsAgree DEF Till!EarnedByFacts
<1>10. CASE id = "human_rematch_after_loss"
          /\ \E k \in Till!Events(d, s, "rematch_created"), i \in DOMAIN rows :
               k.data = rows[i].room /\ Till!Outcome(rows[i], s) = "loss"
  <2>1. \E k \in Till!Events(e, s, "rematch_created"), i \in DOMAIN more :
          k.data = more[i].room /\ Till!Outcome(more[i], s) = "loss"
    BY <1>1, <1>2, <1>4, <1>5, <1>6, <1>7, <1>10
  <2>. QED
    BY <1>1, <1>10, <2>1, CountsAgree DEF Till!EarnedByFacts
<1>11. CASE id = "human_preserve_loss" /\ CountIn(d, "preserved_loss") >= 1
  <2>1. CountIn(e, "preserved_loss") >= 1
    BY <1>1, <1>2, <1>4, <1>5, <1>6, <1>7, <1>11
  <2>. QED
    BY <1>1, <1>11, <2>1, CountsAgree DEF Till!EarnedByFacts
<1>12. CASE id = "ai_creates_room" /\ CountIn(d, "room_created") + CountIn(d, "rematch_created") >= 1
  <2>1. CountIn(e, "room_created") + CountIn(e, "rematch_created") >= 1
    BY <1>1, <1>2, <1>4, <1>5, <1>6, <1>7, <1>12
  <2>. QED
    BY <1>1, <1>12, <2>1, CountsAgree DEF Till!EarnedByFacts
<1>13. CASE id = "ai_authoritative_rematch" /\ Till!Events(d, s, "rematch_created") # {}
  <2>1. Till!Events(e, s, "rematch_created") # {}
    BY <1>1, <1>2, <1>4, <1>5, <1>6, <1>7, <1>13
  <2>. QED
    BY <1>1, <1>13, <2>1, CountsAgree DEF Till!EarnedByFacts
<1>14. CASE id = "loan_first_borrower_active" /\ LoansIn(d, "loan_activated_borrower") >= 1
  <2>1. LoansIn(e, "loan_activated_borrower") >= 1
    BY <1>1, <1>2, <1>4, <1>5, <1>6, <1>7, <1>14
  <2>. QED
    BY <1>1, <1>14, <2>1, CountsAgree DEF Till!EarnedByFacts
<1>15. CASE id = "loan_first_lender_active" /\ LoansIn(d, "loan_activated_lender") >= 1
  <2>1. LoansIn(e, "loan_activated_lender") >= 1
    BY <1>1, <1>2, <1>4, <1>5, <1>6, <1>7, <1>15
  <2>. QED
    BY <1>1, <1>15, <2>1, CountsAgree DEF Till!EarnedByFacts
<1>16. CASE id = "loan_first_partial_repayment" /\ LoansIn(d, "loan_partial_repayment") >= 1
  <2>1. LoansIn(e, "loan_partial_repayment") >= 1
    BY <1>1, <1>2, <1>4, <1>5, <1>6, <1>7, <1>16
  <2>. QED
    BY <1>1, <1>16, <2>1, CountsAgree DEF Till!EarnedByFacts
<1>17. CASE id \in {"loan_first_ontime_repayment", "loan_three_ontime_repayments"}
          /\ Cardinality(OnTime(d)) >= Target[id]
  <2>1. Cardinality(OnTime(e)) >= Target[id]
    BY <1>1, <1>2, <1>4, <1>5, <1>6, <1>7, <1>17
  <2>. QED
    BY <1>1, <1>17, <2>1, CountsAgree DEF Till!EarnedByFacts
<1>18. CASE id = "loan_lend_to_negative_borrower"
          /\ \E f \in Till!LoanFacts(d, s, "loan_activated_lender") : f.before < 0
  <2>1. \E f \in Till!LoanFacts(e, s, "loan_activated_lender") : f.before < 0
    BY <1>1, <1>2, <1>4, <1>5, <1>6, <1>7, <1>18
  <2>. QED
    BY <1>1, <1>18, <2>1, CountsAgree DEF Till!EarnedByFacts
<1>19. CASE id = "loan_debt_free_after_three"
          /\ Borrowed(d, Target["loan_three_active"]) /\ LoansIn(d, "loan_debt_free") >= 1
  <2>1. Borrowed(e, Target["loan_three_active"]) /\ LoansIn(e, "loan_debt_free") >= 1
    BY <1>1, <1>2, <1>4, <1>5, <1>6, <1>7, <1>19
  <2>. QED
    BY <1>1, <1>19, <2>1, CountsAgree DEF Till!EarnedByFacts
<1>20. CASE id = "loan_three_active" /\ Borrowed(d, Target[id])
  <2>1. Borrowed(e, Target[id])
    BY <1>1, <1>2, <1>4, <1>5, <1>6, <1>7, <1>20
  <2>. QED
    BY <1>1, <1>20, <2>1, CountsAgree DEF Till!EarnedByFacts
<1>21. CASE id = "loan_first_overdue" /\ LoansIn(d, "loan_overdue") >= 1
  <2>1. LoansIn(e, "loan_overdue") >= 1
    BY <1>1, <1>2, <1>4, <1>5, <1>6, <1>7, <1>21
  <2>. QED
    BY <1>1, <1>21, <2>1, CountsAgree DEF Till!EarnedByFacts
<1>22. CASE id = "loan_interest_cap_reached" /\ LoansIn(d, id) >= 1
  <2>1. LoansIn(e, id) >= 1
    BY <1>1, <1>2, <1>4, <1>5, <1>6, <1>7, <1>22
  <2>. QED
    BY <1>1, <1>22, <2>1, CountsAgree DEF Till!EarnedByFacts
<1>. QED
  BY <1>8, <1>9, <1>10, <1>11, <1>12, <1>13, <1>14, <1>15, <1>16, <1>17, <1>18, <1>19,
     <1>20, <1>21, <1>22, CountsAgree DEF Till!EarnedByFacts


WonBy(rows, p, q) ==
  Cardinality(Till!Where(rows, LAMBDA m : Till!Outcome(m, p) = "win" /\ Till!Outcome(m, q) = "loss"))

LEMMA WonGrows ==
  ASSUME NEW rows, NEW more, Longer(rows, more), NEW p, NEW q
  PROVE  WonBy(rows, p, q) \in Nat /\ WonBy(more, p, q) \in Nat /\ WonBy(rows, p, q) <= WonBy(more, p, q)
<1> DEFINE G == {m \in {more[i] : i \in DOMAIN more} : Till!Outcome(m, p) = "win" /\ Till!Outcome(m, q) = "loss"}
           A == Till!Where(rows, LAMBDA m : Till!Outcome(m, p) = "win" /\ Till!Outcome(m, q) = "loss")
           B == Till!Where(more, LAMBDA m : Till!Outcome(m, p) = "win" /\ Till!Outcome(m, q) = "loss")
<1>1. \A i \in DOMAIN rows : i \in DOMAIN more /\ more[i] = rows[i]
  BY LongerRows
<1>2. A = Selected(rows, G) /\ B = Selected(more, G)
  BY <1>1 DEF Till!Where, Selected
<1>3. WonBy(rows, p, q) = Cardinality(A) /\ WonBy(more, p, q) = Cardinality(B)
  BY DEF WonBy
<1> HIDE DEF A, B, G
<1>. QED
  BY <1>2, <1>3, SelectionsGrow

LEMMA TogetherGrows ==
  ASSUME NEW d, NEW e, Grown(d, e), NEW h, NEW a
  PROVE  Till!ProvenTogether(d, h, a) \ Till!Lapsed \subseteq Till!ProvenTogether(e, h, a) \ Till!Lapsed
<1> DEFINE rows == Till!NormalRows(d, {h, a})
           more == Till!NormalRows(e, {h, a})
           LentIn(k) == {f \in k.loanFacts : f.type = "loan_activated_borrower" /\ f.pair = <<h, a>>}
<1> SUFFICES ASSUME NEW id \in Till!ProvenTogether(d, h, a), id \notin Till!Lapsed
             PROVE  id \in Till!ProvenTogether(e, h, a)
  OBVIOUS
<1>1. id \in Till!Catalogue /\ Target[id] \in Nat /\ id \notin {"pair_same_day_check_in", "pair_balanced_twenty"}
  BY CatalogueAssumption DEF Till!ProvenTogether, Till!Catalogue, Till!Lapsed
<1>2. Longer(rows, more)
  BY RowsGrow
<1>3. LentIn(d) \subseteq LentIn(e)
  BY DEF Grown
<1>4. \A f \in LentIn(e) : f.who \in {h, a}
  <2>1. ASSUME NEW f \in LentIn(e) PROVE f.who \in {h, a}
    <3>1. f.pair = <<h, a>> /\ f.who \in {f.pair[1], f.pair[2]}
      BY DEF Grown, Evident
    <3>. QED
      BY <3>1
  <2>. QED
    BY <2>1
<1>5. \A p, q : WonBy(rows, p, q) \in Nat /\ WonBy(more, p, q) \in Nat
                /\ WonBy(rows, p, q) <= WonBy(more, p, q)
  <2> HIDE DEF rows, more
  <2>. QED
    BY <1>2, WonGrows
<1> DEFINE Together(k, r) ==
      \/ id \in {"pair_first_game", "pair_ten_games", "pair_fifty_games"} /\ Len(r) >= Target[id]
      \/ id = "pair_reunion_after_seven_days"
           /\ \E i \in 1..(Len(r) - 1) : Till!Day(r[i + 1].ended) - Till!Day(r[i].ended) - 1 >= Target[id]
      \/ id = "pair_both_won" /\ WonBy(r, h, a) > 0 /\ WonBy(r, a, h) > 0
      \/ id = "pair_five_wins_each" /\ WonBy(r, h, a) >= Target[id] /\ WonBy(r, a, h) >= Target[id]
      \/ id = "loan_pair_counter_activated" /\ \E f \in LentIn(k) : f.countered
      \/ id = "loan_pair_bidirectional" /\ {f.who : f \in LentIn(k)} = {h, a}
<1>6. Together(d, rows)
  BY <1>1, CountsAgree DEF Till!ProvenTogether, WonBy
<1>7. Together(e, more)
  <2> HIDE DEF rows, more, LentIn
  <2>1. /\ Len(rows) \in Nat /\ Len(more) \in Nat /\ Len(rows) <= Len(more)
        /\ DOMAIN rows = 1..Len(rows)
        /\ \A i \in DOMAIN rows : more[i] = rows[i]
    BY <1>2, LongerRows
  <2>2. CASE id \in {"pair_first_game", "pair_ten_games", "pair_fifty_games"} /\ Len(rows) >= Target[id]
    BY <1>1, <2>1, <2>2
  <2>3. CASE id = "pair_reunion_after_seven_days"
               /\ \E i \in 1..(Len(rows) - 1) : Till!Day(rows[i + 1].ended) - Till!Day(rows[i].ended) - 1 >= Target[id]
    <3>1. PICK i \in 1..(Len(rows) - 1) : Till!Day(rows[i + 1].ended) - Till!Day(rows[i].ended) - 1 >= Target[id]
      BY <2>3
    <3>2. i \in 1..(Len(more) - 1) /\ more[i] = rows[i] /\ more[i + 1] = rows[i + 1]
      BY <2>1
    <3>. QED
      BY <2>3, <3>1, <3>2
  <2>4. CASE id = "pair_both_won" /\ WonBy(rows, h, a) > 0 /\ WonBy(rows, a, h) > 0
    <3>1. WonBy(more, h, a) > 0 /\ WonBy(more, a, h) > 0
      BY <1>5, <2>4
    <3>. QED
      BY <2>4, <3>1
  <2>5. CASE id = "pair_five_wins_each" /\ WonBy(rows, h, a) >= Target[id] /\ WonBy(rows, a, h) >= Target[id]
    <3>1. WonBy(more, h, a) >= Target[id] /\ WonBy(more, a, h) >= Target[id]
      BY <1>1, <1>5, <2>5
    <3>. QED
      BY <2>5, <3>1
  <2>6. CASE id = "loan_pair_counter_activated" /\ \E f \in LentIn(d) : f.countered
    BY <1>3, <2>6
  <2>7. CASE id = "loan_pair_bidirectional" /\ {f.who : f \in LentIn(d)} = {h, a}
    BY <1>3, <1>4, <2>7
  <2>. QED
    BY <1>6, <2>2, <2>3, <2>4, <2>5, <2>6, <2>7
<1>. QED
  BY <1>1, <1>7, CountsAgree DEF Till!ProvenTogether, WonBy

LEMMA ProvenGrows ==
  ASSUME NEW d, NEW e, Grown(d, e), NEW s
  PROVE  Till!Proven(d, s) \subseteq Till!Proven(e, s)
<1>1. Longer(Till!NormalRows(d, {s}), Till!NormalRows(e, {s}))
  BY RowsGrow
<1>2. /\ Till!EarnedByGames(Till!NormalRows(d, {s}), s) \subseteq Till!EarnedByGames(Till!NormalRows(e, {s}), s)
      /\ Till!EarnedByFacts(d, s, Till!NormalRows(d, {s})) \subseteq Till!EarnedByFacts(e, s, Till!NormalRows(e, {s}))
  BY <1>1, GamesGrow, FactsGrow
<1>. QED
  BY <1>2 DEF Till!Proven

\* What concerns nobody of S proves nothing about S.
SameAbout(d, e, s) ==
  \A f : f.who = s => (f \in d.events <=> f \in e.events) /\ (f \in d.loanFacts <=> f \in e.loanFacts)

LEMMA ProvenSame ==
  ASSUME NEW d, NEW e, NEW s, Till!NormalRows(e, {s}) = Till!NormalRows(d, {s}), SameAbout(d, e, s)
  PROVE  Till!Proven(e, s) = Till!Proven(d, s)
<1>1. \A type : Till!Events(e, s, type) = Till!Events(d, s, type) /\ Till!LoanFacts(e, s, type) = Till!LoanFacts(d, s, type)
  BY DEF Till!Events, Till!LoanFacts, SameAbout
<1>2. ASSUME NEW rows PROVE Till!EarnedByFacts(e, s, rows) = Till!EarnedByFacts(d, s, rows)
  <2>1. {f \in Till!LoanFacts(e, s, "loan_repaid") : f.onTime} = {f \in Till!LoanFacts(d, s, "loan_repaid") : f.onTime}
    BY <1>1
  <2>2. ASSUME NEW id PROVE id \in Till!EarnedByFacts(e, s, rows) <=> id \in Till!EarnedByFacts(d, s, rows)
    BY <1>1, <2>1 DEF Till!EarnedByFacts
  <2>3. Till!EarnedByFacts(e, s, rows) \subseteq Till!Catalogue /\ Till!EarnedByFacts(d, s, rows) \subseteq Till!Catalogue
    BY DEF Till!EarnedByFacts
  <2>. QED
    BY <2>2, <2>3
<1>. QED
  BY <1>2 DEF Till!Proven

SameLoans(d, e, h, a) == \A f : f.pair = <<h, a>> => (f \in d.loanFacts <=> f \in e.loanFacts)

LEMMA TogetherSame ==
  ASSUME NEW d, NEW e, NEW h, NEW a, Till!NormalRows(e, {h, a}) = Till!NormalRows(d, {h, a}), SameLoans(d, e, h, a)
  PROVE  Till!ProvenTogether(e, h, a) \ Till!Lapsed = Till!ProvenTogether(d, h, a) \ Till!Lapsed
<1>1. {f \in e.loanFacts : f.type = "loan_activated_borrower" /\ f.pair = <<h, a>>}
        = {f \in d.loanFacts : f.type = "loan_activated_borrower" /\ f.pair = <<h, a>>}
  BY DEF SameLoans
<1>2. "pair_same_day_check_in" \in Till!Lapsed
  BY DEF Till!Lapsed
<1>. QED
  BY <1>1, <1>2 DEF Till!ProvenTogether

-----------------------------------------------------------------------------
(* What is unlocked, and what is owed.                                     *)

Have(d, s, c) == {id \in Till!Catalogue : <<s, id, c>> \in d.unlocked} \ Till!Lapsed
Own(d, s) == Till!Proven(d, s) \ Till!Lapsed
Joint(d, h, a) == Till!ProvenTogether(d, h, a) \ Till!Lapsed

\* Nothing is unlocked that is not proven; of whom is not late nothing is owed.
OwedAlone(d, s, late) ==
  Have(d, s, Till!Global) \subseteq Own(d, s) /\ (~late => Own(d, s) \subseteq Have(d, s, Till!Global))
OwedBoth(d, s, h, a, late) ==
  /\ Have(d, s, <<h, a>>) \subseteq Joint(d, h, a)
  /\ ~late => Joint(d, h, a) \subseteq Have(d, s, <<h, a>>)

Owed(d, S, P) ==
  /\ Evident(d) /\ d.pairs \subseteq Owners \X Machines
  /\ \A s \in Till!Subjects : OwedAlone(d, s, s \in S)
  /\ \A h \in Owners, a \in Machines : \A s \in {h, a} : OwedBoth(d, s, h, a, <<h, a>> \in P)

LEMMA EvidenceSame ==
  ASSUME NEW d, NEW e, Evident(d), SameEvidence(d, e)
  PROVE  /\ Evident(e)
         /\ \A s : Till!Proven(e, s) = Till!Proven(d, s) /\ Own(e, s) = Own(d, s)
         /\ \A h, a : Joint(e, h, a) = Joint(d, h, a)
<1>1. e.matches = d.matches /\ e.events = d.events /\ e.loanFacts = d.loanFacts
  BY DEF SameEvidence
<1>2. Evident(e)
  BY <1>1 DEF Evident
<1>3. \A S : Till!NormalRows(e, S) = Till!NormalRows(d, S)
  BY <1>1, RowsSame DEF Evident
<1>4. \A s : Till!Proven(e, s) = Till!Proven(d, s)
  BY <1>1, <1>3, ProvenSame DEF SameAbout
<1>5. ASSUME NEW h, NEW a PROVE Joint(e, h, a) = Joint(d, h, a)
  <2>1. Till!NormalRows(e, {h, a}) = Till!NormalRows(d, {h, a})
    BY <1>3
  <2>2. SameLoans(d, e, h, a)
    BY <1>1 DEF SameLoans
  <2>3. Till!ProvenTogether(e, h, a) \ Till!Lapsed = Till!ProvenTogether(d, h, a) \ Till!Lapsed
    BY <2>1, <2>2, TogetherSame
  <2>. QED
    BY <2>3 DEF Joint
<1>. QED
  BY <1>2, <1>4, <1>5 DEF Own

LEMMA EvidenceThrough ==
  ASSUME NEW d, NEW e, NEW f, SameEvidence(d, e), SameEvidence(e, f)
  PROVE  SameEvidence(d, f)
  BY DEF SameEvidence

\* Wallets, rooms and debts prove nothing.
LEMMA OwedStill ==
  ASSUME NEW d, NEW e, NEW S, NEW P, Owed(d, S, P), SameEvidence(d, e), e.unlocked = d.unlocked
  PROVE  Owed(e, S, P)
<1>1. /\ Evident(e)
      /\ \A s : Till!Proven(e, s) = Till!Proven(d, s) /\ Own(e, s) = Own(d, s)
      /\ \A h, a : Joint(e, h, a) = Joint(d, h, a)
  BY EvidenceSame DEF Owed
<1>2. \A s, c : Have(e, s, c) = Have(d, s, c)
  BY DEF Have
<1>. QED
  BY <1>1, <1>2 DEF Owed, OwedAlone, OwedBoth, SameEvidence

LEMMA OwedWider ==
  ASSUME NEW d, NEW S, NEW P, Owed(d, S, P), NEW T, S \subseteq T, NEW Q, P \subseteq Q
  PROVE  Owed(d, T, Q)
<1>1. \A s : s \in S => s \in T
  OBVIOUS
<1>2. \A p : p \in P => p \in Q
  OBVIOUS
<1>. QED
  BY <1>1, <1>2 DEF Owed, OwedAlone, OwedBoth

-----------------------------------------------------------------------------
(* What evaluations unlock.                                                *)

Gains(d, e, G) == SameEvidence(d, e) /\ e.unlocked = d.unlocked \cup G
Recoveries == Till!Subjects \X {Till!Recovery} \X {Till!Global}

LEMMA GainsThrough ==
  ASSUME NEW d, NEW e, NEW f, NEW G, NEW H, Gains(d, e, G), Gains(e, f, H)
  PROVE  Gains(d, f, G \cup H)
  BY DEF Gains, SameEvidence

LEMMA UnlockedGains ==
  ASSUME NEW d, Fine(d), NEW s \in Till!Subjects, NEW id \in Till!Catalogue, NEW context \in Contexts
  PROVE  Gains(d, Till!Unlocked(d, s, id, context), {<<s, id, context>>})
<1> DEFINE x == <<s, id, context>>
<1>1. CASE x \in d.unlocked
  <2>1. Till!Unlocked(d, s, id, context) = d
    BY <1>1 DEF Till!Unlocked
  <2>. QED
    BY <1>1, <2>1 DEF Gains, SameEvidence
<1>2. CASE x \notin d.unlocked
  <2> DEFINE o == Till!Opened(d, s)
             b == Till!Booked(o, s, Rewards[id], Till!RewardKey(id, context))
             c == IF Rewards[id] = 0 THEN d ELSE b
             e == Till!Unlocked(d, s, id, context)
             more == c.unlocked \cup {x}
  <2>1. e = [c EXCEPT !.unlocked = more]
    BY <1>2 DEF Till!Unlocked
  <2>2. Quiet(d, o, {s}) /\ SameFacts(d, o)
    BY OpenedFine
  <2> HIDE DEF e, o, more
  <2>3. Shaped(b) /\ SameFacts(o, b)
    BY <2>2, BookedWrites DEF Quiet, Fine, Wrote
  <2> HIDE DEF b
  <2>4. Shaped(c) /\ SameEvidence(d, c) /\ c.unlocked = d.unlocked
    BY <2>2, <2>3 DEF Fine, Db, SameFacts, SameEvidence
  <2> HIDE DEF c
  <2>5. SameEvidence(c, e) /\ e.unlocked = more
    BY <2>1, <2>4 DEF Shaped, SameEvidence
  <2>6. SameEvidence(d, e)
    BY <2>4, <2>5, EvidenceThrough
  <2>. QED
    BY <2>4, <2>5, <2>6 DEF Gains, e, more
<1>. QED
  BY <1>1, <1>2

LEMMA UnlockedAllGains ==
  ASSUME NEW d, Fine(d), NEW S, IsFiniteSet(S), S \subseteq Till!Subjects \X Till!Catalogue \X Contexts
  PROVE  Gains(d, Till!UnlockedAll(d, S), S)
<1>1. PICK g : RewardsSteps(d, g, SUBSET S) /\ Till!UnlockedAll(d, S) = g[S]
  BY RewardsIs
<1> DEFINE D == {s \in SUBSET S : Fine(g[s]) /\ Gains(d, g[s], s)}
<1>2. /\ g[{}] = d
      /\ \A s \in SUBSET S : s # {} =>
           g[s] = Till!Unlocked(g[s \ {Picked(s)}], Picked(s)[1], Picked(s)[2], Picked(s)[3])
  BY <1>1, Zenon DEF RewardsSteps
<1>3. {} \in D
  BY <1>2 DEF Gains, SameEvidence
<1>4. ASSUME NEW s \in SUBSET S, s # {}, s \ {Picked(s)} \in D
      PROVE  s \in D
  <2> DEFINE x == Picked(s)
             r == s \ {x}
             e == g[r]
  <2>1. x \in s /\ Fine(e) /\ Gains(d, e, r)
    BY <1>4 DEF Picked
  <2>2. x[1] \in Till!Subjects /\ x[2] \in Till!Catalogue /\ x[3] \in Contexts /\ x = <<x[1], x[2], x[3]>>
    BY <2>1
  <2>3. g[s] = Till!Unlocked(e, x[1], x[2], x[3])
    BY <1>2, <1>4
  <2>4. s = r \cup {x}
    BY <2>1
  <2> HIDE DEF e, x, r
  <2>5. Gains(e, g[s], {x})
    BY <2>1, <2>2, <2>3, UnlockedGains
  <2>6. Fine(g[s])
    BY <2>1, <2>2, <2>3, UnlockedFine DEF Quiet
  <2>7. Gains(d, g[s], s)
    BY <2>1, <2>4, <2>5, GainsThrough
  <2>. QED
    BY <2>6, <2>7
<1> HIDE DEF D
<1>5. S \in D
  BY <1>3, <1>4, SubsetInduction
<1>. QED
  BY <1>1, <1>5 DEF D

LEMMA RefreshedGains ==
  ASSUME NEW d, Fine(d), NEW s \in Till!Subjects
  PROVE  \E R \in SUBSET Recoveries : Gains(d, Till!Refreshed(d, s), R)
<1>1. Till!Recovery \in Till!Catalogue /\ Till!Global \in Contexts
  BY PurseAssumption DEF Till!Recovery, Till!Catalogue, Contexts
<1>2. Gains(d, d, {})
  BY DEF Gains, SameEvidence
<1>3. Gains(d, Till!Unlocked(d, s, Till!Recovery, Till!Global), {<<s, Till!Recovery, Till!Global>>})
  BY <1>1, UnlockedGains
<1>4. {} \in SUBSET Recoveries /\ {<<s, Till!Recovery, Till!Global>>} \in SUBSET Recoveries
  BY DEF Recoveries
<1>. QED
  BY <1>2, <1>3, <1>4 DEF Till!Refreshed

LEMMA EvaluatedGains ==
  ASSUME NEW d, Fine(d), NEW s \in Till!Subjects
  PROVE  \E R \in SUBSET Recoveries : Gains(d, Till!Evaluated(d, s), ({s} \X Till!Proven(d, s) \X {Till!Global}) \cup R)
<1> DEFINE M == Till!Proven(d, s)
           G == {s} \X M \X {Till!Global}
           e == Till!Refreshed(d, s)
           f == Till!UnlockedAll(e, G)
<1>1. M \subseteq Till!Catalogue
  BY DEF Till!Proven, Till!EarnedByGames, Till!EarnedByFacts
<1>2. IsFiniteSet(M) /\ IsFiniteSet({s}) /\ IsFiniteSet({Till!Global})
  BY <1>1, CatalogueFinite, FS_Subset, FS_Singleton
<1>3. Till!Evaluated(d, s) = Till!Refreshed(f, s)
  BY DEF Till!Evaluated
<1> HIDE DEF M
<1>4. IsFiniteSet(G) /\ G \subseteq Till!Subjects \X Till!Catalogue \X Contexts
  <2>1. IsFiniteSet(G)
    BY <1>2, TripleFinite
  <2>. QED
    BY <1>1, <2>1 DEF Contexts
<1>5. G \subseteq {s} \X Till!Catalogue \X Contexts
  BY <1>1 DEF Contexts
<1>6. Fine(e)
  BY RefreshedFine DEF Quiet
<1>7. PICK R \in SUBSET Recoveries : Gains(d, e, R)
  BY RefreshedGains
<1> HIDE DEF e, G
<1>8. Gains(e, f, G)
  BY <1>4, <1>6, UnlockedAllGains
<1>9. Fine(f)
  BY <1>4, <1>5, <1>6, UnlockedAllFine DEF Quiet
<1> HIDE DEF f
<1>10. PICK T \in SUBSET Recoveries : Gains(f, Till!Refreshed(f, s), T)
  BY <1>9, RefreshedGains
<1>11. Gains(d, Till!Refreshed(f, s), (R \cup G) \cup T)
  BY <1>7, <1>8, <1>10, GainsThrough
<1>12. (R \cup G) \cup T = G \cup (R \cup T) /\ R \cup T \in SUBSET Recoveries
  OBVIOUS
<1>13. Gains(d, Till!Evaluated(d, s), G \cup (R \cup T))
  BY <1>3, <1>11, <1>12
<1>. QED
  BY <1>12, <1>13 DEF G, M

LEMMA EvaluatedPairGains ==
  ASSUME NEW d, Fine(d), NEW h \in Owners, NEW a \in Machines, <<h, a>> \in d.pairs
  PROVE  \E R \in SUBSET Recoveries :
           Gains(d, Till!EvaluatedPair(d, h, a), ({h, a} \X Till!ProvenTogether(d, h, a) \X {<<h, a>>}) \cup R)
<1> DEFINE M == Till!ProvenTogether(d, h, a)
           G == {h, a} \X M \X {<<h, a>>}
           e == Till!UnlockedAll(d, G)
           f == Till!Refreshed(e, h)
<1>1. Till!EvaluatedPair(d, h, a) = Till!Refreshed(f, a)
  BY DEF Till!EvaluatedPair
<1>2. M \subseteq Till!Catalogue
  BY DEF Till!ProvenTogether
<1>3. h \in Till!Subjects /\ a \in Till!Subjects /\ {h, a} \subseteq Till!Subjects /\ <<h, a>> \in Contexts
  BY DEF Till!Subjects, Contexts
<1>4. IsFiniteSet(M) /\ IsFiniteSet({h, a}) /\ IsFiniteSet({<<h, a>>})
  <2>1. {h, a} = {h} \cup {a}
    OBVIOUS
  <2>2. IsFiniteSet({h}) /\ IsFiniteSet({a}) /\ IsFiniteSet({<<h, a>>})
    BY FS_Singleton
  <2>. QED
    BY <1>2, <2>1, <2>2, CatalogueFinite, FS_Subset, FS_Union
<1> HIDE DEF M
<1>5. IsFiniteSet(G)
  BY <1>4, TripleFinite
<1>6. G \subseteq {h, a} \X Till!Catalogue \X Contexts /\ G \subseteq Till!Subjects \X Till!Catalogue \X Contexts
  BY <1>2, <1>3
<1> HIDE DEF G
<1>7. Gains(d, e, G)
  BY <1>5, <1>6, UnlockedAllGains
<1>8. Fine(e)
  BY <1>3, <1>5, <1>6, UnlockedAllFine DEF Quiet
<1> HIDE DEF e
<1>9. PICK R \in SUBSET Recoveries : Gains(e, f, R)
  BY <1>3, <1>8, RefreshedGains
<1>10. Fine(f)
  BY <1>3, <1>8, RefreshedFine DEF Quiet
<1> HIDE DEF f
<1>11. PICK T \in SUBSET Recoveries : Gains(f, Till!Refreshed(f, a), T)
  BY <1>3, <1>10, RefreshedGains
<1>12. Gains(d, Till!Refreshed(f, a), (G \cup R) \cup T)
  BY <1>7, <1>9, <1>11, GainsThrough
<1>13. (G \cup R) \cup T = G \cup (R \cup T) /\ R \cup T \in SUBSET Recoveries
  OBVIOUS
<1>14. Gains(d, Till!EvaluatedPair(d, h, a), G \cup (R \cup T))
  BY <1>1, <1>12, <1>13
<1>. QED
  BY <1>13, <1>14 DEF G, M

-----------------------------------------------------------------------------
(* An evaluation settles what is owed, a fact may add to it.               *)

\* After an evaluation, whatever else it gave.
LEMMA EvaluatedOwed ==
  ASSUME NEW d, Fine(d), NEW S, NEW P, Owed(d, S, P), NEW s \in Till!Subjects
  PROVE  Owed(Till!Evaluated(d, s), S \ {s}, P)
<1> DEFINE e == Till!Evaluated(d, s)
           M == Till!Proven(d, s)
<1>1. PICK R \in SUBSET Recoveries : Gains(d, e, ({s} \X M \X {Till!Global}) \cup R)
  BY EvaluatedGains
<1> HIDE DEF e
<1>2. SameEvidence(d, e) /\ e.unlocked = d.unlocked \cup (({s} \X M \X {Till!Global}) \cup R)
  BY <1>1 DEF Gains
<1>3. /\ Evident(e) /\ e.pairs = d.pairs
      /\ \A p : Own(e, p) = Own(d, p)
      /\ \A h, a : Joint(e, h, a) = Joint(d, h, a)
  BY <1>2, EvidenceSame DEF Owed, SameEvidence
<1>4. ASSUME NEW p, NEW id, id \notin Till!Lapsed, NEW c
      PROVE  <<p, id, c>> \in e.unlocked <=> <<p, id, c>> \in d.unlocked \/ (p = s /\ id \in M /\ c = Till!Global)
  <2>1. <<p, id, c>> \notin R
    BY <1>4 DEF Recoveries, Till!Lapsed
  <2> HIDE DEF M
  <2>. QED
    BY <1>2, <2>1
<1>5. M \subseteq Till!Catalogue
  BY DEF Till!Proven, Till!EarnedByGames, Till!EarnedByFacts
<1>6. Own(d, s) = M \ Till!Lapsed
  BY DEF Own
<1> HIDE DEF M
<1>7. \A p, c : p # s \/ c # Till!Global => Have(e, p, c) = Have(d, p, c)
  BY <1>4 DEF Have
<1>8. Have(e, s, Till!Global) = Have(d, s, Till!Global) \cup Own(d, s)
  BY <1>4, <1>5, <1>6 DEF Have
<1>9. \A h, a : <<h, a>> # Till!Global
  BY DEF Till!Global
<1>10. \A p \in Till!Subjects : OwedAlone(e, p, p \in S \ {s})
  BY <1>3, <1>7, <1>8 DEF Owed, OwedAlone
<1>11. ASSUME NEW h \in Owners, NEW a \in Machines, NEW p \in {h, a}
       PROVE  OwedBoth(e, p, h, a, <<h, a>> \in P)
  <2>1. OwedBoth(d, p, h, a, <<h, a>> \in P)
    BY DEF Owed
  <2>2. Have(e, p, <<h, a>>) = Have(d, p, <<h, a>>)
    BY <1>7, <1>9
  <2>. QED
    BY <1>3, <2>1, <2>2 DEF OwedBoth
<1>. QED
  BY <1>3, <1>10, <1>11 DEF Owed, e

LEMMA EvaluatedPairOwed ==
  ASSUME NEW d, Fine(d), NEW S, NEW P, Owed(d, S, P), NEW h \in Owners, NEW a \in Machines
  PROVE  /\ <<h, a>> \in d.pairs => Owed(Till!EvaluatedPair(d, h, a), S, P \ {<<h, a>>})
         /\ Owed(Till!EvaluatedPair(d, h, a), S, P)
         /\ Till!EvaluatedPair(d, h, a).pairs = d.pairs
<1> DEFINE e == Till!EvaluatedPair(d, h, a)
           M == Till!ProvenTogether(d, h, a)
           x == <<h, a>>
<1>1. CASE x \notin d.pairs
  <2>1. e = d
    BY <1>1 DEF Till!EvaluatedPair
  <2> HIDE DEF e
  <2>. QED
    BY <1>1, <2>1 DEF e
<1>2. CASE x \in d.pairs
  <2>1. PICK R \in SUBSET Recoveries : Gains(d, e, ({h, a} \X M \X {x}) \cup R)
    BY <1>2, EvaluatedPairGains
  <2> HIDE DEF e
  <2>2. SameEvidence(d, e) /\ e.unlocked = d.unlocked \cup (({h, a} \X M \X {x}) \cup R)
    BY <2>1 DEF Gains
  <2>3. /\ Evident(e) /\ e.pairs = d.pairs
        /\ \A p : Own(e, p) = Own(d, p)
        /\ \A i, j : Joint(e, i, j) = Joint(d, i, j)
    BY <2>2, EvidenceSame DEF Owed, SameEvidence
  <2> HIDE DEF x
  <2>4. ASSUME NEW p, NEW id, id \notin Till!Lapsed, NEW c
        PROVE  <<p, id, c>> \in e.unlocked
                 <=> <<p, id, c>> \in d.unlocked \/ (p \in {h, a} /\ id \in M /\ c = x)
    <3>1. <<p, id, c>> \notin R
      BY <2>4 DEF Recoveries, Till!Lapsed
    <3> HIDE DEF M
    <3>. QED
      BY <2>2, <3>1
  <2>5. M \subseteq Till!Catalogue
    BY DEF Till!ProvenTogether
  <2>6. Joint(d, h, a) = M \ Till!Lapsed
    BY DEF Joint
  <2> HIDE DEF M
  <2>7. \A p, c : p \notin {h, a} \/ c # x => Have(e, p, c) = Have(d, p, c)
    BY <2>4 DEF Have
  <2>8. \A p \in {h, a} : Have(e, p, x) = Have(d, p, x) \cup Joint(d, h, a)
    BY <2>4, <2>5, <2>6 DEF Have
  <2>9. Till!Global # x
    BY DEF Till!Global, x
  <2>10. \A p \in Till!Subjects : OwedAlone(e, p, p \in S)
    BY <2>3, <2>7, <2>9 DEF Owed, OwedAlone
  <2>11. ASSUME NEW i \in Owners, NEW j \in Machines, NEW p \in {i, j}
         PROVE  OwedBoth(e, p, i, j, <<i, j>> \in P \ {x})
    <3>1. OwedBoth(d, p, i, j, <<i, j>> \in P)
      BY DEF Owed
    <3>2. CASE <<i, j>> = x
      <4>1. i = h /\ j = a
        BY <3>2 DEF x
      <4>2. Have(d, p, <<i, j>>) \subseteq Joint(d, h, a) /\ Have(e, p, <<i, j>>) = Have(d, p, <<i, j>>) \cup Joint(d, h, a)
        BY <2>8, <3>1, <3>2, <4>1 DEF OwedBoth
      <4>. QED
        BY <2>3, <4>1, <4>2 DEF OwedBoth
    <3>3. CASE <<i, j>> # x
      <4>1. Have(e, p, <<i, j>>) = Have(d, p, <<i, j>>)
        BY <2>7, <3>3
      <4>2. <<i, j>> \in P \ {x} <=> <<i, j>> \in P
        BY <3>3
      <4>. QED
        BY <2>3, <3>1, <4>1, <4>2 DEF OwedBoth
    <3>. QED
      BY <3>2, <3>3
  <2>12. Owed(e, S, P \ {x})
    BY <2>3, <2>10, <2>11 DEF Owed
  <2>13. Owed(e, S, P)
    BY <2>12, OwedWider
  <2>. QED
    BY <2>3, <2>12, <2>13 DEF e, x
<1>. QED
  BY <1>1, <1>2

LEMMA EvaluatedAllOwed ==
  ASSUME NEW d, Fine(d), NEW S, IsFiniteSet(S), S \subseteq Till!Subjects, NEW P, Owed(d, S, P)
  PROVE  Owed(Till!EvaluatedAll(d, S), {}, P) /\ Till!EvaluatedAll(d, S).pairs = d.pairs
<1>1. PICK g : JudgedSteps(d, g, SUBSET S) /\ Till!EvaluatedAll(d, S) = g[S]
  BY JudgedIs
<1> DEFINE D == {s \in SUBSET S : Fine(g[s]) /\ Owed(g[s], S \ s, P) /\ g[s].pairs = d.pairs}
<1>2. /\ g[{}] = d
      /\ \A s \in SUBSET S : s # {} => g[s] = Till!Evaluated(g[s \ {Picked(s)}], Picked(s))
  BY <1>1, Zenon DEF JudgedSteps
<1>3. {} \in D
  <2>1. S \ {} = S
    OBVIOUS
  <2>. QED
    BY <1>2, <2>1
<1>4. ASSUME NEW s \in SUBSET S, s # {}, s \ {Picked(s)} \in D
      PROVE  s \in D
  <2> DEFINE x == Picked(s)
             r == s \ {x}
             e == g[r]
  <2>1. x \in s /\ x \in Till!Subjects /\ Fine(e) /\ Owed(e, S \ r, P) /\ e.pairs = d.pairs
    BY <1>4 DEF Picked
  <2>2. g[s] = Till!Evaluated(e, x)
    BY <1>2, <1>4
  <2>3. (S \ r) \ {x} = S \ s
    BY <2>1
  <2> HIDE DEF e, x, r
  <2>4. Owed(g[s], S \ s, P)
    BY <2>1, <2>2, <2>3, EvaluatedOwed
  <2>5. Fine(g[s])
    BY <2>1, <2>2, EvaluatedFine DEF Quiet
  <2>6. g[s].pairs = d.pairs
    BY <2>1, <2>2, EvaluatedGains DEF Gains, SameEvidence
  <2>. QED
    BY <2>4, <2>5, <2>6
<1> HIDE DEF D
<1>5. S \in D
  BY <1>3, <1>4, SubsetInduction
<1>6. S \ S = {}
  OBVIOUS
<1>. QED
  BY <1>1, <1>5, <1>6 DEF D

LEMMA EvaluatedPairsOwed ==
  ASSUME NEW d, Fine(d), NEW P, IsFiniteSet(P), P \subseteq d.pairs, NEW S, NEW Q, Owed(d, S, Q)
  PROVE  Owed(Till!EvaluatedPairs(d, P), S, Q \ P)
<1>1. PICK g : PairsSteps(d, g, SUBSET P) /\ Till!EvaluatedPairs(d, P) = g[P]
  BY PairsIs
<1> DEFINE D == {s \in SUBSET P : Fine(g[s]) /\ Owed(g[s], S, Q \ s) /\ g[s].pairs = d.pairs}
<1>2. /\ g[{}] = d
      /\ \A s \in SUBSET P : s # {} =>
           g[s] = Till!EvaluatedPair(g[s \ {Picked(s)}], Picked(s)[1], Picked(s)[2])
  BY <1>1, Zenon DEF PairsSteps
<1>3. {} \in D
  <2>1. Q \ {} = Q
    OBVIOUS
  <2>. QED
    BY <1>2, <2>1
<1>4. ASSUME NEW s \in SUBSET P, s # {}, s \ {Picked(s)} \in D
      PROVE  s \in D
  <2> DEFINE x == Picked(s)
             r == s \ {x}
             e == g[r]
  <2>1. x \in s /\ x \in P /\ Fine(e) /\ Owed(e, S, Q \ r) /\ e.pairs = d.pairs
    BY <1>4 DEF Picked
  <2>2. x[1] \in Owners /\ x[2] \in Machines /\ x = <<x[1], x[2]>> /\ x \in e.pairs
    BY <2>1 DEF Owed
  <2>3. g[s] = Till!EvaluatedPair(e, x[1], x[2])
    BY <1>2, <1>4
  <2>4. (Q \ r) \ {x} = Q \ s
    BY <2>1
  <2> HIDE DEF e, x, r
  <2>5. Owed(g[s], S, (Q \ r) \ {<<x[1], x[2]>>}) /\ g[s].pairs = e.pairs
    BY <2>1, <2>2, <2>3, EvaluatedPairOwed
  <2>6. Fine(g[s])
    BY <2>1, <2>2, <2>3, EvaluatedPairCalm DEF Calm
  <2>. QED
    BY <2>1, <2>2, <2>4, <2>5, <2>6
<1> HIDE DEF D
<1>5. P \in D
  BY <1>3, <1>4, SubsetInduction
<1>. QED
  BY <1>1, <1>5 DEF D

-----------------------------------------------------------------------------
(* News: what a fact adds, to whom.                                        *)

\* Facts about T alone and about the pairs of Q alone.
NewsOf(d, e, T, Q) ==
  /\ Grown(d, e) /\ e.unlocked = d.unlocked /\ e.pairs \subseteq Owners \X Machines
  /\ \A s \in Till!Subjects \ T : Till!NormalRows(e, {s}) = Till!NormalRows(d, {s}) /\ SameAbout(d, e, s)
  /\ \A h \in Owners, a \in Machines :
       <<h, a>> \notin Q => Till!NormalRows(e, {h, a}) = Till!NormalRows(d, {h, a}) /\ SameLoans(d, e, h, a)

LEMMA NewsOwed ==
  ASSUME NEW d, NEW e, NEW S, NEW P, Owed(d, S, P), NEW T, NEW Q, NewsOf(d, e, T, Q)
  PROVE  Owed(e, S \cup T, P \cup Q)
<1>1. Grown(d, e) /\ e.unlocked = d.unlocked /\ e.pairs \subseteq Owners \X Machines /\ Evident(e)
  BY DEF NewsOf, Grown
<1>2. \A s, c : Have(e, s, c) = Have(d, s, c)
  BY <1>1 DEF Have
<1>3. ASSUME NEW s \in Till!Subjects PROVE OwedAlone(e, s, s \in S \cup T)
  <2>1. OwedAlone(d, s, s \in S)
    BY DEF Owed
  <2>2. Own(d, s) \subseteq Own(e, s)
    <3>1. Till!Proven(d, s) \subseteq Till!Proven(e, s)
      BY <1>1, ProvenGrows
    <3>. QED
      BY <3>1 DEF Own
  <2>3. s \notin T => Own(e, s) = Own(d, s)
    <3>1. ASSUME s \notin T PROVE Till!Proven(e, s) = Till!Proven(d, s)
      <4>1. Till!NormalRows(e, {s}) = Till!NormalRows(d, {s}) /\ SameAbout(d, e, s)
        BY <3>1 DEF NewsOf
      <4>. QED
        BY <4>1, ProvenSame
    <3>. QED
      BY <3>1 DEF Own
  <2>4. Have(d, s, Till!Global) \subseteq Own(d, s) /\ (s \notin S => Own(d, s) \subseteq Have(d, s, Till!Global))
    BY <2>1 DEF OwedAlone
  <2>5. Have(e, s, Till!Global) = Have(d, s, Till!Global)
    BY <1>2
  <2>6. Have(e, s, Till!Global) \subseteq Own(e, s)
    BY <2>2, <2>4, <2>5
  <2>7. s \notin S \cup T => Own(e, s) \subseteq Have(e, s, Till!Global)
    BY <2>3, <2>4, <2>5
  <2>. QED
    BY <2>6, <2>7 DEF OwedAlone
<1>4. ASSUME NEW h \in Owners, NEW a \in Machines, NEW p \in {h, a}
      PROVE  OwedBoth(e, p, h, a, <<h, a>> \in P \cup Q)
  <2>1. OwedBoth(d, p, h, a, <<h, a>> \in P)
    BY DEF Owed
  <2>2. Joint(d, h, a) \subseteq Joint(e, h, a)
    BY <1>1, TogetherGrows DEF Joint
  <2>3. <<h, a>> \notin Q => Joint(e, h, a) = Joint(d, h, a)
    <3>1. ASSUME <<h, a>> \notin Q PROVE Joint(e, h, a) = Joint(d, h, a)
      <4>1. Till!NormalRows(e, {h, a}) = Till!NormalRows(d, {h, a}) /\ SameLoans(d, e, h, a)
        BY <3>1 DEF NewsOf
      <4>2. Till!ProvenTogether(e, h, a) \ Till!Lapsed = Till!ProvenTogether(d, h, a) \ Till!Lapsed
        BY <4>1, TogetherSame
      <4>. QED
        BY <4>2 DEF Joint
    <3>. QED
      BY <3>1
  <2>4. /\ Have(d, p, <<h, a>>) \subseteq Joint(d, h, a)
        /\ <<h, a>> \notin P => Joint(d, h, a) \subseteq Have(d, p, <<h, a>>)
    BY <2>1 DEF OwedBoth
  <2>5. Have(e, p, <<h, a>>) = Have(d, p, <<h, a>>)
    BY <1>2
  <2>6. Have(e, p, <<h, a>>) \subseteq Joint(e, h, a)
    BY <2>2, <2>4, <2>5
  <2>7. <<h, a>> \notin P \cup Q => Joint(e, h, a) \subseteq Have(e, p, <<h, a>>)
    BY <2>3, <2>4, <2>5
  <2>. QED
    BY <2>6, <2>7 DEF OwedBoth
<1>. QED
  BY <1>1, <1>3, <1>4 DEF Owed

\* An event is about one subject.
LEMMA RecordedOwed ==
  ASSUME NEW d, Fine(d), NEW S, NEW P, Owed(d, S, P), NEW f
  PROVE  Fine(Till!Recorded(d, f)) /\ Owed(Till!Recorded(d, f), S \cup {f.who}, P)
<1> DEFINE e == Till!Recorded(d, f)
           more == d.events \cup {f}
<1>1. e = d \/ e = [d EXCEPT !.events = more]
  BY DEF Till!Recorded
<1>2. Shaped(d)
  BY DEF Fine, Db
<1> HIDE DEF e, more
<1>3. /\ Shaped(e) /\ e.wallet = d.wallet /\ e.ledger = d.ledger /\ e.unlocked = d.unlocked
      /\ e.matches = d.matches /\ e.loanFacts = d.loanFacts /\ e.pairs = d.pairs
      /\ e.events \in {d.events, more}
  BY <1>1, <1>2 DEF Shaped
<1>4. Fine(e)
  BY <1>3, BesideFine DEF Beside
<1>5. Evident(d) /\ Evident(e)
  <2>1. Evident(d)
    BY DEF Owed
  <2>2. IsFiniteSet(more)
    BY <2>1, FS_AddElement DEF Evident, more
  <2>. QED
    BY <1>3, <2>1, <2>2 DEF Evident
<1>6. d.events \subseteq e.events /\ \A g : g # f => (g \in d.events <=> g \in e.events)
  BY <1>3 DEF more
<1>7. NewsOf(d, e, {f.who}, {})
  <2>1. Grown(d, e)
    BY <1>3, <1>5, <1>6 DEF Grown
  <2>2. \A X : Till!NormalRows(e, X) = Till!NormalRows(d, X)
    BY <1>3, <1>5, RowsSame DEF Evident
  <2>3. \A s : s # f.who => SameAbout(d, e, s)
    BY <1>3, <1>6 DEF SameAbout
  <2>4. \A h, a : SameLoans(d, e, h, a)
    BY <1>3 DEF SameLoans
  <2>5. e.pairs \subseteq Owners \X Machines
    BY <1>3 DEF Owed
  <2>. QED
    BY <1>3, <2>1, <2>2, <2>3, <2>4, <2>5 DEF NewsOf
<1>8. Owed(e, S \cup {f.who}, P \cup {})
  BY <1>7, NewsOwed
<1>9. P \cup {} = P
  OBVIOUS
<1>. QED
  BY <1>4, <1>8, <1>9 DEF e

LEMMA RegisteredOwed ==
  ASSUME NEW d, Fine(d), NEW S, NEW P, Owed(d, S, P), NEW pairs, pairs \subseteq Owners \X Machines
  PROVE  Owed(Till!Registered(d, pairs), S, P)
<1> DEFINE e == Till!Registered(d, pairs)
           more == d.pairs \cup pairs
<1>1. e = [d EXCEPT !.pairs = more]
  BY DEF Till!Registered
<1>2. Shaped(d) /\ more \subseteq Owners \X Machines /\ Evident(d)
  BY DEF Fine, Db, Owed
<1> HIDE DEF e, more
<1>3. /\ e.unlocked = d.unlocked /\ e.pairs = more
      /\ e.matches = d.matches /\ e.loanFacts = d.loanFacts /\ e.events = d.events
  BY <1>1, <1>2 DEF Shaped
<1>4. Evident(e)
  BY <1>2, <1>3 DEF Evident
<1>5. NewsOf(d, e, {}, {})
  <2>1. Grown(d, e)
    BY <1>2, <1>3, <1>4 DEF Grown
  <2>2. \A X : Till!NormalRows(e, X) = Till!NormalRows(d, X)
    BY <1>2, <1>3, RowsSame DEF Evident
  <2>3. (\A s : SameAbout(d, e, s)) /\ \A h, a : SameLoans(d, e, h, a)
    BY <1>3 DEF SameAbout, SameLoans
  <2>. QED
    BY <1>2, <1>3, <2>1, <2>2, <2>3 DEF NewsOf
<1>6. Owed(e, S \cup {}, P \cup {})
  BY <1>5, NewsOwed
<1>7. S \cup {} = S /\ P \cup {} = P
  OBVIOUS
<1>. QED
  BY <1>6, <1>7 DEF e

\* Facts of a loan are about its two sides.
LEMMA LoansOwed ==
  ASSUME NEW d, Fine(d), NEW S, NEW P, Owed(d, S, P), NEW h \in Owners, NEW a \in Machines,
         NEW borrower \in {h, a}, NEW lender \in {h, a},
         NEW facts, IsFiniteSet(facts),
         \A f \in facts : f.pair = <<h, a>> /\ f.who \in {borrower, lender},
         NEW more, more = d.loanFacts \cup facts,
         NEW e, e = [d EXCEPT !.loanFacts = more]
  PROVE  Owed(e, S \cup {borrower, lender}, P \cup {<<h, a>>})
<1>1. Shaped(d) /\ Evident(d) /\ d.pairs \subseteq Owners \X Machines
  BY DEF Fine, Db, Owed
<1>2. /\ e.unlocked = d.unlocked /\ e.pairs = d.pairs
      /\ e.matches = d.matches /\ e.loanFacts = more /\ e.events = d.events
  BY <1>1 DEF Shaped
<1>3. \A f \in facts : f.who \in {f.pair[1], f.pair[2]}
  <2>1. ASSUME NEW f \in facts PROVE f.who \in {f.pair[1], f.pair[2]}
    <3>1. f.pair = <<h, a>> /\ f.who \in {h, a}
      OBVIOUS
    <3>. QED
      BY <3>1
  <2>. QED
    BY <2>1
<1>4. IsFiniteSet(more)
  BY <1>1, FS_Union DEF Evident
<1>5. Evident(e)
  BY <1>1, <1>2, <1>3, <1>4 DEF Evident
<1>6. NewsOf(d, e, {borrower, lender}, {<<h, a>>})
  <2>1. Grown(d, e)
    BY <1>1, <1>2, <1>5 DEF Grown
  <2>2. \A X : Till!NormalRows(e, X) = Till!NormalRows(d, X)
    BY <1>1, <1>2, RowsSame DEF Evident
  <2>3. \A s : s \notin {borrower, lender} => SameAbout(d, e, s)
    BY <1>2 DEF SameAbout
  <2>4. \A i, j : <<i, j>> \notin {<<h, a>>} => SameLoans(d, e, i, j)
    BY <1>2 DEF SameLoans
  <2>. QED
    BY <1>1, <1>2, <2>1, <2>2, <2>3, <2>4 DEF NewsOf
<1>. QED
  BY <1>6, NewsOwed

\* A game is about its real seats and their pairs, if it counts at all.
PlayersOf(m) == IF m.normal THEN Till!ToSet(m.roster) \cap Till!Subjects ELSE {}
CouplesOf(m) == IF m.normal THEN Till!Pairs(m.roster) ELSE {}

LEMMA MatchOwed ==
  ASSUME NEW d, Fine(d), NEW S, NEW P, Owed(d, S, P), NEW m,
         NEW list, list = Append(d.matches, m), NEW e, e = [d EXCEPT !.matches = list]
  PROVE  Owed(e, S \cup PlayersOf(m), P \cup CouplesOf(m))
<1>1. Shaped(d) /\ Evident(d) /\ d.pairs \subseteq Owners \X Machines
  BY DEF Fine, Db, Owed
<1>2. /\ e.unlocked = d.unlocked /\ e.pairs = d.pairs
      /\ e.matches = Append(d.matches, m) /\ e.loanFacts = d.loanFacts /\ e.events = d.events
  BY <1>1 DEF Shaped
<1>3. PICK X : d.matches \in Seq(X)
  BY <1>1 DEF Evident, Listed
<1>4. /\ e.matches \in Seq(X \cup {m}) /\ Len(e.matches) = Len(d.matches) + 1
      /\ e.matches[Len(e.matches)] = m
  <2>1. d.matches \in Seq(X \cup {m}) /\ m \in X \cup {m}
    BY <1>3
  <2>2. Append(d.matches, m) \in Seq(X \cup {m})
    BY <2>1
  <2>. QED
    BY <1>2, <1>3, <2>2
<1>5. Evident(e)
  BY <1>1, <1>2, <1>4 DEF Evident, Listed
<1>6. OneMore(d, e, m)
  BY <1>1, <1>2 DEF OneMore, Evident
<1>7. \A Y : ~(m.normal /\ Y \subseteq Till!ToSet(m.roster)) => Till!NormalRows(e, Y) = Till!NormalRows(d, Y)
  <2>1. ASSUME NEW Y, ~(m.normal /\ Y \subseteq Till!ToSet(m.roster))
        PROVE  Till!NormalRows(e, Y) = Till!NormalRows(d, Y)
    <3>1. Till!NormalRows(e, Y) = WithGame(e.matches, Y, Len(e.matches), Till!NormalRows(d, Y))
      BY <1>6, RowsAppend
    <3>. QED
      BY <1>4, <2>1, <3>1 DEF WithGame
  <2>. QED
    BY <2>1
<1>8. NewsOf(d, e, PlayersOf(m), CouplesOf(m))
  <2>1. Grown(d, e)
    BY <1>1, <1>2, <1>5 DEF Grown
  <2>2. \A s \in Till!Subjects \ PlayersOf(m) : Till!NormalRows(e, {s}) = Till!NormalRows(d, {s})
    BY <1>7 DEF PlayersOf
  <2>3. ASSUME NEW h \in Owners, NEW a \in Machines, <<h, a>> \notin CouplesOf(m)
        PROVE  Till!NormalRows(e, {h, a}) = Till!NormalRows(d, {h, a})
    <3>1. ~(m.normal /\ {h, a} \subseteq Till!ToSet(m.roster))
      BY <2>3 DEF CouplesOf, Till!Pairs
    <3>. QED
      BY <1>7, <3>1
  <2>4. (\A s : SameAbout(d, e, s)) /\ \A h, a : SameLoans(d, e, h, a)
    BY <1>2 DEF SameAbout, SameLoans
  <2>. QED
    BY <1>1, <1>2, <2>1, <2>2, <2>3, <2>4 DEF NewsOf
<1>. QED
  BY <1>8, NewsOwed

-----------------------------------------------------------------------------
(* What transactions owe at their end: nothing.                            *)

\* In order, and nobody waits for what is proven.
Paid(d) == Fine(d) /\ Owed(d, {}, {})

LEMMA PaidStill ==
  ASSUME NEW d, NEW e, Paid(d), Fine(e), SameEvidence(d, e), e.unlocked = d.unlocked
  PROVE  Paid(e)
  BY OwedStill DEF Paid

LEMMA FactsPaid ==
  ASSUME NEW d, NEW e, Paid(d), Fine(e), SameFacts(d, e)
  PROVE  Paid(e)
  BY PaidStill DEF SameFacts, SameEvidence

\* The subject of a fact is evaluated.
LEMMA NotedPaid ==
  ASSUME NEW d, Paid(d), NEW s \in Till!Subjects, NEW type, NEW ref, NEW data
  PROVE  Paid(Till!Evaluated(Till!Recorded(d, Till!Event(type, s, ref, data)), s))
<1> DEFINE f == Till!Event(type, s, ref, data)
           e == Till!Recorded(d, f)
<1>1. f.who = s
  BY DEF Till!Event
<1> HIDE DEF f
<1>2. Fine(e) /\ Owed(e, {} \cup {f.who}, {})
  BY RecordedOwed DEF Paid
<1>3. ({} \cup {f.who}) \ {s} = {}
  BY <1>1
<1> HIDE DEF e
<1>4. Fine(Till!Evaluated(e, s))
  BY <1>2, EvaluatedFine DEF Quiet
<1>5. Owed(Till!Evaluated(e, s), {}, {})
  BY <1>2, <1>3, EvaluatedOwed
<1>. QED
  BY <1>4, <1>5 DEF Paid, e, f

LEMMA RegisteredPaid ==
  ASSUME NEW d, Paid(d), NEW pairs, pairs \subseteq Owners \X Machines
  PROVE  Paid(Till!Registered(d, pairs))
  BY RegisteredOwed, RegisteredCalm DEF Paid, Calm

LEMMA CreationFactPaid ==
  ASSUME NEW d, Paid(d), NEW r, d.rooms[r].initiator \in Till!Subjects
  PROVE  Paid(Till!CreationFact(d, r))
<1> DEFINE t == d.rooms[r]
<1>1. CASE t.rematch = <<>>
  <2>1. Till!CreationFact(d, r) = Till!Evaluated(Till!Recorded(d, Till!Event("room_created", t.initiator, r, 0)), t.initiator)
    BY <1>1 DEF Till!CreationFact
  <2>. QED
    BY <2>1, NotedPaid
<1>2. CASE t.rematch # <<>>
  <2>1. Till!CreationFact(d, r)
          = Till!Evaluated(Till!Recorded(d, Till!Event("rematch_created", t.initiator, r, t.rematch[1])), t.initiator)
    BY <1>2 DEF Till!CreationFact
  <2>. QED
    BY <2>1, NotedPaid
<1>. QED
  BY <1>1, <1>2

LEMMA CreatedPaid ==
  ASSUME NEW d, Paid(d), NEW r, d.rooms[r].initiator \in Till!Subjects
  PROVE  Paid(Till!Created(d, r))
<1> DEFINE roster == d.rooms[r].roster
           opening == [p \in Till!ToSet(roster) |-> IF p \in Till!Subjects THEN <<Till!Balance(d, p)>> ELSE <<>>]
           o == [d EXCEPT !.openings = (r :> opening) @@ @]
           e == Till!Registered(o, Till!Pairs(roster))
<1>1. Till!Created(d, r) = IF d.rooms[r].kind = "party" THEN e ELSE Till!CreationFact(e, r)
  BY DEF Till!Created
<1>2. Beside(d, o) /\ SameRooms(d, o) /\ SameEvidence(d, o)
  <2> DEFINE k == (r :> opening) @@ d.openings
  <2>1. o = [d EXCEPT !.openings = k]
    OBVIOUS
  <2> HIDE DEF o, k
  <2>. QED
    BY <2>1 DEF Paid, Fine, Db, Shaped, Beside, SameRooms, SameEvidence
<1> HIDE DEF o
<1>3. Paid(o)
  <2>1. Fine(o)
    BY <1>2, BesideFine DEF Paid
  <2>. QED
    BY <1>2, <2>1, PaidStill DEF Beside
<1>4. Till!Pairs(roster) \subseteq Owners \X Machines
  BY PairsFinite
<1>5. Paid(e) /\ Calm(o, e)
  BY <1>3, <1>4, RegisteredPaid, RegisteredCalm DEF Paid
<1> HIDE DEF e
<1>6. e.rooms = d.rooms
  BY <1>2, <1>5 DEF Calm, Same, SameRooms
<1>7. Paid(Till!CreationFact(e, r))
  BY <1>5, <1>6, CreationFactPaid
<1>. QED
  BY <1>1, <1>5, <1>7

LEMMA TerminalRecordedPaid ==
  ASSUME NEW d, Paid(d), NEW r, NEW outcome
  PROVE  Paid(Till!TerminalRecorded(d, r, outcome))
<1> DEFINE t == d.rooms[r]
           normal == outcome /\ t.kind # "party"
           seats == Till!ToSet(t.roster)
           real == seats \cap Till!Subjects
           couples == Till!Pairs(t.roster)
           open == IF normal THEN Till!Each(d, real, Till!Opened) ELSE d
           proven == r \in DOMAIN d.openings \/ t.stake = 0 \/ r \in d.batches
           match == [room |-> r, kind |-> t.kind, game |-> t.game, stake |-> t.stake, rematch |-> t.rematch,
                     created |-> t.created, ended |-> t.ended, normal |-> normal,
                     roster |-> t.roster, winners |-> t.winners,
                     delta |-> [p \in seats |-> IF proven THEN <<t.delta[p]>> ELSE <<>>],
                     opening |-> IF r \in DOMAIN d.openings THEN d.openings[r]
                                 ELSE [p \in seats |-> <<>>],
                     after |-> [p \in real |-> Till!AfterRoom(open, r, p)]]
           list == Append(open.matches, match)
           m == [open EXCEPT !.matches = list]
           met == Till!Registered(m, couples)
           all == Till!EvaluatedAll(met, real)
<1>1. Till!TerminalRecorded(d, r, outcome)
        = IF ~Till!Recordable(d, r) THEN d
          ELSE IF normal THEN Till!EvaluatedPairs(all, couples) ELSE met
  BY Zenon DEF Till!TerminalRecorded
<1>2. Paid(open)
  <2>1. Paid(Till!Each(d, real, Till!Opened))
    <3>1. /\ Calm(d, Till!Each(d, real, Till!Opened)) /\ SameFacts(d, Till!Each(d, real, Till!Opened))
      BY EachOpened DEF Paid
    <3>. QED
      BY <3>1, FactsPaid DEF Calm
  <2>. QED
    BY <2>1
<1>3. match.normal = normal /\ match.roster = t.roster
  OBVIOUS
<1>4. IsFiniteSet(real) /\ real \subseteq Till!Subjects
  BY SubjectsFinite, FS_Intersection
<1>5. IsFiniteSet(couples) /\ couples \subseteq Owners \X Machines
  BY PairsFinite
<1>6. PlayersOf(match) = (IF normal THEN real ELSE {}) /\ CouplesOf(match) = IF normal THEN couples ELSE {}
  <2> HIDE DEF match, normal
  <2>. QED
    BY <1>3 DEF PlayersOf, CouplesOf
<1> HIDE DEF open, match
<1>7. m = [open EXCEPT !.matches = list]
  BY DEF m
<1>8. list = Append(open.matches, match)
  BY DEF list
<1> HIDE DEF m, list
<1>9. Fine(m)
  <2>1. Beside(open, m)
    BY <1>2, <1>7 DEF Paid, Fine, Db, Shaped, Beside
  <2>. QED
    BY <1>2, <2>1, BesideFine DEF Paid
<1>10. Owed(m, {} \cup PlayersOf(match), {} \cup CouplesOf(match))
  BY <1>2, <1>7, <1>8, MatchOwed DEF Paid
<1> HIDE DEF real, couples, normal
<1>11. Owed(m, IF normal THEN real ELSE {}, IF normal THEN couples ELSE {})
  <2>1. {} \cup PlayersOf(match) = (IF normal THEN real ELSE {})
    BY <1>6
  <2>2. {} \cup CouplesOf(match) = (IF normal THEN couples ELSE {})
    BY <1>6
  <2>. QED
    BY <1>10, <2>1, <2>2
<1>12. /\ Fine(met) /\ Owed(met, IF normal THEN real ELSE {}, IF normal THEN couples ELSE {})
  BY <1>5, <1>9, <1>11, RegisteredOwed, RegisteredCalm DEF Calm
<1>13. couples \subseteq met.pairs
  <2> DEFINE k == m.pairs \cup couples
  <2>1. met = [m EXCEPT !.pairs = k]
    BY DEF met, Till!Registered
  <2> HIDE DEF met, k
  <2>2. met.pairs = k
    BY <1>9, <2>1 DEF Fine, Db, Shaped
  <2>. QED
    BY <2>2 DEF k
<1> HIDE DEF met
<1>14. CASE ~normal
  <2>1. Paid(met)
    BY <1>12, <1>14 DEF Paid
  <2>. QED
    BY <1>1, <1>14, <2>1
<1>15. CASE normal
  <2>1. Fine(met) /\ Owed(met, real, couples)
    BY <1>12, <1>15
  <2>2. Fine(all) /\ Owed(all, {}, couples) /\ all.pairs = met.pairs
    BY <1>4, <2>1, EvaluatedAllOwed, EvaluatedAllFine DEF Quiet
  <2> HIDE DEF all
  <2>3. Owed(Till!EvaluatedPairs(all, couples), {}, couples \ couples)
    BY <1>5, <1>13, <2>2, EvaluatedPairsOwed
  <2>4. couples \ couples = {}
    OBVIOUS
  <2>5. Fine(Till!EvaluatedPairs(all, couples))
    BY <1>5, <2>2, EvaluatedPairsCalm DEF Calm
  <2>6. Paid(Till!EvaluatedPairs(all, couples))
    BY <2>3, <2>4, <2>5 DEF Paid
  <2>. QED
    BY <1>1, <1>15, <2>6
<1>. QED
  BY <1>14, <1>15

LEMMA PreservedLossPaid ==
  ASSUME NEW d, Paid(d), NEW h \in Owners, NEW r
  PROVE  Paid(Till!PreservedLoss(d, h, r))
<1>1. Till!PreservedLoss(d, h, r) \in {d, Till!Evaluated(Till!Recorded(d, Till!Event("preserved_loss", h, r, 0)), h)}
  BY DEF Till!PreservedLoss
<1>2. h \in Till!Subjects
  BY DEF Till!Subjects
<1>3. Paid(Till!Evaluated(Till!Recorded(d, Till!Event("preserved_loss", h, r, 0)), h))
  BY <1>2, NotedPaid
<1>. QED
  BY <1>1, <1>3

LEMMA CheckInRecordedPaid ==
  ASSUME NEW d, Paid(d), NEW s \in Till!Subjects, NEW day,
         NEW partners, IsFiniteSet(partners),
         partners \subseteq IF s \in Owners THEN Machines ELSE Owners
  PROVE  Paid(Till!CheckInRecorded(d, s, day, partners))
<1> DEFINE pairs == IF s \in Owners THEN {s} \X partners ELSE partners \X {s}
           e == Till!Evaluated(Till!Recorded(d, Till!Event("check_in", s, day, 0)), s)
           f == Till!Registered(e, pairs)
           more == e.pairs \cup pairs
<1>1. Till!CheckInRecorded(d, s, day, partners) = Till!EvaluatedPairs(f, pairs)
  BY Zenon DEF Till!CheckInRecorded
<1>2. IsFiniteSet(pairs)
  BY FS_Singleton, FS_Product
<1>3. pairs \subseteq Owners \X Machines
  BY DEF Till!Subjects
<1>4. Paid(e)
  BY NotedPaid
<1>5. f = [e EXCEPT !.pairs = more]
  BY DEF Till!Registered
<1> HIDE DEF e, pairs
<1>6. Paid(f)
  BY <1>3, <1>4, RegisteredPaid
<1> HIDE DEF f
<1>7. pairs \subseteq f.pairs
  <2>1. pairs \subseteq more
    OBVIOUS
  <2> HIDE DEF more
  <2>2. f.pairs = more
    BY <1>4, <1>5 DEF Paid, Fine, Db, Shaped
  <2>. QED
    BY <2>1, <2>2
<1>8. Owed(Till!EvaluatedPairs(f, pairs), {}, {} \ pairs)
  BY <1>2, <1>6, <1>7, EvaluatedPairsOwed DEF Paid
<1>9. {} \ pairs = {}
  OBVIOUS
<1>10. Fine(Till!EvaluatedPairs(f, pairs))
  BY <1>2, <1>3, <1>6, EvaluatedPairsCalm DEF Paid, Calm
<1>. QED
  BY <1>1, <1>8, <1>9, <1>10 DEF Paid

\* Both sides of a loan are evaluated, then the pair.
LEMMA LoanRecordedPaid ==
  ASSUME NEW d, Paid(d), NEW h \in Owners, NEW a \in Machines,
         NEW borrower \in {h, a}, NEW lender \in {h, a}, NEW facts, IsFiniteSet(facts), facts # {},
         \A f \in facts : f.pair = <<h, a>> /\ f.who \in {borrower, lender}
  PROVE  Paid(Till!LoanRecorded(d, facts, borrower, lender))
<1> DEFINE x == <<h, a>>
           pair == (CHOOSE f \in facts : TRUE).pair
           known == d.loanFacts \cup facts
           k == [d EXCEPT !.loanFacts = known]
           e == Till!Registered(k, {pair})
           more == k.pairs \cup {pair}
           f == Till!Evaluated(e, borrower)
           g == Till!Evaluated(f, lender)
<1>1. Till!LoanRecorded(d, facts, borrower, lender) = Till!EvaluatedPair(g, pair[1], pair[2])
  BY Zenon DEF Till!LoanRecorded
<1>2. pair = x
  OBVIOUS
<1>3. x[1] = h /\ x[2] = a
  OBVIOUS
<1>4. borrower \in Till!Subjects /\ lender \in Till!Subjects
  BY DEF Till!Subjects
<1> HIDE DEF pair
<1>5. known = d.loanFacts \cup facts /\ k = [d EXCEPT !.loanFacts = known]
  OBVIOUS
<1>6. e = [k EXCEPT !.pairs = more]
  BY DEF Till!Registered
<1> HIDE DEF known, k
<1>7. Owed(k, {} \cup {borrower, lender}, {} \cup {x})
  BY <1>5, LoansOwed DEF Paid
<1>8. {} \cup {borrower, lender} = {borrower, lender} /\ {} \cup {x} = {x}
  OBVIOUS
<1>9. Fine(k)
  <2>1. Beside(d, k)
    BY <1>5 DEF Paid, Fine, Db, Shaped, Beside
  <2>. QED
    BY <2>1, BesideFine DEF Paid
<1>10. {pair} \subseteq Owners \X Machines
  BY <1>2
<1> HIDE DEF x
<1>11. Owed(k, {borrower, lender}, {x})
  BY <1>7, <1>8
<1>12. Fine(e) /\ Owed(e, {borrower, lender}, {x})
  BY <1>9, <1>10, <1>11, RegisteredOwed, RegisteredCalm DEF Calm
<1> HIDE DEF e
<1>13. x \in e.pairs
  <2>1. x \in more
    BY <1>2
  <2> HIDE DEF more
  <2>2. e.pairs = more
    BY <1>6, <1>9 DEF Fine, Db, Shaped
  <2>. QED
    BY <2>1, <2>2
<1>14. Owed(f, {borrower, lender} \ {borrower}, {x})
  BY <1>4, <1>12, EvaluatedOwed
<1>15. Fine(f) /\ f.pairs = e.pairs
  BY <1>4, <1>12, EvaluatedFine, EvaluatedGains DEF Quiet, Gains, SameEvidence
<1> HIDE DEF f
<1>16. Owed(g, ({borrower, lender} \ {borrower}) \ {lender}, {x})
  BY <1>4, <1>14, <1>15, EvaluatedOwed
<1>17. Fine(g) /\ g.pairs = f.pairs
  BY <1>4, <1>15, EvaluatedFine, EvaluatedGains DEF Quiet, Gains, SameEvidence
<1>18. ({borrower, lender} \ {borrower}) \ {lender} = {}
  OBVIOUS
<1> HIDE DEF g
<1>19. Owed(g, {}, {x}) /\ x \in g.pairs
  BY <1>13, <1>15, <1>16, <1>17, <1>18
<1>20. x = <<h, a>>
  BY DEF x
<1>21. Owed(Till!EvaluatedPair(g, h, a), {}, {x} \ {<<h, a>>})
  BY <1>17, <1>19, <1>20, EvaluatedPairOwed
<1>22. {x} \ {<<h, a>>} = {}
  BY <1>20
<1>23. Fine(Till!EvaluatedPair(g, h, a))
  BY <1>17, EvaluatedPairCalm DEF Calm
<1>. QED
  BY <1>1, <1>2, <1>3, <1>21, <1>22, <1>23 DEF Paid

LEMMA BackfilledRoomPaid ==
  ASSUME NEW d, Paid(d), NEW r, d.rooms[r].initiator \in Till!Subjects
  PROVE  Paid(Till!BackfilledRoom(d, r))
<1> DEFINE f == Till!TerminalRecorded(d, r, TRUE)
           e == Till!CreationFact(f, r)
           losers == {p \in Till!ToSet(d.rooms[r].roster) \cap Owners : p \notin d.rooms[r].winners}
           h == CHOOSE h \in losers : TRUE
<1>1. Paid(f) /\ f.rooms = d.rooms
  <2>1. Calm(d, f)
    BY TerminalRecordedCalm DEF Paid
  <2>2. Paid(f)
    BY TerminalRecordedPaid
  <2>. QED
    BY <2>1, <2>2 DEF Calm, Same, SameRooms
<1>2. Till!BackfilledRoom(d, r)
        = IF d.rooms[r].preserved /\ d.rooms[r].winners # {} /\ Cardinality(losers) = 1
          THEN Till!PreservedLoss(e, h, r) ELSE e
  BY DEF Till!BackfilledRoom, Cardinality, Till!Cardinality
<1> HIDE DEF f
<1>3. Paid(e)
  BY <1>1, CreationFactPaid
<1> HIDE DEF e
<1>4. ASSUME Cardinality(losers) = 1 PROVE h \in Owners
  <2>1. losers # {}
    BY <1>4, FS_EmptySet
  <2>. QED
    BY <2>1
<1> HIDE DEF h, losers
<1>5. h \in Owners => Paid(Till!PreservedLoss(e, h, r))
  BY <1>3, PreservedLossPaid
<1>. QED
  BY <1>2, <1>3, <1>4, <1>5

LEMMA BackfilledPaid ==
  ASSUME NEW d, Paid(d), RoomsTyped(d)
  PROVE  Paid(Till!Backfilled(d))
<1> DEFINE S == {r \in DOMAIN d.rooms : Till!Backfillable(d, r)}
<1>1. Ripe(d, S)
  <2>1. S \subseteq RoomIds
    BY DEF RoomsTyped
  <2>2. IsFiniteSet(S)
    BY <2>1, PurseAssumption, FS_Subset
  <2>. QED
    BY <2>1, <2>2 DEF Ripe, RoomsTyped
<1>2. \A r \in S : d.rooms[r].initiator \in Till!Subjects
  BY DEF RoomsTyped, Till!Backfillable
<1>3. PICK g : BackSteps(d, g, SUBSET S) /\ Till!Backfilled(d) = g[S]
  BY <1>1, BackIs
<1> HIDE DEF S
<1> DEFINE D == {s \in SUBSET S : Paid(g[s]) /\ g[s].rooms = d.rooms}
<1>4. /\ g[{}] = d
      /\ \A s \in SUBSET S : s # {} =>
           g[s] = Till!BackfilledRoom(g[s \ {LatestOf(d, s)}], LatestOf(d, s))
  BY <1>3, Zenon DEF BackSteps
<1>5. {} \in D
  BY <1>4
<1>6. ASSUME NEW s \in SUBSET S, s # {}, s \ {LatestOf(d, s)} \in D
      PROVE  s \in D
  <2> DEFINE x == LatestOf(d, s)
             e == g[s \ {x}]
  <2>1. x \in S /\ Paid(e) /\ e.rooms = d.rooms
    BY <1>1, <1>6, LatestLess
  <2>2. g[s] = Till!BackfilledRoom(e, x)
    BY <1>4, <1>6
  <2> HIDE DEF e, x
  <2>3. e.rooms[x].initiator \in Till!Subjects
    BY <1>2, <2>1
  <2>4. Paid(g[s])
    BY <2>1, <2>2, <2>3, BackfilledRoomPaid
  <2>5. g[s].rooms = e.rooms
    BY <2>1, <2>2, <2>3, BackfilledRoomCalm DEF Paid, Calm, Same, SameRooms
  <2>. QED
    BY <2>1, <2>4, <2>5
<1> HIDE DEF D
<1>7. S \in D
  BY <1>1, <1>5, <1>6, LatestInduction
<1>. QED
  BY <1>3, <1>7 DEF D

\* A room that is written proves nothing, nor does its settlement.
LEMMA RoomPaid ==
  ASSUME NEW d, Paid(d), NEW r, NEW t, NEW e, e = [d EXCEPT !.rooms[r] = t]
  PROVE  Paid(e)
<1> DEFINE k == [d.rooms EXCEPT ![r] = t]
<1>1. e = [d EXCEPT !.rooms = k]
  OBVIOUS
<1> HIDE DEF k
<1>2. Beside(d, e) /\ SameEvidence(d, e)
  BY <1>1 DEF Paid, Fine, Db, Shaped, Beside, SameEvidence
<1>3. Fine(e)
  BY <1>2, BesideFine DEF Paid
<1>. QED
  BY <1>2, <1>3, PaidStill DEF Beside

LEMMA SettledPaid ==
  ASSUME NEW d, Paid(d), NEW r, Fine(Till!Settled(d, r))
  PROVE  Paid(Till!Settled(d, r))
<1> DEFINE t == d.rooms[r]
           e == Till!Settled(d, r)
           k == Till!SettlementKey(r)
           real == Till!ToSet(t.roster) \cap Till!Subjects
           open == Till!Each(d, real, Till!Opened)
           payers == Till!Payers(t)
           more == open.batches \cup {r}
           batch == [open EXCEPT !.batches = more]
           Charge(x, p) == Till!Booked(x, p, t.delta[p], k)
           W == [s \in Till!Subjects |-> IF s \in payers THEN Charge(batch, s).wallet[s] ELSE batch.wallet[s]]
           L == [s \in Till!Subjects |-> IF s \in payers THEN Charge(batch, s).ledger[s] ELSE batch.ledger[s]]
<1>1. \/ e = d \/ e = batch \/ e = [batch EXCEPT !.wallet = W, !.ledger = L]
  BY DEF Till!Settled, Till!Each
<1>2. Calm(d, open) /\ SameFacts(d, open)
  BY EachOpened DEF Paid
<1> HIDE DEF open, more
<1>3. batch = [open EXCEPT !.batches = more]
  OBVIOUS
<1> HIDE DEF batch, W, L
<1>4. /\ Shaped(batch) /\ SameEvidence(open, batch) /\ batch.unlocked = open.unlocked
  BY <1>2, <1>3 DEF Calm, Fine, Db, Shaped, SameEvidence
<1>5. SameEvidence(d, batch) /\ batch.unlocked = d.unlocked
  BY <1>2, <1>4 DEF SameFacts, SameEvidence
<1> DEFINE f == [batch EXCEPT !.wallet = W, !.ledger = L]
<1>6. SameEvidence(batch, f) /\ f.unlocked = batch.unlocked
  BY <1>4 DEF Shaped, SameEvidence
<1> HIDE DEF f
<1>7. SameEvidence(d, f) /\ f.unlocked = d.unlocked
  BY <1>5, <1>6 DEF SameEvidence
<1>8. e \in {d, batch, f}
  BY <1>1 DEF f
<1>9. SameEvidence(d, d)
  BY DEF SameEvidence
<1>10. Fine(e)
  OBVIOUS
<1> HIDE DEF e
<1>11. SameEvidence(d, e) /\ e.unlocked = d.unlocked
  BY <1>5, <1>7, <1>8, <1>9
<1>. QED
  BY <1>10, <1>11, PaidStill DEF e

LEMMA MovingPaid ==
  ASSUME NEW d, NEW e, NEW S, NEW key, Paid(d), Moving(d, e, S, key)
  PROVE  Paid(e)
  BY FactsPaid DEF Moving

-----------------------------------------------------------------------------
(* At the start nobody has earned anything.                                *)

LEMMA NothingWon ==
  ASSUME NEW rows, rows = <<>>, DOMAIN rows = {}, NEW s
  PROVE  Till!EarnedByGames(rows, s) = {}
<1> SUFFICES ASSUME NEW id \in Till!EarnedByGames(rows, s) PROVE FALSE
  OBVIOUS
<1>1. id \in Till!Catalogue /\ Target[id] \in Nat /\ Target[id] # 0
  BY CatalogueAssumption DEF Till!EarnedByGames, Till!Catalogue
<1>2. Till!Types(rows) = {} /\ Cardinality(Till!Types(rows)) = 0
  BY FS_EmptySet DEF Till!Types
<1>3. Cardinality(Till!Where(rows, LAMBDA m : m.stake = 0)) = 0
  <2>1. Till!Where(rows, LAMBDA m : m.stake = 0) = {}
    BY DEF Till!Where
  <2>. QED
    BY <2>1, FS_EmptySet
<1>4. Till!Defeated(rows, s) = {} /\ ~(Bots \subseteq {})
  BY CatalogueAssumption DEF Till!Defeated, Till!Where
<1>5. \A n : ~Till!Comeback(rows, s, n) /\ ~Till!SameOpponent(rows, s, n) /\ ~Till!Revenge(rows, s, n)
             /\ ~Till!Streak(rows, n, LAMBDA m : Till!Outcome(m, s) = "win")
  BY DEF Till!Comeback, Till!SameOpponent, Till!Revenge, Till!Streak
<1>. QED
  BY <1>1, <1>2, <1>3, <1>4, <1>5, CountsAgree
     DEF Till!EarnedByGames, Till!Once, Till!Where, Till!Streak, Till!RunAt, Till!Known

LEMMA NothingProven ==
  ASSUME NEW d, d.matches = <<>>, d.events = {}, d.loanFacts = {}
  PROVE  /\ \A s : Till!Proven(d, s) = {}
         /\ \A h, a : Joint(d, h, a) = {}
<1>1. ASSUME NEW S PROVE Till!NormalRows(d, S) = <<>>
  <2>1. Len(d.matches) = 0
    OBVIOUS
  <2>2. PICK f : RowsSteps(d.matches, S, f, 0) /\ Till!NormalRows(d, S) = f[0]
    BY <2>1, RowsIs
  <2>. QED
    BY <2>2, RowsUnfold
<1>2. \A s, type : /\ Till!Events(d, s, type) = {} /\ Till!LoanFacts(d, s, type) = {}
                   /\ Cardinality(Till!Events(d, s, type)) = 0 /\ Cardinality(Till!LoanFacts(d, s, type)) = 0
  BY FS_EmptySet DEF Till!Events, Till!LoanFacts
<1>3. \A id \in Till!Catalogue : Target[id] \in Nat /\ Target[id] # 0
  BY CatalogueAssumption DEF Till!Catalogue
<1>4. ASSUME NEW s, NEW rows, DOMAIN rows = {} PROVE Till!EarnedByFacts(d, s, rows) = {}
  <2>1. {f \in Till!LoanFacts(d, s, "loan_repaid") : f.onTime} = {}
    BY <1>2
  <2>2. Cardinality({f \in Till!LoanFacts(d, s, "loan_repaid") : f.onTime}) = 0
    BY <2>1, FS_EmptySet
  <2>3. ASSUME NEW id \in Till!EarnedByFacts(d, s, rows) PROVE FALSE
    <3>1. id \in Till!Catalogue /\ Target[id] \in Nat /\ Target[id] # 0
      BY <1>3 DEF Till!EarnedByFacts
    <3>. QED
      BY <1>2, <1>4, <2>2, <2>3, <3>1, CountsAgree DEF Till!EarnedByFacts
  <2>. QED
    BY <2>3
<1>5. ASSUME NEW s PROVE Till!Proven(d, s) = {}
  <2> DEFINE rows == Till!NormalRows(d, {s})
  <2>1. rows = <<>> /\ DOMAIN rows = {}
    BY <1>1
  <2>2. Till!EarnedByGames(rows, s) = {} /\ Till!EarnedByFacts(d, s, rows) = {}
    <3> HIDE DEF rows
    <3>. QED
      BY <1>4, <2>1, NothingWon
  <2>. QED
    BY <2>2 DEF Till!Proven
<1>6. ASSUME NEW h, NEW a PROVE Joint(d, h, a) = {}
  <2> DEFINE rows == Till!NormalRows(d, {h, a})
  <2>1. rows = <<>> /\ DOMAIN rows = {} /\ Len(rows) = 0
    BY <1>1
  <2> HIDE DEF rows
  <2>2. \A p, q : WonBy(rows, p, q) = 0
    <3>1. ASSUME NEW p, NEW q PROVE WonBy(rows, p, q) = 0
      <4>1. Till!Where(rows, LAMBDA m : Till!Outcome(m, p) = "win" /\ Till!Outcome(m, q) = "loss") = {}
        BY <2>1 DEF Till!Where
      <4>. QED
        BY <4>1, FS_EmptySet DEF WonBy
    <3>. QED
      BY <3>1
  <2>3. {f \in d.loanFacts : f.type = "loan_activated_borrower" /\ f.pair = <<h, a>>} = {}
    OBVIOUS
  <2>4. ASSUME NEW id \in Till!ProvenTogether(d, h, a), id \notin Till!Lapsed PROVE FALSE
    <3>1. id \in Till!Catalogue /\ Target[id] \in Nat /\ Target[id] # 0
          /\ id \notin {"pair_same_day_check_in", "pair_balanced_twenty"}
      BY <1>3, <2>4 DEF Till!ProvenTogether, Till!Lapsed
    <3>2. \/ id \in {"pair_first_game", "pair_ten_games", "pair_fifty_games"} /\ Len(rows) >= Target[id]
          \/ id = "pair_reunion_after_seven_days" /\ \E i : i \in 1..(Len(rows) - 1)
          \/ id = "pair_both_won" /\ WonBy(rows, h, a) > 0
          \/ id = "pair_five_wins_each" /\ WonBy(rows, h, a) >= Target[id]
          \/ id \in {"loan_pair_counter_activated", "loan_pair_bidirectional"}
      BY <3>1, CountsAgree DEF Till!ProvenTogether, WonBy, rows
    <3>3. id \notin {"loan_pair_counter_activated", "loan_pair_bidirectional"}
      BY <2>3 DEF Till!ProvenTogether
    <3>. QED
      BY <2>1, <2>2, <3>1, <3>2, <3>3
  <2>. QED
    BY <2>4 DEF Joint
<1>. QED
  BY <1>5, <1>6

LEMMA NewDbPaid == Paid(Till!NewDb)
<1> DEFINE d == Till!NewDb
<1>1. Fine(d)
  BY NewDbKept DEF PurseKept
<1>2. /\ d.matches = <<>> /\ d.events = {} /\ d.loanFacts = {} /\ d.unlocked = {} /\ d.pairs = {}
  BY DEF Till!NewDb
<1> HIDE DEF d
<1>3. Evident(d)
  <2>1. <<>> \in Seq({})
    OBVIOUS
  <2>. QED
    BY <1>2, <2>1, FS_EmptySet DEF Evident, Listed
<1>4. (\A s : Own(d, s) = {}) /\ \A h, a : Joint(d, h, a) = {}
  BY <1>2, NothingProven DEF Own
<1>5. \A s, c : Have(d, s, c) = {}
  BY <1>2 DEF Have
<1>6. Owed(d, {}, {})
  BY <1>2, <1>3, <1>4, <1>5 DEF Owed, OwedAlone, OwedBoth
<1>. QED
  BY <1>1, <1>6 DEF Paid, d

LEMMA LegacyDbPaid == ASSUME NEW t \in Legacy PROVE Paid(Till!LegacyDb(t))
<1> DEFINE r == Till!Min(RoomIds)
<1>1. PICK d : /\ PurseKept(Till!LegacyDb(t), 0, {})
               /\ d = [Till!NewDb EXCEPT !.rooms[r] = d.rooms[r]]
               /\ Fine(Till!Settled(d, r))
               /\ SameEvidence(Till!Settled(d, r), Till!LegacyDb(t))
               /\ Till!LegacyDb(t).unlocked = Till!Settled(d, r).unlocked
  BY LegacyDbKept
<1> HIDE DEF r
<1>2. Paid(d)
  BY <1>1, NewDbPaid, RoomPaid
<1>3. Paid(Till!Settled(d, r))
  BY <1>1, <1>2, SettledPaid
<1>4. Fine(Till!LegacyDb(t))
  BY <1>1 DEF PurseKept
<1>. QED
  BY <1>1, <1>3, <1>4, PaidStill

-----------------------------------------------------------------------------
(* A bankruptcy.                                                           *)

\* The reset is written, the event is not yet.
LEMMA ResetFine ==
  ASSUME NEW o, Fine(o), NEW s \in Till!Subjects, o.wallet[s].open
  PROVE  /\ Fine(Till!Reset(o, s)) /\ SameFacts(o, Till!Reset(o, s)) /\ Untouched(o, Till!Reset(o, s), {s})
         /\ o.wallet[s].bankruptcies \in Nat
         /\ Till!Reset(o, s).wallet[s].bankruptcies = o.wallet[s].bankruptcies + 1
         /\ \A p \in Till!Subjects, key \in OtherKeys :
              Values(Till!Reset(o, s).ledger[p], key) = Values(o.ledger[p], key)
<1> DEFINE f == Till!Reset(o, s)
           w == [o.wallet[s] EXCEPT !.balance = ResetBalance,
                                    !.bankruptcies = o.wallet[s].bankruptcies + 1, !.badge = TRUE]
           x == Till!Line(Till!ResetLine, ResetBalance - o.wallet[s].balance, ResetBalance)
           l == Append(o.ledger[s], x)
<1>1. /\ Db(o) /\ Account(o.wallet[s], o.ledger[s]) /\ o.wallet[s] \in WalletRows
      /\ o.ledger[s] \in Seq(LineRows)
  BY DEF Fine, Account
<1>2. Wrote(o, f, s, w, l)
  BY <1>1, ResetWrites
<1>3. Account(w, l)
  BY <1>1, ResetAccount
<1>4. w.bankruptcies = o.wallet[s].bankruptcies + 1 /\ o.wallet[s].bankruptcies \in Nat
  BY <1>1 DEF WalletRows
<1>5. x \in LineRows /\ x.key = Till!ResetLine
  BY <1>1, PurseAssumption DEF Till!Line, LineRows, LineKeys, WalletRows
<1>6. Added(o.ledger[s], l, x)
  BY <1>1, <1>5, AppendedLine, Zenon
<1> HIDE DEF f, w, x, l
<1>7. /\ Db(f) /\ Untouched(o, f, {s}) /\ f.wallet[s] = w /\ f.ledger[s] = l
       /\ \A p \in Till!Subjects : Account(f.wallet[p], f.ledger[p])
       /\ SameFacts(o, f)
  <2>1. \A p \in Till!Subjects : Account(o.wallet[p], o.ledger[p])
    BY DEF Fine
  <2>2. Db(f) /\ Untouched(o, f, {s}) /\ f.wallet[s] = w /\ f.ledger[s] = l
    BY <1>1, <1>2, <1>3, <2>1, WroteDb
  <2>3. SameFacts(o, f)
    BY <1>2 DEF Wrote
  <2>4. \A p \in Till!Subjects : Account(f.wallet[p], f.ledger[p])
    BY <1>3, <2>1, <2>2 DEF Untouched
  <2>. QED
    BY <2>2, <2>3, <2>4
<1>8. \A p \in Till!Subjects, key \in RewardKeys \cup OtherKeys :
         /\ Held(f.ledger[p], key) <=> Held(o.ledger[p], key)
         /\ Values(f.ledger[p], key) = Values(o.ledger[p], key)
  <2>1. \A key \in RewardKeys \cup OtherKeys : key # x.key
    BY <1>5, KeysDiffer
  <2>2. \A key \in RewardKeys \cup OtherKeys :
          /\ Held(l, key) <=> Held(o.ledger[s], key)
          /\ Values(l, key) = Values(o.ledger[s], key)
    BY <1>6, <2>1 DEF Added
  <2>. QED
    BY <1>7, <2>2 DEF Untouched
<1>9. Fine(f)
  <2>1. \A id \in Till!Catalogue, context \in Contexts : Till!RewardKey(id, context) \in RewardKeys
    BY DEF RewardKeys
  <2>2. Rewarded(o) /\ f.unlocked = o.unlocked
    BY <1>7 DEF Fine, SameFacts
  <2>3. Rewarded(f)
    BY <1>8, <2>1, <2>2 DEF Rewarded
  <2>. QED
    BY <1>7, <2>3 DEF Fine
<1>10. f.wallet[s].bankruptcies = o.wallet[s].bankruptcies + 1 /\ o.wallet[s].bankruptcies \in Nat
  BY <1>4, <1>7
<1>. QED
  BY <1>7, <1>8, <1>9, <1>10 DEF f

LEMMA BankruptcyKeeps ==
  ASSUME NEW d, NEW n, PurseKept(d, n, {}), Paid(d), NEW s \in Till!Subjects
  PROVE  /\ PurseKept(Till!BankruptcyRecorded(Till!Reset(Till!Opened(d, s), s), s), n, {})
         /\ Paid(Till!BankruptcyRecorded(Till!Reset(Till!Opened(d, s), s), s))
<1> DEFINE o == Till!Opened(d, s)
           f == Till!Reset(o, s)
           b == f.wallet[s].bankruptcies
           ev == Till!Event("bankruptcy", s, b, 0)
           g == Till!Recorded(f, ev)
<1>1. Till!BankruptcyRecorded(f, s) = Till!Evaluated(g, s)
  BY DEF Till!BankruptcyRecorded
<1>2. Calm(d, o) /\ o.wallet[s].open /\ SameFacts(d, o)
  <2>1. Fine(d)
    BY DEF PurseKept
  <2>. QED
    BY <2>1, OpenedMoves, OpenedFine
<1> HIDE DEF o
<1>3. PurseKept(o, n, {}) /\ Paid(o)
  BY <1>2, CalmKeeps, FactsPaid DEF Calm
<1>4. \A p \in Till!Subjects : o.wallet[p].bankruptcies \in Nat
  BY <1>3 DEF PurseKept, Fine, Db, WalletRows
<1>5. /\ Fine(f) /\ SameFacts(o, f) /\ Untouched(o, f, {s})
      /\ f.wallet[s].bankruptcies = o.wallet[s].bankruptcies + 1
      /\ \A p \in Till!Subjects, key \in OtherKeys : Values(f.ledger[p], key) = Values(o.ledger[p], key)
  BY <1>2, <1>3, ResetFine DEF PurseKept
<1>6. Paid(Till!BankruptcyRecorded(f, s))
  <2>1. Paid(f)
    BY <1>3, <1>5, FactsPaid
  <2> HIDE DEF f, b
  <2>. QED
    BY <1>1, <2>1, NotedPaid
<1> HIDE DEF f
<1>7. /\ b = o.wallet[s].bankruptcies + 1
       /\ \A p \in Till!Subjects \ {s} : f.wallet[p].bankruptcies = o.wallet[p].bankruptcies
  BY <1>5 DEF Untouched
<1> HIDE DEF b
<1>8. ev.type = "bankruptcy" /\ ev.who = s /\ ev.ref = b /\ ev = Till!Event("bankruptcy", s, b, 0)
  BY DEF Till!Event
<1>9. \A e \in o.events : ~(e.type = ev.type /\ e.who = ev.who /\ e.ref = ev.ref)
  <2>1. ASSUME NEW e \in o.events, e.type = "bankruptcy", e.who = s, e.ref = b PROVE FALSE
    <3>1. e \in Falls(o)
      BY <2>1 DEF Falls
    <3>2. PICK p \in Till!Subjects : \E m \in 1..o.wallet[p].bankruptcies : e = Till!Event("bankruptcy", p, m, 0)
      BY <1>3, <3>1 DEF PurseKept, Counted
    <3>3. PICK m \in 1..o.wallet[p].bankruptcies : e = Till!Event("bankruptcy", p, m, 0)
      BY <3>2
    <3>4. p = s /\ m = b
      BY <2>1, <3>3 DEF Till!Event
    <3>. QED
      BY <1>4, <1>7, <3>3, <3>4
  <2>. QED
    BY <1>8, <2>1
<1> HIDE DEF ev
<1>10. g = [f EXCEPT !.events = f.events \cup {ev}]
  <2>1. f.events = o.events
    BY <1>5 DEF SameFacts
  <2>. QED
    BY <1>9, <2>1 DEF Till!Recorded
<1> HIDE DEF g
<1>11. Beside(f, g) /\ SameRooms(f, g) /\ g.events = f.events \cup {ev}
  BY <1>5, <1>10 DEF Fine, Db, Shaped, Beside, SameRooms
<1>12. Fine(g) /\ \A p : Judged(f, p) <=> Judged(g, p)
  BY <1>5, <1>11, BesideFine
<1>13. Falls(g) = Falls(o) \cup {ev}
  <2>1. g.events = o.events \cup {ev}
    BY <1>5, <1>11 DEF SameFacts
  <2>. QED
    BY <1>8, <2>1 DEF Falls
<1>14. Counted(g)
  <2>1. g.wallet = f.wallet
    BY <1>11 DEF Beside
  <2>2. \A p \in Till!Subjects : o.wallet[p].bankruptcies \in Nat
    BY <1>4
  <2>3. ASSUME NEW e
        PROVE  e \in Falls(g) <=>
                 \E p \in Till!Subjects : \E m \in 1..f.wallet[p].bankruptcies :
                   e = Till!Event("bankruptcy", p, m, 0)
    <3>1. e \in Falls(o) <=>
            \E p \in Till!Subjects : \E m \in 1..o.wallet[p].bankruptcies : e = Till!Event("bankruptcy", p, m, 0)
      BY <1>3 DEF PurseKept, Counted
    <3>2. ASSUME e \in Falls(g)
          PROVE  \E p \in Till!Subjects : \E m \in 1..f.wallet[p].bankruptcies :
                   e = Till!Event("bankruptcy", p, m, 0)
      <4>1. CASE e = ev
        <5>1. b \in 1..f.wallet[s].bankruptcies
          BY <1>7, <2>2 DEF b
        <5>. QED
          BY <1>8, <4>1, <5>1
      <4>2. CASE e \in Falls(o)
        <5>1. PICK p \in Till!Subjects : \E m \in 1..o.wallet[p].bankruptcies : e = Till!Event("bankruptcy", p, m, 0)
          BY <3>1, <4>2
        <5>2. PICK m \in 1..o.wallet[p].bankruptcies : e = Till!Event("bankruptcy", p, m, 0)
          BY <5>1
        <5>3. m \in 1..f.wallet[p].bankruptcies
          BY <1>7, <2>2 DEF b
        <5>. QED
          BY <5>2, <5>3
      <4>. QED
        BY <1>13, <3>2, <4>1, <4>2
    <3>3. ASSUME NEW p \in Till!Subjects, NEW m \in 1..f.wallet[p].bankruptcies,
                 e = Till!Event("bankruptcy", p, m, 0)
          PROVE  e \in Falls(g)
      <4>1. CASE m \in 1..o.wallet[p].bankruptcies
        BY <1>13, <3>1, <3>3, <4>1
      <4>2. CASE m \notin 1..o.wallet[p].bankruptcies
        <5>1. p = s /\ m = b
          BY <1>7, <2>2, <4>2 DEF b
        <5>. QED
          BY <1>8, <1>13, <3>3, <5>1
      <4>. QED
        BY <4>1, <4>2
    <3>. QED
      BY <3>2, <3>3
  <2>. QED
    BY <2>1, <2>3 DEF Counted
<1>15. PurseKept(g, n, {s})
  <2>1. /\ g.wallet = f.wallet /\ g.ledger = f.ledger /\ g.lent = o.lent /\ g.rooms = o.rooms
        /\ g.batches = o.batches
    BY <1>5, <1>11 DEF Beside, SameRooms, SameFacts
  <2>2. \A p \in Till!Subjects, key \in OtherKeys : Values(g.ledger[p], key) = Values(o.ledger[p], key)
    BY <1>5, <2>1
  <2>3. Fresh(g, n)
    BY <1>3, <2>1, <2>2, KeyKinds DEF PurseKept, Fresh
  <2>4. RoomsKept(g)
    BY <1>3, <2>1 DEF PurseKept, RoomsKept
  <2>5. SettledTables(g)
    <3>1. ASSUME NEW r \in RoomIds PROVE TableSettled(g, r)
      <4>1. TableSettled(o, r)
        BY <1>3 DEF PurseKept, SettledTables
      <4>2. \A p \in Till!Subjects :
              Values(g.ledger[p], Till!SettlementKey(r)) = Values(o.ledger[p], Till!SettlementKey(r))
        BY <2>2, KeyKinds
      <4>. QED
        BY <2>1, <4>1, <4>2 DEF TableSettled
    <3>. QED
      BY <3>1 DEF SettledTables
  <2>6. ASSUME NEW p \in Till!Subjects \ {s} PROVE Judged(g, p)
    <3>1. Judged(o, p)
      BY <1>3 DEF PurseKept
    <3>2. f.wallet[p] = o.wallet[p] /\ f.ledger[p] = o.ledger[p] /\ o.unlocked \subseteq f.unlocked
      BY <1>5 DEF Untouched, SameFacts
    <3>3. Judged(f, p)
      BY <3>1, <3>2, JudgedUntouched
    <3>. QED
      BY <1>12, <3>3
  <2>. QED
    BY <1>12, <1>14, <2>3, <2>4, <2>5, <2>6 DEF PurseKept
<1>16. Calm(g, Till!Evaluated(g, s)) /\ Judged(Till!Evaluated(g, s), s)
  BY <1>12, EvaluatedCalm
<1>17. PurseKept(Till!Evaluated(g, s), n, {s})
  BY <1>15, <1>16, CalmKeeps
<1>18. PurseKept(Till!Evaluated(g, s), n, {})
  BY <1>16, <1>17 DEF PurseKept
<1>. QED
  BY <1>1, <1>6, <1>18 DEF f, o

-----------------------------------------------------------------------------
(* The steps of rooms.                                                     *)

LEMMA OpenKeeps ==
  ASSUME PurseKept(db, calls, {}), Paid(db), calls \in Nat, time \in Nat,
         NEW r \in RoomIds, NEW kind, NEW game,
         NEW roster \in {seating[2] : seating \in Seatings}, NEW stake \in Stakes,
         NEW rematch, Till!Open(r, kind, game, roster, stake, rematch)
  PROVE  PurseKept(db', calls', {}) /\ Paid(db')
<1> DEFINE t == [Till!NoRoom EXCEPT !.status = "playing", !.kind = kind, !.game = game, !.stake = stake,
                               !.roster = roster, !.initiator = roster[1], !.rematch = rematch,
                               !.created = time]
           d == [db EXCEPT !.rooms[r] = t]
<1>1. /\ db' = IF kind = "invite" THEN d ELSE Till!Created(d, r)
      /\ calls' = calls + 1 /\ db.rooms[r].status = "free"
  BY DEF Till!Open, Till!Commit
<1>2. t = [Till!NoRoom EXCEPT !.status = "playing", !.kind = kind, !.game = game, !.stake = stake,
                        !.roster = roster, !.initiator = roster[1], !.rematch = rematch,
                        !.created = time]
  OBVIOUS
<1> HIDE DEF t
<1>3. /\ Row(t)
      /\ t.status = "playing" /\ t.stake = stake /\ t.roster = roster /\ t.initiator = roster[1]
      /\ t.ended = 0 /\ t.winners = {}
  BY <1>2 DEF Till!NoRoom, Row
<1>4. roster \in Seq(Seats) /\ roster[1] \in Till!Subjects /\ OneSeat(roster) /\ stake \in Nat
  BY PurseAssumption DEF Seats, Till!Subjects, OneSeat
<1>5. RoomRow(t)
  BY <1>3, <1>4 DEF RoomRow, Ending
<1>6. ~Won(t) /\ ~Won(db.rooms[r])
  BY <1>1, <1>3 DEF Won
<1>7. PurseKept(d, calls, {})
  BY <1>5, <1>6, RoomChanged
<1>8. d.rooms[r] = t /\ Paid(d)
  BY RoomWritten, RoomPaid DEF PurseKept, RoomsKept
<1> HIDE DEF d
<1>9. PurseKept(Till!Created(d, r), calls, {})
  <2>1. Calm(d, Till!Created(d, r))
    BY <1>3, <1>4, <1>7, <1>8, CreatedCalm DEF PurseKept
  <2>. QED
    BY <1>7, <2>1, CalmKeeps
<1>10. Paid(Till!Created(d, r))
  BY <1>3, <1>4, <1>8, CreatedPaid
<1>11. PurseKept(db', calls, {}) /\ Paid(db')
  BY <1>1, <1>7, <1>8, <1>9, <1>10
<1>. QED
  BY <1>1, <1>11, LaterKept

LEMMA FinishKeeps ==
  ASSUME PurseKept(db, calls, {}), Paid(db), calls \in Nat, time \in Nat,
         NEW r \in RoomIds, NEW winners, NEW reason, NEW settlement,
         Till!Finish(r, winners, reason, settlement)
  PROVE  PurseKept(db', calls', {}) /\ Paid(db')
<1> DEFINE t == db.rooms[r]
           ended == [t EXCEPT !.status = "finished", !.ended = time, !.winners = winners,
                              !.reason = reason]
           delta == Till!Deltas(db, ended, settlement.asked)
           row == [ended EXCEPT !.settles = settlement.settles, !.delta = delta]
           settled == Till!Settled([db EXCEPT !.rooms[r] = row], r)
           normal == reason = "game_result" \/ (reason = "resignation" /\ Till!SoleWinner(row))
<1>1. /\ db' = Till!TerminalRecorded(settled, r, normal)
      /\ calls' = calls + 1 /\ t.status = "playing" /\ winners \subseteq Till!ToSet(t.roster)
      /\ settlement \in Till!Settlements(ended)
  BY DEF Till!Finish, Till!Commit, Till!EndsWith
<1>2. RoomRow(t)
  BY DEF PurseKept, RoomsKept
<1>3. /\ ended = [t EXCEPT !.status = "finished", !.ended = time, !.winners = winners,
                          !.reason = reason]
      /\ Row(t)
  BY <1>2 DEF RoomRow
<1> HIDE DEF ended
<1>4. /\ Row(ended)
      /\ ended.status = "finished" /\ ended.ended = time /\ ended.winners = winners
      /\ ended.stake = t.stake /\ ended.roster = t.roster /\ ended.initiator = t.initiator
  BY <1>3 DEF Row
<1>5. Ending(ended) /\ OneSeat(ended.roster)
  BY <1>1, <1>2, <1>4 DEF RoomRow, Ending
<1>6. Payable(ended, delta)
  <2>1. Payable(ended, settlement.asked)
    BY <1>1, <1>5, SettlementPayable
  <2>. QED
    BY <1>5, <2>1, DeltasPayable DEF PurseKept
<1> HIDE DEF delta
<1>7. row = [ended EXCEPT !.settles = settlement.settles, !.delta = delta]
  OBVIOUS
<1> HIDE DEF row
<1>8. /\ Row(row)
      /\ row.status = "finished" /\ row.ended = ended.ended /\ row.winners = ended.winners
      /\ row.stake = ended.stake /\ row.roster = ended.roster /\ row.initiator = ended.initiator
      /\ row.delta = delta /\ row.game = ended.game
  BY <1>4, <1>7 DEF Row
<1>9. RoomRow(row)
  <2>1. Ending(row) /\ Payable(row, row.delta)
    BY <1>5, <1>6, <1>8 DEF Ending, Payable, Balanced
  <2>2. row.ended \in Int /\ row.initiator \in Till!Subjects
    BY <1>1, <1>2, <1>4, <1>8 DEF RoomRow
  <2>. QED
    BY <1>8, <2>1, <2>2 DEF RoomRow
<1>10. ~Won(t)
  BY <1>1 DEF Won
<1>11. PurseKept(settled, calls, {}) /\ Paid(settled)
  <2>1. PurseKept(settled, calls, {})
    BY <1>8, <1>9, <1>10, RoomEnded
  <2> DEFINE d == [db EXCEPT !.rooms[r] = row]
  <2>2. Paid(d)
    BY RoomPaid
  <2>3. settled = Till!Settled(d, r) /\ Fine(settled)
    BY <2>1 DEF PurseKept
  <2> HIDE DEF d, settled
  <2>. QED
    BY <2>1, <2>2, <2>3, SettledPaid
<1> HIDE DEF settled, normal
<1>12. Calm(settled, Till!TerminalRecorded(settled, r, normal))
  BY <1>11, TerminalRecordedCalm DEF PurseKept
<1>13. PurseKept(db', calls, {}) /\ Paid(db')
  BY <1>1, <1>11, <1>12, CalmKeeps, TerminalRecordedPaid
<1>. QED
  BY <1>1, <1>13, LaterKept

\* A table that is settled again books nothing; one from before there were
\* batches gets its own.
LEMMA SettleAgainKeeps ==
  ASSUME PurseKept(db, calls, {}), Paid(db), NEW r \in RoomIds, Till!SettleAgain(r)
  PROVE  PurseKept(db', calls', {}) /\ Paid(db')
<1> DEFINE t == db.rooms[r]
           k == Till!SettlementKey(r)
           real == Till!ToSet(t.roster) \cap Till!Subjects
           open == Till!Each(db, real, Till!Opened)
           payers == Till!Payers(t)
           written == Till!Written(db, r)
           more == open.batches \cup {r}
           batch == [open EXCEPT !.batches = more]
<1>1. db' = Till!Settled(db, r) /\ calls' = calls /\ t.status = "finished"
  BY DEF Till!SettleAgain
<1>2. CASE t.stake = 0 \/ ~t.settles \/ r \in db.batches
  <2>1. db' = db
    BY <1>1, <1>2 DEF Till!Settled
  <2>. QED
    BY <1>1, <2>1
<1>3. CASE ~(t.stake = 0 \/ ~t.settles \/ r \in db.batches)
  <2>1. RoomRow(t) /\ TableSettled(db, r) /\ Fine(db)
    BY DEF PurseKept, RoomsKept, SettledTables
  <2>2. Won(t)
    BY <1>1, <1>3, <2>1 DEF RoomRow, Ending, Won
  <2>3. /\ \E s \in Till!Subjects : Owing(t, s)
        /\ \A s \in Till!Subjects : Owing(t, s) => Values(db.ledger[s], k) = {t.delta[s]}
    BY <1>3, <2>1, <2>2 DEF TableSettled
  <2>4. \A s : s \in payers <=> s \in Till!Subjects /\ Owing(t, s)
    BY <2>2 DEF Till!Payers, Owing
  <2> HIDE DEF payers, k, real
  <2>5. payers # {} /\ \A s \in payers : Till!Holds(db, s, k)
    <3>1. Db(db)
      BY <2>1 DEF Fine
    <3>2. ASSUME NEW s \in payers PROVE Till!Holds(db, s, k)
      <4>1. s \in Till!Subjects /\ Values(db.ledger[s], k) # {}
        BY <2>3, <2>4, <3>2
      <4>. QED
        BY <3>1, <4>1, NoValues
    <3>. QED
      BY <2>3, <2>4, <3>2
  <2>6. written = payers
    BY <2>5 DEF Till!Written, payers, k
  <2>7. db' = batch
    <3>1. db' = IF payers # {} /\ written = payers THEN batch
                ELSE Till!Each(batch, payers, LAMBDA e, p : Till!Booked(e, p, t.delta[p], k))
      BY <1>1, <1>3 DEF Till!Settled, payers, k, real
    <3> HIDE DEF written, batch
    <3>. QED
      BY <2>5, <2>6, <3>1
  <2>8. Calm(db, open) /\ SameFacts(db, open)
    BY <2>1, EachOpened DEF real
  <2> HIDE DEF open
  <2>9. PurseKept(open, calls, {}) /\ Paid(open)
    BY <2>8, CalmKeeps, FactsPaid DEF Calm
  <2>10. open.rooms = db.rooms /\ more = db.batches \cup {r}
    BY <2>8 DEF SameFacts, SameRooms
  <2>11. \A x \in RoomIds : TableSettled(db, x)
    BY DEF PurseKept, SettledTables
  <2>12. /\ \A x \in RoomIds : x \in more => Won(open.rooms[x])
         /\ \A x \in RoomIds : Won(open.rooms[x]) =>
              x \in more \/ \E s \in Till!Subjects : Owing(open.rooms[x], s)
    BY <2>2, <2>10, <2>11 DEF TableSettled
  <2>13. batch = [open EXCEPT !.batches = more]
    OBVIOUS
  <2> HIDE DEF batch, more
  <2>14. PurseKept(batch, calls, {}) /\ Beside(open, batch) /\ SameEvidence(open, batch)
    BY <2>9, <2>12, <2>13, BatchesChanged
  <2>15. Paid(batch)
    BY <2>9, <2>14, PaidStill DEF PurseKept, Beside
  <2>. QED
    BY <1>1, <2>7, <2>14, <2>15
<1>. QED
  BY <1>2, <1>3

LEMMA CaptureKeeps ==
  ASSUME PurseKept(db, calls, {}), Paid(db), calls \in Nat, NEW r, NEW p, Till!Capture(r, p)
  PROVE  PurseKept(db', calls', {}) /\ Paid(db')
<1>1. /\ db' = Till!Evaluated(Till!Recorded(db, Till!Event("jungle_rat_captures_elephant", p, r, 0)), p)
      /\ calls' = calls + 1 /\ p \in Till!Subjects
  BY DEF Till!Capture, Till!RatCapture, Till!Commit
<1>2. Calm(db, db') /\ Paid(db')
  BY <1>1, NotedCalm, NotedPaid DEF PurseKept
<1>3. PurseKept(db', calls, {})
  BY <1>2, CalmKeeps
<1>. QED
  BY <1>1, <1>2, <1>3, LaterKept

LEMMA PreserveKeeps ==
  ASSUME PurseKept(db, calls, {}), Paid(db), calls \in Nat, NEW r \in RoomIds, NEW h \in Owners,
         Till!Preserve(r, h)
  PROVE  PurseKept(db', calls', {}) /\ Paid(db')
<1> DEFINE t == [db.rooms[r] EXCEPT !.preserved = TRUE]
           d == [db EXCEPT !.rooms[r] = t]
<1>1. db' = Till!PreservedLoss(d, h, r) /\ calls' = calls + 1
  BY DEF Till!Preserve, Till!Commit
<1>2. RoomRow(db.rooms[r])
  BY DEF PurseKept, RoomsKept
<1>3. t = [db.rooms[r] EXCEPT !.preserved = TRUE] /\ Row(db.rooms[r])
  BY <1>2 DEF RoomRow
<1> HIDE DEF t
<1>4. /\ Row(t)
      /\ t.status = db.rooms[r].status /\ t.stake = db.rooms[r].stake
      /\ t.roster = db.rooms[r].roster /\ t.initiator = db.rooms[r].initiator
      /\ t.ended = db.rooms[r].ended /\ t.winners = db.rooms[r].winners
      /\ t.delta = db.rooms[r].delta /\ t.settles = db.rooms[r].settles
      /\ t.game = db.rooms[r].game
  BY <1>3 DEF Row
<1>5. RoomRow(t)
  BY <1>2, <1>4 DEF RoomRow, Ending, Payable, Balanced
<1>6. Won(t) <=> Won(db.rooms[r])
  BY <1>4 DEF Won
<1>7. PurseKept(d, calls, {}) /\ Paid(d)
  BY <1>4, <1>5, <1>6, RoomChanged, RoomPaid
<1> HIDE DEF d
<1>8. Calm(d, Till!PreservedLoss(d, h, r)) /\ Paid(Till!PreservedLoss(d, h, r))
  BY <1>7, PreservedLossCalm, PreservedLossPaid DEF PurseKept
<1>9. PurseKept(db', calls, {})
  BY <1>1, <1>7, <1>8, CalmKeeps
<1>. QED
  BY <1>1, <1>8, <1>9, LaterKept

LEMMA RestartKeeps ==
  ASSUME PurseKept(db, calls, {}), Paid(db), calls \in Nat, Till!Restart
  PROVE  PurseKept(db', calls', {}) /\ Paid(db')
<1>1. db' = Till!Backfilled(db) /\ calls' = calls + 1
  BY DEF Till!Restart
<1>2. RoomsTyped(db)
  BY DEF PurseKept, RoomsKept, RoomRow, RoomsTyped
<1>3. Calm(db, Till!Backfilled(db)) /\ Paid(Till!Backfilled(db))
  BY <1>2, BackfilledCalm, BackfilledPaid DEF PurseKept
<1>4. PurseKept(db', calls, {})
  BY <1>1, <1>3, CalmKeeps
<1>. QED
  BY <1>1, <1>3, <1>4, LaterKept

-----------------------------------------------------------------------------
(* The steps of wallets and loans.                                         *)

LEMMA CheckInKeeps ==
  ASSUME PurseKept(db, calls, {}), Paid(db), calls \in Nat, asking \in [Till!Subjects -> Int],
         NEW s \in Till!Subjects, NEW partners \in {{}, IF s \in Owners THEN Machines ELSE Owners},
         Till!ClaimCheckIn(s, partners)
  PROVE  PurseKept(db', calls', {}) /\ Paid(db')
<1> DEFINE day == asking[s]
           key == Till!CheckInKey(day)
           o == Till!Opened(db, s)
           e == Till!Granted(db, s, day)
<1>1. db' = Till!CheckInRecorded(e, s, day, partners) /\ calls' = calls + 1
  BY DEF Till!ClaimCheckIn
<1>2. e = IF Till!Holds(o, s, key) THEN o ELSE Till!Booked(o, s, CheckInAmount, key)
  BY DEF Till!Granted
<1>3. key \in OtherKeys /\ Taken(db, key, calls)
  <2>1. day \in Int
    OBVIOUS
  <2> HIDE DEF day
  <2>. QED
    BY <2>1, KeyKinds DEF Taken, Till!CheckInKey, CallKinds, DayKeys
<1> HIDE DEF key, day
<1>4. Calm(db, o) /\ Moving(db, o, {}, key) /\ o.wallet[s].open
  BY OpenedMoves, OpenedFine DEF PurseKept
<1> HIDE DEF o
<1>5. Moving(db, e, {s}, key)
  <2>1. Moving(db, o, {s}, key)
    BY <1>4, MovingWider
  <2>2. ASSUME ~Till!Holds(o, s, key) PROVE Moving(db, e, {s}, key)
    <3>1. ~Held(o.ledger[s], key)
      BY <1>4, <2>2, LineHeld DEF Calm, Fine
    <3>2. CheckInAmount \in Int
      BY PurseAssumption
    <3>3. Moving(o, Till!Booked(o, s, CheckInAmount, key), {s}, key)
      BY <1>3, <1>4, <3>1, <3>2, BookedMoves DEF Calm
    <3>. QED
      BY <1>2, <2>1, <2>2, <3>3, MovingThrough
  <2>. QED
    BY <1>2, <2>1, <2>2
<1> HIDE DEF e
<1>6. PurseKept(e, calls, {s})
  <2>1. PurseKept(e, calls, {} \cup {s})
    BY <1>3, <1>5, MovingKeeps
  <2>. QED
    BY <2>1
<1>7. Calm(e, db') /\ Judged(db', s) /\ Paid(db')
  <2>1. IsFiniteSet(partners)
    BY SubjectsFinite, FS_EmptySet
  <2>2. partners \subseteq IF s \in Owners THEN Machines ELSE Owners
    OBVIOUS
  <2>3. Paid(e)
    BY <1>5, MovingPaid
  <2>4. Paid(db')
    BY <1>1, <2>1, <2>2, <2>3, CheckInRecordedPaid
  <2>. QED
    BY <1>1, <1>6, <2>1, <2>2, <2>4, CheckInRecordedCalm DEF PurseKept
<1>8. PurseKept(db', calls, {s})
  BY <1>6, <1>7, CalmKeeps
<1>9. PurseKept(db', calls, {})
  BY <1>7, <1>8 DEF PurseKept
<1>. QED
  BY <1>1, <1>7, <1>9, LaterKept

LEMMA DeclareKeeps ==
  ASSUME PurseKept(db, calls, {}), Paid(db), calls \in Nat, NEW s \in Till!Subjects, Till!DeclareBankruptcy(s)
  PROVE  PurseKept(db', calls', {}) /\ Paid(db')
<1>1. db' = Till!BankruptcyRecorded(Till!Reset(Till!Opened(db, s), s), s) /\ calls' = calls + 1
  BY DEF Till!DeclareBankruptcy, Till!Commit
<1>2. PurseKept(db', calls, {}) /\ Paid(db')
  BY <1>1, BankruptcyKeeps
<1>. QED
  BY <1>1, <1>2, LaterKept

\* The number of the next call is the id of what it books.
LEMMA CallMoved ==
  ASSUME NEW d, NEW n \in Nat, PurseKept(d, n, {}), Paid(d), NEW type \in CallKinds,
         NEW from \in Till!Subjects, NEW to \in Till!Subjects, from # to
  PROVE  /\ PurseKept(Till!Moved(d, from, to, 1, type, n), n + 1, {from, to})
         /\ Paid(Till!Moved(d, from, to, 1, type, n))
         /\ type \in Till!Unjudged => PurseKept(Till!Moved(d, from, to, 1, type, n), n + 1, {})
<1> DEFINE e == Till!Moved(d, from, to, 1, type, n)
           key == <<type, n>>
<1>1. key \in OtherKeys /\ \A s \in Till!Subjects : Values(d.ledger[s], key) = {}
  BY KeyKinds DEF PurseKept, Fresh
<1>2. /\ Moving(d, e, {from, to}, key)
      /\ type \in Till!Unjudged => Judged(e, from) /\ Judged(e, to)
  BY <1>1, MovedMoves DEF PurseKept
<1> HIDE DEF e
<1>3. Taken(d, key, n + 1)
  BY DEF Taken, CallKinds, CallKeys
<1>4. PurseKept(e, n + 1, {} \cup {from, to})
  <2>1. n + 1 \in Nat /\ n <= n + 1
    OBVIOUS
  <2> HIDE DEF key
  <2>. QED
    BY <1>2, <1>3, <2>1, MovingKeeps
<1>5. PurseKept(e, n + 1, {from, to})
  BY <1>4
<1>6. type \in Till!Unjudged => PurseKept(e, n + 1, {})
  BY <1>2, <1>5 DEF PurseKept
<1>7. Paid(e)
  BY <1>2, MovingPaid
<1>. QED
  BY <1>5, <1>6, <1>7 DEF e

LEMMA ExchangeKeeps ==
  ASSUME PurseKept(db, calls, {}), Paid(db), calls \in Nat, NEW from \in Till!Subjects, NEW to \in Till!Subjects,
         from # to, Till!Exchange(from, to)
  PROVE  PurseKept(db', calls', {}) /\ Paid(db')
<1>1. db' = Till!Moved(db, from, to, 1, "exchange_settlement", calls) /\ calls' = calls + 1
  BY DEF Till!Exchange, Till!Commit
<1>2. "exchange_settlement" \in CallKinds /\ "exchange_settlement" \in Till!Unjudged
  BY DEF CallKinds, Till!Unjudged
<1>. QED
  BY <1>1, <1>2, CallMoved

\* Facts about both sides of a loan, who are judged.
LEMMA LoanToldKeeps ==
  ASSUME NEW d, NEW n, NEW S, PurseKept(d, n, S), NEW h \in Owners, NEW a \in Machines,
         NEW facts, IsFiniteSet(facts), facts # {},
         NEW borrower \in {h, a}, NEW lender \in {h, a},
         \A f \in facts : f.pair = <<h, a>> /\ f.who \in {borrower, lender},
         S \subseteq {borrower, lender}, Paid(d)
  PROVE  /\ PurseKept(Till!LoanRecorded(d, facts, borrower, lender), n, {})
         /\ Paid(Till!LoanRecorded(d, facts, borrower, lender))
<1> DEFINE e == Till!LoanRecorded(d, facts, borrower, lender)
<1>1. Calm(d, e) /\ Judged(e, borrower) /\ Judged(e, lender) /\ Paid(e)
  <2>1. borrower \in Till!Subjects /\ lender \in Till!Subjects
    BY DEF Till!Subjects
  <2>2. Paid(e)
    BY LoanRecordedPaid
  <2>3. \A f \in facts : f.pair = <<h, a>>
    OBVIOUS
  <2>. QED
    BY <2>1, <2>2, <2>3, LoanRecordedCalm DEF PurseKept
<1> HIDE DEF e
<1>2. PurseKept(e, n, S)
  BY <1>1, CalmKeeps
<1>3. PurseKept(e, n, {})
  BY <1>1, <1>2 DEF PurseKept
<1>. QED
  BY <1>1, <1>3 DEF e

\* What loans count beside wallets.
LEMMA DebtsKept ==
  ASSUME NEW d, NEW n, NEW S, PurseKept(d, n, S), NEW e, Beside(d, e),
         e.batches = d.batches, e.rooms = d.rooms, Falls(e) = Falls(d),
         e.lent \in Nat, e.lent >= d.lent
  PROVE  PurseKept(e, n, S)
<1>1. Fine(e) /\ \A s : Judged(d, s) <=> Judged(e, s)
  BY BesideFine DEF PurseKept
<1>2. e.wallet = d.wallet /\ e.ledger = d.ledger
  BY DEF Beside
<1>3. Counted(e) /\ RoomsKept(e) /\ SettledTables(e)
  BY <1>2 DEF PurseKept, Counted, RoomsKept, SettledTables, TableSettled
<1>4. Fresh(e, n)
  <2>1. d.lent \in Nat
    BY DEF PurseKept, Fresh
  <2>2. \A c \in Nat : c > e.lent => c > d.lent
    BY <2>1
  <2>. QED
    BY <1>2, <2>2 DEF PurseKept, Fresh
<1>. QED
  BY <1>1, <1>3, <1>4 DEF PurseKept

LEMMA TwoSides ==
  ASSUME NEW h \in Owners, NEW a \in Machines, NEW borrower \in {h, a}
  PROVE  LET lender == CHOOSE s \in {h, a} : s # borrower
         IN /\ h # a /\ lender \in {h, a} /\ lender # borrower
            /\ lender \in Till!Subjects /\ borrower \in Till!Subjects
<1>1. h # a
  BY PurseAssumption
<1>2. \E s \in {h, a} : s # borrower
  BY <1>1
<1>. QED
  BY <1>1, <1>2 DEF Till!Subjects

LEMMA BorrowKeeps ==
  ASSUME PurseKept(db, calls, {}), Paid(db), calls \in Nat, NEW h \in Owners, NEW a \in Machines,
         NEW borrower \in {h, a}, NEW countered, NEW size \in LoanSizes,
         Till!Borrow(h, a, borrower, countered, size)
  PROVE  PurseKept(db', calls', {}) /\ Paid(db')
<1> DEFINE lender == CHOOSE s \in {h, a} : s # borrower
           id == db.lent + 1
           debts == db.debts[borrower] + 1
           k == [db EXCEPT !.lent = id, !.debts[borrower] = debts]
           paid == Till!Moved(k, lender, borrower, size, "loan_principal", id)
           Told(type, who) ==
             [Till!LoanFact(type, id, who, h, a) EXCEPT
                !.before = Till!Balance(db, borrower), !.debts = debts, !.countered = countered]
           facts == {Told("loan_activated_borrower", borrower), Told("loan_activated_lender", lender)}
<1>1. db' = Till!LoanRecorded(paid, facts, borrower, lender) /\ calls' = calls + 1
  BY DEF Till!Borrow, Till!Commit
<1>2. /\ facts # {} /\ IsFiniteSet(facts)
      /\ \A f \in facts : f.pair = <<h, a>> /\ f.who \in {borrower, lender}
  <2> DEFINE one == Told("loan_activated_borrower", borrower)
             two == Told("loan_activated_lender", lender)
  <2>1. /\ one.pair = <<h, a>> /\ one.who = borrower
        /\ two.pair = <<h, a>> /\ two.who = lender
    BY DEF Till!LoanFact
  <2> HIDE DEF one, two
  <2>2. IsFiniteSet({one} \cup {two}) /\ {one} \cup {two} = {one, two}
    BY FS_Singleton, FS_Union
  <2>3. facts = {one, two}
    BY DEF one, two
  <2>. QED
    BY <2>1, <2>2, <2>3
<1>3. lender \in {h, a} /\ lender \in Till!Subjects /\ borrower \in Till!Subjects /\ lender # borrower
  BY TwoSides
<1> HIDE DEF facts, lender
<1>4. db.lent \in Nat /\ id \in Nat /\ id > db.lent
  BY DEF PurseKept, Fresh
<1>5. /\ Beside(db, k) /\ k.batches = db.batches /\ k.rooms = db.rooms /\ Falls(k) = Falls(db)
      /\ k.lent = id /\ SameEvidence(db, k)
  <2> DEFINE owed == [db.debts EXCEPT ![borrower] = debts]
  <2>1. k = [db EXCEPT !.lent = id, !.debts = owed]
    OBVIOUS
  <2>2. Shaped(db)
    BY DEF PurseKept, Fine, Db
  <2> HIDE DEF k, owed, id, debts
  <2>. QED
    BY <2>1, <2>2 DEF Shaped, Beside, Falls, SameEvidence
<1> HIDE DEF k
<1>6. PurseKept(k, calls, {}) /\ Paid(k)
  <2>1. PurseKept(k, calls, {})
    BY <1>4, <1>5, DebtsKept
  <2>. QED
    BY <1>5, <2>1, PaidStill DEF PurseKept, Beside
<1> DEFINE key == <<"loan_principal", id>>
<1>7. key \in OtherKeys /\ \A s \in Till!Subjects : Values(k.ledger[s], key) = {}
  <2>1. \A s \in Till!Subjects : Values(db.ledger[s], key) = {}
    BY <1>4 DEF PurseKept, Fresh
  <2>. QED
    BY <1>4, <1>5, <2>1, KeyKinds DEF Beside
<1>8. size \in Int
  BY PurseAssumption
<1>9. Moving(k, paid, {lender, borrower}, key)
  BY <1>3, <1>6, <1>7, <1>8, MovedMoves DEF PurseKept
<1> HIDE DEF paid
<1>10. Taken(k, key, calls)
  BY <1>4, <1>5 DEF Taken, LoanKeys, CallKinds
<1> HIDE DEF key, id
<1>11. PurseKept(paid, calls, {} \cup {lender, borrower})
  BY <1>6, <1>9, <1>10, MovingKeeps
<1>12. PurseKept(paid, calls, {lender, borrower}) /\ Paid(paid)
  BY <1>6, <1>9, <1>11, MovingPaid
<1>13. PurseKept(db', calls, {}) /\ Paid(db')
  <2>1. {lender, borrower} \subseteq {borrower, lender}
    OBVIOUS
  <2>. QED
    BY <1>1, <1>2, <1>3, <1>12, <2>1, LoanToldKeeps
<1>. QED
  BY <1>1, <1>13, LaterKept

LEMMA LoanNewsKeeps ==
  ASSUME PurseKept(db, calls, {}), Paid(db), calls \in Nat, NEW h \in Owners, NEW a \in Machines,
         NEW borrower \in {h, a},
         NEW type \in {"loan_repaid", "loan_partial_repayment", "loan_overdue",
                       "loan_interest_cap_reached"},
         NEW onTime, Till!LoanNews(h, a, borrower, type, onTime)
  PROVE  PurseKept(db', calls', {}) /\ Paid(db')
<1> DEFINE lender == CHOOSE s \in {h, a} : s # borrower
           id == db.lent
           Told(kind) == {[Till!LoanFact(kind, id, borrower, h, a) EXCEPT !.onTime = onTime]}
           pays == type \in {"loan_repaid", "loan_partial_repayment"}
           paid == IF pays THEN Till!Moved(db, borrower, lender, 1, type, calls) ELSE db
           closed == IF type = "loan_repaid" THEN [paid EXCEPT !.debts[borrower] = @ - 1] ELSE paid
           said == Till!LoanRecorded(closed, Told(type), borrower, lender)
<1>1. /\ db' = IF type = "loan_repaid" /\ closed.debts[borrower] = 0
               THEN Till!LoanRecorded(said, Told("loan_debt_free"), borrower, lender) ELSE said
      /\ calls' = calls + 1
  BY DEF Till!LoanNews, Till!Commit
<1>2. ASSUME NEW kind
      PROVE  /\ Told(kind) # {} /\ IsFiniteSet(Told(kind))
             /\ \A f \in Told(kind) : f.pair = <<h, a>> /\ f.who \in {borrower, lender}
  <2> DEFINE one == [Till!LoanFact(kind, id, borrower, h, a) EXCEPT !.onTime = onTime]
  <2>1. one.pair = <<h, a>> /\ one.who = borrower
    BY DEF Till!LoanFact
  <2>2. Told(kind) = {one}
    OBVIOUS
  <2> HIDE DEF one, Told
  <2>. QED
    BY <2>1, <2>2, FS_Singleton
<1>3. lender \in {h, a} /\ lender \in Till!Subjects /\ borrower \in Till!Subjects /\ lender # borrower
  BY TwoSides
<1> HIDE DEF Told, lender
<1>4. PurseKept(paid, calls + 1, {borrower, lender}) /\ Paid(paid)
  <2>1. CASE pays
    <3>1. type \in CallKinds
      BY <2>1 DEF CallKinds
    <3>2. /\ PurseKept(Till!Moved(db, borrower, lender, 1, type, calls), calls + 1, {borrower, lender})
          /\ Paid(Till!Moved(db, borrower, lender, 1, type, calls))
      BY <1>3, <3>1, CallMoved
    <3>. QED
      BY <2>1, <3>2
  <2>2. CASE ~pays
    <3>1. PurseKept(db, calls + 1, {})
      BY LaterKept
    <3>2. PurseKept(db, calls + 1, {borrower, lender})
      BY <3>1 DEF PurseKept
    <3>. QED
      BY <2>2, <3>2
  <2>. QED
    BY <2>1, <2>2
<1> HIDE DEF paid
<1>5. PurseKept(closed, calls + 1, {borrower, lender}) /\ Paid(closed)
  <2> DEFINE owed == [paid.debts EXCEPT ![borrower] = @ - 1]
             k == [paid EXCEPT !.debts = owed]
  <2>1. closed = k \/ closed = paid
    OBVIOUS
  <2>2. Shaped(paid) /\ paid.lent \in Nat
    BY <1>4 DEF PurseKept, Fine, Db, Fresh
  <2>3. k = [paid EXCEPT !.debts = owed]
    OBVIOUS
  <2> HIDE DEF k, owed
  <2>4. /\ Beside(paid, k) /\ k.batches = paid.batches /\ k.rooms = paid.rooms
        /\ Falls(k) = Falls(paid) /\ k.lent = paid.lent /\ SameEvidence(paid, k)
    BY <2>2, <2>3 DEF Shaped, Beside, Falls, SameEvidence
  <2>5. k.lent \in Nat /\ k.lent >= paid.lent
    BY <2>2, <2>4
  <2>6. PurseKept(k, calls + 1, {borrower, lender})
    BY <1>4, <2>4, <2>5, DebtsKept
  <2>7. Paid(k)
    BY <1>4, <2>4, <2>6, PaidStill DEF PurseKept, Beside
  <2>. QED
    BY <1>4, <2>1, <2>6, <2>7
<1> HIDE DEF closed
<1>6. PurseKept(said, calls + 1, {}) /\ Paid(said)
  BY <1>2, <1>3, <1>5, LoanToldKeeps
<1> HIDE DEF said
<1>7. /\ PurseKept(Till!LoanRecorded(said, Told("loan_debt_free"), borrower, lender), calls + 1, {})
      /\ Paid(Till!LoanRecorded(said, Told("loan_debt_free"), borrower, lender))
  <2>1. {} \subseteq {borrower, lender}
    OBVIOUS
  <2>. QED
    BY <1>2, <1>3, <1>6, <2>1, LoanToldKeeps
<1>. QED
  BY <1>1, <1>6, <1>7

-----------------------------------------------------------------------------
(* The purse beside the other services.                                    *)

PurseInv ==
  /\ PurseKept(db, calls, {}) /\ Paid(db)
  /\ calls \in Nat /\ time \in Nat /\ asking \in [Till!Subjects -> Int]

LEMMA PurseBegins == ASSUME Till!Init PROVE PurseInv
<1>1. db = Till!NewDb \/ \E t \in Legacy : db = Till!LegacyDb(t)
  BY DEF Till!Init
<1>2. PurseKept(db, 0, {}) /\ Paid(db)
  BY <1>1, NewDbKept, LegacyDbKept, NewDbPaid, LegacyDbPaid
<1>3. time = 0 /\ calls = 0 /\ asking = [s \in Till!Subjects |-> Till!NotAsking] /\ Till!NotAsking \in Int
  BY DEF Till!Init, Till!NotAsking
<1>. QED
  BY <1>2, <1>3 DEF PurseInv

\* A committed transaction of the purse.
LEMMA CommitKeeps ==
  ASSUME PurseInv, PurseKept(db', calls', {}), Paid(db'), NEW d, Till!Commit(d)
  PROVE  PurseInv'
<1>1. calls' = calls + 1 /\ time' = time /\ asking' = asking
  BY DEF Till!Commit
<1>. QED
  BY <1>1 DEF PurseInv

LEMMA GamesStep == ASSUME PurseInv, Playing PROVE PurseInv'
<1>1. PurseKept(db, calls, {}) /\ Paid(db) /\ calls \in Nat /\ time \in Nat
  BY DEF PurseInv
<1>2. CASE Till!OpenSome
  <2>1. PICK r \in RoomIds, kind \in RoomKinds, seating \in Seatings,
             stake \in Stakes, rematch \in {<<>>} \cup {<<p>> : p \in RoomIds} :
               Till!Open(r, kind, seating[1], seating[2], stake, rematch)
    BY <1>2 DEF Till!OpenSome
  <2>2. PurseKept(db', calls', {}) /\ Paid(db')
    BY <1>1, <2>1, OpenKeeps
  <2>3. \E d : Till!Commit(d)
    BY <2>1 DEF Till!Open
  <2>. QED
    BY <2>2, <2>3, CommitKeeps
<1>3. CASE Till!FinishSome
  <2>1. PICK r \in RoomIds, winners \in SUBSET (Till!Subjects \cup Bots),
             reason \in {"game_result", "resignation", "leave_forfeit", "stale_archive"} :
               \E settlement \in Till!Settlements(Till!EndsWith(db.rooms[r], winners, reason)) :
                 Till!Finish(r, winners, reason, settlement)
    BY <1>3 DEF Till!FinishSome
  <2>2. PurseKept(db', calls', {}) /\ Paid(db')
    BY <1>1, <2>1, FinishKeeps
  <2>3. \E d : Till!Commit(d)
    BY <2>1 DEF Till!Finish
  <2>. QED
    BY <2>2, <2>3, CommitKeeps
<1>4. CASE Till!CaptureSome
  <2>1. PICK r \in RoomIds, p \in Till!Subjects : Till!Capture(r, p)
    BY <1>4 DEF Till!CaptureSome
  <2>2. PurseKept(db', calls', {}) /\ Paid(db')
    BY <1>1, <2>1, CaptureKeeps
  <2>3. \E d : Till!Commit(d)
    BY <2>1 DEF Till!Capture
  <2>. QED
    BY <2>2, <2>3, CommitKeeps
<1>5. CASE Till!PreserveSome
  <2>1. PICK r \in RoomIds, h \in Owners : Till!Preserve(r, h)
    BY <1>5 DEF Till!PreserveSome
  <2>2. PurseKept(db', calls', {}) /\ Paid(db')
    BY <1>1, <2>1, PreserveKeeps
  <2>3. \E d : Till!Commit(d)
    BY <2>1 DEF Till!Preserve
  <2>. QED
    BY <2>2, <2>3, CommitKeeps
<1>6. ASSUME NEW s \in Till!Subjects, Till!DeclareBankruptcy(s) PROVE PurseInv'
  <2>1. PurseKept(db', calls', {}) /\ Paid(db')
    BY <1>1, <1>6, DeclareKeeps
  <2>2. \E d : Till!Commit(d)
    BY <1>6 DEF Till!DeclareBankruptcy
  <2>. QED
    BY <2>1, <2>2, CommitKeeps
<1>7. CASE Till!Tick
  <2>1. time' = time + 1 /\ db' = db /\ asking' = asking /\ calls' = calls
    BY <1>7 DEF Till!Tick
  <2>. QED
    BY <1>1, <2>1 DEF PurseInv
<1>8. CASE Till!Restart
  <2>1. PurseKept(db', calls', {}) /\ Paid(db')
    BY <1>1, <1>8, RestartKeeps
  <2>2. /\ calls' = calls + 1 /\ time' = time
        /\ asking' = [s \in Till!Subjects |-> Till!NotAsking] /\ Till!NotAsking \in Int
    BY <1>8 DEF Till!Restart, Till!NotAsking
  <2>. QED
    BY <1>1, <2>1, <2>2 DEF PurseInv
<1>9. CASE Till!SettleSome
  <2>1. PICK r \in RoomIds : Till!SettleAgain(r)
    BY <1>9 DEF Till!SettleSome
  <2>2. PurseKept(db', calls', {}) /\ Paid(db')
    BY <1>1, <2>1, SettleAgainKeeps
  <2>3. UNCHANGED <<time, asking, calls>>
    BY <2>1 DEF Till!SettleAgain
  <2>. QED
    BY <2>2, <2>3 DEF PurseInv
<1>. QED
  BY <1>2, <1>3, <1>4, <1>5, <1>6, <1>7, <1>8, <1>9 DEF Playing

LEMMA LoansStep == ASSUME PurseInv, Dealing PROVE PurseInv'
<1>1. PurseKept(db, calls, {}) /\ Paid(db) /\ calls \in Nat /\ time \in Nat /\ asking \in [Till!Subjects -> Int]
  BY DEF PurseInv
<1>2. CASE Till!Tick
  <2>1. time' = time + 1 /\ db' = db /\ asking' = asking /\ calls' = calls
    BY <1>2 DEF Till!Tick
  <2>. QED
    BY <1>1, <2>1 DEF PurseInv
<1>3. ASSUME NEW s \in Askers, Till!ReadDay(s) PROVE PurseInv'
  <2>1. asking' = [asking EXCEPT ![s] = Till!Day(time)] /\ UNCHANGED <<db, time, calls>>
    BY <1>3 DEF Till!ReadDay
  <2>2. Till!Day(time) \in Int
    BY <1>1, PurseAssumption DEF Till!Day
  <2>3. asking' \in [Till!Subjects -> Int]
    BY <1>1, <2>1, <2>2
  <2>. QED
    BY <1>1, <2>1, <2>3 DEF PurseInv
<1>4. CASE Till!CheckInSome
  <2>1. PICK s \in Till!Subjects : \E partners \in {{}, IF s \in Owners THEN Machines ELSE Owners} :
               Till!ClaimCheckIn(s, partners)
    BY <1>4 DEF Till!CheckInSome
  <2>2. PICK partners \in {{}, IF s \in Owners THEN Machines ELSE Owners} :
               Till!ClaimCheckIn(s, partners)
    BY <2>1
  <2>3. PurseKept(db', calls', {}) /\ Paid(db')
    BY <1>1, <2>2, CheckInKeeps
  <2>4. /\ calls' = calls + 1 /\ time' = time
        /\ asking' = [asking EXCEPT ![s] = Till!NotAsking] /\ Till!NotAsking \in Int
    BY <2>2 DEF Till!ClaimCheckIn, Till!NotAsking
  <2>. QED
    BY <1>1, <2>3, <2>4 DEF PurseInv
<1>5. CASE Till!ExchangeSome
  <2>1. PICK trade \in Trades : Till!Exchange(trade[1], trade[2])
    BY <1>5 DEF Till!ExchangeSome
  <2>2. trade[1] \in Till!Subjects /\ trade[2] \in Till!Subjects /\ trade[1] # trade[2]
    BY PurseAssumption DEF Till!Subjects
  <2>3. PurseKept(db', calls', {}) /\ Paid(db')
    BY <1>1, <2>1, <2>2, ExchangeKeeps
  <2>4. \E d : Till!Commit(d)
    BY <2>1 DEF Till!Exchange
  <2>. QED
    BY <2>3, <2>4, CommitKeeps
<1>6. ASSUME NEW s \in Till!Subjects, Till!DeclareBankruptcy(s) PROVE PurseInv'
  <2>1. PurseKept(db', calls', {}) /\ Paid(db')
    BY <1>1, <1>6, DeclareKeeps
  <2>2. \E d : Till!Commit(d)
    BY <1>6 DEF Till!DeclareBankruptcy
  <2>. QED
    BY <2>1, <2>2, CommitKeeps
<1>7. CASE Till!BorrowSome
  <2>1. PICK h \in Owners, a \in Machines, countered \in Counters, size \in LoanSizes :
               \E borrower \in {h, a} : Till!Borrow(h, a, borrower, countered, size)
    BY <1>7 DEF Till!BorrowSome
  <2>2. PICK borrower \in {h, a} : Till!Borrow(h, a, borrower, countered, size)
    BY <2>1
  <2>3. PurseKept(db', calls', {}) /\ Paid(db')
    BY <1>1, <2>2, BorrowKeeps
  <2>4. \E d : Till!Commit(d)
    BY <2>2 DEF Till!Borrow
  <2>. QED
    BY <2>3, <2>4, CommitKeeps
<1>8. CASE Till!LoanNewsSome
  <2>1. PICK h \in Owners, a \in Machines, onTime \in BOOLEAN,
             type \in {"loan_repaid", "loan_partial_repayment", "loan_overdue",
                       "loan_interest_cap_reached"} :
               \E borrower \in {h, a} : Till!LoanNews(h, a, borrower, type, onTime)
    BY <1>8 DEF Till!LoanNewsSome
  <2>2. PICK borrower \in {h, a} : Till!LoanNews(h, a, borrower, type, onTime)
    BY <2>1
  <2>3. PurseKept(db', calls', {}) /\ Paid(db')
    BY <1>1, <2>2, LoanNewsKeeps
  <2>4. \E d : Till!Commit(d)
    BY <2>2 DEF Till!LoanNews
  <2>. QED
    BY <2>3, <2>4, CommitKeeps
<1>9. CASE Till!Restart
  <2>1. PurseKept(db', calls', {}) /\ Paid(db')
    BY <1>1, <1>9, RestartKeeps
  <2>2. /\ calls' = calls + 1 /\ time' = time
        /\ asking' = [s \in Till!Subjects |-> Till!NotAsking] /\ Till!NotAsking \in Int
    BY <1>9 DEF Till!Restart, Till!NotAsking
  <2>. QED
    BY <1>1, <2>1, <2>2 DEF PurseInv
<1>. QED
  BY <1>2, <1>3, <1>4, <1>5, <1>6, <1>7, <1>8, <1>9 DEF Dealing

\* The purse rests while another service moves.
PurseHolds == part \in {"games", "loans"} => PurseInv

LEMMA PurseHoldsStep == ASSUME PurseHolds, [PartsNext]_parts PROVE PurseHolds'
<1>1. part' = part
  BY DEF PartsNext, Exchanging, Playing, Dealing, Waiting, TakingOver, Telling, parts
<1>2. CASE Playing
  BY <1>1, <1>2, GamesStep DEF PurseHolds, Playing
<1>3. CASE Dealing
  BY <1>1, <1>3, LoansStep DEF PurseHolds, Dealing
<1>4. CASE Exchanging \/ Waiting \/ TakingOver \/ Telling
  BY <1>1, <1>4 DEF PurseHolds, Exchanging, Waiting, TakingOver, Telling
<1>5. CASE UNCHANGED parts
  <2>1. UNCHANGED <<db, time, asking, calls>>
    BY <1>5 DEF parts, purse
  <2>. QED
    BY <1>1, <2>1 DEF PurseHolds, PurseInv
<1>. QED
  BY <1>2, <1>3, <1>4, <1>5 DEF PartsNext

LEMMA PurseAlways == PartsSpec => []PurseHolds
<1>1. PartsInit => PurseHolds
  BY PurseBegins DEF PartsInit, PurseHolds
<1>. QED
  BY <1>1, PurseHoldsStep, PTL DEF PartsSpec

-----------------------------------------------------------------------------
(* What the ledger explains.                                               *)

LEMMA BankruptciesCounted ==
  ASSUME NEW d, NEW n, PurseKept(d, n, {}), NEW s \in Till!Subjects
  PROVE  d.wallet[s].bankruptcies = Cardinality(Till!Events(d, s, "bankruptcy"))
<1> DEFINE b == d.wallet[s].bankruptcies
           E == Till!Events(d, s, "bankruptcy")
           f == [i \in 1..b |-> Till!Event("bankruptcy", s, i, 0)]
<1>1. b \in Nat
  BY DEF PurseKept, Fine, Db, WalletRows
<1>2. \A e : e \in E <=> \E i \in 1..b : e = Till!Event("bankruptcy", s, i, 0)
  <2>1. ASSUME NEW e, e \in E PROVE \E i \in 1..b : e = Till!Event("bankruptcy", s, i, 0)
    <3>1. e \in Falls(d) /\ e.who = s
      BY <2>1 DEF Till!Events, Falls
    <3>2. PICK p \in Till!Subjects : \E i \in 1..d.wallet[p].bankruptcies : e = Till!Event("bankruptcy", p, i, 0)
      BY <3>1 DEF PurseKept, Counted
    <3>3. p = s
      BY <3>1, <3>2 DEF Till!Event
    <3>. QED
      BY <3>2, <3>3
  <2>2. ASSUME NEW i \in 1..b PROVE Till!Event("bankruptcy", s, i, 0) \in E
    <3>1. Till!Event("bankruptcy", s, i, 0) \in Falls(d)
      BY <2>2 DEF PurseKept, Counted
    <3>. QED
      BY <3>1 DEF Till!Events, Falls, Till!Event
  <2>. QED
    BY <2>1, <2>2
<1> HIDE DEF E
<1>3. f \in Surjection(1..b, E) /\ f \in Injection(1..b, E)
  <2>1. f \in [1..b -> E]
    BY <1>2
  <2>2. \A e \in E : \E i \in 1..b : f[i] = e
    BY <1>2
  <2>3. \A i, j \in 1..b : f[i] = f[j] => i = j
    BY DEF Till!Event
  <2> HIDE DEF f, b
  <2>. QED
    BY <2>1, <2>2, <2>3 DEF Surjection, Injection, IsInjective
<1>4. IsFiniteSet(1..b) /\ Cardinality(1..b) = b
  BY <1>1, FS_Interval
<1> HIDE DEF f, b
<1>5. Cardinality(E) = b
  BY <1>3, <1>4, FS_Surjection
<1>. QED
  BY <1>5 DEF E, b

LEMMA LedgerKept == ASSUME PurseInv PROVE Till!LedgerExplains
<1>1. ASSUME NEW s \in Till!Wallets
      PROVE  LET w == db.wallet[s]
                 wholeSince(i) ==
                   \E j \in (i + 1)..Len(db.ledger[s]) : db.ledger[s][j].after >= InitialBalance
             IN /\ \A i \in Till!Lines(s) : db.ledger[s][i].after = Till!Before(s, i) + db.ledger[s][i].amount
                /\ w.balance = Till!Last(db.ledger[s]).after
                /\ w.bankruptcies = Till!Cardinality(Till!Bankruptcies(s))
                /\ w.bankruptcies = Till!Cardinality(Till!Events(db, s, "bankruptcy"))
                /\ w.badge <=> \E i \in Till!Bankruptcies(s) :
                                 ~wholeSince(i) /\ \A j \in Till!Bankruptcies(s) : j <= i
                /\ \A i, j \in Till!Keyed(s) : db.ledger[s][i].key = db.ledger[s][j].key => i = j
  <2> DEFINE w == db.wallet[s]
             l == db.ledger[s]
  <2>1. s \in Till!Subjects /\ w.open
    BY DEF Till!Wallets
  <2>2. Account(w, l)
    BY <2>1 DEF PurseInv, PurseKept, Fine
  <2>3. Till!Lines(s) = 1..Len(l)
    BY <2>2 DEF Account, Till!Lines
  <2>4. Till!Bankruptcies(s) = Resets(l)
    BY <2>3 DEF Till!Bankruptcies, Resets
  <2>5. \A i \in Till!Lines(s) : l[i].after = Till!Before(s, i) + l[i].amount
    BY <2>2, <2>3 DEF Account, Chained, Till!Before
  <2>6. w.balance = Till!Last(l).after
    BY <2>1, <2>2 DEF Account, Till!Last
  <2>7. w.bankruptcies = Till!Cardinality(Till!Bankruptcies(s))
    BY <2>2, <2>4 DEF Account, Cardinality, Till!Cardinality
  <2>8. w.bankruptcies = Till!Cardinality(Till!Events(db, s, "bankruptcy"))
    <3>1. w.bankruptcies = Cardinality(Till!Events(db, s, "bankruptcy"))
      BY <2>1, BankruptciesCounted DEF PurseInv
    <3>. QED
      BY <3>1 DEF Cardinality, Till!Cardinality
  <2>9. w.badge <=> \E i \in Till!Bankruptcies(s) :
                      /\ ~\E j \in (i + 1)..Len(l) : l[j].after >= InitialBalance
                      /\ \A j \in Till!Bankruptcies(s) : j <= i
    BY <2>2, <2>4 DEF Account, Badged, WholeAfter
  <2>10. \A i, j \in Till!Keyed(s) : l[i].key = l[j].key => i = j
    BY <2>2, <2>3 DEF Account, Unrepeated, Till!Keyed
  <2>. QED
    BY <2>5, <2>6, <2>7, <2>8, <2>9, <2>10
<1>. QED
  BY <1>1 DEF Till!LedgerExplains

\* However rooms end, loans and the shop move purses, and processes restart:
\* the ledger of every wallet adds up to its balance, its bankruptcies and its
\* badge, and no line is booked twice (chips.py:254-304, 618-665,
\* achievements.py:966-1032).
THEOREM LedgerExplainsEver == PartsSpec => []LedgerExplains
<1>1. PurseHolds => LedgerExplains
  BY LedgerKept DEF PurseHolds, LedgerExplains
<1>. QED
  BY <1>1, PurseAlways, PTL

LEMMA TablesKept == ASSUME PurseInv PROVE Till!SettlementWhole
<1>1. ASSUME NEW r \in RoomIds
      PROVE  LET t == db.rooms[r]
                 settled == t.status = "finished" /\ t.stake > 0 /\ t.settles
                 Paying(s) == {i \in Till!Lines(s) : db.ledger[s][i].key = Till!SettlementKey(r)}
             IN /\ settled /\ t.game \notin Banks => Till!Total(t.delta, Till!ToSet(t.roster)) = 0
                /\ \A s \in Till!Subjects :
                     IF settled /\ s \in Till!ToSet(t.roster) /\ t.delta[s] # 0
                     THEN {db.ledger[s][i].amount : i \in Paying(s)} = {t.delta[s]}
                     ELSE Paying(s) = {}
                /\ settled <=> r \in db.batches \/ \E s \in Till!Subjects : Paying(s) # {}
  <2> DEFINE t == db.rooms[r]
             settled == t.status = "finished" /\ t.stake > 0 /\ t.settles
             Paying(s) == {i \in Till!Lines(s) : db.ledger[s][i].key = Till!SettlementKey(r)}
  <2>1. TableSettled(db, r) /\ RoomRow(t) /\ Db(db)
    BY DEF PurseInv, PurseKept, SettledTables, RoomsKept, Fine
  <2>2. settled <=> Won(t)
    BY DEF Won
  <2>3. settled /\ t.game \notin Banks => Till!Total(t.delta, Till!ToSet(t.roster)) = 0
    BY <2>1, TotalsAgree DEF RoomRow, Payable, Balanced
  <2>4. \A s : settled /\ s \in Till!ToSet(t.roster) /\ t.delta[s] # 0 <=> Owing(t, s)
    BY <2>2 DEF Owing
  <2> HIDE DEF settled
  <2>5. ASSUME NEW s \in Till!Subjects
        PROVE  /\ Values(db.ledger[s], Till!SettlementKey(r)) = {db.ledger[s][i].amount : i \in Paying(s)}
               /\ Values(db.ledger[s], Till!SettlementKey(r)) = IF Owing(t, s) THEN {t.delta[s]} ELSE {}
    <3>1. Till!Lines(s) = 1..Len(db.ledger[s])
      BY <2>1 DEF Db, Till!Lines
    <3>2. Values(db.ledger[s], Till!SettlementKey(r)) = {db.ledger[s][i].amount : i \in Paying(s)}
      BY <3>1 DEF Values
    <3>. QED
      BY <2>1, <3>2 DEF TableSettled
  <2>6. ASSUME NEW s \in Till!Subjects
        PROVE  /\ Owing(t, s) => {db.ledger[s][i].amount : i \in Paying(s)} = {t.delta[s]}
               /\ ~Owing(t, s) => Paying(s) = {}
               /\ Owing(t, s) <=> Paying(s) # {}
    <3> HIDE DEF Paying, t
    <3>. QED
      BY <2>5
  <2>7. Won(t) => r \in db.batches \/ \E s \in Till!Subjects : Owing(t, s)
    BY <2>1 DEF TableSettled
  <2>8. (r \in db.batches => Won(t)) /\ \A s : Owing(t, s) => Won(t)
    BY <2>1 DEF TableSettled, Owing
  <2> HIDE DEF Paying, t
  <2>9. settled <=> r \in db.batches \/ \E s \in Till!Subjects : Paying(s) # {}
    BY <2>2, <2>6, <2>7, <2>8
  <2>10. ASSUME NEW s \in Till!Subjects
         PROVE  IF settled /\ s \in Till!ToSet(t.roster) /\ t.delta[s] # 0
                THEN {db.ledger[s][i].amount : i \in Paying(s)} = {t.delta[s]}
                ELSE Paying(s) = {}
    BY <2>4, <2>6
  <2>. QED
    BY <2>3, <2>9, <2>10 DEF settled, Paying, t
<1>. QED
  BY <1>1 DEF Till!SettlementWhole

\* Whatever a game asks its seats to win and pay, with or without a winner,
\* capped or not, and however often a room is settled: a table that settles
\* leaves its batch or its lines, one line of its delta for each seat with a
\* wallet, nobody else's and nothing twice, and but at a bank's table what is
\* booked with the NPCs' part sums to zero (chips.py:306-560).
THEOREM SettlementWholeEver == PartsSpec => []SettlementWhole
<1>1. PurseHolds => SettlementWhole
  BY TablesKept DEF PurseHolds, SettlementWhole
<1>. QED
  BY <1>1, PurseAlways, PTL

\* A wallet that is whole again after a bankruptcy has its recovery at the end
\* of every transaction but those that evaluate nobody
\* (achievements.py:1253-1261, 1352-1361).
THEOREM RecoveryAwardedEver == PartsSpec => []RecoveryAwarded
<1>1. PurseHolds => RecoveryAwarded
  <2>1. ASSUME PurseInv PROVE Till!RecoveryAwarded
    <3>1. \A s \in Till!Wallets : s \in Till!Subjects /\ Judged(db, s)
      BY <2>1 DEF PurseInv, PurseKept, Till!Wallets
    <3>. QED
      BY <3>1 DEF Till!RecoveryAwarded, Judged
  <2>. QED
    BY <2>1 DEF PurseHolds, RecoveryAwarded
<1>. QED
  BY <1>1, PurseAlways, PTL

LEMMA UnlockedKept == ASSUME PurseInv PROVE Till!UnlockedIsProven
<1>1. Paid(db) /\ Rewarded(db) /\ Db(db)
  BY DEF PurseInv, PurseKept, Fine
<1>2. Owed(db, {}, {})
  BY <1>1 DEF Paid
<1>3. ASSUME NEW s \in Till!Subjects
      PROVE  {id \in Till!Catalogue : <<s, id, Till!Global>> \in db.unlocked} \ Till!Lapsed
               = Till!Proven(db, s) \ Till!Lapsed
  <2>1. OwedAlone(db, s, s \in {})
    BY <1>2 DEF Owed
  <2>. QED
    BY <2>1 DEF OwedAlone, Have, Own
<1>4. ASSUME NEW pair \in db.pairs, NEW s \in {pair[1], pair[2]}
      PROVE  {id \in Till!Catalogue : <<s, id, pair>> \in db.unlocked} \ Till!Lapsed
               = Till!ProvenTogether(db, pair[1], pair[2]) \ Till!Lapsed
  <2>1. pair[1] \in Owners /\ pair[2] \in Machines /\ pair = <<pair[1], pair[2]>>
    BY <1>2 DEF Owed
  <2>2. OwedBoth(db, s, pair[1], pair[2], <<pair[1], pair[2]>> \in {})
    BY <1>2, <2>1 DEF Owed
  <2>. QED
    BY <2>1, <2>2 DEF OwedBoth, Have, Joint
<1>5. ASSUME NEW s \in Till!Subjects, NEW id \in Till!Catalogue, NEW context \in Contexts, Rewards[id] > 0
      PROVE  <<s, id, context>> \in db.unlocked <=> Till!Holds(db, s, Till!RewardKey(id, context))
  BY <1>1, <1>5, LineHeld DEF Rewarded
<1>6. Contexts = {Till!Global} \cup (Owners \X Machines)
  BY DEF Contexts
<1>. QED
  BY <1>3, <1>4, <1>5, <1>6 DEF Till!UnlockedIsProven

\* Whatever ends, is noted, claimed or lent and in whatever order, an
\* achievement is unlocked when the permanent facts prove it and not before,
\* its reward is paid then, and no restart, backfill or second evaluation pays
\* it again (achievements.py:966-1032, 1201-1361).
THEOREM UnlockedIsProvenEver == PartsSpec => []UnlockedIsProven
<1>1. PurseHolds => UnlockedIsProven
  BY UnlockedKept DEF PurseHolds, UnlockedIsProven
<1>. QED
  BY <1>1, PurseAlways, PTL

-----------------------------------------------------------------------------
(* The exchanges: for any number of requests, players and keys, and however *)
(* late a call gets the writer lock, a request is paid once and in time or  *)
(* not at all, and what the two parties are told is what became of it.      *)

Pending(S) == \A r \in S : r \in RequestIds /\ status[r] = "pending"

\* The outcomes the initiator of a request was told.
Told(r, N) == {n.event : n \in {x \in N : x.request = r /\ x.event # "created"}}

\* An unread invitation to answer is that of its request's payer: the one that
\* an answer or an expiry closes.
Asking == \A n \in unread : n.event = "created" =>
            n.request \in RequestIds /\ n = Asked(n.request)

Inv == TypeOK /\ PaidExactlyOnce /\ NoticesMatch /\ Asking

-----------------------------------------------------------------------------
LEMMA InitHolds == Init => Inv
<1> SUFFICES ASSUME Init PROVE Inv
  OBVIOUS
<1>1. TypeOK
  <2>1. balance \in [Subjects -> Int]
    BY ExchangeAssumption DEF Init
  <2>2. clock \in Times
    BY ExchangeAssumption DEF Init, Times
  <2>. QED
    BY <2>1, <2>2 DEF Init, TypeOK, Statuses
<1>2. PaidExactlyOnce
  BY DEF Init, PaidExactlyOnce
<1>3. NoticesMatch
  BY DEF Init, NoticesMatch
<1>. QED
  BY <1>1, <1>2, <1>3 DEF Inv, Init, Asking

\* What the sets of sent notices grow by.
LEMMA ToldGrows ==
  ASSUME NEW A, NEW B, NEW r
  PROVE  Told(r, A \cup B) = Told(r, A) \cup Told(r, B)
BY DEF Told

LEMMA OverduePending == ASSUME NEW hour PROVE Pending(Overdue(hour))
BY DEF Pending, Overdue

\* The status column after an expiry.
LEMMA ExpiredColumn ==
  ASSUME Inv, NEW S, Pending(S)
  PROVE  /\ Expired(S) \in [RequestIds -> Statuses]
         /\ \A r \in RequestIds : Expired(S)[r] = IF r \in S THEN "expired" ELSE status[r]
BY DEF Inv, TypeOK, Expired, Statuses

LEMMA ToldMember ==
  ASSUME NEW N, NEW r, NEW e
  PROVE  e \in Told(r, N) <=>
           \E n \in N : n.request = r /\ n.event # "created" /\ e = n.event
BY DEF Told

\* Notices of other requests, and invitations, tell nothing of r.
LEMMA ToldNothing ==
  ASSUME NEW N, NEW r, \A n \in N : n.request # r \/ n.event = "created"
  PROVE  Told(r, N) = {}
BY ToldMember

LEMMA ToldOne ==
  ASSUME NEW N, NEW r, NEW n \in N, n.request = r, n.event # "created",
         \A m \in N : m.request = r => m.event = n.event
  PROVE  Told(r, N) = {n.event}
<1>1. n.event \in Told(r, N)
  BY ToldMember
<1>2. \A e \in Told(r, N) : e = n.event
  BY ToldMember
<1>. QED
  BY <1>1, <1>2

\* The notices of an expiry.
ExpiryTells(S) == {Outcome(x, "expired") : x \in S}

LEMMA ExpiryTold ==
  ASSUME NEW S, NEW r
  PROVE  Told(r, ExpiryTells(S)) = IF r \in S THEN {"expired"} ELSE {}
<1>1. \A n \in ExpiryTells(S) : n.request \in S /\ n.event = "expired"
  BY DEF Outcome, Notice, ExpiryTells
<1>2. r \in S => Outcome(r, "expired") \in ExpiryTells(S)
  BY DEF ExpiryTells
<1>3. Outcome(r, "expired").request = r /\ Outcome(r, "expired").event = "expired"
  BY DEF Outcome, Notice
<1>4. CASE r \in S
  BY <1>1, <1>2, <1>3, <1>4, ToldOne
<1>5. CASE r \notin S
  BY <1>1, <1>5, ToldNothing
<1>. QED
  BY <1>4, <1>5

\* What was told, in terms of the status alone.
Verdict(st) == CASE st = "completed" -> {"confirmed"}
                 [] st \in {"rejected", "expired"} -> {st}
                 [] OTHER -> {}

LEMMA MatchVerdict ==
  NoticesMatch <=> /\ \A n \in unread : n.event = "created" => status[n.request] = "pending"
                   /\ \A r \in RequestIds : Told(r, sent) = Verdict(status[r])
BY DEF NoticesMatch, Told, Verdict

\* A transaction whose new notices are those of an expiry and some others.
LEMMA NoticesKept ==
  ASSUME Inv, NEW S, Pending(S), NEW more, NEW closed,
         Notify(ExpiryTells(S) \cup more, ExpiryCloses(S) \cup closed),
         status' \in [RequestIds -> Statuses],
         \A r \in RequestIds : r \notin S /\ status'[r] # status[r] =>
           /\ Verdict(status'[r]) = Verdict(status[r]) \cup Told(r, more)
           /\ status[r] = "pending" => Asked(r) \in closed,
         \A r \in RequestIds : r \in S \/ status'[r] = status[r] => Told(r, more) = {},
         \A r \in S : status'[r] = "expired",
         \A r \in RequestIds : status[r] # "none" => payer'[r] = payer[r],
         \A n \in more : n.event = "created" =>
           n.request \in RequestIds /\ n = Asked(n.request)' /\ status'[n.request] = "pending"
  PROVE  NoticesMatch' /\ Asking'
<1> DEFINE opened == ExpiryTells(S) \cup more
<1>1. sent' = sent \cup opened
      /\ unread' = (unread \ (ExpiryCloses(S) \cup closed)) \cup (opened \ sent)
  BY DEF Notify
<1>2. \A r \in RequestIds : Told(r, sent') = Verdict(status'[r])
  <2> TAKE r \in RequestIds
  <2>1. Told(r, sent') = Told(r, sent) \cup
                         ((IF r \in S THEN {"expired"} ELSE {}) \cup Told(r, more))
    <3>1. Told(r, sent') = Told(r, sent) \cup Told(r, opened)
      BY <1>1, ToldGrows
    <3>2. Told(r, opened) = Told(r, ExpiryTells(S)) \cup Told(r, more)
      BY ToldGrows
    <3>. QED
      BY <3>1, <3>2, ExpiryTold
  <2>2. Told(r, sent) = Verdict(status[r])
    BY MatchVerdict DEF Inv
  <2>3. CASE r \in S
    BY <2>1, <2>2, <2>3 DEF Pending, Verdict
  <2>4. CASE r \notin S /\ status'[r] = status[r]
    BY <2>1, <2>2, <2>4
  <2>5. CASE r \notin S /\ status'[r] # status[r]
    BY <2>1, <2>2, <2>5
  <2>. QED
    BY <2>3, <2>4, <2>5
<1>3. ASSUME NEW n \in unread', n.event = "created"
      PROVE  n.request \in RequestIds /\ n = Asked(n.request)' /\ status'[n.request] = "pending"
  <2>1. CASE n \in unread \ (ExpiryCloses(S) \cup closed)
    <3>1. n.request \in RequestIds /\ n = Asked(n.request) /\ status[n.request] = "pending"
      BY <2>1, <1>3 DEF Inv, Asking, NoticesMatch
    <3>2. n.request \notin S
      BY <2>1, <3>1 DEF ExpiryCloses
    <3>3. status'[n.request] = "pending"
      BY <2>1, <3>1, <3>2
    <3>. QED
      BY <3>1, <3>3 DEF Asked
  <2>2. CASE n \in opened
    <3>1. n \in more
      BY <2>2, <1>3 DEF Outcome, Notice, ExpiryTells
    <3>. QED
      BY <3>1, <1>3
  <2>. QED
    BY <1>1, <2>1, <2>2
<1>. QED
  BY <1>2, <1>3, MatchVerdict DEF Asking, NoticesMatch, Told, Verdict

-----------------------------------------------------------------------------
\* A transaction that books nothing pays nothing.
LEMMA NothingPaid ==
  ASSUME Inv, spending' = spending, completed' = completed,
         \A r \in RequestIds : status'[r] = "completed" <=> status[r] = "completed",
         \A r \in RequestIds : status[r] = "completed" =>
           /\ payer'[r] = payer[r] /\ initiator'[r] = initiator[r]
           /\ amount'[r] = amount[r] /\ expires'[r] = expires[r]
  PROVE  PaidExactlyOnce'
BY DEF Inv, PaidExactlyOnce

LEMMA ExpiryKeeps ==
  ASSUME Inv, NEW S, Pending(S), CommitExpiry(S)
  PROVE  Inv'
<1>1. /\ status' = Expired(S)
      /\ UNCHANGED <<clock, balance, spending, initiator, payer, amount, expires, completed, ops>>
      /\ Notify(ExpiryTells(S) \cup {}, ExpiryCloses(S) \cup {})
  BY DEF CommitExpiry, request, ExpiryTells
<1>2. /\ status' \in [RequestIds -> Statuses]
      /\ \A r \in RequestIds : status'[r] = IF r \in S THEN "expired" ELSE status[r]
  BY <1>1, ExpiredColumn
<1>3. TypeOK'
  BY <1>1, <1>2 DEF Inv, TypeOK
<1>4. PaidExactlyOnce'
  BY <1>1, <1>2, NothingPaid DEF Pending
<1>5. NoticesMatch' /\ Asking'
  <2>1. \A r : Told(r, {}) = {}
    BY DEF Told
  <2>. QED
    BY <1>1, <1>2, <2>1, NoticesKept DEF Pending
<1>. QED
  BY <1>3, <1>4, <1>5 DEF Inv

LEMMA CreateKeeps ==
  ASSUME Inv, NEW s \in Subjects, NEW other \in Subjects, NEW r \in RequestIds, NEW key,
         NEW n \in Amounts, NEW hour \in Times, Create(s, other, r, key, n, hour)
  PROVE  Inv'
<1> DEFINE gone == Overdue(hour)
<1>1. /\ status[r] = "none" /\ status' = [Expired(gone) EXCEPT ![r] = "pending"]
      /\ initiator' = [initiator EXCEPT ![r] = s] /\ payer' = [payer EXCEPT ![r] = other]
      /\ amount' = [amount EXCEPT ![r] = n]
      /\ expires' = [expires EXCEPT ![r] = hour + RequestLifetime]
      /\ Notify(ExpiryTells(gone) \cup {Notice(other, r, "created")},
                ExpiryCloses(gone) \cup {})
      /\ UNCHANGED <<clock, balance, spending, completed>>
  BY DEF Create, ExpiryTells
<1>2. Pending(gone) /\ r \notin gone
  BY <1>1, OverduePending DEF Pending
<1> HIDE DEF gone
<1>3. /\ status' \in [RequestIds -> Statuses] /\ status'[r] = "pending"
      /\ \A x \in RequestIds \ {r} : status'[x] = IF x \in gone THEN "expired" ELSE status[x]
  BY <1>1, <1>2, ExpiredColumn DEF Statuses
<1>4. TypeOK'
  <2>1. hour + RequestLifetime \in Nat
    BY ExchangeAssumption DEF Times
  <2>2. expires' \in [RequestIds -> Nat]
    BY <1>1, <2>1 DEF Inv, TypeOK
  <2>. QED
    BY <1>1, <1>3, <2>2 DEF Inv, TypeOK
<1>5. \A x \in RequestIds \ {r} : /\ payer'[x] = payer[x] /\ initiator'[x] = initiator[x]
                                  /\ amount'[x] = amount[x] /\ expires'[x] = expires[x]
  BY <1>1 DEF Inv, TypeOK
<1>6. PaidExactlyOnce'
  BY <1>1, <1>2, <1>3, <1>5, NothingPaid DEF Pending
<1>7. NoticesMatch' /\ Asking'
  <2> DEFINE more == {Notice(other, r, "created")}
  <2>1. \A x : Told(x, more) = {}
    BY DEF Told, Notice
  <2>2. \A m \in more : m.request \in RequestIds /\ m = Asked(m.request)'
                        /\ status'[m.request] = "pending"
    BY <1>1, <1>3 DEF Notice, Asked, Inv, TypeOK
  <2>3. Verdict(status'[r]) = Verdict(status[r])
    BY <1>1, <1>3 DEF Verdict
  <2> HIDE DEF more
  <2>4. Notify(ExpiryTells(gone) \cup more, ExpiryCloses(gone) \cup {})
    BY <1>1 DEF more
  <2>5. \A x \in RequestIds : x \notin gone /\ status'[x] # status[x] => x = r
    BY <1>3
  <2>6. \A x \in gone : status'[x] = "expired"
    BY <1>2, <1>3 DEF Pending
  <2>7. \A x \in RequestIds : status[x] # "none" => payer'[x] = payer[x]
    BY <1>1, <1>5
  <2>8. \A x \in RequestIds : x \notin gone /\ status'[x] # status[x] =>
           /\ Verdict(status'[x]) = Verdict(status[x]) \cup Told(x, more)
           /\ status[x] = "pending" => Asked(x) \in {}
    BY <2>1, <2>3, <2>5, <1>1
  <2>9. \A x \in RequestIds : x \in gone \/ status'[x] = status[x] => Told(x, more) = {}
    BY <2>1
  <2> DEFINE closed == {}
  <2>10. Notify(ExpiryTells(gone) \cup more, ExpiryCloses(gone) \cup closed)
    BY <2>4
  <2>11. \A x \in RequestIds : x \notin gone /\ status'[x] # status[x] =>
           /\ Verdict(status'[x]) = Verdict(status[x]) \cup Told(x, more)
           /\ status[x] = "pending" => Asked(x) \in closed
    BY <2>8
  <2>12. \A m \in more : m.event = "created" =>
           m.request \in RequestIds /\ m = Asked(m.request)' /\ status'[m.request] = "pending"
    BY <2>2
  <2>13. status' \in [RequestIds -> Statuses] /\ Pending(gone)
    BY <1>2, <1>3
  <2> HIDE DEF closed
  <2>. QED
    BY <2>6, <2>7, <2>9, <2>10, <2>11, <2>12, <2>13, NoticesKept
<1>. QED
  BY <1>4, <1>6, <1>7 DEF Inv

LEMMA ConfirmKeeps ==
  ASSUME Inv, NEW r \in RequestIds, NEW s \in Subjects, NEW key, NEW hour \in Times,
         Confirm(r, s, key, hour)
  PROVE  Inv'
<1> DEFINE gone == Overdue(hour) \ {r}
<1> DEFINE out == Entry(s, r, "out", amount[r], Day(hour))
<1> DEFINE in == Entry(initiator[r], r, "in", amount[r], Day(hour))
<1>1. /\ s = payer[r] /\ status[r] = "pending" /\ r \notin Overdue(hour)
      /\ balance' = Pay(r) /\ spending' = spending \cup {out, in}
      /\ status' = [Expired(gone) EXCEPT ![r] = "completed"]
      /\ completed' = [completed EXCEPT ![r] = hour]
      /\ Notify(ExpiryTells(gone) \cup {Outcome(r, "confirmed")},
                ExpiryCloses(gone) \cup {Asked(r)})
      /\ UNCHANGED <<clock, initiator, payer, amount, expires>>
  BY DEF Confirm, Answerable, request, ExpiryTells
<1>2. Pending(gone) /\ r \notin gone
  BY OverduePending DEF Pending
<1>3. hour < expires[r]
  BY <1>1, ExchangeAssumption DEF Overdue, Inv, TypeOK, Times
<1>4. out.request = r /\ in.request = r
  BY DEF Entry
<1> HIDE DEF gone
<1>5. /\ status' \in [RequestIds -> Statuses] /\ status'[r] = "completed"
      /\ \A x \in RequestIds \ {r} : status'[x] = IF x \in gone THEN "expired" ELSE status[x]
  BY <1>1, <1>2, ExpiredColumn DEF Statuses
<1>6. TypeOK'
  <2>1. balance' \in [Subjects -> Int]
    <3>1. amount[r] \in Int
      <4>1. amount[r] \in Amounts \cup {0}
        BY DEF Inv, TypeOK
      <4>2. \A a \in Amounts \cup {0} : a \in Int
        BY ExchangeAssumption
      <4>. QED
        BY <4>1, <4>2
    <3>2. balance \in [Subjects -> Int]
      BY DEF Inv, TypeOK
    <3>3. DOMAIN balance' = Subjects /\ \A x \in Subjects :
            balance'[x] \in {balance[x], balance[x] + amount[r], balance[x] - amount[r],
                             balance[x] - amount[r] + amount[r]}
      BY <1>1, <3>2 DEF Pay
    <3>4. balance' = [x \in Subjects |-> balance'[x]]
      BY <1>1, <3>2 DEF Pay
    <3>. QED
      BY <3>1, <3>2, <3>3, <3>4
  <2>2. completed' \in [RequestIds -> Times \cup {-1}]
    BY <1>1 DEF Inv, TypeOK
  <2>. QED
    BY <1>1, <1>5, <2>1, <2>2 DEF Inv, TypeOK
<1>7. PaidExactlyOnce'
  <2> SUFFICES ASSUME NEW x \in RequestIds
               PROVE  /\ {e \in spending' : e.request = x} =
                           IF status'[x] = "completed"
                           THEN {Entry(payer[x], x, "out", amount[x], Day(completed'[x])),
                                 Entry(initiator[x], x, "in", amount[x], Day(completed'[x]))}
                           ELSE {}
                      /\ status'[x] = "completed" => completed'[x] < expires[x]
    BY <1>1 DEF PaidExactlyOnce
  <2>1. /\ {e \in spending : e.request = x} =
             IF status[x] = "completed"
             THEN {Entry(payer[x], x, "out", amount[x], Day(completed[x])),
                   Entry(initiator[x], x, "in", amount[x], Day(completed[x]))}
             ELSE {}
        /\ status[x] = "completed" => completed[x] < expires[x]
    BY DEF Inv, PaidExactlyOnce
  <2>2. CASE x = r
    <3>1. completed'[r] = hour
      BY <1>1 DEF Inv, TypeOK
    <3>2. {e \in spending : e.request = r} = {}
      BY <1>1, <2>1, <2>2
    <3> HIDE DEF out, in
    <3>3. {e \in spending' : e.request = r} = {out, in}
      BY <1>1, <1>4, <3>2
    <3>. QED
      BY <1>1, <1>3, <1>5, <2>2, <3>1, <3>3 DEF out, in
  <2>3. CASE x # r
    <3>1. completed'[x] = completed[x]
      BY <1>1, <2>3 DEF Inv, TypeOK
    <3>2. status'[x] = "completed" <=> status[x] = "completed"
      BY <1>2, <1>5, <2>3 DEF Pending
    <3> HIDE DEF out, in
    <3>3. {e \in spending' : e.request = x} = {e \in spending : e.request = x}
      BY <1>1, <1>4, <2>3
    <3>. QED
      BY <2>1, <3>1, <3>2, <3>3
  <2>. QED
    BY <2>2, <2>3
<1>8. NoticesMatch' /\ Asking'
  <2> DEFINE more == {Outcome(r, "confirmed")}
  <2>1. Told(r, more) = {"confirmed"} /\ \A x : x # r => Told(x, more) = {}
    <3>1. Outcome(r, "confirmed").request = r /\ Outcome(r, "confirmed").event = "confirmed"
      BY DEF Outcome, Notice
    <3>2. Told(r, more) = {"confirmed"}
      <4> DEFINE n == Outcome(r, "confirmed")
      <4>1. n \in more /\ \A m \in more : m = n
        OBVIOUS
      <4>2. n.request = r /\ n.event = "confirmed"
        BY <3>1
      <4> HIDE DEF n, more
      <4>3. Told(r, more) = {n.event}
        BY <4>1, <4>2, ToldOne
      <4>. QED
        BY <4>2, <4>3
    <3>3. ASSUME NEW x, x # r PROVE Told(x, more) = {}
      <4>1. \A m \in more : m.request # x
        BY <3>1, <3>3
      <4>. QED
        BY <4>1, ToldNothing
    <3>. QED
      BY <3>2, <3>3
  <2>2. \A m \in more : m.event # "created"
    BY DEF Outcome, Notice
  <2> HIDE DEF more
  <2>3. Notify(ExpiryTells(gone) \cup more, ExpiryCloses(gone) \cup {Asked(r)})
    BY <1>1 DEF more
  <2>4. Verdict(status'[r]) = Verdict(status[r]) \cup Told(r, more)
    BY <1>1, <1>5, <2>1 DEF Verdict
  <2>5. \A x \in RequestIds : x \notin gone /\ status'[x] # status[x] => x = r
    BY <1>5
  <2>6. status'[r] # status[r] /\ r \notin gone
    BY <1>1, <1>2, <1>5
  <2>7. \A x \in RequestIds : x \in gone \/ status'[x] = status[x] => Told(x, more) = {}
    BY <2>1, <2>6
  <2>8. \A x \in gone : status'[x] = "expired"
    BY <1>2, <1>5 DEF Pending
  <2>. QED
    <3> DEFINE closed == {Asked(r)}
    <3>1. \A x \in RequestIds : x \notin gone /\ status'[x] # status[x] =>
            /\ Verdict(status'[x]) = Verdict(status[x]) \cup Told(x, more)
            /\ status[x] = "pending" => Asked(x) \in closed
      BY <2>4, <2>5
    <3>2. \A x \in RequestIds : status[x] # "none" => payer'[x] = payer[x]
      BY <1>1
    <3>3. \A m \in more : m.event = "created" =>
            m.request \in RequestIds /\ m = Asked(m.request)' /\ status'[m.request] = "pending"
      BY <2>2
    <3> HIDE DEF closed
    <3>4. Notify(ExpiryTells(gone) \cup more, ExpiryCloses(gone) \cup closed)
      BY <2>3 DEF closed
    <3>. QED
      BY <1>2, <1>5, <2>7, <2>8, <3>1, <3>2, <3>3, <3>4, NoticesKept
<1>. QED
  BY <1>6, <1>7, <1>8 DEF Inv

LEMMA CloseKeeps ==
  ASSUME Inv, NEW r \in RequestIds, NEW s \in Subjects, NEW kind, NEW key, NEW hour \in Times,
         Close(r, s, kind, key, hour)
  PROVE  Inv'
<1> DEFINE gone == Overdue(hour) \ {r}
<1> DEFINE more == IF kind = "reject" THEN {Outcome(r, "rejected")} ELSE {}
<1> DEFINE end == IF kind = "reject" THEN "rejected" ELSE "withdrawn"
<1>1. /\ status[r] = "pending" /\ status' = [Expired(gone) EXCEPT ![r] = end]
      /\ Notify(ExpiryTells(gone) \cup more, ExpiryCloses(gone) \cup {Asked(r)})
      /\ UNCHANGED <<clock, balance, spending, initiator, payer, amount, expires, completed>>
  BY DEF Close, Answerable, request, ExpiryTells
<1>2. Pending(gone) /\ r \notin gone
  BY OverduePending DEF Pending
<1>3. Told(r, more) = Verdict(end) /\ \A x : x # r => Told(x, more) = {}
  <2>1. /\ Outcome(r, "rejected").request = r
        /\ Outcome(r, "rejected").event = "rejected"
    BY DEF Outcome, Notice
  <2>2. CASE kind = "reject"
    <3> DEFINE n == Outcome(r, "rejected")
    <3>1. n \in more /\ \A m \in more : m = n
      BY <2>2
    <3>2. n.request = r /\ n.event = "rejected"
      BY <2>1
    <3> HIDE DEF n, more
    <3>3. Told(r, more) = {n.event}
      BY <3>1, <3>2, ToldOne
    <3>4. Told(r, more) = {"rejected"}
      BY <3>2, <3>3
    <3>5. ASSUME NEW x, x # r PROVE Told(x, more) = {}
      <4>1. \A m \in more : m.request # x
        BY <2>1, <3>1, <3>5 DEF n
      <4>. QED
        BY <4>1, ToldNothing
    <3>. QED
      BY <2>2, <3>4, <3>5 DEF Verdict
  <2>3. CASE kind # "reject"
    BY <2>3, ToldNothing DEF Verdict
  <2>. QED
    BY <2>2, <2>3
<1>4. \A m \in more : m.event # "created"
  BY DEF Outcome, Notice
<1>5. end \in {"rejected", "withdrawn"}
  OBVIOUS
<1> HIDE DEF gone, more, end
<1>6. /\ status' \in [RequestIds -> Statuses] /\ status'[r] = end
      /\ \A x \in RequestIds \ {r} : status'[x] = IF x \in gone THEN "expired" ELSE status[x]
  BY <1>1, <1>2, <1>5, ExpiredColumn DEF Statuses
<1>7. TypeOK'
  BY <1>1, <1>6 DEF Inv, TypeOK
<1>8. PaidExactlyOnce'
  BY <1>1, <1>2, <1>5, <1>6, NothingPaid DEF Pending
<1>9. NoticesMatch' /\ Asking'
  <2>1. Verdict(status'[r]) = Verdict(status[r]) \cup Told(r, more)
    BY <1>1, <1>3, <1>6 DEF Verdict
  <2>2. \A x \in RequestIds : x \notin gone /\ status'[x] # status[x] => x = r
    BY <1>6
  <2>3. status'[r] # status[r] /\ r \notin gone
    BY <1>1, <1>2, <1>5, <1>6
  <2>4. \A x \in RequestIds : x \in gone \/ status'[x] = status[x] => Told(x, more) = {}
    BY <1>3, <2>3
  <2>5. \A x \in gone : status'[x] = "expired"
    BY <1>2, <1>6 DEF Pending
  <2>6. Pending(gone)
    BY <1>2
  <2>7. Notify(ExpiryTells(gone) \cup more, ExpiryCloses(gone) \cup {Asked(r)})
    BY <1>1
  <2>8. status' \in [RequestIds -> Statuses]
    BY <1>6
  <2>9. \A x \in RequestIds : x \notin gone /\ status'[x] # status[x] =>
          /\ Verdict(status'[x]) = Verdict(status[x]) \cup Told(x, more)
          /\ status[x] = "pending" => Asked(x) \in {Asked(r)}
    BY <2>1, <2>2
  <2>10. \A x \in RequestIds : status[x] # "none" => payer'[x] = payer[x]
    BY <1>1
  <2>11. \A n \in more : n.event = "created" =>
           n.request \in RequestIds /\ n = Asked(n.request)' /\ status'[n.request] = "pending"
    BY <1>4
  <2>. QED
    BY <2>4, <2>5, <2>6, <2>7, <2>8, <2>9, <2>10, <2>11, NoticesKept
<1>. QED
  BY <1>7, <1>8, <1>9 DEF Inv

-----------------------------------------------------------------------------
LEMMA StepKeeps == Inv /\ [Next]_vars => Inv'
<1> SUFFICES ASSUME Inv, [Next]_vars PROVE Inv'
  OBVIOUS
<1>1. Now \subseteq Times
  BY DEF Now
<1>2. ASSUME NEW hour \in Now, Submit(hour) PROVE Inv'
  <2>1. PICK pair \in Pairs, r \in RequestIds, key \in Keys, n \in Amounts :
          Create(pair[1], pair[2], r, key, n, hour)
    BY <1>2 DEF Submit
  <2>2. pair[1] \in Subjects /\ pair[2] \in Subjects
    BY DEF Pairs, Subjects
  <2>. QED
    BY <1>1, <2>1, <2>2, CreateKeeps
<1>3. ASSUME NEW hour \in Now, Respond(hour) PROVE Inv'
  <2>1. PICK r \in RequestIds, s \in Subjects :
          \/ \E key \in Keys :
               \/ Confirm(r, s, key, hour)
               \/ \E kind \in {"reject", "withdraw"} : Close(r, s, kind, key, hour)
               \/ \E kind \in Kinds : Answer(r, s, kind, key, hour)
          \/ Dissolve(r, s, hour)
          \/ Get(r, s, hour)
    BY <1>3 DEF Respond
  <2>2. ASSUME NEW key \in Keys, Confirm(r, s, key, hour) PROVE Inv'
    BY <1>1, <2>2, ConfirmKeeps
  <2>3. ASSUME NEW key \in Keys, NEW kind, Close(r, s, kind, key, hour) PROVE Inv'
    BY <1>1, <2>3, CloseKeeps
  <2>4. CASE Get(r, s, hour) \/ \E key \in Keys, kind \in Kinds : Answer(r, s, kind, key, hour)
    BY <2>4, OverduePending, ExpiryKeeps DEF Get, Answer
  <2>5. CASE Dissolve(r, s, hour)
    <3>1. Pending(Overdue(hour) \cup {r})
      BY <2>5, OverduePending DEF Dissolve, Pending
    <3>. QED
      BY <2>5, <3>1, ExpiryKeeps DEF Dissolve
  <2>. QED
    BY <2>1, <2>2, <2>3, <2>4, <2>5
<1>4. ASSUME NEW hour \in Now, NEW s \in Subjects, NEW bound \in SUBSET Subjects,
             List(s, bound, hour)
      PROVE  Inv'
  <2> DEFINE S == Overdue(hour) \cup
       {r \in RequestIds : /\ Expirable(r) /\ s \in {initiator[r], payer[r]}
                           /\ {initiator[r], payer[r]} \ {s} \subseteq Subjects \ bound}
  <2>1. Pending(S)
    BY OverduePending DEF Pending, Expirable
  <2>2. CommitExpiry(S)
    BY <1>4 DEF List
  <2>. QED
    BY <2>1, <2>2, ExpiryKeeps
<1>5. ASSUME NEW s \in Subjects, AckNotices(s) PROVE Inv'
  <2>1. /\ unread' \subseteq unread
        /\ UNCHANGED <<clock, balance, spending, status, initiator, payer, amount, expires,
                       completed, ops, sent>>
    BY <1>5 DEF AckNotices, request
  <2>. QED
    BY <2>1 DEF Inv, TypeOK, PaidExactlyOnce, NoticesMatch, Asking, Asked
<1>6. CASE Tick
  <2>1. /\ clock' \in Times
        /\ UNCHANGED <<balance, spending, status, initiator, payer, amount, expires,
                       completed, ops, sent, unread>>
    BY <1>6, ExchangeAssumption DEF Tick, request, Inv, TypeOK, Times
  <2>. QED
    BY <2>1 DEF Inv, TypeOK, PaidExactlyOnce, NoticesMatch, Asking, Asked
<1>7. CASE UNCHANGED vars
  BY <1>7 DEF vars, Inv, TypeOK, PaidExactlyOnce, NoticesMatch, Asking, Asked
<1>. QED
  BY <1>2, <1>3, <1>4, <1>5, <1>6, <1>7 DEF Next

LEMMA Invariance == Spec => []Inv
BY InitHolds, StepKeeps, PTL DEF Spec

\* The columns of the schema keep their types, whatever is asked and whenever.
THEOREM TypeCorrect == Spec => []TypeOK
<1>1. Inv => TypeOK
  BY DEF Inv
<1>. QED
  BY <1>1, Invariance, PTL

\* A request is completed exactly when it was booked once on each side, on one
\* day and before its deadline, however confirmations, expiries by other calls
\* and repeated keys interleave (exchanges.py).
THEOREM PaidOnce == Spec => []PaidExactlyOnce
<1>1. Inv => PaidExactlyOnce
  BY DEF Inv
<1>. QED
  BY <1>1, Invariance, PTL

\* The payer is only asked about an open request and the initiator is told its
\* outcome, once and truly.
THEOREM NoticesTrue == Spec => []NoticesMatch
<1>1. Inv => NoticesMatch
  BY DEF Inv
<1>. QED
  BY <1>1, Invariance, PTL

-----------------------------------------------------------------------------
\* The ledger is finite and its amounts are numbers.
Booked == IsFiniteSet(spending) /\ \A e \in spending : e.amount \in Int
Allowed == Booked /\ DailyAllowance

PaidOn(s, day) == {e \in spending : e.wallet = s /\ e.kind = "out" /\ e.day = day}
SpentIsSum == \A s, day : SpentOn(s, day) = TotalAmount(PaidOn(s, day))

LEMMA SpentSums == SpentIsSum
BY DEF SpentIsSum, SpentOn, PaidOn, TotalAmount

LEMMA SpentSumsNext == SpentIsSum'
BY SpentSums, PTL

LEMMA InitAllowed == Init => Allowed
<1> SUFFICES ASSUME Init PROVE Allowed
  OBVIOUS
<1>1. spending = {}
  BY DEF Init
<1>2. Booked
  BY <1>1, FS_EmptySet DEF Booked
<1>3. ASSUME NEW s \in Subjects, NEW day \in {Day(t) : t \in Times}
      PROVE  SpentOn(s, day) <= MaxDailySpend
  <2>1. PaidOn(s, day) = {}
    BY <1>1 DEF PaidOn
  <2>2. SpentOn(s, day) = 0
    BY <2>1, SpentSums, NoAmounts DEF SpentIsSum
  <2>. QED
    BY <2>2, ExchangeAssumption
<1>. QED
  BY <1>2, <1>3 DEF Allowed, DailyAllowance

\* A payment is a row the ledger does not have yet, so it adds to what its payer
\* spent on its day and to nothing else.
LEMMA ConfirmAllowed ==
  ASSUME Inv, Allowed, NEW r \in RequestIds, NEW s \in Subjects, NEW key,
         NEW hour \in Times, Confirm(r, s, key, hour)
  PROVE  Allowed'
<1> DEFINE out == Entry(s, r, "out", amount[r], Day(hour))
<1> DEFINE in == Entry(initiator[r], r, "in", amount[r], Day(hour))
<1>1. /\ s = payer[r] /\ status[r] = "pending"
      /\ SpentOn(s, Day(hour)) + amount[r] <= MaxDailySpend
      /\ spending' = spending \cup {out, in}
  BY DEF Confirm, Answerable, WithinAllowance
<1>2. amount[r] \in Int
  <2>1. amount[r] \in Amounts \cup {0}
    BY DEF Inv, TypeOK
  <2>2. \A a \in Amounts \cup {0} : a \in Int
    BY ExchangeAssumption
  <2>. QED
    BY <2>1, <2>2
<1>3. /\ out.wallet = s /\ out.kind = "out" /\ out.day = Day(hour) /\ out.amount = amount[r]
      /\ in.kind = "in" /\ in.amount = amount[r] /\ out.request = r
  BY DEF Entry
<1> HIDE DEF out, in
<1>4. out \notin spending
  <2>1. {e \in spending : e.request = r} = {}
    BY <1>1 DEF Inv, PaidExactlyOnce
  <2>. QED
    BY <1>3, <2>1
<1>5. Booked'
  <2>1. IsFiniteSet(spending \cup {out}) /\ IsFiniteSet((spending \cup {out}) \cup {in})
    BY FS_AddElement DEF Allowed, Booked
  <2>2. spending' = (spending \cup {out}) \cup {in}
    BY <1>1
  <2>3. IsFiniteSet(spending')
    BY <2>1, <2>2
  <2>. QED
    BY <1>1, <1>2, <1>3, <2>3 DEF Allowed, Booked
<1>6. ASSUME NEW x \in Subjects, NEW day \in {Day(t) : t \in Times}
      PROVE  SpentOn(x, day)' <= MaxDailySpend
  <2> DEFINE before == PaidOn(x, day)
             after == PaidOn(x, day)'
  <2>1. SpentOn(x, day) = TotalAmount(before) /\ SpentOn(x, day)' = TotalAmount(after)
    BY SpentSums, SpentSumsNext DEF SpentIsSum
  <2>2. SpentOn(x, day) <= MaxDailySpend
    BY DEF Allowed, DailyAllowance
  <2>3. CASE x = s /\ day = Day(hour)
    <3>1. after = before \cup {out}
      BY <1>1, <1>3, <2>3 DEF PaidOn
    <3>2. IsFiniteSet(before) /\ out \notin before
      BY <1>4, FS_Subset DEF PaidOn, Allowed, Booked
    <3>3. \A e \in before \cup {out} : e.amount \in Int
      BY <1>2, <1>3 DEF PaidOn, Allowed, Booked
    <3> HIDE DEF before, after
    <3>4. TotalAmount(before \cup {out}) = TotalAmount(before) + out.amount
      BY <3>2, <3>3, AmountsGrow
    <3>5. SpentOn(x, day)' = SpentOn(x, day) + amount[r]
      BY <1>3, <2>1, <3>1, <3>4
    <3>. QED
      BY <1>1, <2>3, <3>5
  <2>4. CASE ~(x = s /\ day = Day(hour))
    <3>1. after = before
      BY <1>1, <1>3, <2>4 DEF PaidOn
    <3>. QED
      BY <2>1, <2>2, <3>1
  <2>. QED
    BY <2>3, <2>4
<1>. QED
  BY <1>5, <1>6 DEF Allowed, DailyAllowance

LEMMA StepAllowed == Inv /\ Allowed /\ [Next]_vars => Allowed'
<1> SUFFICES ASSUME Inv, Allowed, [Next]_vars PROVE Allowed'
  OBVIOUS
<1>1. ASSUME UNCHANGED spending PROVE Allowed'
  <2>1. \A s, day : PaidOn(s, day)' = PaidOn(s, day)
    BY <1>1 DEF PaidOn
  <2>2. \A s, day : SpentOn(s, day)' = SpentOn(s, day)
    BY <2>1, SpentSums, SpentSumsNext DEF SpentIsSum
  <2>. QED
    BY <1>1, <2>2 DEF Allowed, Booked, DailyAllowance
<1>2. ASSUME NEW hour \in Now, NEW r \in RequestIds, NEW s \in Subjects, NEW key,
             Confirm(r, s, key, hour)
      PROVE  Allowed'
  BY <1>2, ConfirmAllowed DEF Now
<1>3. \A S : CommitExpiry(S) => UNCHANGED spending
  BY DEF CommitExpiry
<1>4. ASSUME NEW hour \in Now, Respond(hour) PROVE Allowed'
  <2>1. PICK r \in RequestIds, s \in Subjects :
          \/ \E key \in Keys :
               \/ Confirm(r, s, key, hour)
               \/ \E kind \in {"reject", "withdraw"} : Close(r, s, kind, key, hour)
               \/ \E kind \in Kinds : Answer(r, s, kind, key, hour)
          \/ Dissolve(r, s, hour)
          \/ Get(r, s, hour)
    BY <1>4 DEF Respond
  <2>2. CASE \E key \in Keys : Confirm(r, s, key, hour)
    BY <1>2, <2>2
  <2>3. CASE \E key \in Keys : \E kind \in {"reject", "withdraw"} : Close(r, s, kind, key, hour)
    <3>1. UNCHANGED spending
      BY <2>3 DEF Close
    <3>. QED
      BY <1>1, <3>1
  <2>4. CASE \/ \E key \in Keys : \E kind \in Kinds : Answer(r, s, kind, key, hour)
             \/ Dissolve(r, s, hour) \/ Get(r, s, hour)
    <3>1. UNCHANGED spending
      BY <1>3, <2>4 DEF Answer, Dissolve, Get
    <3>. QED
      BY <1>1, <3>1
  <2>. QED
    BY <2>1, <2>2, <2>3, <2>4
<1>5. ASSUME NEW hour \in Now, Submit(hour) PROVE Allowed'
  <2>1. UNCHANGED spending
    BY <1>5 DEF Submit, Create
  <2>. QED
    BY <1>1, <2>1
<1>6. ASSUME NEW hour \in Now, NEW s \in Subjects, NEW bound \in SUBSET Subjects,
             List(s, bound, hour)
      PROVE  Allowed'
  <2>1. UNCHANGED spending
    BY <1>3, <1>6 DEF List
  <2>. QED
    BY <1>1, <2>1
<1>7. CASE (\E s \in Subjects : AckNotices(s)) \/ Tick \/ UNCHANGED vars
  <2>1. UNCHANGED spending
    BY <1>7 DEF AckNotices, Tick, vars
  <2>. QED
    BY <1>1, <2>1
<1>. QED
  BY <1>4, <1>5, <1>6, <1>7 DEF Next

\* No payer spends more than the allowance on one day, over all counterparts
\* together, however confirmations come late over midnight (exchanges.py).
THEOREM AllowanceKept == Spec => []DailyAllowance
<1>1. Init => Inv /\ Allowed
  BY InitHolds, InitAllowed
<1>2. Inv /\ Allowed /\ [Next]_vars => Inv' /\ Allowed'
  BY StepKeeps, StepAllowed
<1>3. Inv /\ Allowed => DailyAllowance
  BY DEF Allowed
<1>. QED
  BY <1>1, <1>2, <1>3, PTL DEF Spec

-----------------------------------------------------------------------------
(* Takeover.                                                               *)

Moments == Nat \cup {Clocked!None}
Works == [stage : {"none", "started", "deciding"}, revision : Moments]

ClockTypes ==
  /\ bets \in BOOLEAN
  /\ now \in Nat /\ revision \in Nat /\ updated \in Nat
  /\ present \subseteq Seated
  /\ turnRevision \in Nat /\ turnStarted \in Nat /\ reclaimed \in Moments
  /\ seen \in [Seated -> Int]
  /\ worker \in Works
  /\ began \in Nat /\ assists \in Nat

\* No column is ahead of the room or of the clock.
ClockPast ==
  /\ turnRevision <= revision /\ worker.revision <= revision
  /\ turnStarted <= now /\ updated <= now /\ began <= updated
  /\ \A p \in Seated : seen[p] <= now

\* The worker decides on the turn that stands.
Deciding == worker.stage = "deciding" /\ worker.revision = revision

\* Since the last turn that was played for somebody nobody has been seen, and
\* the clock of the present turn started after that.
Unwatched ==
  assists # 0 =>
    /\ turnRevision = revision
    /\ \A p \in Seated : seen[p] <= turnStarted
    /\ Deciding => now - turnStarted >= Limit

\* Without bets the clock of the turn never started before the actor got it.
ClockFair ==
  ~bets =>
    /\ turnRevision = revision => turnStarted >= began
    /\ Deciding => now - began >= Limit /\ actor \in present

TakeoverInv == ClockTypes /\ ClockPast /\ Unwatched /\ ClockFair /\ Clocked!OneAssistUnwatched

\* The present turn belongs to the NPC or to a player who has just begun it.
LEMMA TakeoverInit == ASSUME Clocked!Init PROVE TakeoverInv
<1>1. ClockTypes
  <2>1. seen \in [Seated -> Int]
    BY ServicesAssumption DEF Clocked!Init
  <2>. QED
    BY <2>1 DEF Clocked!Init, ClockTypes, Clocked!NoWork, Clocked!None, Works, Moments
<1>2. ClockPast
  <2>1. \A p \in Seated : seen[p] <= 0
    BY ServicesAssumption DEF Clocked!Init
  <2>. QED
    BY <2>1 DEF Clocked!Init, ClockPast, Clocked!NoWork, Clocked!None
<1>. QED
  BY <1>1, <1>2 DEF Clocked!Init, TakeoverInv, Unwatched, ClockFair, Deciding,
                    Clocked!OneAssistUnwatched, Clocked!NoWork, Clocked!None

\* A turn that passes by a commit starts its clock at that moment.
LEMMA TurnPassKeeps ==
  ASSUME TakeoverInv, NEW to, Clocked!TurnPasses(to),
         bets' = bets, now' = now, present' = present,
         worker' \in {worker, Clocked!NoWork}, seen' \in [Seated -> Int],
         \A p \in Seated : seen'[p] <= now,
         assists' \in {0, 1}
  PROVE  TakeoverInv'
<1> USE DEF TakeoverInv
<1>1. /\ revision' = revision + 1 /\ updated' = now /\ turnRevision' = revision + 1
      /\ turnStarted' = now /\ reclaimed' = Clocked!None /\ began' = now
  BY DEF Clocked!TurnPasses, Clocked!Advance
<1>2. worker'.revision <= revision /\ worker' \in Works
  BY DEF ClockTypes, ClockPast, Clocked!NoWork, Clocked!None, Works, Moments
<1>3. ClockTypes'
  BY <1>1, <1>2 DEF ClockTypes, Moments
<1>4. ~Deciding'
  BY <1>1, <1>2, <1>3 DEF Deciding, ClockTypes, Works, Moments, Clocked!None
<1>5. ClockPast'
  BY <1>1, <1>2, <1>3 DEF ClockPast, ClockTypes, Works, Moments, Clocked!None
<1>. QED
  BY <1>1, <1>3, <1>4, <1>5 DEF Unwatched, ClockFair, Clocked!OneAssistUnwatched, ClockTypes

\* The checks at the commit leave no room for a second turn in a row.
LEMMA PlayOnce ==
  ASSUME TakeoverInv, NEW to, Clocked!Play(to)
  PROVE  assists = 0 /\ (~bets => now - began >= Limit /\ actor \in present)
<1> USE DEF TakeoverInv
<1>1. Deciding /\ Clocked!SomebodyLive
  BY DEF Clocked!Play, Clocked!StillItsTurn, Deciding
<1>2. PICK p \in Seated : seen[p] > now - Limit
  BY <1>1 DEF Clocked!SomebodyLive, Clocked!Live, ClockTypes
<1>3. assists = 0
  BY <1>1, <1>2, ServicesAssumption DEF Unwatched, ClockTypes
<1>. QED
  BY <1>1, <1>3 DEF ClockFair

LEMMA TakeoverStep == ASSUME TakeoverInv, [Clocked!Next]_(Clocked!vars) PROVE TakeoverInv'
<1> USE DEF TakeoverInv
<1>1. ASSUME NEW to \in Seated \cup {Bot, Clocked!Over}, Clocked!Move(to) PROVE TakeoverInv'
  <2>1. actor \in Seated /\ seen' = [seen EXCEPT ![actor] = now]
    BY <1>1 DEF Clocked!Move, Clocked!Touch, ClockTypes
  <2>. QED
    BY <1>1, <2>1, TurnPassKeeps DEF Clocked!Move, Clocked!Touch, ClockTypes, ClockPast
<1>2. ASSUME NEW to \in Seated \cup {Bot, Clocked!Over}, Clocked!NpcMove(to) PROVE TakeoverInv'
  <2>1. assists \in {0, 1}
    BY DEF ClockTypes, Clocked!OneAssistUnwatched
  <2>. QED
    BY <1>2, <2>1, TurnPassKeeps DEF Clocked!NpcMove, ClockTypes, ClockPast
<1>3. ASSUME NEW to \in Seated \cup {Bot, Clocked!Over}, Clocked!Play(to) PROVE TakeoverInv'
  BY <1>3, PlayOnce, TurnPassKeeps DEF Clocked!Play, ClockTypes, ClockPast
<1>4. ASSUME NEW p \in Seated, Clocked!Side(p) PROVE TakeoverInv'
  <2>1. seen' = [seen EXCEPT ![p] = now] /\ assists' = 0
    BY <1>4 DEF Clocked!Side, Clocked!Touch
  <2>. QED
    BY <1>4, <2>1 DEF Clocked!Side, Clocked!Advance, ClockTypes, ClockPast, Unwatched, ClockFair,
                      Clocked!OneAssistUnwatched, Works, Moments, Clocked!None
<1>5. ASSUME NEW p \in Seated, Clocked!Resign(p) PROVE TakeoverInv'
  <2>1. /\ revision' = revision + 1 /\ updated' = now /\ present' = present \ {p}
        /\ assists' = 0 /\ began' \in {began, now}
        /\ UNCHANGED <<bets, now, Clocked!columns, seen, worker>>
    BY <1>5 DEF Clocked!Resign, Clocked!Advance
  <2>. QED
    BY <2>1 DEF Clocked!columns, ClockTypes, ClockPast, Unwatched, ClockFair,
                Clocked!OneAssistUnwatched, Deciding, Works, Moments, Clocked!None
<1>6. ASSUME NEW p \in Seated, Clocked!Reclaim(p) \/ Clocked!Ask(p) PROVE TakeoverInv'
  <2>1. /\ seen' = [seen EXCEPT ![p] = now] /\ assists' = 0
        /\ reclaimed' \in {reclaimed, revision}
        /\ UNCHANGED <<bets, now, revision, actor, present, updated, turnRevision,
                       turnStarted, worker, began>>
    BY <1>6 DEF Clocked!Reclaim, Clocked!Ask, Clocked!Touch, Clocked!columns
  <2>2. ClockTypes'
    BY <2>1 DEF ClockTypes, Moments
  <2>3. ClockPast'
    BY <2>1 DEF ClockTypes, ClockPast
  <2>. QED
    BY <2>1, <2>2, <2>3 DEF Unwatched, ClockFair, Clocked!OneAssistUnwatched, Deciding
<1>7. CASE Clocked!Sweep
  <2>1. /\ turnRevision' = revision
        /\ turnStarted' = IF turnRevision # revision THEN updated ELSE turnStarted
        /\ reclaimed' \in {reclaimed, Clocked!None}
        /\ worker' \in {worker, [Clocked!NoWork EXCEPT !.stage = "started"]}
        /\ UNCHANGED <<bets, now, revision, actor, present, updated, seen, began, assists>>
    BY <1>7 DEF Clocked!Sweep, Clocked!SyncedColumns, ClockTypes
  <2>2. ClockTypes'
    BY <2>1 DEF ClockTypes, Moments, Works, Clocked!NoWork, Clocked!None
  <2>3. worker'.revision <= revision /\ (Deciding' => Deciding)
    BY <2>1 DEF ClockPast, Deciding, Clocked!NoWork, Clocked!None, ClockTypes
  <2>4. ClockPast'
    BY <2>1, <2>2, <2>3 DEF ClockPast, ClockTypes
  <2>5. Unwatched'
    BY <2>1, <2>3 DEF Unwatched
  <2>6. ClockFair'
    BY <2>1, <2>3 DEF ClockFair, ClockPast, ClockTypes
  <2>. QED
    BY <2>1, <2>2, <2>4, <2>5, <2>6 DEF Clocked!OneAssistUnwatched
<1>8. CASE Clocked!Decide
  <2>1. worker' = IF Clocked!IsDue THEN [stage |-> "deciding", revision |-> revision]
                  ELSE Clocked!NoWork
    BY <1>8 DEF Clocked!Decide
  <2>2. /\ UNCHANGED <<bets, now, revision, actor, present, updated, turnRevision,
                       turnStarted, reclaimed, seen, began, assists>>
    BY <1>8 DEF Clocked!Decide, Clocked!columns
  <2>3. worker' \in Works /\ worker'.revision <= revision
    BY <2>1 DEF Works, Moments, Clocked!NoWork, Clocked!None, ClockTypes
  <2>4. Deciding' => Clocked!IsDue
    BY <2>1 DEF Deciding, Clocked!NoWork
  <2>5. ClockTypes' /\ ClockPast'
    BY <2>2, <2>3 DEF ClockTypes, ClockPast
  <2>6. Unwatched'
    BY <2>2, <2>4 DEF Unwatched, Clocked!IsDue
  <2>7. ClockFair'
    BY <2>2, <2>4, ServicesAssumption DEF ClockFair, Clocked!IsDue, ClockTypes
  <2>. QED
    BY <2>2, <2>5, <2>6, <2>7 DEF Clocked!OneAssistUnwatched
<1>9. CASE Clocked!Lose \/ Clocked!Restart \/ UNCHANGED Clocked!vars
  <2>1. /\ worker' \in {worker, Clocked!NoWork}
        /\ UNCHANGED <<bets, now, revision, actor, present, updated, turnRevision,
                       turnStarted, reclaimed, seen, began, assists>>
    BY <1>9 DEF Clocked!Lose, Clocked!Restart, Clocked!columns, Clocked!vars
  <2>2. worker' \in Works /\ worker'.revision <= revision /\ (Deciding' => Deciding)
    BY <2>1 DEF Works, Moments, Clocked!NoWork, Clocked!None, ClockTypes, ClockPast, Deciding
  <2>. QED
    BY <2>1, <2>2 DEF ClockTypes, ClockPast, Unwatched, ClockFair, Clocked!OneAssistUnwatched
<1>10. CASE Clocked!Tick
  <2>1. /\ now' = now + 1
        /\ UNCHANGED <<bets, revision, actor, present, updated, turnRevision,
                       turnStarted, reclaimed, seen, worker, began, assists>>
    BY <1>10 DEF Clocked!Tick, Clocked!columns
  <2>2. ClockTypes' /\ ClockPast'
    BY <2>1 DEF ClockTypes, ClockPast
  <2>3. Deciding' = Deciding
    BY <2>1 DEF Deciding
  <2>. QED
    BY <2>1, <2>2, <2>3, ServicesAssumption DEF ClockTypes, Unwatched, ClockFair, Clocked!OneAssistUnwatched
<1>. QED
  BY <1>1, <1>2, <1>3, <1>4, <1>5, <1>6, <1>7, <1>8, <1>9, <1>10 DEF Clocked!Next

LEMMA PartStays == ASSUME [PartsNext]_parts PROVE part' = part
  BY DEF PartsNext, Exchanging, Playing, Dealing, Waiting, TakingOver, Telling, parts

\* Clocked rests while another service moves.
TakeoverHolds == part = "takeover" => TakeoverInv

LEMMA TakeoverHoldsStep == ASSUME TakeoverHolds, [PartsNext]_parts PROVE TakeoverHolds'
<1>1. part' = part
  BY PartStays
<1>2. part = "takeover" => [Clocked!Next]_(Clocked!vars)
  BY DEF PartsNext, Exchanging, Playing, Dealing, Waiting, TakingOver, Telling, parts,
         Clocked!vars, Clocked!columns, takeover
<1>. QED
  BY <1>1, <1>2, TakeoverStep DEF TakeoverHolds

LEMMA TakeoverAlways == PartsSpec => []TakeoverHolds
<1>1. PartsInit => TakeoverHolds
  BY TakeoverInit DEF PartsInit, TakeoverHolds
<1>. QED
  BY <1>1, TakeoverHoldsStep, PTL DEF PartsSpec

\* Whatever the timeout and the players: after the clients stop, at most one
\* turn more is played for them (framework.py:1183-1189).
THEOREM AssistsOnce == PartsSpec => []OneAssistUnwatched
<1>1. TakeoverHolds => OneAssistUnwatched
  BY DEF TakeoverHolds, TakeoverInv, OneAssistUnwatched
<1>. QED
  BY <1>1, TakeoverAlways, PTL

\* A turn is only played for a player who has held it for the whole timeout,
\* through missed revisions, resignations and late workers.
THEOREM OverdueOnly == PartsSpec => OnlyOverdueTaken
<1>1. TakeoverHolds /\ [PartsNext]_parts => [part = "takeover" => Clocked!OverdueTaken]_parts
  <2> SUFFICES ASSUME TakeoverHolds, PartsNext, part = "takeover", assists' = assists + 1, ~bets
               PROVE  now - began >= Limit /\ actor \in present
    BY DEF Clocked!OverdueTaken
  <2>1. TakeoverInv /\ Clocked!Next
    BY DEF TakeoverHolds, PartsNext, Exchanging, Playing, Dealing, Waiting, TakingOver, Telling
  <2>2. assists \in Nat
    BY <2>1 DEF TakeoverInv, ClockTypes
  <2>3. \E to \in Seated \cup {Bot, Clocked!Over} : Clocked!Play(to)
    BY <2>1, <2>2 DEF Clocked!Next, Clocked!Move, Clocked!NpcMove, Clocked!Side, Clocked!Resign,
                      Clocked!Reclaim, Clocked!Ask, Clocked!Touch, Clocked!Sweep,
                      Clocked!Decide, Clocked!Lose, Clocked!Tick, Clocked!Restart
  <2>. QED
    BY <2>1, <2>3, PlayOnce
<1>. QED
  BY <1>1, TakeoverAlways, PTL DEF PartsSpec, OnlyOverdueTaken
-----------------------------------------------------------------------------
(* Waits.  The theorems of WaitsProofs are about the module itself: each   *)
(* instance here is the same, definition by definition.                    *)

AloneW == INSTANCE WaitsProofs WITH
  Players <- OneMachine, TableSize <- OneTable, MaxTime <- OneTime,
  MaxEvents <- OneEvents, MaxRestarts <- OneRestarts
CrowdW == INSTANCE WaitsProofs WITH
  Players <- TwoMachines, TableSize <- TwoTable, MaxTime <- TwoTime,
  MaxEvents <- TwoEvents, MaxRestarts <- TwoRestarts

LEMMA AloneSame ==
  /\ Alone!Init <=> AloneW!Init
  /\ Alone!Next <=> AloneW!Next
  /\ Alone!vars = AloneW!vars
<1>1. \A S : Alone!Cardinality(S) = AloneW!Cardinality(S)
  BY DEF Alone!Cardinality, AloneW!Cardinality
<1>2. Alone!NoEntry = AloneW!NoEntry /\ Alone!Swept = AloneW!Swept /\ Alone!Ended = AloneW!Ended
  BY DEF Alone!NoEntry, Alone!Present, Alone!Cutoff, Alone!Expired, Alone!Swept,
         Alone!Ended, AloneW!NoEntry, AloneW!Present, AloneW!Cutoff,
         AloneW!Expired, AloneW!Swept, AloneW!Ended
<1>3. \A p, gen : Alone!Replaces(p, gen) <=> AloneW!Replaces(p, gen)
  BY <1>1, <1>2 DEF Alone!Replaces, AloneW!Replaces
<1>4. \A p, gen : Alone!Refused(p, gen) <=> AloneW!Refused(p, gen)
  BY <1>2 DEF Alone!Refused, Alone!Cutoff, AloneW!Refused, AloneW!Cutoff
<1>5. \A c : Alone!Close(c) <=> AloneW!Close(c)
  BY <1>1, <1>2, <1>4 DEF Alone!Close, Alone!Sweep, Alone!Bury, Alone!Superseded, Alone!leases,
         Alone!server, Alone!room, AloneW!Close, AloneW!Sweep, AloneW!Bury,
         AloneW!Superseded, AloneW!leases, AloneW!server, AloneW!room
<1>6. \A p : Alone!Ordinary(p) <=> AloneW!Ordinary(p)
  BY <1>1, <1>2, <1>4 DEF Alone!Ordinary, Alone!Sweep, Alone!Bury, Alone!Superseded, Alone!Later,
         Alone!Due, Alone!Finished, Alone!Mentioned, Alone!Consume, Alone!leases, Alone!server,
         Alone!room, AloneW!Ordinary, AloneW!Sweep, AloneW!Bury, AloneW!Superseded,
         AloneW!Later, AloneW!Due, AloneW!Finished, AloneW!Mentioned, AloneW!Consume, AloneW!leases,
         AloneW!server, AloneW!room
<1>7. \A c : Alone!Arrive(c) <=> AloneW!Arrive(c)
  BY <1>2, <1>3, <1>4 DEF Alone!Arrive, Alone!Resumes, Alone!Refuse, Alone!Sweep, Alone!Reply,
         Alone!Acquire, Alone!Superseded, Alone!Begin, Alone!Mentioned, Alone!Due, Alone!Finished,
         Alone!Write, Alone!Notify, Alone!Other, Alone!Err, Alone!Bury,
         Alone!leases, Alone!server, Alone!room, AloneW!Arrive, AloneW!Resumes,
         AloneW!Refuse, AloneW!Sweep, AloneW!Reply, AloneW!Acquire,
         AloneW!Superseded, AloneW!Begin, AloneW!Mentioned, AloneW!Due, AloneW!Finished,
         AloneW!Write, AloneW!Notify, AloneW!Other, AloneW!Err, AloneW!Bury,
         AloneW!leases, AloneW!server, AloneW!room
<1>8. \A c : Alone!Serve(c) <=> AloneW!Serve(c)
  <2>1. \A c : Alone!Go(c) <=> AloneW!Go(c)
    BY DEF Alone!Go, Alone!Stop, Alone!Tell, Alone!Others, Alone!Cancelled,
         Alone!Leave, Alone!Finish, Alone!Keep, Alone!Reply, Alone!Consume,
         Alone!Due, Alone!Finished, Alone!Mentioned, Alone!leases, Alone!room, AloneW!Go,
         AloneW!Stop, AloneW!Tell, AloneW!Others, AloneW!Cancelled, AloneW!Leave,
         AloneW!Finish, AloneW!Keep, AloneW!Reply, AloneW!Consume, AloneW!Due, AloneW!Finished,
         AloneW!Mentioned, AloneW!leases, AloneW!room
  <2>2. \A c : Alone!GoOn(c) <=> AloneW!GoOn(c)
    <3>1. \A c : Alone!Heartbeat(c) <=> AloneW!Heartbeat(c)
      BY DEF Alone!Heartbeat, Alone!Cancelled, Alone!Leave, Alone!Finish, Alone!Keep,
         Alone!Reply, Alone!Due, Alone!Finished, Alone!Mentioned, Alone!room, AloneW!Heartbeat,
         AloneW!Cancelled, AloneW!Leave, AloneW!Finish, AloneW!Keep, AloneW!Reply,
         AloneW!Due, AloneW!Finished, AloneW!Mentioned, AloneW!room
    <3>2. \A c : (Alone!Stop(c) <=> AloneW!Stop(c)) /\ (Alone!Tell(c) <=> AloneW!Tell(c))
      BY DEF Alone!Stop, Alone!Tell, Alone!Cancelled, Alone!Leave, Alone!Finish,
         Alone!Reply, Alone!Consume, Alone!room, AloneW!Stop, AloneW!Tell,
         AloneW!Cancelled, AloneW!Leave, AloneW!Finish, AloneW!Reply,
         AloneW!Consume, AloneW!room
    <3>. QED
      BY <3>1, <3>2 DEF Alone!GoOn, Alone!Others, Alone!Cancelled, Alone!Released, Alone!Due, Alone!Finished,
         Alone!Mentioned, Alone!leases, Alone!room, AloneW!GoOn, AloneW!Others,
         AloneW!Cancelled, AloneW!Released, AloneW!Due, AloneW!Finished, AloneW!Mentioned,
         AloneW!leases, AloneW!room
  <2>. QED
    BY <1>5, <1>7, <2>1, <2>2 DEF Alone!Serve, Alone!Wake, Alone!Timeout, Alone!Resend, Alone!Deadline,
         Alone!Cancelled, Alone!leases, Alone!server, Alone!room, AloneW!Serve,
         AloneW!Wake, AloneW!Timeout, AloneW!Resend, AloneW!Deadline,
         AloneW!Cancelled, AloneW!leases, AloneW!server, AloneW!room
<1>9. Alone!Next <=> AloneW!Next
  BY <1>2, <1>6, <1>8 DEF Alone!Next, Alone!Repeat, Alone!GiveUp, Alone!Lose, Alone!Abandon,
         Alone!Call, Alone!Later, Alone!OtherMoves, Alone!OtherResigns, Alone!Finished, Alone!OtherSpeaks,
         Alone!Archive, Alone!Tick, Alone!Restart, Alone!Write, Alone!Notify,
         Alone!Other, Alone!NoWaiter, Alone!Leave, Alone!Finish, Alone!Others,
         Alone!leases, Alone!server, Alone!room, AloneW!Next, AloneW!Repeat,
         AloneW!GiveUp, AloneW!Lose, AloneW!Abandon, AloneW!Call, AloneW!Later,
         AloneW!OtherMoves, AloneW!OtherResigns, AloneW!Finished, AloneW!OtherSpeaks, AloneW!Archive, AloneW!Tick,
         AloneW!Restart, AloneW!Write, AloneW!Notify, AloneW!Other,
         AloneW!NoWaiter, AloneW!Leave, AloneW!Finish, AloneW!Others,
         AloneW!leases, AloneW!server, AloneW!room
<1>. QED
  BY <1>2, <1>9 DEF Alone!Init, Alone!NoEntry, Alone!Other, Alone!vars, Alone!leases,
         Alone!server, Alone!room, AloneW!Init, AloneW!NoEntry, AloneW!Other,
         AloneW!vars, AloneW!leases, AloneW!server, AloneW!room

LEMMA CrowdSame ==
  /\ Crowd!Init <=> CrowdW!Init
  /\ Crowd!Next <=> CrowdW!Next
  /\ Crowd!vars = CrowdW!vars
<1>1. \A S : Crowd!Cardinality(S) = CrowdW!Cardinality(S)
  BY DEF Crowd!Cardinality, CrowdW!Cardinality
<1>2. Crowd!NoEntry = CrowdW!NoEntry /\ Crowd!Swept = CrowdW!Swept /\ Crowd!Ended = CrowdW!Ended
  BY DEF Crowd!NoEntry, Crowd!Present, Crowd!Cutoff, Crowd!Expired, Crowd!Swept,
         Crowd!Ended, CrowdW!NoEntry, CrowdW!Present, CrowdW!Cutoff,
         CrowdW!Expired, CrowdW!Swept, CrowdW!Ended
<1>3. \A p, gen : Crowd!Replaces(p, gen) <=> CrowdW!Replaces(p, gen)
  BY <1>1, <1>2 DEF Crowd!Replaces, CrowdW!Replaces
<1>4. \A p, gen : Crowd!Refused(p, gen) <=> CrowdW!Refused(p, gen)
  BY <1>2 DEF Crowd!Refused, Crowd!Cutoff, CrowdW!Refused, CrowdW!Cutoff
<1>5. \A c : Crowd!Close(c) <=> CrowdW!Close(c)
  BY <1>1, <1>2, <1>4 DEF Crowd!Close, Crowd!Sweep, Crowd!Bury, Crowd!Superseded, Crowd!leases,
         Crowd!server, Crowd!room, CrowdW!Close, CrowdW!Sweep, CrowdW!Bury,
         CrowdW!Superseded, CrowdW!leases, CrowdW!server, CrowdW!room
<1>6. \A p : Crowd!Ordinary(p) <=> CrowdW!Ordinary(p)
  BY <1>1, <1>2, <1>4 DEF Crowd!Ordinary, Crowd!Sweep, Crowd!Bury, Crowd!Superseded, Crowd!Later,
         Crowd!Due, Crowd!Finished, Crowd!Mentioned, Crowd!Consume, Crowd!leases, Crowd!server,
         Crowd!room, CrowdW!Ordinary, CrowdW!Sweep, CrowdW!Bury, CrowdW!Superseded,
         CrowdW!Later, CrowdW!Due, CrowdW!Finished, CrowdW!Mentioned, CrowdW!Consume, CrowdW!leases,
         CrowdW!server, CrowdW!room
<1>7. \A c : Crowd!Arrive(c) <=> CrowdW!Arrive(c)
  BY <1>2, <1>3, <1>4 DEF Crowd!Arrive, Crowd!Resumes, Crowd!Refuse, Crowd!Sweep, Crowd!Reply,
         Crowd!Acquire, Crowd!Superseded, Crowd!Begin, Crowd!Mentioned, Crowd!Due, Crowd!Finished,
         Crowd!Write, Crowd!Notify, Crowd!Other, Crowd!Err, Crowd!Bury,
         Crowd!leases, Crowd!server, Crowd!room, CrowdW!Arrive, CrowdW!Resumes,
         CrowdW!Refuse, CrowdW!Sweep, CrowdW!Reply, CrowdW!Acquire,
         CrowdW!Superseded, CrowdW!Begin, CrowdW!Mentioned, CrowdW!Due, CrowdW!Finished,
         CrowdW!Write, CrowdW!Notify, CrowdW!Other, CrowdW!Err, CrowdW!Bury,
         CrowdW!leases, CrowdW!server, CrowdW!room
<1>8. \A c : Crowd!Serve(c) <=> CrowdW!Serve(c)
  <2>1. \A c : Crowd!Go(c) <=> CrowdW!Go(c)
    BY DEF Crowd!Go, Crowd!Stop, Crowd!Tell, Crowd!Others, Crowd!Cancelled,
         Crowd!Leave, Crowd!Finish, Crowd!Keep, Crowd!Reply, Crowd!Consume,
         Crowd!Due, Crowd!Finished, Crowd!Mentioned, Crowd!leases, Crowd!room, CrowdW!Go,
         CrowdW!Stop, CrowdW!Tell, CrowdW!Others, CrowdW!Cancelled, CrowdW!Leave,
         CrowdW!Finish, CrowdW!Keep, CrowdW!Reply, CrowdW!Consume, CrowdW!Due, CrowdW!Finished,
         CrowdW!Mentioned, CrowdW!leases, CrowdW!room
  <2>2. \A c : Crowd!GoOn(c) <=> CrowdW!GoOn(c)
    <3>1. \A c : Crowd!Heartbeat(c) <=> CrowdW!Heartbeat(c)
      BY DEF Crowd!Heartbeat, Crowd!Cancelled, Crowd!Leave, Crowd!Finish, Crowd!Keep,
         Crowd!Reply, Crowd!Due, Crowd!Finished, Crowd!Mentioned, Crowd!room, CrowdW!Heartbeat,
         CrowdW!Cancelled, CrowdW!Leave, CrowdW!Finish, CrowdW!Keep, CrowdW!Reply,
         CrowdW!Due, CrowdW!Finished, CrowdW!Mentioned, CrowdW!room
    <3>2. \A c : (Crowd!Stop(c) <=> CrowdW!Stop(c)) /\ (Crowd!Tell(c) <=> CrowdW!Tell(c))
      BY DEF Crowd!Stop, Crowd!Tell, Crowd!Cancelled, Crowd!Leave, Crowd!Finish,
         Crowd!Reply, Crowd!Consume, Crowd!room, CrowdW!Stop, CrowdW!Tell,
         CrowdW!Cancelled, CrowdW!Leave, CrowdW!Finish, CrowdW!Reply,
         CrowdW!Consume, CrowdW!room
    <3>. QED
      BY <3>1, <3>2 DEF Crowd!GoOn, Crowd!Others, Crowd!Cancelled, Crowd!Released, Crowd!Due, Crowd!Finished,
         Crowd!Mentioned, Crowd!leases, Crowd!room, CrowdW!GoOn, CrowdW!Others,
         CrowdW!Cancelled, CrowdW!Released, CrowdW!Due, CrowdW!Finished, CrowdW!Mentioned,
         CrowdW!leases, CrowdW!room
  <2>. QED
    BY <1>5, <1>7, <2>1, <2>2 DEF Crowd!Serve, Crowd!Wake, Crowd!Timeout, Crowd!Resend, Crowd!Deadline,
         Crowd!Cancelled, Crowd!leases, Crowd!server, Crowd!room, CrowdW!Serve,
         CrowdW!Wake, CrowdW!Timeout, CrowdW!Resend, CrowdW!Deadline,
         CrowdW!Cancelled, CrowdW!leases, CrowdW!server, CrowdW!room
<1>9. Crowd!Next <=> CrowdW!Next
  BY <1>2, <1>6, <1>8 DEF Crowd!Next, Crowd!Repeat, Crowd!GiveUp, Crowd!Lose, Crowd!Abandon,
         Crowd!Call, Crowd!Later, Crowd!OtherMoves, Crowd!OtherResigns, Crowd!Finished, Crowd!OtherSpeaks,
         Crowd!Archive, Crowd!Tick, Crowd!Restart, Crowd!Write, Crowd!Notify,
         Crowd!Other, Crowd!NoWaiter, Crowd!Leave, Crowd!Finish, Crowd!Others,
         Crowd!leases, Crowd!server, Crowd!room, CrowdW!Next, CrowdW!Repeat,
         CrowdW!GiveUp, CrowdW!Lose, CrowdW!Abandon, CrowdW!Call, CrowdW!Later,
         CrowdW!OtherMoves, CrowdW!OtherResigns, CrowdW!Finished, CrowdW!OtherSpeaks, CrowdW!Archive, CrowdW!Tick,
         CrowdW!Restart, CrowdW!Write, CrowdW!Notify, CrowdW!Other,
         CrowdW!NoWaiter, CrowdW!Leave, CrowdW!Finish, CrowdW!Others,
         CrowdW!leases, CrowdW!server, CrowdW!room
<1>. QED
  BY <1>2, <1>9 DEF Crowd!Init, Crowd!NoEntry, Crowd!Other, Crowd!vars, Crowd!leases,
         Crowd!server, Crowd!room, CrowdW!Init, CrowdW!NoEntry, CrowdW!Other,
         CrowdW!vars, CrowdW!leases, CrowdW!server, CrowdW!room

LEMMA WaitConstants == AloneW!ConstantsOK /\ CrowdW!ConstantsOK
  BY ServicesAssumption DEF AloneW!ConstantsOK, CrowdW!ConstantsOK, AloneW!Other, CrowdW!Other,
         IsFiniteSet, AloneW!IsFiniteSet, CrowdW!IsFiniteSet

\* What WaitsProofs keeps, and what follows from it.
AloneGood == AloneW!Inv /\ AloneW!Armed

LEMMA AloneStarts == ASSUME Alone!Init PROVE AloneGood
<1>1. AloneW!Init
  BY AloneSame
<1>2. AloneW!Inv
  BY <1>1, WaitConstants, AloneW!InitHolds
<1>3. AloneW!Armed
  <2>1. \A c \in Chains : handler[c] = "none"
    BY <1>1 DEF AloneW!Init
  <2>2. cursor \in [OneMachine -> Nat]
    BY <1>1 DEF AloneW!Init
  <2>. QED
    BY <2>1, <2>2 DEF AloneW!Armed, AloneW!SleeperArmed
<1>. QED
  BY <1>2, <1>3 DEF AloneGood

LEMMA AloneGoes == ASSUME AloneGood, [Alone!Next]_(Alone!vars) PROVE AloneGood' /\ Alone!CancelKept
<1>1. [AloneW!Next]_(AloneW!vars)
  BY AloneSame DEF Alone!vars, Alone!leases, Alone!server, Alone!room, AloneW!vars,
         AloneW!leases, AloneW!server, AloneW!room
<1>2. AloneW!Inv /\ AloneW!Armed
  BY DEF AloneGood
<1>3. AloneW!Inv' /\ AloneW!CancelKept
  BY <1>1, <1>2, WaitConstants, AloneW!StepKeeps
<1>4. AloneW!Wakes /\ AloneW!Reads
  BY <1>1, <1>2, WaitConstants, AloneW!StepWakes
<1>5. AloneW!Armed'
  BY <1>2, <1>3, <1>4, WaitConstants, AloneW!ArmedKeeps DEF AloneW!Reads
<1>6. Alone!CancelKept
  BY <1>3 DEF Alone!CancelKept, AloneW!CancelKept
<1>. QED
  BY <1>3, <1>5, <1>6 DEF AloneGood

LEMMA AloneMeans == ASSUME AloneGood PROVE Alone!OneLiveWait /\ Alone!SleeperArmed
<1>1. AloneW!OneLiveWait
  BY DEF AloneGood, AloneW!Inv, AloneW!Leases, AloneW!Leased, AloneW!Counted, AloneW!Slotted, AloneW!MovedOnce,
         AloneW!OneLiveWait
<1>2. \A S : Alone!Cardinality(S) = AloneW!Cardinality(S)
  BY DEF Alone!Cardinality, AloneW!Cardinality
<1>3. Alone!OneLiveWait
  BY <1>1, <1>2 DEF Alone!OneLiveWait, Alone!Present, Alone!NoEntry, Alone!Holding,
         AloneW!OneLiveWait, AloneW!Present, AloneW!NoEntry, AloneW!Holding
<1>4. Alone!SleeperArmed
  BY DEF AloneGood, AloneW!Armed, Alone!SleeperArmed, Alone!Due, Alone!Finished, Alone!Mentioned, Alone!Cancelled,
         AloneW!SleeperArmed, AloneW!Due, AloneW!Finished, AloneW!Mentioned, AloneW!Cancelled
<1>. QED
  BY <1>3, <1>4

\* What WaitsProofs keeps, and what follows from it.
CrowdGood == CrowdW!Inv /\ CrowdW!Armed

LEMMA CrowdStarts == ASSUME Crowd!Init PROVE CrowdGood
<1>1. CrowdW!Init
  BY CrowdSame
<1>2. CrowdW!Inv
  BY <1>1, WaitConstants, CrowdW!InitHolds
<1>3. CrowdW!Armed
  <2>1. \A c \in Chains : handler[c] = "none"
    BY <1>1 DEF CrowdW!Init
  <2>2. cursor \in [TwoMachines -> Nat]
    BY <1>1 DEF CrowdW!Init
  <2>. QED
    BY <2>1, <2>2 DEF CrowdW!Armed, CrowdW!SleeperArmed
<1>. QED
  BY <1>2, <1>3 DEF CrowdGood

LEMMA CrowdGoes == ASSUME CrowdGood, [Crowd!Next]_(Crowd!vars) PROVE CrowdGood' /\ Crowd!CancelKept
<1>1. [CrowdW!Next]_(CrowdW!vars)
  BY CrowdSame DEF Crowd!vars, Crowd!leases, Crowd!server, Crowd!room, CrowdW!vars,
         CrowdW!leases, CrowdW!server, CrowdW!room
<1>2. CrowdW!Inv /\ CrowdW!Armed
  BY DEF CrowdGood
<1>3. CrowdW!Inv' /\ CrowdW!CancelKept
  BY <1>1, <1>2, WaitConstants, CrowdW!StepKeeps
<1>4. CrowdW!Wakes /\ CrowdW!Reads
  BY <1>1, <1>2, WaitConstants, CrowdW!StepWakes
<1>5. CrowdW!Armed'
  BY <1>2, <1>3, <1>4, WaitConstants, CrowdW!ArmedKeeps DEF CrowdW!Reads
<1>6. Crowd!CancelKept
  BY <1>3 DEF Crowd!CancelKept, CrowdW!CancelKept
<1>. QED
  BY <1>3, <1>5, <1>6 DEF CrowdGood

LEMMA CrowdMeans == ASSUME CrowdGood PROVE Crowd!OneLiveWait /\ Crowd!SleeperArmed
<1>1. CrowdW!OneLiveWait
  BY DEF CrowdGood, CrowdW!Inv, CrowdW!Leases, CrowdW!Leased, CrowdW!Counted, CrowdW!Slotted, CrowdW!MovedOnce,
         CrowdW!OneLiveWait
<1>2. \A S : Crowd!Cardinality(S) = CrowdW!Cardinality(S)
  BY DEF Crowd!Cardinality, CrowdW!Cardinality
<1>3. Crowd!OneLiveWait
  BY <1>1, <1>2 DEF Crowd!OneLiveWait, Crowd!Present, Crowd!NoEntry, Crowd!Holding,
         CrowdW!OneLiveWait, CrowdW!Present, CrowdW!NoEntry, CrowdW!Holding
<1>4. Crowd!SleeperArmed
  BY DEF CrowdGood, CrowdW!Armed, Crowd!SleeperArmed, Crowd!Due, Crowd!Finished, Crowd!Mentioned, Crowd!Cancelled,
         CrowdW!SleeperArmed, CrowdW!Due, CrowdW!Finished, CrowdW!Mentioned, CrowdW!Cancelled
<1>. QED
  BY <1>3, <1>4

WaitsHold ==
  /\ part = "one wait" => AloneGood
  /\ part = "two waits" => CrowdGood

LEMMA WaitsHoldStep ==
  ASSUME WaitsHold, [PartsNext]_parts
  PROVE  /\ WaitsHold'
         /\ part = "one wait" => Alone!CancelKept
         /\ part = "two waits" => Crowd!CancelKept
<1>1. part' = part
  BY PartStays
<1>2. part = "one wait" => [Alone!Next]_(Alone!vars)
  BY DEF PartsNext, Exchanging, Playing, Dealing, Waiting, TakingOver, Telling, parts, waits,
         Alone!vars, Alone!leases, Alone!server, Alone!room
<1>3. part = "two waits" => [Crowd!Next]_(Crowd!vars)
  BY DEF PartsNext, Exchanging, Playing, Dealing, Waiting, TakingOver, Telling, parts, waits,
         Crowd!vars, Crowd!leases, Crowd!server, Crowd!room
<1>. QED
  BY <1>1, <1>2, <1>3, AloneGoes, CrowdGoes DEF WaitsHold

LEMMA WaitsAlways == PartsSpec => []WaitsHold
<1>1. PartsInit => WaitsHold
  BY AloneStarts, CrowdStarts DEF PartsInit, WaitsHold
<1>. QED
  BY <1>1, WaitsHoldStep, PTL DEF PartsSpec

\* Of all calls of a machine one waits, in either instance: every number of
\* machines, calls, slots and entries, every lease, any request lost, late or
\* repeated (wait_control.py:44-85, main.py:209-218).
THEOREM OneLiveWaitEver == PartsSpec => []OneLiveWait
<1>1. WaitsHold => OneLiveWait
  BY AloneMeans, CrowdMeans DEF WaitsHold, OneLiveWait
<1>. QED
  BY <1>1, WaitsAlways, PTL

\* Nobody sleeps through news (main.py:168-182, 1018-1080).
THEOREM SleeperArmedEver == PartsSpec => []SleeperArmed
<1>1. WaitsHold => SleeperArmed
  BY AloneMeans, CrowdMeans DEF WaitsHold, SleeperArmed
<1>. QED
  BY <1>1, WaitsAlways, PTL

\* A cancelled call stays cancelled (wait_control.py:44-85).
THEOREM CancelledForGood == PartsSpec => CancelIsFinal
<1>1. WaitsHold /\ [PartsNext]_parts => [part = "one wait" => Alone!CancelKept]_parts
  BY WaitsHoldStep
<1>2. WaitsHold /\ [PartsNext]_parts => [part = "two waits" => Crowd!CancelKept]_parts
  BY WaitsHoldStep
<1>. QED
  BY <1>1, <1>2, WaitsAlways, PTL DEF PartsSpec, CancelIsFinal
-----------------------------------------------------------------------------
(* Notices.                                                                *)

Rows == [event : NoticeEvents, read : BOOLEAN]

\* No response is newer than the box, and the watermark is one of its rows.
BellTypes ==
  /\ box \in Seq(Rows)
  /\ revision \in Nat /\ latest \in Int /\ latest <= revision
  /\ \A a \in answers : a.revision \in Nat /\ a.revision <= revision
  /\ watermark \in Nat /\ watermark <= Len(box)

BellInv == BellTypes /\ Bell!UnreadHonest

\* What is not read is a set of rows of the box.
LEMMA UnreadRows == ASSUME BellTypes PROVE Bell!Unread \subseteq 1..Len(box) /\ Len(box) \in Nat
<1>1. Len(box) \in Nat /\ DOMAIN box = 1..Len(box)
  BY DEF BellTypes
<1>. QED
  BY <1>1 DEF Bell!Unread

\* Reading rows takes them from what is unread, and the revision tells.
LEMMA ReadTakes ==
  ASSUME BellTypes, NEW rows, Bell!Read(rows)
  PROVE  /\ box' \in Seq(Rows) /\ Len(box') = Len(box)
         /\ Bell!Unread' = Bell!Unread \ rows
         /\ revision' \in {revision, revision + 1}
         /\ revision' = revision => Bell!Unread' = Bell!Unread
<1>1. Len(box) \in Nat /\ DOMAIN box = 1..Len(box)
  BY DEF BellTypes
<1>2. box' = [i \in 1..Len(box) |-> [box[i] EXCEPT !.read = box[i].read \/ i \in rows]]
  BY <1>1 DEF Bell!Read
<1>3. ASSUME NEW i \in 1..Len(box)
      PROVE  /\ box'[i] \in Rows
             /\ box'[i].read <=> box[i].read \/ i \in rows
  <2>1. box[i] \in Rows
    BY <1>1 DEF BellTypes
  <2>2. box'[i] = [box[i] EXCEPT !.read = box[i].read \/ i \in rows]
    BY <1>2
  <2>. QED
    BY <2>1, <2>2 DEF Rows
<1>4. box' \in Seq(Rows) /\ Len(box') = Len(box)
  <2>1. box' \in [1..Len(box) -> Rows]
    BY <1>2, <1>3
  <2>. QED
    BY <1>1, <2>1
<1>5. Bell!Unread' = Bell!Unread \ rows
  BY <1>1, <1>3, <1>4 DEF Bell!Unread
<1>6. revision \in Nat
  BY DEF BellTypes
<1>. QED
  BY <1>4, <1>5, <1>6 DEF Bell!Read

\* A step that reads and tells, and leaves the browser alone.
LEMMA ListedKeeps ==
  ASSUME BellInv, NEW rows, Bell!Read(rows), told \subseteq told',
         UNCHANGED <<subject, watermark, answers, latest, badge, shown>>
  PROVE  BellInv'
<1>1. BellTypes
  BY DEF BellInv
<1>2. /\ box' \in Seq(Rows) /\ Len(box') = Len(box)
      /\ Bell!Unread' = Bell!Unread \ rows
      /\ revision' \in {revision, revision + 1}
      /\ revision' = revision => Bell!Unread' = Bell!Unread
  BY <1>1, ReadTakes
<1>3. BellTypes'
  BY <1>1, <1>2 DEF BellTypes
<1>4. revision' # revision => /\ latest' # revision' /\ \A a \in answers' : a.revision # revision'
  BY <1>1, <1>2 DEF BellTypes
<1>5. /\ latest' = revision' => badge' = Bell!Cardinality(Bell!Unread')
      /\ \A a \in answers' : a.revision = revision' => a.count = Bell!Cardinality(Bell!Unread')
  BY <1>2, <1>4 DEF BellInv, Bell!UnreadHonest
<1>6. subject' = "ai" => {i \in Bell!Unread' : i <= watermark'} \subseteq told'
  BY <1>2 DEF BellInv, Bell!UnreadHonest
<1>. QED
  BY <1>3, <1>5, <1>6 DEF BellInv, Bell!UnreadHonest

\* A response with the counts of the moment is on its way.
LEMMA AcknowledgeKeeps ==
  ASSUME BellInv, subject = "human", NEW rows, Bell!Acknowledge(rows)
  PROVE  BellInv'
<1>1. BellTypes
  BY DEF BellInv
<1>2. /\ box' \in Seq(Rows) /\ Len(box') = Len(box)
      /\ Bell!Unread' = Bell!Unread \ rows
      /\ revision' \in {revision, revision + 1}
      /\ revision' = revision => Bell!Unread' = Bell!Unread
  BY <1>1, ReadTakes DEF Bell!Acknowledge
<1> DEFINE answer == [revision |-> revision', count |-> Bell!Cardinality(Bell!Unread \ rows), rows |-> {}]
<1>3. /\ answers' = answers \cup {answer}
      /\ UNCHANGED <<subject, latest, badge, watermark, told>>
  BY DEF Bell!Acknowledge, Bell!machine
<1>4. answer.revision = revision' /\ answer.count = Bell!Cardinality(Bell!Unread')
  BY <1>2
<1> HIDE DEF answer
<1>5. BellTypes'
  BY <1>1, <1>2, <1>3, <1>4 DEF BellTypes
<1>6. revision' # revision => /\ latest' # revision' /\ \A a \in answers : a.revision # revision'
  BY <1>1, <1>2, <1>3 DEF BellTypes
<1>7. latest' = revision' => badge' = Bell!Cardinality(Bell!Unread')
  BY <1>2, <1>3, <1>6 DEF BellInv, Bell!UnreadHonest
<1>8. \A a \in answers' : a.revision = revision' => a.count = Bell!Cardinality(Bell!Unread')
  BY <1>2, <1>3, <1>4, <1>6 DEF BellInv, Bell!UnreadHonest
<1>. QED
  BY <1>3, <1>5, <1>7, <1>8 DEF BellInv, Bell!UnreadHonest

LEMMA BellStep == ASSUME BellInv, [Bell!Next]_(Bell!vars) PROVE BellInv'
<1>1. ASSUME NEW event \in NoticeEvents, Bell!Post(event) PROVE BellInv'
  <2>1. /\ revision' = revision + 1
        /\ box' = Append(box, [event |-> event, read |-> FALSE])
        /\ UNCHANGED <<subject, answers, latest, badge, shown, watermark, told>>
    BY <1>1 DEF Bell!Post, Bell!browser, Bell!machine
  <2>2. Len(box) \in Nat /\ Len(box') = Len(box) + 1
    BY <2>1 DEF BellInv, BellTypes
  <2>3. BellTypes'
    BY <2>1, <2>2 DEF BellInv, BellTypes, Rows
  <2>4. latest' # revision' /\ \A a \in answers' : a.revision # revision'
    BY <2>1 DEF BellInv, BellTypes
  <2>5. \A i \in Bell!Unread' : i <= watermark' => i \in Bell!Unread
    BY <2>1, <2>2 DEF BellInv, BellTypes, Bell!Unread
  <2>. QED
    BY <2>1, <2>3, <2>4, <2>5 DEF BellInv, Bell!UnreadHonest
<1>2. ASSUME NEW inbox \in BOOLEAN, subject = "human", Bell!Fetch(inbox) PROVE BellInv'
  <2>1. PICK answer :
          /\ answers' = answers \cup {answer}
          /\ answer.revision = revision /\ answer.count = Bell!Cardinality(Bell!Unread)
    <3>1. \E rows : answers' = answers \cup {Bell!State(rows)}
      BY <1>2 DEF Bell!Fetch
    <3>2. \A rows : /\ Bell!State(rows).revision = revision
                    /\ Bell!State(rows).count = Bell!Cardinality(Bell!Unread)
      BY DEF Bell!State
    <3>. QED
      BY <3>1, <3>2
  <2>2. UNCHANGED <<subject, box, revision, latest, badge, shown, watermark, told>>
    BY <1>2 DEF Bell!Fetch, Bell!machine
  <2>3. Bell!Unread' = Bell!Unread
    BY <2>2 DEF Bell!Unread
  <2>4. BellTypes'
    BY <2>1, <2>2 DEF BellInv, BellTypes
  <2>. QED
    BY <2>1, <2>2, <2>3, <2>4 DEF BellInv, Bell!UnreadHonest
<1>3. ASSUME subject = "human", NEW answer \in answers, Bell!Arrive(answer) PROVE BellInv'
  <2>1. /\ answers' \subseteq answers
        /\ \/ latest' = answer.revision /\ badge' = answer.count
           \/ UNCHANGED <<latest, badge>>
        /\ UNCHANGED <<subject, box, revision, watermark, told>>
    BY <1>3 DEF Bell!Arrive, Bell!machine
  <2>2. Bell!Unread' = Bell!Unread
    BY <2>1 DEF Bell!Unread
  <2>3. BellTypes'
    BY <2>1 DEF BellInv, BellTypes
  <2>. QED
    BY <2>1, <2>2, <2>3 DEF BellInv, Bell!UnreadHonest
<1>4. CASE subject = "human" /\ (Bell!AckShown \/ \E category \in Bell!Categories : Bell!AckCategory(category))
  BY <1>4, AcknowledgeKeeps DEF Bell!AckShown, Bell!AckCategory
<1>5. CASE Bell!Attach
  <2>. DEFINE newest == Bell!Max(Bell!Unread \cup {0})
  <2>1. Bell!Unread \subseteq 1..Len(box) /\ Len(box) \in Nat
    BY UnreadRows DEF BellInv
  <2>2. newest \in Bell!Unread \cup {0}
    <3>1. Bell!Unread \cup {0} \subseteq 0..Len(box)
      BY <2>1
    <3>2. Max(Bell!Unread \cup {0}) \in Bell!Unread \cup {0}
      BY <2>1, <3>1, LargestNatural DEF Max
    <3>. QED
      BY <3>2 DEF Bell!Max, Max
  <2>3. /\ watermark' = newest /\ told' = told \cup Bell!Unread
        /\ UNCHANGED <<subject, box, revision, answers, latest, badge, shown>>
    BY <1>5 DEF Bell!Attach, Bell!browser
  <2> HIDE DEF newest
  <2>4. watermark' \in Nat /\ watermark' <= Len(box)
    BY <2>1, <2>2, <2>3
  <2>5. BellTypes'
    BY <2>3, <2>4 DEF BellInv, BellTypes
  <2>6. Bell!Unread' = Bell!Unread
    BY <2>3 DEF Bell!Unread
  <2>. QED
    BY <2>3, <2>5, <2>6 DEF BellInv, Bell!UnreadHonest
<1>6. ASSUME NEW category, Bell!Consume(category) PROVE BellInv'
  BY <1>6, ListedKeeps DEF Bell!Consume, Bell!browser
<1>7. ASSUME NEW category, NEW reference, Bell!Deliver(category, reference) PROVE BellInv'
  BY <1>7, ListedKeeps DEF Bell!Deliver, Bell!browser
<1>8. CASE UNCHANGED Bell!vars
  <2>1. UNCHANGED <<subject, box, revision, answers, latest, badge, shown, watermark, told>>
    BY <1>8 DEF Bell!vars
  <2>. QED
    BY <2>1 DEF BellInv, BellTypes, Bell!UnreadHonest, Bell!Unread
<1>. QED
  BY <1>1, <1>2, <1>3, <1>4, <1>5, <1>6, <1>7, <1>8 DEF Bell!Next

\* The box rests while another service moves.
BellHolds == part = "notices" => BellInv

LEMMA BellHoldsStep == ASSUME BellHolds, [PartsNext]_parts PROVE BellHolds'
<1>1. part' = part
  BY PartStays
<1>2. part = "notices" => [Bell!Next]_(Bell!vars)
  BY DEF PartsNext, Exchanging, Playing, Dealing, Waiting, TakingOver, Telling, parts, notices,
         Bell!vars
<1>. QED
  BY <1>1, <1>2, BellStep DEF BellHolds

LEMMA BellAlways == PartsSpec => []BellHolds
<1>1. PartsInit => BellHolds
  <2>1. ASSUME Bell!Init PROVE BellInv
    <3>1. box = <<>> /\ answers = {} /\ latest = -1 /\ revision = 0 /\ watermark = 0
      BY <2>1 DEF Bell!Init
    <3>2. Bell!Unread = {}
      BY <3>1 DEF Bell!Unread
    <3>. QED
      BY <3>1, <3>2 DEF BellInv, BellTypes, Bell!UnreadHonest
  <2>. QED
    BY <2>1 DEF PartsInit, BellHolds
<1>. QED
  BY <1>1, BellHoldsStep, PTL DEF PartsSpec

\* Whatever the order in which responses arrive: a badge of the current
\* revision counts what is unread, and the machine was told of everything
\* unread below its watermark (notifications.py:143-155, 490-532,
\* static/app.js:228-241).
THEOREM UnreadHonestEver == PartsSpec => []UnreadHonest
<1>1. BellHolds => UnreadHonest
  BY DEF BellHolds, BellInv, UnreadHonest
<1>. QED
  BY <1>1, BellAlways, PTL
=============================================================================
