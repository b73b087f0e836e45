---------------------------- MODULE TablesProofs -----------------------------
(***************************************************************************)
(* Proofs about the games of Tables, for every number of seats, every      *)
(* stake and every set of pieces that GamesAssumption admits: an invariant *)
(* of each game, that it holds when the table opens, that every play,      *)
(* chance and resignation keeps it, and what it implies.                   *)
(***************************************************************************)
EXTENDS Tables, SumLemmas, SequenceTheorems

T == INSTANCE Table

-----------------------------------------------------------------------------
(* The turn. *)

LEMMA Wraps ==
  ASSUME NEW n \in Nat \ {0}, NEW x \in 0..(2 * n - 1)
  PROVE  x % n = IF x < n THEN x ELSE x - n
  OBVIOUS

Ahead(n, p, S) == {k \in 1..n : (p + k) % n \in S}

\* How many seats q comes after p, p itself coming last.
Gap(n, p, q) == IF q > p THEN q - p ELSE q - p + n

\* A seat of S is reached, the first one, and p's own only when S holds no other.
LEMMA SeatMet ==
  ASSUME NEW n \in Nat \ {0}, NEW p \in 0..(n - 1), NEW S, NEW q \in S \cap (0..(n - 1))
  PROVE  /\ T!NextSeat(n, p, S) \in S
         /\ T!NextSeat(n, p, S) \in 0..(n - 1)
         /\ q # p => T!NextSeat(n, p, S) # p
         /\ Gap(n, p, T!NextSeat(n, p, S)) <= Gap(n, p, q)
<1> DEFINE d == IF q > p THEN q - p ELSE q - p + n
<1>1. d \in 1..n /\ p + d \in 0..(2 * n - 1) /\ (q # p => d # n)
  OBVIOUS
<1>2. (p + d) % n = q
  BY <1>1, Wraps
<1> HIDE DEF d
<1>3. Ahead(n, p, S) \in SUBSET Nat /\ d \in Ahead(n, p, S)
  BY <1>1, <1>2 DEF Ahead
<1>4. PICK k \in Ahead(n, p, S) : \A j \in Ahead(n, p, S) : k <= j
  BY <1>3, LeastNatural
<1>5. \E x \in 1..n : (p + x) % n \in S /\ \A j \in 1..(x - 1) : (p + j) % n \notin S
  <2>1. k \in 1..n /\ (p + k) % n \in S
    BY <1>4 DEF Ahead
  <2>2. ASSUME NEW j \in 1..(k - 1) PROVE (p + j) % n \notin S
    <3>1. j \in 1..n /\ j < k
      BY <2>1
    <3>2. (p + j) % n \in S => j \in Ahead(n, p, S)
      BY <3>1 DEF Ahead
    <3>. QED
      BY <3>1, <3>2, <1>4, <2>1
  <2>. QED
    BY <2>1, <2>2
<1> DEFINE c == CHOOSE x \in 1..n : (p + x) % n \in S /\ \A j \in 1..(x - 1) : (p + j) % n \notin S
<1>6. c \in 1..n /\ (p + c) % n \in S /\ \A j \in 1..(c - 1) : (p + j) % n \notin S
  BY <1>5
<1>7. T!NextSeat(n, p, S) = (p + c) % n
  BY DEF T!NextSeat
<1> HIDE DEF c
<1>8. c <= d
  BY <1>1, <1>2, <1>6
<1>9. (p + c) % n = IF p + c < n THEN p + c ELSE p + c - n
  <2> DEFINE x == p + c
  <2>1. x \in 0..(2 * n - 1)
    BY <1>6
  <2> HIDE DEF x
  <2>2. x % n = IF x < n THEN x ELSE x - n
    BY ONLY <2>1, n \in Nat \ {0}, Wraps
  <2>. QED
    BY <1>6, <2>2 DEF x
<1>10. d <= n /\ d = Gap(n, p, q)
  BY <1>1 DEF Gap, d
<1>11. T!NextSeat(n, p, S) \in 0..(n - 1) /\ Gap(n, p, T!NextSeat(n, p, S)) = c
  BY <1>6, <1>7, <1>9 DEF Gap
<1>. QED
  BY <1>1, <1>6, <1>7, <1>8, <1>9, <1>10, <1>11

-----------------------------------------------------------------------------
(* Sums and greatest values over the players. *)

LEMMA TotalScale ==
  ASSUME NEW S, IsFiniteSet(S), NEW k \in Int, NEW f, NEW e,
         \A x \in S : f[x] \in Int /\ e[x] = k * f[x]
  PROVE  Total(e, S) = k * Total(f, S)
<1> DEFINE D == {s \in SUBSET S : Total(e, s) = k * Total(f, s)}
<1>1. {} \in D
  BY TotalEmpty
<1>2. ASSUME NEW s \in SUBSET S, s # {}, \A x \in s : s \ {x} \in D PROVE s \in D
  <2>1. PICK x \in s : TRUE
    BY <1>2
  <2>2. IsFiniteSet(s) /\ IsFiniteSet(s \ {x})
    BY FS_Subset, FS_RemoveElement
  <2>3. \A y \in s : f[y] \in Int /\ e[y] \in Int
    OBVIOUS
  <2>4. Total(f, s) = f[x] + Total(f, s \ {x})
    BY <2>2, <2>3, TotalRemove
  <2>5. Total(e, s) = e[x] + Total(e, s \ {x})
    BY <2>2, <2>3, TotalRemove
  <2>6. Total(f, s \ {x}) \in Int
    BY <2>2, <2>3, TotalType
  <2>7. Total(e, s \ {x}) = k * Total(f, s \ {x})
    BY <1>2
  <2>. QED
    BY <2>3, <2>4, <2>5, <2>6, <2>7
<1> HIDE DEF D
<1>3. S \in D
  BY <1>1, <1>2, SubsetsInduction
<1>. QED
  BY <1>3 DEF D

LEMMA Highest ==
  ASSUME NEW S, IsFiniteSet(S), S # {}, NEW f, \A x \in S : f[x] \in Int
  PROVE  \E m \in S : \A y \in S : f[y] <= f[m]
<1> DEFINE D == {s \in SUBSET S : s # {} => \E m \in s : \A y \in s : f[y] <= f[m]}
<1>1. {} \in D
  OBVIOUS
<1>2. ASSUME NEW s \in SUBSET S, s # {}, \A x \in s : s \ {x} \in D PROVE s \in D
  <2>1. PICK x \in s : TRUE
    BY <1>2
  <2>2. CASE s \ {x} = {}
    BY <2>1, <2>2
  <2>3. CASE s \ {x} # {}
    <3>1. PICK m \in s \ {x} : \A y \in s \ {x} : f[y] <= f[m]
      BY <1>2, <2>3
    <3>. QED
      BY <2>1, <3>1
  <2>. QED
    BY <2>2, <2>3
<1> HIDE DEF D
<1>3. S \in D
  BY <1>1, <1>2, SubsetsInduction
<1>. QED
  BY <1>3 DEF D

LEMMA SeatsFinite ==
  ASSUME NEW n \in Nat PROVE IsFiniteSet(0..(n - 1)) /\ Cardinality(0..(n - 1)) = n
<1>1. 0 \in Int /\ n - 1 \in Int
  OBVIOUS
<1>. QED
  BY <1>1, FS_Interval

LEMMA CountFinite ==
  ASSUME NEW n \in Nat PROVE IsFiniteSet(1..n) /\ Cardinality(1..n) = n
<1>1. 1 \in Int /\ n \in Int
  OBVIOUS
<1>. QED
  BY <1>1, FS_Interval

\* One, or two different ones.
LEMMA OneOrTwo ==
  ASSUME NEW S, IsFiniteSet(S), S # {}
  PROVE  /\ Cardinality(S) \in Nat /\ Cardinality(S) >= 1
         /\ Cardinality(S) = 1 <=> \E x \in S : S = {x}
         /\ Cardinality(S) # 1 => \E x, y \in S : x # y
<1>1. Cardinality(S) \in Nat
  BY FS_CardinalityType
<1>2. Cardinality(S) # 0
  BY FS_EmptySet
<1>3. Cardinality(S) = 1 <=> \E x \in S : S = {x}
  <2>1. Cardinality(S) = 1 <=> \E x : S = {x}
    BY FS_Singleton
  <2>. QED
    BY <2>1
<1>. QED
  BY <1>1, <1>2, <1>3

LEMMA SeatIn ==
  ASSUME NEW n \in Nat \ {0}, NEW p \in 0..(n - 1), NEW S \in SUBSET (0..(n - 1)), S # {}
  PROVE  T!NextSeat(n, p, S) \in S
<1>1. PICK q \in S : q \in 0..(n - 1)
  OBVIOUS
<1>. QED
  BY <1>1, SeatMet

\* One seat takes a stake from each of the others.
LEMMA WinnerTakes ==
  ASSUME NEW n \in Nat \ {0}, NEW stake \in Nat, NEW w \in 0..(n - 1), NEW d,
         \A q \in 0..(n - 1) : d[q] = IF q = w THEN stake * (n - 1) ELSE -stake
  PROVE  Total(d, 0..(n - 1)) = 0
<1> DEFINE P == 0..(n - 1)
<1>1. IsFiniteSet(P) /\ Cardinality(P) = n
  BY SeatsFinite
<1>2. w \in P /\ d[w] = stake * (n - 1) /\ \A q \in P \ {w} : d[q] = -stake
  OBVIOUS
<1>3. -stake \in Int /\ stake * (n - 1) \in Int
  OBVIOUS
<1> HIDE DEF P
<1>4. IsFiniteSet(P \ {w}) /\ Cardinality(P \ {w}) = n - 1
  BY <1>1, <1>2, FS_RemoveElement
<1> DEFINE R == P \ {w}
<1>5. R \in SUBSET R /\ R \ R = {} /\ \A x \in R \ R : d[x] \in Int
  OBVIOUS
<1>6. IsFiniteSet(R) /\ Cardinality(R) = n - 1 /\ \A x \in R : d[x] = -stake
  BY <1>2, <1>4
<1>7. \A x \in P : d[x] \in Int
  BY <1>2, <1>3
<1> HIDE DEF R
<1>8. Total(d, R) = Cardinality(R) * (-stake) + Total(d, R \ R)
  BY <1>3, <1>5, <1>6, TotalLevels
<1>9. Total(d, R \ R) = 0
  BY <1>5, TotalEmpty
<1>10. Total(d, P) = d[w] + Total(d, R)
  BY <1>1, <1>2, <1>7, TotalRemove DEF R
<1>11. Total(d, R) = (n - 1) * (-stake)
  BY <1>6, <1>8, <1>9
<1>12. Total(d, P) = 0
  BY <1>2, <1>10, <1>11
<1>. QED
  BY <1>12 DEF P

-----------------------------------------------------------------------------
(* Zhajinhua. *)

LEMMA GoldenNames ==
  /\ \A S : Golden!Cardinality(S) = Cardinality(S)
  /\ \A f, S : Golden!Total(f, S) = Total(f, S)
  /\ \A n, p, S : Golden!NextSeat(n, p, S) = T!NextSeat(n, p, S)
<1>1. \A S : Golden!Cardinality(S) = Cardinality(S)
  BY DEF Golden!Cardinality, Cardinality
<1>2. \A f, S : Golden!Total(f, S) = Total(f, S)
  BY DEF Golden!Total, Golden!MapThenSumSet, Golden!MapThenFoldSet, Total, MapThenSumSet, MapThenFoldSet
<1>3. \A n, p, S : Golden!NextSeat(n, p, S) = T!NextSeat(n, p, S)
  BY DEF Golden!NextSeat, T!NextSeat
<1>. QED
  BY <1>1, <1>2, <1>3

GoldenSeats == 0..(SeatCount - 1)
GoldenReasons == {"last_player_standing", "showdown", "resignation"}
GoldenEnds == [over : {TRUE}, winners : SUBSET GoldenSeats, reason : GoldenReasons,
               deltas : [GoldenSeats -> Int]]
GoldenStates ==
  [strength : [GoldenSeats -> HandRanks], turn : GoldenSeats,
   status : [GoldenSeats -> {"active", "folded", "compare_lost"}],
   seen : [GoldenSeats -> BOOLEAN], contribution : [GoldenSeats -> Int], pot : Int,
   unit : Nat, round : Nat, acted : SUBSET GoldenSeats,
   result : GoldenEnds \cup {[over |-> FALSE]}]

GoldenPaid(s) ==
  /\ s.pot = Total(s.contribution, GoldenSeats)
  /\ \A p \in GoldenSeats : s.contribution[p] \in 1..VirtualBudget

\* A hand under way has two players in it, one of them with the turn.
GoldenOpen(s) ==
  /\ s.result = [over |-> FALSE]
  /\ s.turn \in Golden!Active(s)
  /\ \E p, q \in Golden!Active(s) : p # q
  /\ s.round <= MaxRounds

GoldenBest(s, winners) ==
  /\ winners # {} /\ winners \subseteq Golden!Active(s)
  /\ \A p \in winners, q \in Golden!Active(s) : s.strength[q] <= s.strength[p]

GoldenEnded(s) ==
  /\ s.result \in GoldenEnds
  /\ GoldenBest(s, s.result.winners)
  /\ Total(s.result.deltas, GoldenSeats) = 0
  /\ \A p \in GoldenSeats : s.result.deltas[p] >= -(VirtualBudget * Stake)

GoldenInv(s) == s \in GoldenStates /\ GoldenPaid(s) /\ (GoldenOpen(s) \/ GoldenEnded(s))

LEMMA GoldenSettlement ==
  ASSUME GamesAssumption, NEW s \in GoldenStates, GoldenPaid(s), NEW winners, GoldenBest(s, winners)
  PROVE  /\ Golden!Deltas(s, winners) \in [GoldenSeats -> Int]
         /\ Total(Golden!Deltas(s, winners), GoldenSeats) = 0
         /\ \A p \in GoldenSeats : Golden!Deltas(s, winners)[p] >= -(VirtualBudget * Stake)
<1> DEFINE c == s.contribution  d == Golden!Deltas(s, winners)  P == GoldenSeats
<1>1. SeatCount \in Nat /\ Stake \in Nat /\ VirtualBudget \in Nat
  BY DEF GamesAssumption
<1>2. IsFiniteSet(P)
  BY <1>1, SeatsFinite DEF GoldenSeats
<1>3. \A p \in P : c[p] \in Int /\ c[p] \in 1..VirtualBudget
  BY DEF GoldenPaid
<1>4. winners \subseteq P /\ winners # {}
  BY DEF GoldenBest, Golden!Active, Golden!Players, GoldenSeats
<1>5. IsFiniteSet(winners)
  BY <1>2, <1>4, FS_Subset
<1>6. s.pot = Total(c, P) /\ s.pot \in Int
  BY DEF GoldenPaid, GoldenStates
<1>7. \A p \in P : d[p] = IF Cardinality(winners) > 1 THEN 0
                          ELSE IF p \in winners THEN (s.pot - c[p]) * Stake
                          ELSE -(c[p] * Stake)
  BY GoldenNames DEF Golden!Deltas, Golden!Players, GoldenSeats
<1>8. DOMAIN d = P
  BY DEF Golden!Deltas, Golden!Players, GoldenSeats
<1>9. d = [p \in P |-> d[p]]
  BY <1>8 DEF Golden!Deltas, Golden!Players, GoldenSeats
<1> HIDE DEF c, d, P
<1>10. CASE Cardinality(winners) > 1
  <2>1. \A p \in P : d[p] = 0
    BY <1>7, <1>10
  <2>2. Total(d, P) = 0
    BY <1>2, <2>1, TotalZero
  <2>3. -(VirtualBudget * Stake) \in Int /\ 0 >= -(VirtualBudget * Stake)
    BY <1>1
  <2>. QED
    BY <1>9, <2>1, <2>2, <2>3 DEF d, P
<1>11. CASE ~(Cardinality(winners) > 1)
  <2>1. PICK w \in winners : winners = {w}
    BY <1>4, <1>5, <1>11, OneOrTwo
  <2>2. w \in P
    BY <1>4, <2>1
  <2>3. \A p \in P \ {w} : d[p] = (-Stake) * c[p]
    BY <1>1, <1>3, <1>7, <1>11, <2>1
  <2>4. d[w] = (s.pot - c[w]) * Stake
    BY <1>7, <1>11, <2>1, <2>2
  <2>5. IsFiniteSet(P \ {w})
    BY <1>2, FS_RemoveElement
  <2> DEFINE r == Total(c, P \ {w})
  <2>6. r \in Int
    BY <1>3, <2>5, TotalType
  <2>7. s.pot = c[w] + r
    BY <1>2, <1>3, <1>6, <2>2, TotalRemove
  <2>8. Total(d, P \ {w}) = (-Stake) * r
    <3>1. -Stake \in Int
      BY <1>1
    <3>2. \A p \in P \ {w} : c[p] \in Int
      BY <1>3
    <3>. QED
      BY <2>3, <2>5, <3>1, <3>2, TotalScale
  <2> HIDE DEF r
  <2>9. d[w] = r * Stake
    BY <1>3, <2>2, <2>4, <2>6, <2>7
  <2>10. \A p \in P : d[p] \in Int
    BY <1>1, <1>3, <2>2, <2>3, <2>6, <2>9
  <2>11. Total(d, P) = d[w] + Total(d, P \ {w})
    BY <1>2, <2>2, <2>10, TotalRemove
  <2>12. Total(d, P) = 0
    BY <1>1, <2>6, <2>8, <2>9, <2>11
  <2>13. r \in Nat
    <3>1. \A p \in P \ {w} : c[p] \in Nat
      BY <1>3
    <3>. QED
      BY <2>5, <3>1, TotalNatural DEF r
  <2>14. \A p \in P : d[p] >= -(VirtualBudget * Stake)
    <3>1. d[w] >= -(VirtualBudget * Stake)
      BY <1>1, <2>9, <2>13
    <3>2. ASSUME NEW p \in P \ {w} PROVE d[p] >= -(VirtualBudget * Stake)
      <4>1. d[p] = -(c[p] * Stake) /\ c[p] \in Nat /\ c[p] <= VirtualBudget
        BY <1>1, <1>3, <2>3
      <4>2. c[p] * Stake <= VirtualBudget * Stake
        BY <1>1, <4>1
      <4>. QED
        BY <1>1, <4>1, <4>2
    <3>. QED
      BY <3>1, <3>2
  <2>. QED
    BY <1>9, <2>10, <2>12, <2>14 DEF d, P
<1>. QED
  BY <1>10, <1>11

LEMMA GoldenFinish ==
  ASSUME GamesAssumption, NEW s \in GoldenStates, GoldenPaid(s), NEW winners,
         GoldenBest(s, winners), NEW reason \in GoldenReasons
  PROVE  GoldenInv(Golden!Finish(s, winners, reason))
<1> DEFINE t == Golden!Finish(s, winners, reason)
          d == Golden!Deltas(s, winners)
<1>1. t = [s EXCEPT !.result = [over |-> TRUE, winners |-> winners, reason |-> reason,
                                deltas |-> d]]
  BY DEF Golden!Finish
<1>2. d \in [GoldenSeats -> Int] /\ Total(d, GoldenSeats) = 0
      /\ \A p \in GoldenSeats : d[p] >= -(VirtualBudget * Stake)
  BY GoldenSettlement
<1> HIDE DEF d, t
<1>3. winners \in SUBSET GoldenSeats
  BY DEF GoldenBest, Golden!Active, Golden!Players, GoldenSeats
<1>4. t.result = [over |-> TRUE, winners |-> winners, reason |-> reason, deltas |-> d]
      /\ t.result \in GoldenEnds
  BY <1>1, <1>2, <1>3 DEF GoldenEnds, GoldenStates
<1>5. t \in GoldenStates /\ t.pot = s.pot /\ t.contribution = s.contribution
      /\ t.status = s.status /\ t.strength = s.strength
  BY <1>1, <1>4 DEF GoldenStates
<1>6. GoldenPaid(t)
  BY <1>5 DEF GoldenPaid
<1>7. GoldenBest(t, winners)
  BY <1>5 DEF GoldenBest, Golden!Active
<1>8. GoldenEnded(t)
  BY <1>2, <1>4, <1>7 DEF GoldenEnded
<1>. QED
  BY <1>5, <1>6, <1>8 DEF GoldenInv, t

LEMMA GoldenAlone ==
  ASSUME NEW s \in GoldenStates, Cardinality(Golden!Active(s)) = 1, IsFiniteSet(Golden!Active(s)),
         GamesAssumption
  PROVE  GoldenBest(s, Golden!Active(s))
<1>1. PICK w : Golden!Active(s) = {w}
  BY FS_Singleton
<1>2. w \in GoldenSeats
  BY <1>1 DEF Golden!Active, Golden!Players, GoldenSeats
<1>3. s.strength[w] \in Int
  BY <1>2 DEF GoldenStates, GamesAssumption
<1>. QED
  BY <1>1, <1>3 DEF GoldenBest

LEMMA GoldenActive ==
  ASSUME GamesAssumption, NEW s
  PROVE  Golden!Active(s) \subseteq GoldenSeats /\ IsFiniteSet(Golden!Active(s))
<1>1. IsFiniteSet(GoldenSeats)
  BY SeatsFinite DEF GamesAssumption, GoldenSeats
<1>. QED
  BY <1>1, FS_Subset DEF Golden!Active, Golden!Players, GoldenSeats

GoldenAt(s, a, r, q) == [s EXCEPT !.acted = a, !.round = r, !.turn = q]

LEMMA GoldenMoved ==
  ASSUME NEW s \in GoldenStates, GoldenPaid(s), NEW a \in SUBSET GoldenSeats, NEW r \in Nat,
         NEW q \in GoldenSeats
  PROVE  LET t == GoldenAt(s, a, r, q)
         IN /\ t \in GoldenStates /\ GoldenPaid(t) /\ Golden!Active(t) = Golden!Active(s)
            /\ t.strength = s.strength /\ t.result = s.result /\ t.turn = q /\ t.round = r
<1> DEFINE t == GoldenAt(s, a, r, q)
<1>1. /\ t \in GoldenStates /\ t.pot = s.pot /\ t.contribution = s.contribution
      /\ t.status = s.status /\ t.strength = s.strength /\ t.result = s.result
      /\ t.turn = q /\ t.round = r
  BY DEF GoldenStates, GoldenAt
<1> HIDE DEF t
<1>. QED
  BY <1>1 DEF GoldenPaid, Golden!Active, t

\* What a counted turn leaves is a hand under way or one that is settled.
LEMMA GoldenComplete ==
  ASSUME GamesAssumption, NEW s \in GoldenStates, GoldenPaid(s), s.result = [over |-> FALSE],
         s.round <= MaxRounds, Golden!Active(s) # {}, NEW p \in GoldenSeats
  PROVE  GoldenInv(Golden!CompleteTurn(s, p))
<1> DEFINE active == Golden!Active(s)
          acted == (s.acted \union {p}) \intersect active
          next == Golden!NextSeat(SeatCount, p, active)
<1>1. active \subseteq GoldenSeats /\ IsFiniteSet(active) /\ active # {}
  BY GoldenActive
<1>2. next \in active /\ next \in GoldenSeats
  <2>1. PICK q \in active : q \in 0..(SeatCount - 1)
    BY <1>1 DEF GoldenSeats
  <2>2. SeatCount \in Nat \ {0}
    BY DEF GamesAssumption
  <2>3. T!NextSeat(SeatCount, p, active) \in active /\ T!NextSeat(SeatCount, p, active) \in 0..(SeatCount - 1)
    BY <2>1, <2>2, SeatMet DEF GoldenSeats
  <2>. QED
    BY <2>3, GoldenNames DEF GoldenSeats
<1>3. acted \in SUBSET GoldenSeats
  BY <1>1
<1>4. Golden!CompleteTurn(s, p) =
        IF Cardinality(active) = 1 THEN Golden!Finish(s, active, "last_player_standing")
        ELSE IF ~(active \subseteq acted) THEN [[s EXCEPT !.acted = acted] EXCEPT !.turn = next]
        ELSE IF s.round >= MaxRounds
        THEN Golden!Finish([s EXCEPT !.acted = acted], Golden!Best(s.strength, active), "showdown")
        ELSE [[s EXCEPT !.acted = {}, !.round = @ + 1] EXCEPT !.turn = next]
  BY GoldenNames DEF Golden!CompleteTurn
<1>6. s.round \in Nat /\ s.turn \in GoldenSeats
  BY DEF GoldenStates
<1>7. Cardinality(active) # 1 => \E x, y \in active : x # y
  BY <1>1, OneOrTwo
<1> HIDE DEF active, acted, next
<1>8. CASE Cardinality(active) = 1
  <2>1. GoldenBest(s, active)
    BY <1>1, <1>8, GoldenAlone DEF active
  <2>2. Golden!CompleteTurn(s, p) = Golden!Finish(s, active, "last_player_standing")
    BY <1>4, <1>8
  <2>3. GoldenInv(Golden!Finish(s, active, "last_player_standing"))
    BY <2>1, GoldenFinish DEF GoldenReasons
  <2>. QED
    BY <2>2, <2>3
<1>9. CASE Cardinality(active) # 1 /\ ~(active \subseteq acted)
  <2> DEFINE t == GoldenAt(s, acted, s.round, next)
  <2>1. Golden!CompleteTurn(s, p) = t
    <3>1. [[s EXCEPT !.acted = acted] EXCEPT !.turn = next] = t
      BY DEF GoldenStates, GoldenAt
    <3>. QED
      BY <1>4, <1>9, <3>1
  <2>2. /\ t \in GoldenStates /\ GoldenPaid(t) /\ Golden!Active(t) = active
        /\ t.result = [over |-> FALSE] /\ t.turn = next /\ t.round = s.round
    <3>1. t = GoldenAt(s, acted, s.round, next)
      OBVIOUS
    <3> HIDE DEF t
    <3>2. /\ t \in GoldenStates /\ GoldenPaid(t) /\ Golden!Active(t) = Golden!Active(s)
          /\ t.strength = s.strength /\ t.result = s.result /\ t.turn = next /\ t.round = s.round
      BY <1>2, <1>3, <1>6, <3>1, GoldenMoved
    <3>. QED
      BY <3>2 DEF active
  <2> HIDE DEF t
  <2>3. GoldenOpen(t)
    BY <1>2, <1>7, <1>9, <2>2 DEF GoldenOpen
  <2>. QED
    BY <2>1, <2>2, <2>3 DEF GoldenInv
<1>10. CASE Cardinality(active) # 1 /\ active \subseteq acted /\ s.round >= MaxRounds
  <2> DEFINE t == GoldenAt(s, acted, s.round, s.turn)
            best == Golden!Best(s.strength, active)
  <2>1. [s EXCEPT !.acted = acted] = t
    BY DEF GoldenStates, GoldenAt
  <2>2. /\ t \in GoldenStates /\ GoldenPaid(t) /\ Golden!Active(t) = active
        /\ t.strength = s.strength
    <3>1. t = GoldenAt(s, acted, s.round, s.turn)
      OBVIOUS
    <3> HIDE DEF t
    <3>2. /\ t \in GoldenStates /\ GoldenPaid(t) /\ Golden!Active(t) = Golden!Active(s)
          /\ t.strength = s.strength /\ t.result = s.result /\ t.turn = s.turn /\ t.round = s.round
      BY <1>3, <1>6, <3>1, GoldenMoved
    <3>. QED
      BY <3>2 DEF active
  <2>3. Golden!CompleteTurn(s, p) = Golden!Finish(t, best, "showdown")
    BY <1>4, <1>10, <2>1
  <2> HIDE DEF t
  <2>4. best = {x \in active : \A y \in active : s.strength[y] <= s.strength[x]}
    BY DEF Golden!Best
  <2>5. \A x \in active : s.strength[x] \in Int
    BY <1>1 DEF GoldenStates, GamesAssumption
  <2>6. best # {}
    BY <1>1, <2>4, <2>5, Highest
  <2> HIDE DEF best
  <2>7. GoldenBest(t, best)
    BY <2>2, <2>4, <2>6 DEF GoldenBest
  <2>8. GoldenInv(Golden!Finish(t, best, "showdown"))
    BY <2>2, <2>7, GoldenFinish DEF GoldenReasons
  <2>. QED
    BY <2>3, <2>8
<1>11. CASE Cardinality(active) # 1 /\ active \subseteq acted /\ ~(s.round >= MaxRounds)
  <2> DEFINE t == GoldenAt(s, {}, s.round + 1, next)
  <2>1. Golden!CompleteTurn(s, p) = t
    <3>1. [[s EXCEPT !.acted = {}, !.round = @ + 1] EXCEPT !.turn = next] = t
      BY DEF GoldenStates, GoldenAt
    <3>. QED
      BY <1>4, <1>11, <3>1
  <2>2. /\ t \in GoldenStates /\ GoldenPaid(t) /\ Golden!Active(t) = active
        /\ t.result = [over |-> FALSE] /\ t.turn = next /\ t.round = s.round + 1
    <3>1. {} \in SUBSET GoldenSeats /\ s.round + 1 \in Nat
      BY <1>6
    <3>2. t = GoldenAt(s, {}, s.round + 1, next)
      OBVIOUS
    <3> HIDE DEF t
    <3>3. /\ t \in GoldenStates /\ GoldenPaid(t) /\ Golden!Active(t) = Golden!Active(s)
          /\ t.strength = s.strength /\ t.result = s.result /\ t.turn = next /\ t.round = s.round + 1
      BY <1>2, <3>1, <3>2, GoldenMoved
    <3>. QED
      BY <3>3 DEF active
  <2> HIDE DEF t
  <2>3. s.round + 1 <= MaxRounds
    BY <1>6, <1>11 DEF GamesAssumption
  <2>4. GoldenOpen(t)
    BY <1>2, <1>7, <1>11, <2>2, <2>3 DEF GoldenOpen
  <2>. QED
    BY <2>1, <2>2, <2>4 DEF GoldenInv
<1>. QED
  BY <1>8, <1>9, <1>10, <1>11


\* A charge that the budget admits, with a unit and the players still in.
GoldenPlay(s, p, cost, unit, status) ==
  [s EXCEPT !.contribution[p] = @ + cost, !.pot = @ + cost, !.unit = unit, !.status = status]

LEMMA GoldenPlayed ==
  ASSUME GamesAssumption, NEW s \in GoldenStates, GoldenPaid(s), NEW p \in GoldenSeats,
         NEW cost \in Nat, s.contribution[p] + cost <= VirtualBudget, NEW unit \in Nat,
         NEW status \in [GoldenSeats -> {"active", "folded", "compare_lost"}]
  PROVE  LET t == GoldenPlay(s, p, cost, unit, status)
         IN /\ t \in GoldenStates /\ GoldenPaid(t) /\ t.strength = s.strength
            /\ t.result = s.result /\ t.turn = s.turn /\ t.round = s.round /\ t.status = status
<1> DEFINE b == s.contribution  c == [b EXCEPT ![p] = @ + cost]
          t == GoldenPlay(s, p, cost, unit, status)
<1>0. b \in [GoldenSeats -> Int] /\ s.pot \in Int /\ b[p] + cost \in Int /\ s.pot + cost \in Int
  BY DEF GoldenStates
<1>1. /\ t \in GoldenStates /\ t.strength = s.strength /\ t.pot = s.pot + cost
      /\ t.result = s.result /\ t.turn = s.turn /\ t.round = s.round /\ t.status = status
      /\ t.contribution = c
  <2>1. c \in [GoldenSeats -> Int]
    BY <1>0
  <2>2. t = [s EXCEPT !.contribution = c, !.pot = s.pot + cost, !.unit = unit, !.status = status]
    BY DEF GoldenPlay
  <2> HIDE DEF t, c
  <2>. QED
    BY <1>0, <2>1, <2>2 DEF GoldenStates
<1> HIDE DEF t
<1>2. /\ c[p] = b[p] + cost /\ \A q \in GoldenSeats \ {p} : c[q] = b[q]
      /\ \A q \in GoldenSeats : b[q] \in Int /\ c[q] \in Int
  BY <1>0
<1> HIDE DEF b, c
<1>3. IsFiniteSet(GoldenSeats)
  BY SeatsFinite DEF GamesAssumption, GoldenSeats
<1>4. Total(c, GoldenSeats) = Total(b, GoldenSeats) + c[p] - b[p]
  <2>1. \A q \in GoldenSeats : b[q] \in Int
    BY <1>2
  <2>2. c[p] \in Int /\ \A q \in GoldenSeats \ {p} : c[q] = b[q]
    BY <1>2
  <2>. QED
    BY <1>3, <2>1, <2>2, TotalUpdate
<1>5. Total(b, GoldenSeats) \in Int
  BY <1>2, <1>3, TotalType
<1>6. t.pot = Total(c, GoldenSeats)
  BY <1>1, <1>2, <1>4, <1>5 DEF GoldenPaid, b
<1>7. \A q \in GoldenSeats : c[q] \in 1..VirtualBudget
  BY <1>2 DEF GoldenPaid, b
<1>. QED
  BY <1>1, <1>6, <1>7 DEF GoldenPaid, t

\* A player pays and the turn is counted, as long as somebody is still in.
LEMMA GoldenTurn ==
  ASSUME GamesAssumption, GoldenInv(g), GoldenOpen(g), NEW p \in GoldenSeats,
         NEW cost \in Nat, g.contribution[p] + cost <= VirtualBudget, NEW unit \in Nat,
         NEW status \in [GoldenSeats -> {"active", "folded", "compare_lost"}],
         NEW q \in GoldenSeats, status[q] = "active"
  PROVE  GoldenInv(Golden!CompleteTurn(GoldenPlay(g, p, cost, unit, status), p))
<1> DEFINE t == GoldenPlay(g, p, cost, unit, status)
<1>1. g \in GoldenStates /\ GoldenPaid(g)
  BY DEF GoldenInv
<1>2. /\ t \in GoldenStates /\ GoldenPaid(t) /\ t.strength = g.strength
      /\ t.result = g.result /\ t.turn = g.turn /\ t.round = g.round /\ t.status = status
  BY <1>1, GoldenPlayed
<1> HIDE DEF t
<1>3. q \in Golden!Active(t)
  BY <1>2 DEF Golden!Active, Golden!Players, GoldenSeats
<1>4. t.result = [over |-> FALSE] /\ t.round <= MaxRounds /\ Golden!Active(t) # {}
  BY <1>2, <1>3 DEF GoldenOpen
<1>5. GoldenInv(Golden!CompleteTurn(t, p))
  BY <1>2, <1>4, GoldenComplete
<1>. QED
  BY <1>5 DEF t

GoldenFolding(s, p) == [s EXCEPT !.status[p] = "folded", !.acted = @ \ {p}]

LEMMA GoldenFolded ==
  ASSUME GamesAssumption, NEW s \in GoldenStates, GoldenPaid(s), NEW p \in GoldenSeats
  PROVE  LET t == GoldenFolding(s, p)
         IN /\ t \in GoldenStates /\ GoldenPaid(t) /\ Golden!Active(t) = Golden!Active(s) \ {p}
            /\ t.strength = s.strength /\ t.result = s.result /\ t.turn = s.turn
            /\ t.round = s.round
<1> DEFINE t == GoldenFolding(s, p)
<1>1. /\ t \in GoldenStates /\ t.pot = s.pot /\ t.contribution = s.contribution
      /\ t.status = [s.status EXCEPT ![p] = "folded"] /\ t.strength = s.strength
      /\ t.result = s.result /\ t.turn = s.turn /\ t.round = s.round
      /\ DOMAIN s.status = GoldenSeats
  BY DEF GoldenStates, GoldenFolding
<1> HIDE DEF t
<1>2. Golden!Active(t) = Golden!Active(s) \ {p}
  BY <1>1 DEF Golden!Active, Golden!Players, GoldenSeats
<1>. QED
  BY <1>1, <1>2 DEF GoldenPaid, t

\* What a resignation leaves is a hand under way or one that is settled.
LEMMA GoldenLeft ==
  ASSUME GamesAssumption, GoldenInv(g), GoldenOpen(g), NEW p \in Golden!Active(g),
         NEW h, h = IF Cardinality(Golden!Active(GoldenFolding(g, p))) = 1
                    THEN Golden!Finish(GoldenFolding(g, p), Golden!Active(GoldenFolding(g, p)),
                                       "resignation")
                    ELSE IF g.turn = p
                    THEN [GoldenFolding(g, p) EXCEPT
                            !.turn = T!NextSeat(SeatCount, p, Golden!Active(GoldenFolding(g, p)))]
                    ELSE GoldenFolding(g, p)
  PROVE  GoldenInv(h)
<1> DEFINE t == GoldenFolding(g, p)  active == Golden!Active(t)
<1>1. g \in GoldenStates /\ GoldenPaid(g) /\ p \in GoldenSeats
  BY DEF GoldenInv, Golden!Active, Golden!Players, GoldenSeats
<1>2. /\ t \in GoldenStates /\ GoldenPaid(t) /\ active = Golden!Active(g) \ {p}
      /\ t.strength = g.strength /\ t.result = g.result /\ t.turn = g.turn /\ t.round = g.round
  BY <1>1, GoldenFolded
<1>3. active # {} /\ active \subseteq GoldenSeats /\ IsFiniteSet(active)
  <2>1. active # {}
    BY <1>2 DEF GoldenOpen
  <2>. QED
    BY <2>1, GoldenActive
<1>4. h = IF Cardinality(active) = 1 THEN Golden!Finish(t, active, "resignation")
          ELSE IF g.turn = p THEN [t EXCEPT !.turn = T!NextSeat(SeatCount, p, active)] ELSE t
  OBVIOUS
<1> HIDE DEF t
<1>5. CASE Cardinality(active) = 1
  <2>1. GoldenBest(t, active)
    BY <1>2, <1>3, <1>5, GoldenAlone
  <2>2. GoldenInv(Golden!Finish(t, active, "resignation"))
    BY <1>2, <2>1, GoldenFinish DEF GoldenReasons
  <2>. QED
    BY <1>4, <1>5, <2>2
<1>6. CASE Cardinality(active) # 1
  <2>1. \E x, y \in active : x # y
    BY <1>3, <1>6, OneOrTwo
  <2>2. CASE g.turn = p
    <3> DEFINE next == T!NextSeat(SeatCount, p, active)
    <3>1. next \in active
      <4>1. PICK q \in active : q \in 0..(SeatCount - 1)
        BY <1>3 DEF GoldenSeats
      <4>2. SeatCount \in Nat \ {0} /\ p \in 0..(SeatCount - 1)
        BY <1>1 DEF GamesAssumption, GoldenSeats
      <4>. QED
        BY <4>1, <4>2, SeatMet
    <3>2. next \in GoldenSeats
      BY <1>3, <3>1
    <3> HIDE DEF next
    <3>3. /\ h \in GoldenStates /\ h.pot = t.pot /\ h.contribution = t.contribution
          /\ h.status = t.status /\ h.result = t.result /\ h.turn = next /\ h.round = t.round
      <4>1. h = [t EXCEPT !.turn = next]
        BY <1>4, <1>6, <2>2 DEF next
      <4>. QED
        BY <1>2, <3>2, <4>1 DEF GoldenStates
    <3>4. GoldenPaid(h)
      BY <1>2, <3>3 DEF GoldenPaid
    <3>5. Golden!Active(h) = active
      BY <3>3 DEF Golden!Active
    <3>6. GoldenOpen(h)
      BY <1>2, <2>1, <3>1, <3>3, <3>5 DEF GoldenOpen
    <3>. QED
      BY <3>3, <3>4, <3>6 DEF GoldenInv
  <2>3. CASE g.turn # p
    <3>1. h = t
      BY <1>4, <1>6, <2>3
    <3>2. GoldenOpen(t)
      BY <1>2, <2>1, <2>3 DEF GoldenOpen
    <3>. QED
      BY <1>2, <3>1, <3>2 DEF GoldenInv
  <2>. QED
    BY <2>2, <2>3
<1>. QED
  BY <1>5, <1>6

LEMMA GoldenInit ==
  ASSUME GamesAssumption, Golden!Init
  PROVE  GoldenInv(g)
<1> DEFINE P == GoldenSeats
<1>1. SeatCount \in Nat /\ SeatCount >= 2 /\ VirtualBudget \in Nat /\ VirtualBudget >= 1
      /\ MaxRounds \in Nat /\ MaxRounds >= 1
  BY DEF GamesAssumption
<1>2. PICK strength \in [P -> HandRanks] :
        g = [strength |-> strength, turn |-> 0, status |-> [p \in P |-> "active"],
             seen |-> [p \in P |-> FALSE], contribution |-> [p \in P |-> 1],
             pot |-> 1 * SeatCount, unit |-> 1, round |-> 1, acted |-> {}, result |-> [over |-> FALSE]]
  BY DEF Golden!Init, Golden!Players, Golden!Ante, Golden!NoResult, GoldenSeats
<1>3. 0 \in P /\ 1 \in P
  BY <1>1 DEF GoldenSeats
<1> DEFINE c == [p \in P |-> 1]
<1>4. Total(c, P) = SeatCount
  <2>1. IsFiniteSet(P) /\ Cardinality(P) = SeatCount
    BY <1>1, SeatsFinite DEF GoldenSeats
  <2>2. P \in SUBSET P /\ \A x \in P : c[x] = 1
    OBVIOUS
  <2>3. \A x \in P \ P : c[x] \in Int
    OBVIOUS
  <2>4. P \ P = {}
    OBVIOUS
  <2> HIDE DEF c, P
  <2>5. Total(c, P) = Cardinality(P) * 1 + Total(c, P \ P)
    BY <2>1, <2>2, <2>3, TotalLevels
  <2>6. Total(c, P \ P) = 0
    BY <2>4, TotalEmpty
  <2>. QED
    BY <1>1, <2>1, <2>5, <2>6
<1>5. g \in GoldenStates
  BY <1>1, <1>2, <1>3 DEF GoldenStates
<1>6. GoldenPaid(g)
  <2>1. g.contribution = c /\ g.pot = SeatCount
    BY <1>1, <1>2
  <2>. QED
    BY <1>1, <1>4, <2>1 DEF GoldenPaid
<1>7. GoldenOpen(g)
  <2>1. Golden!Active(g) = P /\ g.turn = 0 /\ g.round = 1 /\ g.result = [over |-> FALSE]
    BY <1>2 DEF Golden!Active, Golden!Players, GoldenSeats
  <2>. QED
    BY <1>1, <1>3, <2>1 DEF GoldenOpen
<1>. QED
  BY <1>5, <1>6, <1>7 DEF GoldenInv

LEMMA GoldenPreserved ==
  ASSUME GamesAssumption, GoldenInv(g), Golden!Next
  PROVE  GoldenInv(g')
<1>1. g \in GoldenStates /\ GoldenPaid(g)
  BY DEF GoldenInv
<1>2. PICK p \in GoldenSeats :
        \/ Golden!Peek(p) \/ Golden!Call(p) \/ Golden!Raise(p)
        \/ Golden!Compare(p) \/ Golden!Fold(p) \/ Golden!Resign(p)
  BY DEF Golden!Next, Golden!Players, GoldenSeats
<1>3. ~Golden!Over
  BY <1>2 DEF Golden!Peek, Golden!Call, Golden!Raise, Golden!Compare, Golden!Fold,
     Golden!Resign, Golden!MayAct
<1>4. GoldenOpen(g)
  BY <1>3 DEF GoldenInv, GoldenEnded, GoldenEnds, Golden!Over
<1>5. g.unit \in Nat /\ g.contribution[p] \in 1..VirtualBudget /\ g.seen[p] \in BOOLEAN
      /\ VirtualBudget \in Nat
      /\ g.status \in [GoldenSeats -> {"active", "folded", "compare_lost"}]
  BY <1>1 DEF GoldenStates, GoldenPaid, GamesAssumption
<1>6. \A unit \in Nat : Golden!Cost(g, p, unit) \in Nat
  BY <1>5 DEF Golden!Cost
<1>7. PICK x, y \in Golden!Active(g) : x # y
  BY <1>4 DEF GoldenOpen
<1>8. x \in GoldenSeats /\ g.status[x] = "active" /\ y \in GoldenSeats /\ g.status[y] = "active"
  BY <1>7 DEF Golden!Active, Golden!Players, GoldenSeats
<1>9. CASE Golden!Peek(p)
  <2>1. g' = [g EXCEPT !.seen[p] = TRUE]
    BY <1>9 DEF Golden!Peek
  <2>2. /\ g' \in GoldenStates /\ g'.pot = g.pot /\ g'.contribution = g.contribution
        /\ g'.status = g.status /\ g'.result = g.result /\ g'.turn = g.turn
        /\ g'.round = g.round
    BY <1>1, <2>1 DEF GoldenStates
  <2>3. GoldenPaid(g')
    BY <1>1, <2>2 DEF GoldenPaid
  <2>4. Golden!Active(g') = Golden!Active(g)
    BY <2>2 DEF Golden!Active
  <2>5. GoldenOpen(g')
    BY <1>4, <2>2, <2>4 DEF GoldenOpen
  <2>. QED
    BY <2>2, <2>3, <2>5 DEF GoldenInv
<1>10. CASE Golden!Call(p)
  <2> DEFINE cost == Golden!Cost(g, p, g.unit)
  <2>1. cost \in Nat
    BY <1>5, <1>6
  <2>2. g.contribution[p] + cost <= VirtualBudget
    BY <1>10 DEF Golden!Call, Golden!Affords
  <2>3. g' = Golden!CompleteTurn(Golden!Charge(g, p, cost), p)
    BY <1>10 DEF Golden!Call
  <2> HIDE DEF cost
  <2>4. Golden!Charge(g, p, cost) = GoldenPlay(g, p, cost, g.unit, g.status)
    BY <1>1 DEF Golden!Charge, GoldenPlay, GoldenStates
  <2>5. GoldenInv(Golden!CompleteTurn(GoldenPlay(g, p, cost, g.unit, g.status), p))
    BY <1>2, <1>4, <1>5, <1>8, <2>1, <2>2, GoldenTurn
  <2>. QED
    BY <2>3, <2>4, <2>5
<1>11. CASE Golden!Raise(p)
  <2>1. PICK unit \in Tiers :
          /\ Golden!Affords(g, p, Golden!Cost(g, p, unit))
          /\ g' = Golden!CompleteTurn([Golden!Charge(g, p, Golden!Cost(g, p, unit))
                                         EXCEPT !.unit = unit], p)
    BY <1>11 DEF Golden!Raise
  <2> DEFINE cost == Golden!Cost(g, p, unit)
  <2>2. unit \in Nat
    BY DEF GamesAssumption
  <2>3. cost \in Nat /\ g.contribution[p] + cost <= VirtualBudget
    BY <1>6, <2>1, <2>2 DEF Golden!Affords
  <2> HIDE DEF cost
  <2>4. [Golden!Charge(g, p, cost) EXCEPT !.unit = unit] = GoldenPlay(g, p, cost, unit, g.status)
    BY <1>1 DEF Golden!Charge, GoldenPlay, GoldenStates
  <2>5. GoldenInv(Golden!CompleteTurn(GoldenPlay(g, p, cost, unit, g.status), p))
    BY <1>2, <1>4, <1>5, <1>8, <2>2, <2>3, GoldenTurn
  <2>. QED
    BY <2>1, <2>4, <2>5 DEF cost
<1>12. CASE Golden!Compare(p)
  <2>1. PICK q \in Golden!Active(g) \ {p} :
          /\ g.status[p] = "active"
          /\ Golden!Affords(g, p, Golden!Cost(g, p, g.unit))
          /\ g' = Golden!CompleteTurn(
               [Golden!Charge(g, p, Golden!Cost(g, p, g.unit)) EXCEPT
                  !.status[IF g.strength[p] <= g.strength[q] THEN p ELSE q] = "compare_lost"], p)
    BY <1>12 DEF Golden!Compare, Golden!MayAct
  <2> DEFINE cost == Golden!Cost(g, p, g.unit)
            loser == IF g.strength[p] <= g.strength[q] THEN p ELSE q
            status == [g.status EXCEPT ![loser] = "compare_lost"]
  <2>2. cost \in Nat /\ g.contribution[p] + cost <= VirtualBudget
    BY <1>5, <1>6, <2>1 DEF Golden!Affords
  <2>3. q \in GoldenSeats /\ q # p /\ g.status[q] = "active"
    BY <2>1 DEF Golden!Active, Golden!Players, GoldenSeats
  <2>4. PICK u \in {p, q} : u # loser
    BY <2>3
  <2>5. loser \in GoldenSeats /\ u \in GoldenSeats /\ g.status[u] = "active"
    BY <1>2, <2>1, <2>3
  <2> HIDE DEF cost, loser
  <2>6. status \in [GoldenSeats -> {"active", "folded", "compare_lost"}] /\ status[u] = "active"
    BY <1>5, <2>4, <2>5
  <2>7. [Golden!Charge(g, p, cost) EXCEPT !.status[loser] = "compare_lost"]
          = GoldenPlay(g, p, cost, g.unit, status)
    BY <1>1 DEF Golden!Charge, GoldenPlay, GoldenStates
  <2> HIDE DEF status
  <2>8. GoldenInv(Golden!CompleteTurn(GoldenPlay(g, p, cost, g.unit, status), p))
    BY <1>2, <1>4, <1>5, <2>2, <2>5, <2>6, GoldenTurn
  <2>. QED
    BY <2>1, <2>7, <2>8 DEF cost, loser
<1>13. CASE Golden!Fold(p)
  <2> DEFINE status == [g.status EXCEPT ![p] = "folded"]
  <2>1. g' = Golden!CompleteTurn([g EXCEPT !.status[p] = "folded"], p)
    BY <1>13 DEF Golden!Fold
  <2>2. PICK u \in {x, y} : u # p
    BY <1>7
  <2>3. status \in [GoldenSeats -> {"active", "folded", "compare_lost"}] /\ status[u] = "active"
        /\ u \in GoldenSeats
    BY <1>5, <1>8, <2>2
  <2>4. [g EXCEPT !.status[p] = "folded"] = GoldenPlay(g, p, 0, g.unit, status)
    <3>1. g.pot + 0 = g.pot /\ g.contribution[p] + 0 = g.contribution[p]
      BY <1>1, <1>5 DEF GoldenStates
    <3>2. [g.contribution EXCEPT ![p] = g.contribution[p] + 0] = g.contribution
      BY <1>1, <3>1 DEF GoldenStates
    <3>3. [g EXCEPT !.status = status] = [g EXCEPT !.contribution = g.contribution,
             !.pot = g.pot, !.unit = g.unit, !.status = status]
      BY <1>1 DEF GoldenStates
    <3>. QED
      BY <3>1, <3>2, <3>3 DEF GoldenPlay
  <2>5. 0 \in Nat /\ g.contribution[p] + 0 <= VirtualBudget
    BY <1>5
  <2> HIDE DEF status
  <2>6. GoldenInv(Golden!CompleteTurn(GoldenPlay(g, p, 0, g.unit, status), p))
    BY <1>2, <1>4, <1>5, <2>3, <2>5, GoldenTurn
  <2>. QED
    BY <2>1, <2>4, <2>6
<1>14. CASE Golden!Resign(p)
  <2> DEFINE t == GoldenFolding(g, p)
  <2>1. p \in Golden!Active(g)
    BY <1>2, <1>14 DEF Golden!Resign, Golden!Active, Golden!Players, GoldenSeats
  <2>2. g' = IF Cardinality(Golden!Active(t)) = 1
             THEN Golden!Finish(t, Golden!Active(t), "resignation")
             ELSE IF g.turn = p
             THEN [t EXCEPT !.turn = T!NextSeat(SeatCount, p, Golden!Active(t))] ELSE t
    BY <1>14, GoldenNames DEF Golden!Resign, GoldenFolding
  <2>. QED
    BY <1>4, <2>1, <2>2, GoldenLeft
<1>. QED
  BY <1>2, <1>9, <1>10, <1>11, <1>12, <1>13, <1>14

LEMMA GoldenHonours ==
  ASSUME GamesAssumption, GoldenInv(g)
  PROVE  Golden!AskedMayAct /\ Golden!Settled /\ Golden!PotBacked
<1>1. Golden!PotBacked
  BY GoldenNames DEF GoldenInv, GoldenPaid, Golden!PotBacked, Golden!Players, Golden!Ante, GoldenSeats
<1>2. Golden!AskedMayAct
  BY DEF GoldenInv, GoldenOpen, GoldenEnded, GoldenEnds, Golden!AskedMayAct, Golden!Over
<1>3. Golden!Settled
  <2>1. SUFFICES ASSUME Golden!Over PROVE Golden!Settled
    BY DEF Golden!Settled
  <2>2. GoldenEnded(g)
    BY <2>1 DEF GoldenInv, GoldenOpen, Golden!Over
  <2>3. /\ g.result.winners # {} /\ g.result.winners \subseteq Golden!Active(g)
        /\ \A p \in g.result.winners, q \in Golden!Active(g) : g.strength[q] <= g.strength[p]
        /\ Total(g.result.deltas, GoldenSeats) = 0
        /\ \A p \in GoldenSeats : g.result.deltas[p] >= -(VirtualBudget * Stake)
    BY <2>2 DEF GoldenEnded, GoldenBest
  <2>4. \A p \in g.result.winners : g.status[p] = "active"
    BY <2>3 DEF Golden!Active
  <2>. QED
    BY <2>3, <2>4, GoldenNames DEF Golden!Settled, Golden!Players, GoldenSeats
<1>. QED
  BY <1>1, <1>2, <1>3

-----------------------------------------------------------------------------
(* Blackjack. *)

LEMMA DealerNames ==
  \A n, p, S : Dealer!NextSeat(n, p, S) = T!NextSeat(n, p, S)
<1>1. \A n, p, S : Dealer!NextSeat(n, p, S) = T!NextSeat(n, p, S)
  BY DEF Dealer!NextSeat, T!NextSeat
<1>. QED
  BY <1>1

DealerSeats == 0..(Couple - 1)
DealerCards == [hard : Nat, ace : BOOLEAN, cards : 0..3]
DealerOutcomes == {"win", "loss", "push"}
DealerEnds == [over : {TRUE}, outcome : [DealerSeats -> DealerOutcomes]]
DealerStatus == {"playing", "blackjack", "stood", "bust", "resigned"}
DealerStates ==
  [hand : [DealerSeats -> DealerCards], dealer : DealerCards,
   status : [DealerSeats -> DealerStatus], turn : DealerSeats,
   result : DealerEnds \cup {[over |-> FALSE]}]

\* A status tells what the hand is worth.
DealerMarked(hand, status) ==
  \A p \in DealerSeats :
    /\ status[p] = "bust" => Dealer!Bust(hand[p])
    /\ status[p] = "blackjack" => Dealer!Natural(hand[p])
    /\ status[p] \in {"playing", "stood"} => ~Dealer!Bust(hand[p])

DealerAsked(status, turn) ==
  \/ status[turn] = "playing"
  \/ (\A p \in DealerSeats : status[p] # "playing") /\ status[turn] = "blackjack"

DealerOpen(s) ==
  /\ s.result = [over |-> FALSE] /\ s.dealer.cards = 2
  /\ DealerAsked(s.status, s.turn)

DealerEnded(s) ==
  /\ s.result \in DealerEnds
  /\ \A p \in DealerSeats : s.status[p] # "playing"
  /\ ~Dealer!MustDraw(s.dealer)
  /\ s.result.outcome = [p \in DealerSeats |-> Dealer!Outcome(s, s.dealer, p)]

DealerInv(s) ==
  s \in DealerStates /\ DealerMarked(s.hand, s.status) /\ (DealerOpen(s) \/ DealerEnded(s))

LEMMA DealerValues ==
  ASSUME NEW h \in DealerCards
  PROVE  /\ Dealer!Value(h) \in Nat
         /\ Dealer!Natural(h) => ~Dealer!Bust(h) /\ Dealer!Value(h) = 21
  BY DEF DealerCards, Dealer!Value, Dealer!Natural, Dealer!Bust

LEMMA DealerAdds ==
  ASSUME GamesAssumption, NEW h \in DealerCards, NEW r \in CardRanks
  PROVE  /\ Dealer!Add(h, r) \in DealerCards
         /\ Dealer!Add(h, r).hard = h.hard + r
         /\ Dealer!Add(h, r).cards = IF h.cards < 3 THEN h.cards + 1 ELSE 3
<1>1. r \in 1..10
  BY DEF GamesAssumption
<1>. QED
  BY <1>1 DEF DealerCards, Dealer!Add

LEMMA DealerPairs ==
  ASSUME GamesAssumption, NEW h \in Dealer!Pairs
  PROVE  h \in DealerCards /\ h.cards = 2 /\ ~Dealer!Bust(h)
<1>1. PICK a \in CardRanks, b \in CardRanks : h = Dealer!Add(Dealer!Add(Dealer!Empty, a), b)
  BY DEF Dealer!Pairs
<1>2. a \in 1..10 /\ b \in 1..10
  BY DEF GamesAssumption
<1>3. Dealer!Empty \in DealerCards /\ Dealer!Empty.hard = 0 /\ Dealer!Empty.cards = 0
  BY DEF DealerCards, Dealer!Empty
<1> DEFINE e == Dealer!Add(Dealer!Empty, a)
<1>4. e \in DealerCards /\ e.hard = 0 + a /\ e.cards = 1
  BY <1>3, DealerAdds
<1> HIDE DEF e
<1>5. Dealer!Add(e, b) \in DealerCards /\ Dealer!Add(e, b).hard = e.hard + b
      /\ Dealer!Add(e, b).cards = 2
  BY <1>4, DealerAdds
<1>. QED
  BY <1>1, <1>2, <1>4, <1>5 DEF Dealer!Bust, e

-----------------------------------------------------------------------------
(* The draws of the dealer. *)

DealerMore(S) == S \cup {Dealer!Add(h, r) : h \in {k \in S : Dealer!MustDraw(k)}, r \in CardRanks}
DealerDraws(f, hand, m) ==
  /\ f \in [0..m -> SUBSET DealerCards]
  /\ f[0] = {hand}
  /\ \A n \in 1..m : f[n] = DealerMore(f[n - 1])

LEMMA DealerMoreTyped ==
  ASSUME GamesAssumption, NEW S \in SUBSET DealerCards
  PROVE  DealerMore(S) \in SUBSET DealerCards
  BY DealerAdds DEF DealerMore

LEMMA DealerDrawsExist ==
  ASSUME GamesAssumption, NEW hand \in DealerCards, NEW m \in Nat
  PROVE  \E f : DealerDraws(f, hand, m)
<1> DEFINE N == {k \in Nat : \E f : DealerDraws(f, hand, k)}
<1>1. 0 \in N
  <2> DEFINE f == [n \in 0..0 |-> {hand}]
  <2>1. DealerDraws(f, hand, 0)
    BY DEF DealerDraws
  <2>. QED
    BY <2>1
<1>2. ASSUME NEW k \in N PROVE k + 1 \in N
  <2>1. PICK f : DealerDraws(f, hand, k)
    OBVIOUS
  <2>2. k \in Nat /\ f \in [0..k -> SUBSET DealerCards] /\ f[0] = {hand}
        /\ \A n \in 1..k : f[n] = DealerMore(f[n - 1])
    BY <2>1 DEF DealerDraws
  <2> DEFINE last == DealerMore(f[k])
            e == [n \in 0..(k + 1) |-> IF n <= k THEN f[n] ELSE last]
  <2>3. last \in SUBSET DealerCards
    <3>1. f[k] \in SUBSET DealerCards
      BY <2>2
    <3>. QED
      BY <3>1, DealerMoreTyped
  <2>4. last = DealerMore(f[k])
    OBVIOUS
  <2> HIDE DEF last
  <2>5. e \in [0..(k + 1) -> SUBSET DealerCards] /\ e[0] = {hand}
    BY <2>2, <2>3
  <2>6. ASSUME NEW n \in 1..(k + 1) PROVE e[n] = DealerMore(e[n - 1])
    <3>1. CASE n <= k
      <4>1. e[n] = f[n] /\ e[n - 1] = f[n - 1]
        BY <2>2, <3>1
      <4>2. n \in 1..k
        BY <2>2, <3>1
      <4> HIDE DEF e
      <4>. QED
        BY <2>2, <4>1, <4>2
    <3>2. CASE n = k + 1
      <4>1. e[n] = last /\ e[n - 1] = f[k]
        BY <2>2, <3>2
      <4> HIDE DEF e
      <4>. QED
        BY <2>4, <4>1
    <3>. QED
      BY <2>2, <3>1, <3>2
  <2>7. DealerDraws(e, hand, k + 1)
    BY <2>5, <2>6 DEF DealerDraws
  <2>. QED
    BY <2>2, <2>7
<1> HIDE DEF N
<1>3. N = Nat
  <2>1. N \in SUBSET Nat
    BY DEF N
  <2>. QED
    BY <1>1, <1>2, <2>1, SetInduction
<1>. QED
  BY <1>3 DEF N

\* What the dealer ends with is a hand that stands.
LEMMA DealerStands ==
  ASSUME GamesAssumption, NEW hand \in DealerCards, NEW h \in Dealer!DealerHands(hand)
  PROVE  h \in DealerCards /\ ~Dealer!MustDraw(h)
<1> DEFINE Def(f) == f = [n \in 0..15 |-> IF n = 0 THEN {hand} ELSE DealerMore(f[n - 1])]
          it == CHOOSE f : Def(f)
<1>1. PICK f : DealerDraws(f, hand, 15)
  BY DealerDrawsExist
<1>2. Def(f)
  <2>1. f \in [0..15 -> SUBSET DealerCards] /\ f[0] = {hand}
        /\ \A n \in 1..15 : f[n] = DealerMore(f[n - 1])
    BY <1>1 DEF DealerDraws
  <2> DEFINE e == [n \in 0..15 |-> IF n = 0 THEN {hand} ELSE DealerMore(f[n - 1])]
  <2>2. \A n \in 0..15 : f[n] = e[n]
    BY <2>1
  <2>3. f = e
    <3>1. DOMAIN f = 0..15 /\ f = [n \in 0..15 |-> f[n]]
      BY <2>1
    <3>2. e = [n \in 0..15 |-> e[n]]
      OBVIOUS
    <3> HIDE DEF e
    <3>. QED
      BY <2>2, <3>1, <3>2
  <2>. QED
    BY <2>3
<1>3. Def(it)
  <2>1. \E k : Def(k)
    BY <1>2
  <2> HIDE DEF Def
  <2>. QED
    BY <2>1
<1>4. h \in it[15] /\ ~Dealer!MustDraw(h)
  BY DEF Dealer!DealerHands, DealerMore
<1>5. \A n \in 0..15 : it[n] = IF n = 0 THEN {hand} ELSE DealerMore(it[n - 1])
  <2> HIDE DEF it
  <2>1. it = [n \in 0..15 |-> IF n = 0 THEN {hand} ELSE DealerMore(it[n - 1])]
    BY <1>3
  <2>. QED
    BY <2>1, Zenon
<1> HIDE DEF it, Def
<1> DEFINE N == {n \in Nat : n <= 15 => it[n] \subseteq DealerCards}
<1>6. 0 \in N
  BY <1>5
<1>7. ASSUME NEW n \in N PROVE n + 1 \in N
  <2>1. SUFFICES ASSUME n + 1 <= 15 PROVE it[n + 1] \subseteq DealerCards
    OBVIOUS
  <2>2. it[n] \in SUBSET DealerCards /\ n \in Nat
    BY <2>1
  <2>3. it[n + 1] = DealerMore(it[n])
    <3>1. n + 1 \in 0..15 /\ n + 1 # 0 /\ (n + 1) - 1 = n
      BY <2>1, <2>2
    <3>. QED
      BY <1>5, <3>1
  <2>. QED
    BY <2>2, <2>3, DealerMoreTyped
<1>8. N = Nat
  <2>1. N \in SUBSET Nat
    OBVIOUS
  <2> HIDE DEF N
  <2>. QED
    BY <1>6, <1>7, <2>1, SetInduction
<1>9. it[15] \subseteq DealerCards
  <2>1. 15 \in N
    BY <1>8
  <2>. QED
    BY <2>1
<1>. QED
  BY <1>4, <1>9

-----------------------------------------------------------------------------

LEMMA DealerNext ==
  ASSUME GamesAssumption, NEW p \in DealerSeats, NEW s, Dealer!Playing(s) # {}
  PROVE  /\ Dealer!NextSeat(Couple, p, Dealer!Playing(s)) \in DealerSeats
         /\ s.status[Dealer!NextSeat(Couple, p, Dealer!Playing(s))] = "playing"
<1>1. Couple \in Nat \ {0}
  BY DEF GamesAssumption
<1>2. Dealer!Playing(s) \subseteq DealerSeats /\ \A q \in Dealer!Playing(s) : s.status[q] = "playing"
  BY DEF Dealer!Playing, Dealer!Players, DealerSeats
<1>3. Dealer!NextSeat(Couple, p, Dealer!Playing(s)) \in Dealer!Playing(s)
  BY <1>1, <1>2, SeatIn, DealerNames DEF DealerSeats
<1>. QED
  BY <1>2, <1>3

LEMMA DealerPlaying ==
  ASSUME NEW s
  PROVE  Dealer!Playing(s) = {} <=> \A p \in DealerSeats : s.status[p] # "playing"
  BY DEF Dealer!Playing, Dealer!Players, DealerSeats

LEMMA DealerSettles ==
  ASSUME GamesAssumption, NEW s \in DealerStates, DealerMarked(s.hand, s.status),
         Dealer!Playing(s) = {}, NEW t \in Dealer!Settle(s)
  PROVE  DealerInv(t)
<1>1. PICK dealer \in Dealer!DealerHands(s.dealer) :
        t = [s EXCEPT !.dealer = dealer,
                      !.result = [over |-> TRUE,
                                  outcome |-> [p \in Dealer!Players |-> Dealer!Outcome(s, dealer, p)]]]
  BY DEF Dealer!Settle
<1> DEFINE outcome == [p \in DealerSeats |-> Dealer!Outcome(s, dealer, p)]
           end == [over |-> TRUE, outcome |-> outcome]
<1>2. s.dealer \in DealerCards
  BY DEF DealerStates
<1>3. dealer \in DealerCards /\ ~Dealer!MustDraw(dealer)
  BY <1>2, DealerStands
<1>4. end \in DealerEnds
  <2>1. \A p \in DealerSeats : Dealer!Outcome(s, dealer, p) \in DealerOutcomes
    BY DEF Dealer!Outcome, DealerOutcomes
  <2>2. outcome \in [DealerSeats -> DealerOutcomes]
    BY <2>1
  <2> HIDE DEF outcome
  <2>. QED
    BY <2>2 DEF DealerEnds
<1>5. t = [s EXCEPT !.dealer = dealer, !.result = end]
  BY <1>1 DEF Dealer!Players, DealerSeats
<1>6. end.outcome = outcome
  OBVIOUS
<1> HIDE DEF end, outcome
<1>7. /\ t \in DealerStates /\ t.dealer = dealer /\ t.result = end /\ t.hand = s.hand
      /\ t.status = s.status
  BY <1>3, <1>4, <1>5 DEF DealerStates
<1>8. \A p \in DealerSeats : Dealer!Outcome(t, dealer, p) = Dealer!Outcome(s, dealer, p)
  BY <1>7 DEF Dealer!Outcome
<1>9. outcome = [p \in DealerSeats |-> Dealer!Outcome(t, t.dealer, p)]
  BY <1>7, <1>8 DEF outcome
<1>10. DealerEnded(t)
  BY <1>3, <1>4, <1>6, <1>7, <1>9, DealerPlaying DEF DealerEnded
<1>. QED
  BY <1>7, <1>10 DEF DealerInv

\* The turn is passed on from a seat that has just acted.
LEMMA DealerPassOn ==
  ASSUME GamesAssumption, NEW s \in DealerStates, DealerMarked(s.hand, s.status),
         s.result = [over |-> FALSE], s.dealer.cards = 2, NEW p \in DealerSeats, s.turn = p,
         NEW t \in Dealer!PassOn(s, p)
  PROVE  DealerInv(t)
<1>1. CASE s.status[p] = "playing"
  <2>1. t = s
    BY <1>1 DEF Dealer!PassOn
  <2>2. DealerOpen(s)
    BY <1>1 DEF DealerOpen, DealerAsked
  <2>. QED
    BY <2>1, <2>2 DEF DealerInv
<1>2. CASE s.status[p] # "playing" /\ Dealer!Playing(s) # {}
  <2> DEFINE next == Dealer!NextSeat(Couple, p, Dealer!Playing(s))
  <2>1. t = [s EXCEPT !.turn = next]
    BY <1>2 DEF Dealer!PassOn
  <2>2. next \in DealerSeats /\ s.status[next] = "playing"
    BY <1>2, DealerNext
  <2> HIDE DEF next
  <2>3. /\ t \in DealerStates /\ t.hand = s.hand /\ t.status = s.status /\ t.result = s.result
        /\ t.dealer = s.dealer /\ t.turn = next
    BY <2>1, <2>2 DEF DealerStates
  <2>4. DealerOpen(t)
    BY <2>2, <2>3 DEF DealerOpen, DealerAsked
  <2>. QED
    BY <2>3, <2>4 DEF DealerInv
<1>3. CASE s.status[p] # "playing" /\ Dealer!Playing(s) = {}
  <2>1. t \in Dealer!Settle(s)
    BY <1>3 DEF Dealer!PassOn
  <2>. QED
    BY <1>3, <2>1, DealerSettles
<1>. QED
  BY <1>1, <1>2, <1>3

DealerSets(s, hand, status) == [s EXCEPT !.hand = hand, !.status = status]

LEMMA DealerSet ==
  ASSUME NEW s \in DealerStates, NEW hand \in [DealerSeats -> DealerCards],
         NEW status \in [DealerSeats -> DealerStatus]
  PROVE  LET t == DealerSets(s, hand, status)
         IN /\ t \in DealerStates /\ t.hand = hand /\ t.status = status
            /\ t.dealer = s.dealer /\ t.turn = s.turn /\ t.result = s.result
  BY DEF DealerStates, DealerSets

LEMMA DealerHit ==
  ASSUME GamesAssumption, DealerInv(g), DealerOpen(g), NEW p \in DealerSeats, Dealer!Hit(p)
  PROVE  DealerInv(g')
<1>1. g \in DealerStates /\ DealerMarked(g.hand, g.status) /\ g.turn = p
  BY DEF DealerInv, Dealer!Hit, Dealer!MayAct
<1>2. PICK r \in CardRanks :
        g' \in Dealer!PassOn(
          [g EXCEPT !.hand[p] = Dealer!Add(g.hand[p], r),
                    !.status[p] = IF Dealer!Bust(Dealer!Add(g.hand[p], r)) THEN "bust" ELSE @], p)
  BY DEF Dealer!Hit
<1> DEFINE card == Dealer!Add(g.hand[p], r)
           hand == [g.hand EXCEPT ![p] = card]
           mark == IF Dealer!Bust(card) THEN "bust" ELSE g.status[p]
           status == [g.status EXCEPT ![p] = mark]
           t == DealerSets(g, hand, status)
<1>3. /\ g.hand \in [DealerSeats -> DealerCards] /\ g.status \in [DealerSeats -> DealerStatus]
      /\ g.status[p] = "playing"
  BY <1>1 DEF DealerStates, Dealer!Hit
<1>4. card \in DealerCards
  BY <1>3, DealerAdds
<1>5. t = [g EXCEPT !.hand[p] = card, !.status[p] = IF Dealer!Bust(card) THEN "bust" ELSE @]
  BY <1>1 DEF DealerSets, DealerStates
<1>6. g' \in Dealer!PassOn(t, p)
  BY <1>2, <1>5
<1> HIDE DEF card
<1>7. mark \in DealerStatus /\ (mark = "bust" => Dealer!Bust(card))
      /\ mark # "blackjack" /\ (mark \in {"playing", "stood"} => ~Dealer!Bust(card))
  BY <1>3 DEF DealerStatus
<1> HIDE DEF mark
<1>8. /\ hand \in [DealerSeats -> DealerCards] /\ status \in [DealerSeats -> DealerStatus]
      /\ hand[p] = card /\ status[p] = mark
      /\ \A q \in DealerSeats \ {p} : hand[q] = g.hand[q] /\ status[q] = g.status[q]
  BY <1>3, <1>4, <1>7
<1> HIDE DEF hand, status
<1>9. DealerMarked(hand, status)
  <2>1. \A q \in DealerSeats : q = p \/ q \in DealerSeats \ {p}
    OBVIOUS
  <2>. QED
    BY <1>1, <1>7, <1>8, <2>1 DEF DealerMarked
<1>10. /\ t \in DealerStates /\ t.hand = hand /\ t.status = status
       /\ t.dealer = g.dealer /\ t.turn = g.turn /\ t.result = g.result
  BY <1>1, <1>8, DealerSet
<1> HIDE DEF t
<1>11. t.result = [over |-> FALSE] /\ t.dealer.cards = 2 /\ t.turn = p
  BY <1>1, <1>10 DEF DealerOpen
<1>12. DealerMarked(t.hand, t.status)
  BY <1>9, <1>10
<1>. QED
  BY <1>6, <1>10, <1>11, <1>12, DealerPassOn

LEMMA DealerStand ==
  ASSUME GamesAssumption, DealerInv(g), DealerOpen(g), NEW p \in DealerSeats, Dealer!Stand(p)
  PROVE  DealerInv(g')
<1> DEFINE mark == IF g.status[p] = "playing" THEN "stood" ELSE g.status[p]
           status == [g.status EXCEPT ![p] = mark]
           t == DealerSets(g, g.hand, status)
<1>1. g \in DealerStates /\ DealerMarked(g.hand, g.status) /\ g.turn = p
      /\ g.status[p] \in {"playing", "blackjack"}
  BY DEF DealerInv, Dealer!Stand, Dealer!MayAct
<1>2. g' \in Dealer!PassOn([g EXCEPT !.status[p] = IF @ = "playing" THEN "stood" ELSE @], p)
  BY DEF Dealer!Stand
<1>3. g.hand \in [DealerSeats -> DealerCards] /\ g.status \in [DealerSeats -> DealerStatus]
  BY <1>1 DEF DealerStates
<1>4. t = [g EXCEPT !.status[p] = IF @ = "playing" THEN "stood" ELSE @]
  BY <1>1 DEF DealerSets, DealerStates
<1>5. g' \in Dealer!PassOn(t, p)
  BY <1>2, <1>4
<1>6. mark \in {"stood", "blackjack"} /\ (mark = "stood" => ~Dealer!Bust(g.hand[p]))
      /\ (mark = "blackjack" => Dealer!Natural(g.hand[p])) /\ mark \in DealerStatus
  BY <1>1 DEF DealerMarked, DealerStatus
<1> HIDE DEF mark
<1>7. /\ status \in [DealerSeats -> DealerStatus] /\ status[p] = mark
      /\ \A q \in DealerSeats \ {p} : status[q] = g.status[q]
  BY <1>3, <1>6
<1> HIDE DEF status
<1>8. DealerMarked(g.hand, status)
  <2>1. \A q \in DealerSeats : q = p \/ q \in DealerSeats \ {p}
    OBVIOUS
  <2>. QED
    BY <1>1, <1>6, <1>7, <2>1 DEF DealerMarked
<1>9. /\ t \in DealerStates /\ t.hand = g.hand /\ t.status = status
      /\ t.dealer = g.dealer /\ t.turn = g.turn /\ t.result = g.result
  BY <1>1, <1>3, <1>7, DealerSet
<1> HIDE DEF t
<1>10. t.result = [over |-> FALSE] /\ t.dealer.cards = 2 /\ t.turn = p
  BY <1>1, <1>9 DEF DealerOpen
<1>11. DealerMarked(t.hand, t.status)
  BY <1>8, <1>9
<1>. QED
  BY <1>5, <1>9, <1>10, <1>11, DealerPassOn

LEMMA DealerResign ==
  ASSUME GamesAssumption, DealerInv(g), DealerOpen(g), NEW p \in DealerSeats, Dealer!Resign(p)
  PROVE  DealerInv(g')
<1> DEFINE status == [g.status EXCEPT ![p] = "resigned"]
           t == DealerSets(g, g.hand, status)
<1>1. g \in DealerStates /\ DealerMarked(g.hand, g.status)
  BY DEF DealerInv
<1>2. g.hand \in [DealerSeats -> DealerCards] /\ g.status \in [DealerSeats -> DealerStatus]
      /\ g.turn \in DealerSeats
  BY <1>1 DEF DealerStates
<1>3. t = [g EXCEPT !.status[p] = "resigned"]
  BY <1>1 DEF DealerSets, DealerStates
<1>4. IF Dealer!Playing(t) = {} THEN g' \in Dealer!Settle(t)
      ELSE g' = [t EXCEPT !.turn = IF @ = p THEN Dealer!NextSeat(Couple, p, Dealer!Playing(t)) ELSE @]
  BY <1>3 DEF Dealer!Resign
<1>5. /\ status \in [DealerSeats -> DealerStatus] /\ status[p] = "resigned"
      /\ \A q \in DealerSeats \ {p} : status[q] = g.status[q]
  BY <1>2 DEF DealerStatus
<1> HIDE DEF status
<1>6. DealerMarked(g.hand, status)
  <2>1. \A q \in DealerSeats : q = p \/ q \in DealerSeats \ {p}
    OBVIOUS
  <2>. QED
    BY <1>1, <1>5, <2>1 DEF DealerMarked
<1>7. /\ t \in DealerStates /\ t.hand = g.hand /\ t.status = status
      /\ t.dealer = g.dealer /\ t.turn = g.turn /\ t.result = g.result
  BY <1>1, <1>2, <1>5, DealerSet
<1> HIDE DEF t
<1>8. DealerMarked(t.hand, t.status)
  BY <1>6, <1>7
<1>9. CASE Dealer!Playing(t) = {}
  <2>1. g' \in Dealer!Settle(t)
    BY <1>4, <1>9
  <2>. QED
    BY <1>7, <1>8, <1>9, <2>1, DealerSettles
<1>10. CASE Dealer!Playing(t) # {}
  <2> DEFINE next == IF g.turn = p THEN Dealer!NextSeat(Couple, p, Dealer!Playing(t)) ELSE g.turn
  <2>1. next \in DealerSeats /\ status[next] = "playing"
    <3>1. CASE g.turn = p
      BY <1>7, <1>10, <3>1, DealerNext
    <3>2. CASE g.turn # p
      <4>1. \E q \in DealerSeats : t.status[q] = "playing"
        BY <1>10, DealerPlaying
      <4>2. \E q \in DealerSeats : g.status[q] = "playing"
        BY <1>5, <1>7, <4>1
      <4>3. g.status[g.turn] = "playing"
        BY <4>2 DEF DealerOpen, DealerAsked
      <4>. QED
        BY <1>2, <1>5, <3>2, <4>3
    <3>. QED
      BY <3>1, <3>2
  <2>2. g' = [t EXCEPT !.turn = next]
    BY <1>4, <1>7, <1>10
  <2> HIDE DEF next
  <2>3. /\ g' \in DealerStates /\ g'.hand = t.hand /\ g'.status = t.status /\ g'.result = t.result
        /\ g'.dealer = t.dealer /\ g'.turn = next
    BY <1>7, <2>1, <2>2 DEF DealerStates
  <2>4. DealerOpen(g')
    BY <1>7, <2>1, <2>3 DEF DealerOpen, DealerAsked
  <2>. QED
    BY <1>8, <2>3, <2>4 DEF DealerInv
<1>. QED
  BY <1>9, <1>10

LEMMA DealerInit ==
  ASSUME GamesAssumption, Dealer!Init
  PROVE  DealerInv(g)
<1>1. PICK hand \in [DealerSeats -> Dealer!Pairs], dealer \in Dealer!Pairs :
        LET status == [p \in DealerSeats |-> IF Dealer!Natural(hand[p]) THEN "blackjack" ELSE "playing"]
            playing == {p \in DealerSeats : status[p] = "playing"}
        IN g = [hand |-> hand, dealer |-> dealer, status |-> status,
                turn |-> IF playing = {} THEN 0 ELSE Dealer!NextSeat(Couple, Couple - 1, playing),
                result |-> [over |-> FALSE]]
  BY DEF Dealer!Init, Dealer!Players, Dealer!NoResult, DealerSeats
<1> DEFINE status == [p \in DealerSeats |-> IF Dealer!Natural(hand[p]) THEN "blackjack" ELSE "playing"]
           playing == {p \in DealerSeats : status[p] = "playing"}
           turn == IF playing = {} THEN 0 ELSE Dealer!NextSeat(Couple, Couple - 1, playing)
<1>2. g = [hand |-> hand, dealer |-> dealer, status |-> status, turn |-> turn,
           result |-> [over |-> FALSE]]
  BY <1>1
<1>3. hand \in [DealerSeats -> DealerCards] /\ \A p \in DealerSeats : ~Dealer!Bust(hand[p])
  BY DealerPairs
<1>4. dealer \in DealerCards /\ dealer.cards = 2
  BY DealerPairs
<1>5. 0 \in DealerSeats /\ Couple - 1 \in DealerSeats
  BY DEF GamesAssumption, DealerSeats
<1>6. \A p \in DealerSeats : status[p] = IF Dealer!Natural(hand[p]) THEN "blackjack" ELSE "playing"
  OBVIOUS
<1>7. status \in [DealerSeats -> DealerStatus]
  BY DEF DealerStatus
<1> HIDE DEF status
<1>8. turn \in DealerSeats /\ (playing # {} => status[turn] = "playing")
      /\ (playing = {} => turn = 0)
  <2>1. CASE playing = {}
    BY <1>5, <2>1
  <2>2. CASE playing # {}
    <3>1. Couple \in Nat \ {0} /\ playing \in SUBSET (0..(Couple - 1)) /\ Couple - 1 \in 0..(Couple - 1)
      BY <1>5 DEF GamesAssumption, DealerSeats
    <3>2. T!NextSeat(Couple, Couple - 1, playing) \in playing
      BY <2>2, <3>1, SeatIn
    <3>3. turn \in playing
      BY <2>2, <3>2, DealerNames
    <3>. QED
      BY <2>2, <3>3
  <2>. QED
    BY <2>1, <2>2
<1> HIDE DEF turn
<1>9. g \in DealerStates /\ g.status = status /\ g.hand = hand /\ g.turn = turn
      /\ g.dealer = dealer /\ g.result = [over |-> FALSE]
  BY <1>2, <1>3, <1>4, <1>7, <1>8 DEF DealerStates
<1>10. DealerMarked(hand, status)
  BY <1>3, <1>6 DEF DealerMarked
<1>11. DealerAsked(status, turn)
  <2>1. CASE playing = {}
    BY <1>5, <1>6, <1>8, <2>1 DEF DealerAsked
  <2>2. CASE playing # {}
    BY <1>8, <2>2 DEF DealerAsked
  <2>. QED
    BY <2>1, <2>2
<1>12. DealerOpen(g)
  BY <1>4, <1>9, <1>11 DEF DealerOpen
<1>. QED
  BY <1>9, <1>10, <1>12 DEF DealerInv

LEMMA DealerPreserved ==
  ASSUME GamesAssumption, DealerInv(g), Dealer!Next
  PROVE  DealerInv(g')
<1>1. PICK p \in DealerSeats : Dealer!Hit(p) \/ Dealer!Stand(p) \/ Dealer!Resign(p)
  BY DEF Dealer!Next, Dealer!Players, DealerSeats
<1>2. DealerOpen(g)
  BY <1>1 DEF DealerInv, DealerEnded, DealerEnds, Dealer!Hit, Dealer!Stand, Dealer!Resign,
     Dealer!MayAct, Dealer!Over
<1>. QED
  BY <1>1, <1>2, DealerHit, DealerStand, DealerResign

LEMMA DealerHonours ==
  ASSUME GamesAssumption, DealerInv(g)
  PROVE  Dealer!AskedMayAct /\ Dealer!Settled
<1>1. Dealer!AskedMayAct
  BY DealerPlaying DEF DealerInv, DealerOpen, DealerAsked, DealerEnded, DealerEnds,
     Dealer!AskedMayAct, Dealer!Over
<1>2. CASE ~Dealer!Over
  <2>1. g.dealer.cards = 2
    BY <1>2 DEF DealerInv, DealerOpen, DealerEnded, DealerEnds, Dealer!Over
  <2>. QED
    BY <1>1, <1>2, <2>1 DEF Dealer!Settled
<1>3. CASE Dealer!Over
  <2>1. DealerEnded(g) /\ g \in DealerStates /\ DealerMarked(g.hand, g.status)
    BY <1>3 DEF DealerInv, DealerOpen, Dealer!Over
  <2> DEFINE d == g.dealer
  <2>2. \A p \in DealerSeats : g.result.outcome[p] = Dealer!Outcome(g, d, p)
    BY <2>1 DEF DealerEnded
  <2>3. Dealer!Playing(g) = {} /\ ~Dealer!MustDraw(d)
    BY <2>1, DealerPlaying DEF DealerEnded
  <2>4. \A p \in DealerSeats : g.hand[p] \in DealerCards
    BY <2>1 DEF DealerStates
  <2>5. Stake \in Nat \ {0} /\ Dealer!Value(d) \in Nat
    BY <2>1, DealerValues DEF GamesAssumption, DealerStates
  <2>6. Dealer!Delta("win") = Stake /\ Dealer!Delta("loss") = -Stake /\ Dealer!Delta("push") = 0
    BY DEF Dealer!Delta
  <2> HIDE DEF d
  <2>7. ASSUME NEW p \in DealerSeats, g.status[p] \in {"resigned", "bust"}
        PROVE  Dealer!Delta(g.result.outcome[p]) < 0
    <3>1. CASE g.status[p] = "resigned"
      BY <2>2, <2>5, <2>6, <3>1 DEF Dealer!Outcome
    <3>2. CASE g.status[p] # "resigned"
      <4>1. Dealer!Bust(g.hand[p])
        BY <2>1, <2>7, <3>2 DEF DealerMarked
      <4>2. Dealer!Outcome(g, d, p) = "loss"
        BY <3>2, <4>1, <2>4, DealerValues DEF Dealer!Outcome
      <4>. QED
        BY <2>2, <2>5, <2>6, <4>2
    <3>. QED
      BY <3>1, <3>2
  <2>8. ASSUME NEW p \in DealerSeats, g.status[p] = "blackjack"
        PROVE  Dealer!Delta(g.result.outcome[p]) >= 0
    <3>1. Dealer!Natural(g.hand[p]) /\ ~Dealer!Bust(g.hand[p])
      BY <2>1, <2>4, <2>8, DealerValues DEF DealerMarked
    <3>2. Dealer!Outcome(g, d, p) \in {"push", "win"}
      BY <2>8, <3>1 DEF Dealer!Outcome
    <3>. QED
      BY <2>2, <2>5, <2>6, <3>2
  <2>9. ASSUME NEW p \in DealerSeats, NEW q \in DealerSeats,
               {g.status[p], g.status[q]} \subseteq {"stood", "blackjack"},
               Dealer!Value(g.hand[p]) >= Dealer!Value(g.hand[q]), ~Dealer!Natural(g.hand[q])
        PROVE  Dealer!Delta(g.result.outcome[p]) >= Dealer!Delta(g.result.outcome[q])
    <3>1. ~Dealer!Bust(g.hand[p]) /\ ~Dealer!Bust(g.hand[q])
          /\ g.status[p] # "resigned" /\ g.status[q] # "resigned"
      BY <2>1, <2>4, <2>9, DealerValues DEF DealerMarked
    <3>2. Dealer!Value(g.hand[p]) \in Nat /\ Dealer!Value(g.hand[q]) \in Nat
      BY <2>4, DealerValues
    <3>3. Dealer!Outcome(g, d, q) =
            IF Dealer!Natural(d) THEN "loss"
            ELSE IF Dealer!Bust(d) \/ Dealer!Value(g.hand[q]) > Dealer!Value(d) THEN "win"
            ELSE IF Dealer!Value(g.hand[q]) < Dealer!Value(d) THEN "loss" ELSE "push"
      BY <2>9, <3>1 DEF Dealer!Outcome
    <3>4. CASE Dealer!Natural(g.hand[p])
      <4>1. Dealer!Outcome(g, d, p) = IF Dealer!Natural(d) THEN "push" ELSE "win"
        BY <3>1, <3>4 DEF Dealer!Outcome
      <4>. QED
        BY <2>2, <2>5, <2>6, <3>3, <4>1
    <3>5. CASE ~Dealer!Natural(g.hand[p])
      <4>1. Dealer!Outcome(g, d, p) =
              IF Dealer!Natural(d) THEN "loss"
              ELSE IF Dealer!Bust(d) \/ Dealer!Value(g.hand[p]) > Dealer!Value(d) THEN "win"
              ELSE IF Dealer!Value(g.hand[p]) < Dealer!Value(d) THEN "loss" ELSE "push"
        BY <3>1, <3>5 DEF Dealer!Outcome
      <4>. QED
        BY <2>2, <2>5, <2>6, <2>9, <3>2, <3>3, <4>1
    <3>. QED
      BY <3>4, <3>5
  <2>10. Dealer!Settled
    BY <1>3, <2>3, <2>7, <2>8, <2>9 DEF Dealer!Settled, Dealer!Players, DealerSeats, d
  <2>. QED
    BY <1>1, <2>10
<1>. QED
  BY <1>1, <1>2, <1>3

-----------------------------------------------------------------------------
(* Liar's dice. *)

LEMMA LiarsNames ==
  /\ \A S : Liars!Cardinality(S) = Cardinality(S)
  /\ \A f, S : Liars!Total(f, S) = Total(f, S)
  /\ \A n, p, S : Liars!NextSeat(n, p, S) = T!NextSeat(n, p, S)
<1>1. \A S : Liars!Cardinality(S) = Cardinality(S)
  BY DEF Liars!Cardinality, Cardinality
<1>2. \A f, S : Liars!Total(f, S) = Total(f, S)
  BY DEF Liars!Total, Liars!MapThenSumSet, Liars!MapThenFoldSet, Total, MapThenSumSet, MapThenFoldSet
<1>3. \A n, p, S : Liars!NextSeat(n, p, S) = T!NextSeat(n, p, S)
  BY DEF Liars!NextSeat, T!NextSeat
<1>. QED
  BY <1>1, <1>2, <1>3

LiarsSeats == 0..(SeatCount - 1)
LiarsCups == [1..Faces -> Nat]
LiarsBids == [quantity : Nat \ {0}, face : 1..Faces, bidder : LiarsSeats]
LiarsEnds == [over : {TRUE}, winner : LiarsSeats, deltas : [LiarsSeats -> Int]]
LiarsStates ==
  [counts : [LiarsSeats -> 0..CupSize], dice : [LiarsSeats -> LiarsCups],
   bid : LiarsBids \cup {Liars!NoBid},
   phase : {"bidding", "awaiting_acknowledgement", "finished"},
   turn : LiarsSeats, starter : LiarsSeats \cup {-1}, revealed : Int,
   result : LiarsEnds \cup {[over |-> FALSE]}]

\* The bid that stands is of somebody else still in, and within the dice there are.
LiarsBidding(s) ==
  /\ s.turn \in Liars!Active(s)
  /\ s.bid # Liars!NoBid => /\ s.bid.bidder \in Liars!Active(s) \ {s.turn}
                            /\ s.bid.quantity <= Total(s.counts, LiarsSeats)
  /\ \A p \in Liars!Active(s) : Liars!Size(s.dice[p]) = s.counts[p]

LiarsOpen(s) ==
  /\ s.result = [over |-> FALSE]
  /\ s.phase \in {"bidding", "awaiting_acknowledgement"}
  /\ \E p, q \in Liars!Active(s) : p # q
  /\ s.phase = "bidding" => LiarsBidding(s)
  /\ s.phase = "awaiting_acknowledgement" => s.starter \in Liars!Active(s)

LiarsEnded(s) ==
  /\ s.result \in LiarsEnds /\ s.phase = "finished"
  /\ Liars!Active(s) = {s.result.winner}
  /\ Total(s.result.deltas, LiarsSeats) = 0

LiarsInv(s) == s \in LiarsStates /\ (LiarsOpen(s) \/ LiarsEnded(s))

LEMMA LiarsActive ==
  ASSUME GamesAssumption, NEW s
  PROVE  /\ Liars!Active(s) \subseteq LiarsSeats /\ IsFiniteSet(Liars!Active(s))
         /\ \A p \in Liars!Active(s) : p \in LiarsSeats /\ s.counts[p] > 0
<1>1. IsFiniteSet(LiarsSeats)
  BY SeatsFinite DEF GamesAssumption, LiarsSeats
<1>2. Liars!Active(s) \subseteq LiarsSeats
  BY DEF Liars!Active, Liars!Players, LiarsSeats
<1>3. \A p \in Liars!Active(s) : s.counts[p] > 0
  BY DEF Liars!Active
<1>. QED
  BY <1>1, <1>2, <1>3, FS_Subset

LEMMA LiarsNext ==
  ASSUME GamesAssumption, NEW p \in LiarsSeats, NEW S \in SUBSET LiarsSeats, S # {}
  PROVE  Liars!NextSeat(SeatCount, p, S) \in S
<1>1. SeatCount \in Nat \ {0}
  BY DEF GamesAssumption
<1>. QED
  BY <1>1, SeatIn, LiarsNames DEF LiarsSeats

LEMMA LiarsWon ==
  ASSUME GamesAssumption, NEW s \in LiarsStates, NEW p \in LiarsSeats, Liars!Active(s) = {p}
  PROVE  LiarsInv(Liars!Win(s, p))
<1> DEFINE d == [q \in LiarsSeats |-> IF q = p THEN Stake * (SeatCount - 1) ELSE -Stake]
          t == Liars!Win(s, p)
<1>1. SeatCount \in Nat \ {0} /\ Stake \in Nat
  BY DEF GamesAssumption
<1>2. d \in [LiarsSeats -> Int]
  BY <1>1
<1>3. Total(d, LiarsSeats) = 0
  <2>1. \A q \in 0..(SeatCount - 1) : d[q] = IF q = p THEN Stake * (SeatCount - 1) ELSE -Stake
    BY DEF LiarsSeats
  <2>2. p \in 0..(SeatCount - 1)
    BY DEF LiarsSeats
  <2> HIDE DEF d
  <2>3. Total(d, 0..(SeatCount - 1)) = 0
    BY <1>1, <2>1, <2>2, WinnerTakes
  <2>. QED
    BY <2>3 DEF LiarsSeats
<1>4. t = [s EXCEPT !.phase = "finished", !.bid = Liars!NoBid, !.starter = -1,
                    !.result = [over |-> TRUE, winner |-> p, deltas |-> d]]
  BY DEF Liars!Win, Liars!Players, LiarsSeats
<1> HIDE DEF d, t
<1>5. [over |-> TRUE, winner |-> p, deltas |-> d] \in LiarsEnds
  BY <1>2 DEF LiarsEnds
<1>6. t \in LiarsStates /\ t.phase = "finished" /\ t.counts = s.counts
      /\ t.result = [over |-> TRUE, winner |-> p, deltas |-> d]
  BY <1>4, <1>5 DEF LiarsStates
<1>7. Liars!Active(t) = {p}
  BY <1>6 DEF Liars!Active
<1>8. LiarsEnded(t)
  BY <1>3, <1>5, <1>6, <1>7 DEF LiarsEnded
<1>. QED
  BY <1>6, <1>8 DEF LiarsInv, t

\* The dice of a seat after it has lost one of them or all.
LEMMA LiarsFewer ==
  ASSUME GamesAssumption, NEW s \in LiarsStates, NEW t \in LiarsStates, NEW p \in LiarsSeats,
         NEW k \in Nat, t.counts = [s.counts EXCEPT ![p] = k]
  PROVE  Liars!Active(t) = IF k > 0 THEN Liars!Active(s) \cup {p} ELSE Liars!Active(s) \ {p}
<1>1. s.counts \in [LiarsSeats -> 0..CupSize]
  BY DEF LiarsStates
<1>2. t.counts[p] = k /\ \A q \in LiarsSeats \ {p} : t.counts[q] = s.counts[q]
  BY <1>1
<1>3. \A r : Liars!Active(r) = {q \in LiarsSeats : r.counts[q] > 0}
  BY DEF Liars!Active, Liars!Players, LiarsSeats
<1>4. CASE k > 0
  BY <1>2, <1>3, <1>4
<1>5. CASE ~(k > 0)
  BY <1>2, <1>3, <1>5
<1>. QED
  BY <1>4, <1>5

LEMMA LiarsBid ==
  ASSUME GamesAssumption, LiarsInv(g), LiarsOpen(g), NEW p \in LiarsSeats, Liars!Bid(p)
  PROVE  LiarsInv(g')
<1>1. g \in LiarsStates /\ IsFiniteSet(LiarsSeats)
  BY SeatsFinite DEF LiarsInv, GamesAssumption, LiarsSeats
<1>2. PICK quantity \in 1..Liars!TotalDice(g), face \in 1..Faces :
        /\ g.phase = "bidding" /\ g.turn = p
        /\ g' = [g EXCEPT !.bid = [quantity |-> quantity, face |-> face, bidder |-> p],
                          !.turn = Liars!NextSeat(SeatCount, p, Liars!Active(g))]
  BY DEF Liars!Bid, Liars!MayAct
<1> DEFINE next == Liars!NextSeat(SeatCount, p, Liars!Active(g))
           bid == [quantity |-> quantity, face |-> face, bidder |-> p]
<1>3. LiarsBidding(g) /\ \E x, y \in Liars!Active(g) : x # y
  BY <1>2 DEF LiarsOpen
<1>4. p \in Liars!Active(g)
  BY <1>2, <1>3 DEF LiarsBidding
<1>5. next \in Liars!Active(g) /\ next # p /\ next \in LiarsSeats
  <2>1. PICK q \in Liars!Active(g) : q # p
    BY <1>3
  <2>2. q \in 0..(SeatCount - 1) /\ p \in 0..(SeatCount - 1) /\ SeatCount \in Nat \ {0}
    BY LiarsActive DEF LiarsSeats, GamesAssumption
  <2>3. T!NextSeat(SeatCount, p, Liars!Active(g)) \in Liars!Active(g)
        /\ T!NextSeat(SeatCount, p, Liars!Active(g)) # p
    BY <2>1, <2>2, SeatMet
  <2>. QED
    BY <2>3, LiarsNames, LiarsActive
<1>6. quantity \in Nat \ {0} /\ quantity <= Total(g.counts, LiarsSeats)
  <2>1. Liars!TotalDice(g) = Total(g.counts, LiarsSeats)
    BY LiarsNames DEF Liars!TotalDice, Liars!Players, LiarsSeats
  <2>2. \A q \in LiarsSeats : g.counts[q] \in Int
    BY <1>1 DEF LiarsStates, GamesAssumption
  <2>3. Total(g.counts, LiarsSeats) \in Int
    BY <1>1, <2>2, TotalType
  <2>. QED
    BY <2>1, <2>3
<1>7. bid \in LiarsBids /\ bid.bidder = p /\ bid.quantity = quantity
  BY <1>6 DEF LiarsBids
<1>8. g' = [g EXCEPT !.bid = bid, !.turn = next]
  BY <1>2
<1> HIDE DEF next, bid
<1>9. /\ g' \in LiarsStates /\ g'.bid = bid /\ g'.turn = next /\ g'.phase = g.phase
      /\ g'.result = g.result /\ g'.counts = g.counts /\ g'.dice = g.dice
      /\ g'.starter = g.starter
  BY <1>1, <1>5, <1>7, <1>8 DEF LiarsStates
<1>10. Liars!Active(g') = Liars!Active(g)
  BY <1>9 DEF Liars!Active
<1>11. LiarsBidding(g')
  BY <1>3, <1>4, <1>5, <1>6, <1>7, <1>9, <1>10 DEF LiarsBidding
<1>12. LiarsOpen(g')
  BY <1>2, <1>9, <1>10, <1>11 DEF LiarsOpen
<1>. QED
  BY <1>9, <1>12 DEF LiarsInv

LEMMA LiarsChallenge ==
  ASSUME GamesAssumption, LiarsInv(g), LiarsOpen(g), NEW p \in LiarsSeats, Liars!Challenge(p)
  PROVE  LiarsInv(g')
<1> DEFINE actual == Liars!Total([q \in Liars!Players |-> g.dice[q][g.bid.face]], Liars!Players)
          loser == IF actual >= g.bid.quantity THEN p ELSE g.bid.bidder
          left == g.counts[loser] - 1
          none == [f \in 1..Faces |-> 0]
          cups == IF left = 0 THEN [g.dice EXCEPT ![loser] = none] ELSE g.dice
          t == [g EXCEPT !.counts = [g.counts EXCEPT ![loser] = left], !.revealed = actual,
                         !.bid = Liars!NoBid, !.dice = cups]
          starter == IF left > 0 THEN loser ELSE Liars!NextSeat(SeatCount, loser, Liars!Active(t))
<1>1. g \in LiarsStates
  BY DEF LiarsInv
<1>2. g.phase = "bidding" /\ g.turn = p /\ g.bid # Liars!NoBid
  BY DEF Liars!Challenge, Liars!MayAct
<1>3. LiarsBidding(g) /\ \E x, y \in Liars!Active(g) : x # y
  BY <1>2 DEF LiarsOpen
<1>4. loser \in Liars!Active(g)
  BY <1>2, <1>3 DEF LiarsBidding
<1>5. actual \in Int
  <2> DEFINE f == [q \in LiarsSeats |-> g.dice[q][g.bid.face]]
  <2>1. g.bid \in LiarsBids
    BY <1>1, <1>2 DEF LiarsStates
  <2>2. \A q \in LiarsSeats : f[q] \in Int
    <3>1. g.dice \in [LiarsSeats -> [1..Faces -> Nat]] /\ g.bid.face \in 1..Faces
      BY <1>1, <2>1 DEF LiarsStates, LiarsCups, LiarsBids
    <3> DEFINE face == g.bid.face
    <3>2. ASSUME NEW q \in LiarsSeats PROVE f[q] \in Int
      <4>1. g.dice[q] \in [1..Faces -> Nat] /\ face \in 1..Faces
        BY <3>1
      <4>2. f[q] = g.dice[q][face]
        OBVIOUS
      <4>3. \A cup \in [1..Faces -> Nat], e \in 1..Faces : cup[e] \in Int
        OBVIOUS
      <4> HIDE DEF f, face
      <4>. QED
        BY <4>1, <4>2, <4>3, Zenon
    <3>. QED
      BY <3>2
  <2>3. IsFiniteSet(LiarsSeats)
    BY SeatsFinite DEF GamesAssumption, LiarsSeats
  <2>4. actual = Total(f, LiarsSeats)
    BY LiarsNames DEF Liars!Players, LiarsSeats
  <2> HIDE DEF f, actual
  <2>. QED
    BY <2>2, <2>3, <2>4, TotalType
<1>6. g' = IF Cardinality(Liars!Active(t)) = 1
           THEN Liars!Win(t, CHOOSE q \in Liars!Active(t) : TRUE)
           ELSE [t EXCEPT !.phase = "awaiting_acknowledgement", !.starter = starter]
  <2> DEFINE s == [g EXCEPT !.counts[loser] = @ - 1, !.revealed = actual]
             u == [s EXCEPT !.bid = Liars!NoBid,
                            !.dice[loser] = IF s.counts[loser] = 0 THEN none ELSE @]
  <2>1. g' = IF Liars!Cardinality(Liars!Active(u)) = 1
             THEN Liars!Win(u, CHOOSE q \in Liars!Active(u) : TRUE)
             ELSE [u EXCEPT !.phase = "awaiting_acknowledgement",
                            !.starter = IF s.counts[loser] > 0 THEN loser
                                        ELSE Liars!NextSeat(SeatCount, loser, Liars!Active(u))]
    BY DEF Liars!Challenge
  <2>2. loser \in LiarsSeats
    BY <1>4, LiarsActive
  <2> HIDE DEF actual, loser
  <2>3. s.counts[loser] = left /\ s.dice = g.dice
    BY <1>1, <2>2 DEF LiarsStates
  <2>4. [g.dice EXCEPT ![loser] = g.dice[loser]] = g.dice
    BY <1>1, <2>2 DEF LiarsStates
  <2>5. u = t
    BY <1>1, <2>2, <2>3, <2>4 DEF LiarsStates
  <2> HIDE DEF s, u, t
  <2>. QED
    BY <2>1, <2>3, <2>5, LiarsNames
<1>7. loser \in LiarsSeats /\ left \in Nat /\ left <= CupSize /\ CupSize \in Nat
      /\ g.counts \in [LiarsSeats -> 0..CupSize]
  <2>1. loser \in LiarsSeats /\ g.counts[loser] > 0
    BY <1>4, LiarsActive
  <2>2. g.counts \in [LiarsSeats -> 0..CupSize] /\ CupSize \in Nat
    BY <1>1 DEF LiarsStates, GamesAssumption
  <2> HIDE DEF loser
  <2>. QED
    BY <2>1, <2>2
<1> HIDE DEF actual, loser, left
<1>8. cups \in [LiarsSeats -> LiarsCups]
  BY <1>1, <1>7 DEF LiarsStates, LiarsCups
<1> HIDE DEF cups
<1>9. /\ t \in LiarsStates /\ t.counts = [g.counts EXCEPT ![loser] = left]
      /\ t.result = g.result
  <2> DEFINE counts == [g.counts EXCEPT ![loser] = left]
  <2>1. counts \in [LiarsSeats -> 0..CupSize]
    BY <1>7
  <2>2. t = [g EXCEPT !.counts = counts, !.revealed = actual, !.bid = Liars!NoBid, !.dice = cups]
    OBVIOUS
  <2> HIDE DEF counts, t
  <2>3. t \in LiarsStates /\ t.counts = counts /\ t.result = g.result
    BY <1>1, <1>5, <1>8, <2>1, <2>2 DEF LiarsStates
  <2>. QED
    BY <2>3 DEF counts
<1> HIDE DEF t
<1>10. Liars!Active(t) = IF left > 0 THEN Liars!Active(g) \cup {loser}
                         ELSE Liars!Active(g) \ {loser}
  BY <1>1, <1>7, <1>9, LiarsFewer
<1>11. Liars!Active(t) # {} /\ Liars!Active(t) \subseteq LiarsSeats /\ IsFiniteSet(Liars!Active(t))
  <2>1. Liars!Active(t) # {}
    BY <1>3, <1>10
  <2>. QED
    BY <2>1, LiarsActive
<1>12. CASE Cardinality(Liars!Active(t)) = 1
  <2>1. PICK w \in Liars!Active(t) : Liars!Active(t) = {w}
    BY <1>11, <1>12, OneOrTwo
  <2>2. g' = Liars!Win(t, w)
    BY <1>6, <1>12, <2>1
  <2>3. LiarsInv(Liars!Win(t, w))
    BY <1>9, <1>11, <2>1, LiarsWon
  <2>. QED
    BY <2>2, <2>3
<1>13. CASE Cardinality(Liars!Active(t)) # 1
  <2>1. starter \in Liars!Active(t)
    <3>1. CASE left > 0
      BY <1>10, <3>1
    <3>2. CASE ~(left > 0)
      BY <1>7, <1>11, <3>2, LiarsNext
    <3>. QED
      BY <3>1, <3>2
  <2>2. starter \in LiarsSeats
    BY <1>11, <2>1
  <2>3. g' = [t EXCEPT !.phase = "awaiting_acknowledgement", !.starter = starter]
    BY <1>6, <1>13
  <2> HIDE DEF starter
  <2>4. /\ g' \in LiarsStates /\ g'.phase = "awaiting_acknowledgement" /\ g'.starter = starter
        /\ g'.result = g.result /\ g'.counts = t.counts
    BY <1>9, <2>2, <2>3 DEF LiarsStates
  <2>5. Liars!Active(g') = Liars!Active(t)
    BY <2>4 DEF Liars!Active
  <2>6. \E x, y \in Liars!Active(t) : x # y
    BY <1>11, <1>13, OneOrTwo
  <2>7. LiarsOpen(g')
    BY <2>1, <2>4, <2>5, <2>6 DEF LiarsOpen
  <2>. QED
    BY <2>4, <2>7 DEF LiarsInv
<1>. QED
  BY <1>12, <1>13

LEMMA LiarsRolls ==
  ASSUME GamesAssumption, NEW counts, NEW dice \in Liars!Rolls(counts)
  PROVE  /\ dice \in [LiarsSeats -> LiarsCups]
         /\ \A p \in LiarsSeats : Liars!Size(dice[p]) = counts[p]
<1>1. UNION {Liars!Roll(n) : n \in 0..CupSize} \subseteq LiarsCups
  <2>1. \A n \in 0..CupSize : Liars!Roll(n) \subseteq LiarsCups
    BY DEF Liars!Roll, LiarsCups
  <2>. QED
    BY <2>1
<1>2. dice \in [LiarsSeats -> UNION {Liars!Roll(n) : n \in 0..CupSize}]
  BY DEF Liars!Rolls, Liars!Players, LiarsSeats
<1>3. \A p \in LiarsSeats : Liars!Size(dice[p]) = counts[p]
  BY DEF Liars!Rolls, Liars!Players, LiarsSeats
<1>. QED
  BY <1>1, <1>2, <1>3

LEMMA LiarsAcknowledge ==
  ASSUME GamesAssumption, LiarsInv(g), LiarsOpen(g), Liars!Acknowledge
  PROVE  LiarsInv(g')
<1>1. g \in LiarsStates
  BY DEF LiarsInv
<1>2. PICK dice \in Liars!Rolls(g.counts) :
        g' = [g EXCEPT !.dice = dice, !.bid = Liars!NoBid, !.starter = -1,
                       !.phase = "bidding", !.turn = g.starter]
  BY DEF Liars!Acknowledge
<1>3. g.starter \in Liars!Active(g) /\ g.starter \in LiarsSeats
  BY LiarsActive DEF Liars!Acknowledge
<1>4. dice \in [LiarsSeats -> LiarsCups] /\ \A p \in LiarsSeats : Liars!Size(dice[p]) = g.counts[p]
  BY LiarsRolls
<1>5. /\ g' \in LiarsStates /\ g'.dice = dice /\ g'.bid = Liars!NoBid /\ g'.phase = "bidding"
      /\ g'.turn = g.starter /\ g'.counts = g.counts /\ g'.result = g.result
  BY <1>1, <1>2, <1>3, <1>4 DEF LiarsStates
<1>6. Liars!Active(g') = Liars!Active(g) /\ Liars!Active(g) \subseteq LiarsSeats
  BY <1>5, LiarsActive DEF Liars!Active
<1>7. LiarsBidding(g')
  BY <1>3, <1>4, <1>5, <1>6 DEF LiarsBidding
<1>8. LiarsOpen(g')
  BY <1>5, <1>6, <1>7 DEF LiarsOpen
<1>. QED
  BY <1>5, <1>8 DEF LiarsInv

LEMMA LiarsResign ==
  ASSUME GamesAssumption, LiarsInv(g), LiarsOpen(g), NEW p \in LiarsSeats, Liars!Resign(p)
  PROVE  LiarsInv(g')
<1> DEFINE t == [g EXCEPT !.counts[p] = 0]
          starter == Liars!NextSeat(SeatCount, p, Liars!Active(t))
<1>1. g \in LiarsStates /\ g.counts \in [LiarsSeats -> 0..CupSize] /\ CupSize \in Nat
  BY DEF LiarsInv, LiarsStates, GamesAssumption
<1>2. g' = IF Cardinality(Liars!Active(t)) = 1 THEN Liars!Win(t, starter)
           ELSE IF t.phase = "awaiting_acknowledgement"
           THEN [t EXCEPT !.turn = starter, !.starter = IF @ = p THEN starter ELSE @]
           ELSE [t EXCEPT !.bid = Liars!NoBid, !.turn = starter]
  BY LiarsNames DEF Liars!Resign
<1>3. /\ t \in LiarsStates /\ t.counts = [g.counts EXCEPT ![p] = 0] /\ t.result = g.result
      /\ t.phase = g.phase /\ t.dice = g.dice /\ t.starter = g.starter
  <2> DEFINE counts == [g.counts EXCEPT ![p] = 0]
  <2>1. counts \in [LiarsSeats -> 0..CupSize]
    BY <1>1
  <2>2. t = [g EXCEPT !.counts = counts]
    OBVIOUS
  <2> HIDE DEF counts, t
  <2>3. /\ t \in LiarsStates /\ t.counts = counts /\ t.result = g.result
        /\ t.phase = g.phase /\ t.dice = g.dice /\ t.starter = g.starter
    BY <1>1, <2>1, <2>2 DEF LiarsStates
  <2>. QED
    BY <2>3 DEF counts
<1> HIDE DEF t
<1>4. Liars!Active(t) = Liars!Active(g) \ {p}
  BY <1>1, <1>3, LiarsFewer
<1>5. Liars!Active(t) # {} /\ Liars!Active(t) \subseteq LiarsSeats /\ IsFiniteSet(Liars!Active(t))
  <2>1. Liars!Active(t) # {}
    BY <1>4 DEF LiarsOpen
  <2>. QED
    BY <2>1, LiarsActive
<1>6. starter \in Liars!Active(t) /\ starter \in LiarsSeats
  BY <1>5, LiarsNext
<1> HIDE DEF starter
<1>7. CASE Cardinality(Liars!Active(t)) = 1
  <2>1. Liars!Active(t) = {starter}
    BY <1>5, <1>6, <1>7, OneOrTwo
  <2>2. LiarsInv(Liars!Win(t, starter))
    BY <1>3, <1>6, <2>1, LiarsWon
  <2>. QED
    BY <1>2, <1>7, <2>2
<1>8. CASE Cardinality(Liars!Active(t)) # 1
  <2>1. \E x, y \in Liars!Active(t) : x # y
    BY <1>5, <1>8, OneOrTwo
  <2>2. CASE g.phase = "awaiting_acknowledgement"
    <3> DEFINE next == IF t.starter = p THEN starter ELSE t.starter
    <3>1. g.starter \in Liars!Active(g)
      BY <2>2 DEF LiarsOpen
    <3>2. next \in Liars!Active(t) /\ next \in LiarsSeats
      BY <1>3, <1>4, <1>5, <1>6, <3>1
    <3>3. g' = [t EXCEPT !.turn = starter, !.starter = next]
      BY <1>2, <1>3, <1>8, <2>2
    <3> HIDE DEF next
    <3>4. /\ g' \in LiarsStates /\ g'.phase = "awaiting_acknowledgement" /\ g'.starter = next
          /\ g'.result = g.result /\ g'.counts = t.counts
      BY <1>3, <1>6, <2>2, <3>2, <3>3 DEF LiarsStates
    <3>5. Liars!Active(g') = Liars!Active(t)
      BY <3>4 DEF Liars!Active
    <3>6. LiarsOpen(g')
      BY <2>1, <3>2, <3>4, <3>5 DEF LiarsOpen
    <3>. QED
      BY <3>4, <3>6 DEF LiarsInv
  <2>3. CASE g.phase = "bidding"
    <3>1. g' = [t EXCEPT !.bid = Liars!NoBid, !.turn = starter]
      BY <1>2, <1>3, <1>8, <2>3
    <3>2. /\ g' \in LiarsStates /\ g'.phase = "bidding" /\ g'.turn = starter
          /\ g'.bid = Liars!NoBid /\ g'.dice = g.dice
          /\ g'.result = g.result /\ g'.counts = t.counts
      BY <1>3, <1>6, <2>3, <3>1 DEF LiarsStates
    <3>3. Liars!Active(g') = Liars!Active(t)
      BY <3>2 DEF Liars!Active
    <3>4. LiarsBidding(g)
      BY <2>3 DEF LiarsOpen
    <3>5. \A q \in Liars!Active(t) : q \in Liars!Active(g) /\ q # p /\ t.counts[q] = g.counts[q]
      BY <1>1, <1>3, <1>4, <1>5
    <3>6. \A q \in Liars!Active(g') : Liars!Size(g'.dice[q]) = g'.counts[q]
      BY <3>2, <3>3, <3>4, <3>5 DEF LiarsBidding
    <3>7. LiarsBidding(g')
      BY <1>6, <3>2, <3>3, <3>6 DEF LiarsBidding
    <3>8. LiarsOpen(g')
      BY <2>1, <3>2, <3>3, <3>7 DEF LiarsOpen
    <3>. QED
      BY <3>2, <3>8 DEF LiarsInv
  <2>. QED
    BY <2>2, <2>3 DEF LiarsOpen
<1>. QED
  BY <1>7, <1>8

LEMMA LiarsInit ==
  ASSUME GamesAssumption, Liars!Init
  PROVE  LiarsInv(g)
<1> DEFINE counts == [p \in LiarsSeats |-> CupSize]
<1>1. PICK dice \in Liars!Rolls(counts) :
        g = [counts |-> counts, dice |-> dice, bid |-> Liars!NoBid, phase |-> "bidding",
             turn |-> 0, starter |-> -1, revealed |-> 0, result |-> [over |-> FALSE]]
  BY DEF Liars!Init, Liars!Players, Liars!NoResult, LiarsSeats
<1>2. 0 \in LiarsSeats /\ 1 \in LiarsSeats /\ CupSize \in Nat \ {0}
  BY DEF GamesAssumption, LiarsSeats
<1>3. dice \in [LiarsSeats -> LiarsCups] /\ \A p \in LiarsSeats : Liars!Size(dice[p]) = counts[p]
  BY LiarsRolls
<1>4. g \in LiarsStates
  BY <1>1, <1>2, <1>3 DEF LiarsStates
<1>5. Liars!Active(g) = LiarsSeats
  BY <1>1, <1>2 DEF Liars!Active, Liars!Players, LiarsSeats
<1>6. LiarsBidding(g)
  BY <1>1, <1>2, <1>3, <1>5 DEF LiarsBidding
<1>7. LiarsOpen(g)
  <2>1. g.result = [over |-> FALSE] /\ g.phase = "bidding" /\ 0 # 1
    BY <1>1
  <2>. QED
    BY <1>2, <1>5, <1>6, <2>1 DEF LiarsOpen
<1>. QED
  BY <1>4, <1>7 DEF LiarsInv

LEMMA LiarsPreserved ==
  ASSUME GamesAssumption, LiarsInv(g), Liars!Next
  PROVE  LiarsInv(g')
<1>1. CASE Liars!Acknowledge
  <2>1. LiarsOpen(g)
    BY <1>1 DEF LiarsInv, LiarsEnded, Liars!Acknowledge
  <2>. QED
    BY <1>1, <2>1, LiarsAcknowledge
<1>2. ASSUME NEW p \in Liars!Players, Liars!Bid(p) \/ Liars!Challenge(p) \/ Liars!Resign(p)
      PROVE  LiarsInv(g')
  <2>1. LiarsOpen(g)
    BY <1>2 DEF LiarsInv, LiarsEnded, LiarsEnds, Liars!Bid, Liars!Challenge, Liars!Resign,
       Liars!MayAct, Liars!Over
  <2>2. p \in LiarsSeats
    BY DEF Liars!Players, LiarsSeats
  <2>. QED
    BY <1>2, <2>1, <2>2, LiarsBid, LiarsChallenge, LiarsResign
<1>. QED
  BY <1>1, <1>2 DEF Liars!Next

LEMMA LiarsHonours ==
  ASSUME GamesAssumption, LiarsInv(g)
  PROVE  Liars!AskedMayAct /\ Liars!Settled /\ Liars!CupsMatchCounts
<1>1. CASE LiarsOpen(g)
  <2>1. ~Liars!Over
    BY <1>1 DEF LiarsOpen, Liars!Over
  <2>2. Total(g.counts, LiarsSeats) = Liars!TotalDice(g)
    BY LiarsNames DEF Liars!TotalDice, Liars!Players, LiarsSeats
  <2>. QED
    BY <1>1, <2>1, <2>2 DEF LiarsOpen, LiarsBidding, Liars!AskedMayAct, Liars!Settled,
       Liars!CupsMatchCounts
<1>2. CASE LiarsEnded(g)
  <2>1. Liars!Settled
    BY <1>2, LiarsNames DEF LiarsEnded, Liars!Settled, Liars!Players, LiarsSeats
  <2>. QED
    BY <1>2, <2>1 DEF LiarsEnded, Liars!AskedMayAct, Liars!CupsMatchCounts
<1>. QED
  BY <1>1, <1>2 DEF LiarsInv

-----------------------------------------------------------------------------
(* Doudizhu. *)

LEMMA LandlordNames ==
  \A f, S : Landlord!Total(f, S) = Total(f, S)
<1>1. \A f, S : Landlord!Total(f, S) = Total(f, S)
  BY DEF Landlord!Total, Landlord!MapThenSumSet, Landlord!MapThenFoldSet, Total, MapThenSumSet, MapThenFoldSet
<1>. QED
  BY <1>1


LandlordSeats == 0..2
LandlordRanks == 1..RankCount
LandlordHands == [LandlordRanks -> Nat]
LandlordPlays == [kind : {"solo", "pair", "bomb"}, rank : LandlordRanks, by : LandlordSeats]
LandlordEnds == [over : {TRUE}, winners : SUBSET LandlordSeats, deltas : [LandlordSeats -> Int]]
LandlordStates ==
  [phase : {"bidding", "playing", "finished"}, hands : [LandlordSeats -> LandlordHands],
   bottom : LandlordHands, discard : LandlordHands,
   bids : [LandlordSeats -> {-1} \cup (0..3)], landlord : LandlordSeats \cup {-1},
   base : Nat, multiplier : Nat, bombs : Nat,
   last : LandlordPlays \cup {Landlord!NoPlay}, passed : SUBSET LandlordSeats,
   turn : LandlordSeats, result : LandlordEnds \cup {[over |-> FALSE]}]

LandlordHolds(hand) == \E r \in LandlordRanks : hand[r] > 0

\* Every rank is complete.
LandlordComplete(hands, bottom, discard) ==
  \A r \in LandlordRanks :
    hands[0][r] + hands[1][r] + hands[2][r] + bottom[r] + discard[r] = Copies

\* The seats have bid in order, up to the one before the turn.
LandlordBidding(s) ==
  /\ s.landlord = -1 /\ s.last = Landlord!NoPlay /\ s.passed = {} /\ s.bombs = 0
  /\ s.bids[s.turn] = -1
  /\ s.bids[Landlord!Seat(s.turn)] # -1 => s.bids[Landlord!Seat(Landlord!Seat(s.turn))] # -1

\* Of those who are to beat the last cards, the first ones have passed.
LandlordTrick(s) ==
  \/ s.last = Landlord!NoPlay /\ s.passed = {}
  \/ /\ s.last \in LandlordPlays
     /\ \/ s.passed = {} /\ s.turn = Landlord!Seat(s.last.by)
        \/ /\ s.passed = {Landlord!Seat(s.last.by)}
           /\ s.turn = Landlord!Seat(Landlord!Seat(s.last.by))

LandlordCapped(due) == IF due < MaxMultiplier THEN due ELSE MaxMultiplier
LandlordDue(s) ==
  /\ s.base \in 1..3 /\ s.multiplier > 0
  /\ s.multiplier = LandlordCapped(Landlord!Doubled(s.base, s.bombs))

LandlordOpen(s) ==
  /\ s.result = [over |-> FALSE] /\ s.phase \in {"bidding", "playing"}
  /\ \A p \in LandlordSeats : LandlordHolds(s.hands[p])
  /\ s.phase = "bidding" => LandlordBidding(s)
  /\ s.phase = "playing" => s.landlord \in LandlordSeats /\ LandlordTrick(s)

LandlordEnded(s) ==
  /\ s.result \in LandlordEnds /\ s.phase = "finished"
  /\ s.result.deltas[0] + s.result.deltas[1] + s.result.deltas[2] = 0
  /\ \A p \in LandlordSeats : /\ s.result.deltas[p] <= 2 * Stake * MaxMultiplier
                              /\ p \in s.result.winners <=> s.result.deltas[p] > 0
  /\ s.landlord # -1 => \E p \in LandlordSeats : s.result.winners = Landlord!Side(s, p)

LandlordInv(s) ==
  /\ s \in LandlordStates
  /\ LandlordComplete(s.hands, s.bottom, s.discard)
  /\ s.landlord # -1 => LandlordDue(s)
  /\ LandlordOpen(s) \/ LandlordEnded(s)

-----------------------------------------------------------------------------
(* A number doubled some times. *)

Doubling(f, base, m) ==
  /\ f \in [0..m -> Nat] /\ f[0] = base
  /\ \A k \in 1..m : f[k] = 2 * f[k - 1]

LEMMA DoublingExists ==
  ASSUME NEW base \in Nat, NEW m \in Nat
  PROVE  \E f : Doubling(f, base, m)
<1> DEFINE N == {k \in Nat : \E f : Doubling(f, base, k)}
<1>1. 0 \in N
  <2> DEFINE f == [n \in 0..0 |-> base]
  <2>1. Doubling(f, base, 0)
    BY DEF Doubling
  <2>. QED
    BY <2>1
<1>2. ASSUME NEW k \in N PROVE k + 1 \in N
  <2>1. PICK f : Doubling(f, base, k)
    OBVIOUS
  <2>2. k \in Nat /\ f \in [0..k -> Nat] /\ f[0] = base /\ \A n \in 1..k : f[n] = 2 * f[n - 1]
    BY <2>1 DEF Doubling
  <2> DEFINE e == [n \in 0..(k + 1) |-> IF n <= k THEN f[n] ELSE 2 * f[k]]
  <2>3. e \in [0..(k + 1) -> Nat] /\ e[0] = base
    BY <2>2
  <2>4. ASSUME NEW n \in 1..(k + 1) PROVE e[n] = 2 * e[n - 1]
    <3>1. CASE n <= k
      BY <2>2, <3>1
    <3>2. CASE n = k + 1
      BY <2>2, <3>2
    <3>. QED
      BY <2>2, <3>1, <3>2
  <2>5. Doubling(e, base, k + 1)
    BY <2>3, <2>4 DEF Doubling
  <2>. QED
    BY <2>2, <2>5
<1> HIDE DEF N
<1>3. N = Nat
  <2>1. N \in SUBSET Nat
    BY DEF N
  <2>. QED
    BY <1>1, <1>2, <2>1, SetInduction
<1>. QED
  BY <1>3 DEF N

LEMMA DoublingAgrees ==
  ASSUME NEW base \in Nat, NEW m \in Nat, NEW n \in Nat, m <= n,
         NEW f, Doubling(f, base, m), NEW e, Doubling(e, base, n)
  PROVE  f[m] = e[m]
<1> DEFINE N == {k \in Nat : k <= m => f[k] = e[k]}
<1>1. 0 \in N
  BY DEF Doubling
<1>2. ASSUME NEW k \in N PROVE k + 1 \in N
  <2>1. SUFFICES ASSUME k + 1 <= m PROVE f[k + 1] = e[k + 1]
    OBVIOUS
  <2>2. k \in Nat /\ f[k] = e[k]
    BY <2>1
  <2>3. k + 1 \in 1..m /\ k + 1 \in 1..n /\ (k + 1) - 1 = k
    BY <2>1, <2>2
  <2>4. f[k + 1] = 2 * f[k] /\ e[k + 1] = 2 * e[k]
    <3>1. f[k + 1] = 2 * f[(k + 1) - 1] /\ e[k + 1] = 2 * e[(k + 1) - 1]
      BY <2>3 DEF Doubling
    <3>. QED
      BY <2>3, <3>1
  <2>. QED
    BY <2>2, <2>4
<1> HIDE DEF N
<1>3. N = Nat
  <2>1. N \in SUBSET Nat
    BY DEF N
  <2>. QED
    BY <1>1, <1>2, <2>1, SetInduction
<1>. QED
  BY <1>3 DEF N

LEMMA DoubledIs ==
  ASSUME NEW base \in Nat, NEW m \in Nat
  PROVE  \E f : Doubling(f, base, m) /\ Landlord!Doubled(base, m) = f[m]
<1> DEFINE Def(f) == f = [k \in 0..m |-> IF k = 0 THEN base ELSE 2 * f[k - 1]]
          it == CHOOSE f : Def(f)
<1>1. PICK f : Doubling(f, base, m)
  BY DoublingExists
<1>2. Def(f)
  <2> DEFINE e == [k \in 0..m |-> IF k = 0 THEN base ELSE 2 * f[k - 1]]
  <2>1. f \in [0..m -> Nat] /\ \A k \in 0..m : f[k] = e[k]
    BY <1>1 DEF Doubling
  <2>2. f = e
    <3>1. f = [k \in 0..m |-> f[k]]
      BY <2>1
    <3>2. e = [k \in 0..m |-> e[k]]
      OBVIOUS
    <3> HIDE DEF e
    <3>. QED
      BY <2>1, <3>1, <3>2
  <2>. QED
    BY <2>2
<1>3. Def(it)
  <2>1. \E k : Def(k)
    BY <1>2
  <2> HIDE DEF Def
  <2>. QED
    BY <2>1
<1>4. Landlord!Doubled(base, m) = it[m]
  BY DEF Landlord!Doubled
<1>5. it = [k \in 0..m |-> IF k = 0 THEN base ELSE 2 * it[k - 1]]
  <2> HIDE DEF it
  <2>. QED
    BY <1>3
<1> HIDE DEF it, Def
<1>6. /\ it[0] = base /\ \A k \in 1..m : it[k] = 2 * it[k - 1]
      /\ DOMAIN it = 0..m /\ it = [k \in 0..m |-> it[k]]
  <2>1. DOMAIN it = 0..m /\ it = [k \in 0..m |-> it[k]]
    BY <1>5
  <2>2. \A k \in 0..m : it[k] = IF k = 0 THEN base ELSE 2 * it[k - 1]
    BY <1>5, Zenon
  <2>3. \A k \in 1..m : it[k] = 2 * it[k - 1]
    BY <2>2
  <2>4. it[0] = base
    BY <2>2
  <2>. QED
    BY <2>1, <2>3, <2>4
<1> DEFINE N == {k \in Nat : k <= m => it[k] \in Nat}
<1>7. 0 \in N
  BY <1>6
<1>8. ASSUME NEW k \in N PROVE k + 1 \in N
  <2>1. SUFFICES ASSUME k + 1 <= m PROVE it[k + 1] \in Nat
    OBVIOUS
  <2>2. k \in Nat /\ it[k] \in Nat /\ k + 1 \in 1..m /\ (k + 1) - 1 = k
    BY <2>1
  <2>3. it[k + 1] = 2 * it[k]
    BY <1>6, <2>2
  <2>. QED
    BY <2>2, <2>3
<1> HIDE DEF N
<1>9. N = Nat
  <2>1. N \in SUBSET Nat
    BY DEF N
  <2>. QED
    BY <1>7, <1>8, <2>1, SetInduction
<1>10. \A k \in 0..m : it[k] \in Nat
  BY <1>9 DEF N
<1>11. Doubling(it, base, m)
  BY <1>6, <1>10 DEF Doubling
<1>. QED
  BY <1>4, <1>11

LEMMA DoubledMore ==
  ASSUME NEW base \in Nat, NEW m \in Nat
  PROVE  /\ Landlord!Doubled(base, m) \in Nat
         /\ Landlord!Doubled(base, 0) = base
         /\ Landlord!Doubled(base, m + 1) = 2 * Landlord!Doubled(base, m)
<1>1. PICK f : Doubling(f, base, m) /\ Landlord!Doubled(base, m) = f[m]
  BY DoubledIs
<1>2. PICK e : Doubling(e, base, m + 1) /\ Landlord!Doubled(base, m + 1) = e[m + 1]
  BY DoubledIs
<1>3. PICK z : Doubling(z, base, 0) /\ Landlord!Doubled(base, 0) = z[0]
  BY DoubledIs
<1>4. f[m] = e[m]
  BY <1>1, <1>2, DoublingAgrees
<1>5. m + 1 \in 1..(m + 1) /\ (m + 1) - 1 = m /\ m \in 0..m
  OBVIOUS
<1>6. e[m + 1] = 2 * e[m]
  BY <1>2, <1>5 DEF Doubling
<1>7. f[m] \in Nat
  BY <1>1, <1>5 DEF Doubling
<1>8. z[0] = base
  BY <1>3 DEF Doubling
<1>. QED
  BY <1>1, <1>2, <1>3, <1>4, <1>6, <1>7, <1>8

-----------------------------------------------------------------------------
(* Hands. *)

LEMMA LandlordSize ==
  ASSUME GamesAssumption, NEW h \in LandlordHands
  PROVE  Landlord!Size(h) \in Nat /\ (Landlord!Size(h) > 0 <=> LandlordHolds(h))
<1>1. IsFiniteSet(LandlordRanks)
  BY CountFinite DEF LandlordRanks, GamesAssumption
<1>2. Landlord!Size(h) = Total(h, LandlordRanks)
  BY LandlordNames DEF Landlord!Size, Landlord!Ranks, LandlordRanks
<1>3. \A r \in LandlordRanks : h[r] \in Nat
  BY DEF LandlordHands
<1>4. Total(h, LandlordRanks) \in Nat
  BY <1>1, <1>3, TotalNatural
<1>5. ASSUME NEW r \in LandlordRanks, h[r] > 0 PROVE Total(h, LandlordRanks) > 0
  <2>1. Total(h, LandlordRanks) = h[r] + Total(h, LandlordRanks \ {r})
    BY <1>1, <1>3, TotalRemove
  <2>2. IsFiniteSet(LandlordRanks \ {r}) /\ \A x \in LandlordRanks \ {r} : h[x] \in Nat
    BY <1>1, <1>3, FS_RemoveElement
  <2>3. Total(h, LandlordRanks \ {r}) \in Nat
    BY <2>2, TotalNatural
  <2>. QED
    BY <1>3, <1>5, <2>1, <2>3
<1>6. ASSUME \A r \in LandlordRanks : ~(h[r] > 0) PROVE Total(h, LandlordRanks) = 0
  <2>1. \A r \in LandlordRanks : h[r] = 0
    BY <1>3, <1>6
  <2>. QED
    BY <1>1, <2>1, TotalZero
<1>. QED
  BY <1>2, <1>4, <1>5, <1>6 DEF LandlordHolds

LEMMA LandlordSums ==
  ASSUME NEW a \in LandlordHands, NEW b \in LandlordHands
  PROVE  /\ Landlord!Plus(a, b) \in LandlordHands
         /\ \A r \in LandlordRanks : Landlord!Plus(a, b)[r] = a[r] + b[r]
         /\ (\A r \in LandlordRanks : b[r] <= a[r]) => Landlord!Minus(a, b) \in LandlordHands
         /\ \A r \in LandlordRanks : Landlord!Minus(a, b)[r] = a[r] - b[r]
  BY DEF LandlordHands, LandlordRanks, Landlord!Plus, Landlord!Minus, Landlord!Ranks

LEMMA LandlordEmpty ==
  Landlord!Empty \in LandlordHands /\ \A r \in LandlordRanks : Landlord!Empty[r] = 0
  BY DEF LandlordHands, LandlordRanks, Landlord!Empty, Landlord!Ranks

LEMMA LandlordSeating ==
  ASSUME NEW p \in LandlordSeats
  PROVE  /\ Landlord!Seat(p) \in LandlordSeats
         /\ Landlord!Seat(p) # p /\ Landlord!Seat(Landlord!Seat(p)) # p
         /\ Landlord!Seat(Landlord!Seat(p)) # Landlord!Seat(p)
         /\ Landlord!Seat(Landlord!Seat(Landlord!Seat(p))) = p
         /\ Landlord!Seat(Landlord!Seat(p)) \in LandlordSeats
         /\ LandlordSeats = {p, Landlord!Seat(p), Landlord!Seat(Landlord!Seat(p))}
<1>1. Landlord!Seat(0) = 1 /\ Landlord!Seat(1) = 2 /\ Landlord!Seat(2) = 0
  BY DEF Landlord!Seat
<1>2. LandlordSeats = {0, 1, 2}
  BY DEF LandlordSeats
<1>. QED
  BY <1>1, <1>2

LEMMA LandlordDeal ==
  ASSUME GamesAssumption, NEW d \in Landlord!Deals, NEW p \in LandlordSeats
  PROVE  LandlordInv(Landlord!Dealt(d, p))
<1> DEFINE s == Landlord!Dealt(d, p)
           bottom == Landlord!Bottom(d)
           bids == [q \in LandlordSeats |-> -1]
<1>1. /\ d \in [LandlordSeats -> Landlord!Hands]
      /\ \A h \in Landlord!Hands : h \in LandlordHands /\ Landlord!Size(h) = HandSize
      /\ \A r \in LandlordRanks : d[0][r] + d[1][r] + d[2][r] <= Copies
  <2>1. /\ d \in [LandlordSeats -> Landlord!Hands]
        /\ Landlord!Within(Landlord!Plus(Landlord!Plus(d[0], d[1]), d[2]), Landlord!Full)
    BY DEF Landlord!Deals, Landlord!Players, LandlordSeats
  <2>2. \A h \in Landlord!Hands : h \in LandlordHands /\ Landlord!Size(h) = HandSize
    BY DEF Landlord!Hands, LandlordHands, LandlordRanks, Landlord!Ranks, GamesAssumption
  <2>. QED
    BY <2>1, <2>2 DEF Landlord!Within, Landlord!Plus, Landlord!Full, Landlord!Ranks, LandlordRanks
<1>2. /\ d \in [LandlordSeats -> LandlordHands]
      /\ \A q \in LandlordSeats : LandlordHolds(d[q])
  <2>1. HandSize > 0
    BY DEF GamesAssumption
  <2>2. \A q \in LandlordSeats : d[q] \in LandlordHands /\ Landlord!Size(d[q]) = HandSize
    BY <1>1
  <2>3. \A q \in LandlordSeats : LandlordHolds(d[q])
    BY <2>1, <2>2, LandlordSize
  <2>. QED
    BY <1>1, <2>2, <2>3
<1>3. 0 \in LandlordSeats /\ 1 \in LandlordSeats /\ 2 \in LandlordSeats
  BY DEF LandlordSeats
<1>4. /\ bottom \in LandlordHands
      /\ \A r \in LandlordRanks : bottom[r] = Copies - (d[0][r] + d[1][r] + d[2][r])
  <2>1. d[0] \in LandlordHands /\ d[1] \in LandlordHands /\ d[2] \in LandlordHands
    BY <1>2, <1>3
  <2> DEFINE two == Landlord!Plus(d[0], d[1])
             all == Landlord!Plus(two, d[2])
  <2>2. two \in LandlordHands /\ \A r \in LandlordRanks : two[r] = d[0][r] + d[1][r]
    BY <2>1, LandlordSums
  <2> HIDE DEF two
  <2>3. all \in LandlordHands /\ \A r \in LandlordRanks : all[r] = two[r] + d[2][r]
    BY <2>1, <2>2, LandlordSums
  <2> HIDE DEF all
  <2>4. Landlord!Full \in LandlordHands /\ \A r \in LandlordRanks : Landlord!Full[r] = Copies
    BY DEF Landlord!Full, Landlord!Ranks, LandlordRanks, LandlordHands, GamesAssumption
  <2>5. bottom = Landlord!Minus(Landlord!Full, all)
    BY DEF Landlord!Bottom, all, two
  <2>6. \A r \in LandlordRanks : all[r] <= Landlord!Full[r] /\ all[r] = d[0][r] + d[1][r] + d[2][r]
    BY <1>1, <2>2, <2>3, <2>4
  <2>. QED
    BY <2>3, <2>4, <2>5, <2>6, LandlordSums
<1>5. bids \in [LandlordSeats -> {-1} \cup (0..3)] /\ \A q \in LandlordSeats : bids[q] = -1
  OBVIOUS
<1>6. s = [phase |-> "bidding", hands |-> d, bottom |-> bottom, discard |-> Landlord!Empty,
           bids |-> bids, landlord |-> -1, base |-> 0, multiplier |-> 1, bombs |-> 0,
           last |-> Landlord!NoPlay, passed |-> {}, turn |-> p, result |-> [over |-> FALSE]]
  BY DEF Landlord!Dealt, Landlord!Players, LandlordSeats, Landlord!NoResult
<1> HIDE DEF s, bottom, bids
<1>7. /\ s \in LandlordStates /\ s.phase = "bidding" /\ s.hands = d /\ s.bottom = bottom
      /\ s.discard = Landlord!Empty /\ s.bids = bids /\ s.landlord = -1 /\ s.turn = p
      /\ s.last = Landlord!NoPlay /\ s.passed = {} /\ s.bombs = 0
      /\ s.result = [over |-> FALSE]
  BY <1>2, <1>4, <1>5, <1>6, LandlordEmpty DEF LandlordStates
<1>8. LandlordComplete(s.hands, s.bottom, s.discard)
  <2>1. \A r \in LandlordRanks : d[0][r] \in Nat /\ d[1][r] \in Nat /\ d[2][r] \in Nat
    BY <1>2, <1>3 DEF LandlordHands
  <2>2. Copies \in Nat
    BY DEF GamesAssumption
  <2>. QED
    BY <1>4, <1>7, <2>1, <2>2, LandlordEmpty DEF LandlordComplete
<1>9. LandlordBidding(s)
  BY <1>5, <1>7, LandlordSeating DEF LandlordBidding
<1>10. LandlordOpen(s)
  BY <1>2, <1>7, <1>9 DEF LandlordOpen
<1>. QED
  BY <1>7, <1>8, <1>10 DEF LandlordInv, s

\* What the sides pay each other.
LEMMA LandlordShares ==
  ASSUME GamesAssumption, NEW s \in LandlordStates, s.landlord \in LandlordSeats, LandlordDue(s),
         NEW q \in LandlordSeats
  PROVE  LET w == Landlord!Side(s, q)
             d == Landlord!Deltas(s, w)
         IN /\ w \in SUBSET LandlordSeats /\ d \in [LandlordSeats -> Int]
            /\ d[0] + d[1] + d[2] = 0
            /\ \A p \in LandlordSeats : /\ d[p] <= 2 * Stake * MaxMultiplier
                                        /\ p \in w <=> d[p] > 0
<1> DEFINE w == Landlord!Side(s, q)
           unit == Stake * s.multiplier
           share(p) == IF p = s.landlord THEN 2 * unit ELSE unit
           d == [p \in LandlordSeats |-> IF p \in w THEN share(p) ELSE -share(p)]
<1>1. /\ s.multiplier \in Nat /\ s.multiplier > 0 /\ s.multiplier <= MaxMultiplier
      /\ MaxMultiplier \in Nat /\ Stake \in Nat \ {0}
  <2>1. MaxMultiplier \in Nat /\ Stake \in Nat \ {0} /\ s.base \in Nat /\ s.bombs \in Nat
        /\ s.multiplier \in Nat /\ s.multiplier > 0
    BY DEF GamesAssumption, LandlordStates, LandlordDue
  <2>2. Landlord!Doubled(s.base, s.bombs) \in Nat
    BY <2>1, DoubledMore
  <2>. QED
    BY <2>1, <2>2 DEF LandlordDue, LandlordCapped
<1>2. unit \in Nat \ {0} /\ 2 * unit <= 2 * Stake * MaxMultiplier /\ unit <= 2 * Stake * MaxMultiplier
  <2>1. \A a, b, c \in Nat : a <= b => c * a <= c * b
    OBVIOUS
  <2>2. unit <= Stake * MaxMultiplier
    BY <1>1, <2>1
  <2>3. unit > 0 /\ unit \in Nat /\ Stake * MaxMultiplier \in Nat
    BY <1>1
  <2>4. 2 * Stake * MaxMultiplier = 2 * (Stake * MaxMultiplier)
    BY <1>1
  <2>. QED
    BY <2>2, <2>3, <2>4
<1>3. /\ w \in SUBSET LandlordSeats
      /\ w = IF q = s.landlord THEN {s.landlord} ELSE LandlordSeats \ {s.landlord}
  BY DEF Landlord!Side, Landlord!Players, LandlordSeats
<1>4. d = Landlord!Deltas(s, w)
  BY DEF Landlord!Deltas, Landlord!Players, LandlordSeats
<1>5. LandlordSeats = {0, 1, 2}
  BY DEF LandlordSeats
<1> HIDE DEF w, unit
<1>6. \A p \in LandlordSeats : d[p] = IF p \in w THEN share(p) ELSE -share(p)
  OBVIOUS
<1>7. d \in [LandlordSeats -> Int]
  BY <1>2
<1> HIDE DEF d
<1>8. \A p \in LandlordSeats : d[p] <= 2 * Stake * MaxMultiplier /\ (p \in w <=> d[p] > 0)
  <2>1. 2 * Stake * MaxMultiplier \in Nat
    BY <1>1
  <2> DEFINE top == 2 * Stake * MaxMultiplier
  <2>2. top \in Nat /\ 2 * unit <= top /\ unit <= top
    BY <1>2, <2>1
  <2> HIDE DEF top
  <2>3. \A p \in LandlordSeats : d[p] <= top /\ (p \in w <=> d[p] > 0)
    BY <1>2, <1>6, <2>2
  <2>. QED
    BY <2>3 DEF top
<1>9. d[0] + d[1] + d[2] = 0
  <2>1. d[0] = (IF 0 \in w THEN share(0) ELSE -share(0))
        /\ d[1] = (IF 1 \in w THEN share(1) ELSE -share(1))
        /\ d[2] = (IF 2 \in w THEN share(2) ELSE -share(2))
    BY <1>5, <1>6
  <2>2. s.landlord = 0 \/ s.landlord = 1 \/ s.landlord = 2
    BY <1>5
  <2>3. CASE q = s.landlord
    <3>1. w = {s.landlord}
      BY <1>3, <2>3
    <3>. QED
      BY <1>2, <2>1, <2>2, <3>1
  <2>4. CASE q # s.landlord
    <3>1. w = {0, 1, 2} \ {s.landlord}
      BY <1>3, <1>5, <2>4
    <3>. QED
      BY <1>2, <2>1, <2>2, <3>1
  <2>. QED
    BY <2>3, <2>4
<1>. QED
  BY <1>3, <1>4, <1>7, <1>8, <1>9 DEF w

LandlordPaid(s, winners, deltas) ==
  /\ winners \in SUBSET LandlordSeats /\ deltas \in [LandlordSeats -> Int]
  /\ deltas[0] + deltas[1] + deltas[2] = 0
  /\ \A p \in LandlordSeats : /\ deltas[p] <= 2 * Stake * MaxMultiplier
                              /\ p \in winners <=> deltas[p] > 0
  /\ s.landlord # -1 => \E p \in LandlordSeats : winners = Landlord!Side(s, p)

LEMMA LandlordFinish ==
  ASSUME NEW s \in LandlordStates, LandlordComplete(s.hands, s.bottom, s.discard),
         s.landlord # -1 => LandlordDue(s), NEW w, NEW d, LandlordPaid(s, w, d)
  PROVE  LandlordInv(Landlord!Finish(s, w, d))
<1> DEFINE t == Landlord!Finish(s, w, d)
<1>1. [over |-> TRUE, winners |-> w, deltas |-> d] \in LandlordEnds
  BY DEF LandlordEnds, LandlordPaid
<1>2. t = [s EXCEPT !.phase = "finished", !.result = [over |-> TRUE, winners |-> w, deltas |-> d]]
  BY DEF Landlord!Finish
<1> HIDE DEF t
<1>3. /\ t \in LandlordStates /\ t.phase = "finished" /\ t.hands = s.hands /\ t.bottom = s.bottom
      /\ t.discard = s.discard /\ t.landlord = s.landlord /\ t.base = s.base
      /\ t.multiplier = s.multiplier /\ t.bombs = s.bombs
      /\ t.result = [over |-> TRUE, winners |-> w, deltas |-> d]
  BY <1>1, <1>2 DEF LandlordStates
<1>4. t.result.winners = w /\ t.result.deltas = d
  BY <1>3
<1>5. \A p : Landlord!Side(t, p) = Landlord!Side(s, p)
  BY <1>3 DEF Landlord!Side
<1>6. t.landlord # -1 => LandlordDue(t)
  BY <1>3 DEF LandlordDue
<1>7. LandlordEnded(t)
  BY <1>1, <1>3, <1>4, <1>5 DEF LandlordEnded, LandlordPaid
<1>8. LandlordComplete(t.hands, t.bottom, t.discard)
  BY <1>3
<1>9. LandlordInv(t)
  BY <1>3, <1>6, <1>7, <1>8 DEF LandlordInv
<1>. QED
  BY <1>9 DEF t

LEMMA LandlordResign ==
  ASSUME GamesAssumption, LandlordInv(g), LandlordOpen(g), NEW p \in LandlordSeats,
         Landlord!Resign(p)
  PROVE  LandlordInv(g')
<1>1. g \in LandlordStates /\ LandlordComplete(g.hands, g.bottom, g.discard)
      /\ (g.landlord # -1 => LandlordDue(g))
  BY DEF LandlordInv
<1>2. CASE g.landlord = -1
  <2> DEFINE d == [q \in LandlordSeats |-> IF q = p THEN -(2 * Stake) ELSE Stake]
             w == LandlordSeats \ {p}
  <2>1. g' = Landlord!Finish(g, w, d)
    BY <1>2 DEF Landlord!Resign, Landlord!Players, LandlordSeats
  <2>2. LandlordPaid(g, w, d)
    <3>1. Stake \in Nat \ {0} /\ MaxMultiplier \in Nat /\ MaxMultiplier >= 3
      BY DEF GamesAssumption
    <3>2. 2 * Stake * MaxMultiplier \in Nat /\ Stake <= 2 * Stake * MaxMultiplier
      <4>1. \A a, b, c \in Nat : a <= b => c * a <= c * b
        OBVIOUS
      <4>2. (2 * Stake) * 1 <= (2 * Stake) * MaxMultiplier
        BY <3>1, <4>1
      <4>. QED
        BY <3>1, <4>2
    <3> DEFINE top == 2 * Stake * MaxMultiplier
    <3>3. top \in Nat /\ Stake <= top
      BY <3>2
    <3> HIDE DEF top
    <3>4. d \in [LandlordSeats -> Int]
      BY <3>1
    <3>5. LandlordSeats = {0, 1, 2}
      BY DEF LandlordSeats
    <3>6. d[0] + d[1] + d[2] = 0
      BY <3>1, <3>5
    <3>7. \A q \in LandlordSeats : d[q] <= top /\ (q \in w <=> d[q] > 0)
      BY <3>1, <3>3
    <3>. QED
      BY <1>2, <3>4, <3>6, <3>7 DEF LandlordPaid, top
  <2> HIDE DEF d, w
  <2>. QED
    BY <1>1, <2>1, <2>2, LandlordFinish
<1>3. CASE g.landlord # -1
  <2>1. g.landlord \in LandlordSeats /\ LandlordDue(g)
    BY <1>1, <1>3 DEF LandlordStates
  <2> DEFINE w == LandlordSeats \ Landlord!Side(g, p)
             d == Landlord!Deltas(g, w)
  <2>2. PICK q \in LandlordSeats : w = Landlord!Side(g, q)
    <3>1. LandlordSeats = {0, 1, 2}
      BY DEF LandlordSeats
    <3>2. \A x : Landlord!Side(g, x) =
            IF x = g.landlord THEN {x} ELSE LandlordSeats \ {g.landlord}
      BY DEF Landlord!Side, Landlord!Players, LandlordSeats
    <3>3. \E x \in LandlordSeats : x # g.landlord
      BY <3>1
    <3>4. CASE p = g.landlord
      BY <3>2, <3>3, <3>4
    <3>5. CASE p # g.landlord
      BY <2>1, <3>2, <3>5
    <3>. QED
      BY <3>4, <3>5
  <2>3. g' = Landlord!Finish(g, w, d)
    BY <1>3 DEF Landlord!Resign, Landlord!Players, LandlordSeats
  <2>4. LandlordPaid(g, w, d)
    BY <1>1, <2>1, <2>2, LandlordShares DEF LandlordPaid
  <2> HIDE DEF d, w
  <2>. QED
    BY <1>1, <2>3, <2>4, LandlordFinish
<1>. QED
  BY <1>2, <1>3

LEMMA LandlordTop ==
  ASSUME NEW s \in LandlordStates
  PROVE  /\ Landlord!Highest(s) \in 0..3
         /\ \A p \in LandlordSeats : s.bids[p] <= Landlord!Highest(s)
         /\ Landlord!Highest(s) > 0 => \E p \in LandlordSeats : s.bids[p] = Landlord!Highest(s)
<1>1. /\ s.bids[0] \in {-1} \cup (0..3) /\ s.bids[1] \in {-1} \cup (0..3)
      /\ s.bids[2] \in {-1} \cup (0..3) /\ LandlordSeats = {0, 1, 2}
  BY DEF LandlordStates, LandlordSeats
<1> DEFINE S == {s.bids[0], s.bids[1], s.bids[2], 0}
<1>2. {s.bids[p] : p \in Landlord!Players} \cup {0} = S
  BY <1>1 DEF Landlord!Players, LandlordSeats
<1>3. \E m \in S : \A y \in S : m >= y
  BY <1>1
<1>4. S \subseteq {-1} \cup (0..3)
  BY <1>1
<1>5. Landlord!Highest(s) = CHOOSE m \in S : \A y \in S : m >= y
  BY <1>2 DEF Landlord!Highest, Landlord!Max
<1>6. /\ s.bids[0] \in S /\ s.bids[1] \in S /\ s.bids[2] \in S /\ 0 \in S
      /\ \A y \in S : y = 0 \/ y = s.bids[0] \/ y = s.bids[1] \/ y = s.bids[2]
  OBVIOUS
<1> HIDE DEF S
<1>7. Landlord!Highest(s) \in S /\ \A y \in S : Landlord!Highest(s) >= y
  BY <1>3, <1>5
<1> DEFINE h == Landlord!Highest(s)
<1>8. h \in {-1} \cup (0..3) /\ h >= s.bids[0] /\ h >= s.bids[1] /\ h >= s.bids[2] /\ h >= 0
      /\ (h = 0 \/ h = s.bids[0] \/ h = s.bids[1] \/ h = s.bids[2])
  BY <1>4, <1>6, <1>7
<1> HIDE DEF h, S
<1>9. h \in 0..3
  BY <1>8
<1>10. \A p \in LandlordSeats : s.bids[p] <= h
  BY <1>1, <1>8
<1>11. h > 0 => \E p \in LandlordSeats : s.bids[p] = h
  BY <1>1, <1>8
<1>. QED
  BY <1>9, <1>10, <1>11 DEF h

LandlordBids(s, bids) == [s EXCEPT !.bids = bids]
LandlordTurns(s, p) == [s EXCEPT !.turn = p]
LandlordTakes(s, hands, p, score) ==
  [s EXCEPT !.hands = hands, !.bottom = Landlord!Empty, !.landlord = p,
            !.base = score, !.multiplier = score, !.phase = "playing", !.turn = p]

LEMMA LandlordFinalized ==
  ASSUME GamesAssumption, NEW s \in LandlordStates, s.result = [over |-> FALSE],
         LandlordComplete(s.hands, s.bottom, s.discard),
         s.last = Landlord!NoPlay, s.passed = {}, s.bombs = 0,
         \A q \in LandlordSeats : LandlordHolds(s.hands[q]),
         NEW p \in LandlordSeats, NEW score \in 1..3
  PROVE  LandlordInv(Landlord!FinalizeLandlord(s, p, score))
<1> DEFINE hand == Landlord!Plus(s.hands[p], s.bottom)
           hands == [s.hands EXCEPT ![p] = hand]
           t == LandlordTakes(s, hands, p, score)
<1>1. /\ s.hands \in [LandlordSeats -> LandlordHands] /\ s.bottom \in LandlordHands
      /\ s.hands[p] \in LandlordHands /\ s.discard \in LandlordHands
  BY DEF LandlordStates
<1>2. t = Landlord!FinalizeLandlord(s, p, score)
  BY <1>1 DEF LandlordTakes, Landlord!FinalizeLandlord, LandlordStates
<1>3. hand \in LandlordHands /\ \A r \in LandlordRanks : hand[r] = s.hands[p][r] + s.bottom[r]
  BY <1>1, LandlordSums
<1> HIDE DEF hand
<1>4. /\ hands \in [LandlordSeats -> LandlordHands] /\ hands[p] = hand
      /\ \A q \in LandlordSeats \ {p} : hands[q] = s.hands[q]
  BY <1>1, <1>3
<1> HIDE DEF hands
<1>5. /\ t \in LandlordStates /\ t.hands = hands /\ t.bottom = Landlord!Empty /\ t.landlord = p
      /\ t.base = score /\ t.multiplier = score /\ t.phase = "playing" /\ t.turn = p
      /\ t.discard = s.discard /\ t.last = s.last /\ t.passed = s.passed /\ t.bombs = s.bombs
      /\ t.result = s.result
  <2>1. score \in Nat /\ Landlord!Empty \in LandlordHands /\ s.result = [over |-> FALSE]
    BY LandlordEmpty
  <2>. QED
    BY <1>4, <2>1 DEF LandlordStates, LandlordTakes
<1> HIDE DEF t
<1>6. \A q \in LandlordSeats : LandlordHolds(t.hands[q])
  <2>1. LandlordHolds(hand)
    <3>1. PICK r \in LandlordRanks : s.hands[p][r] > 0
      BY DEF LandlordHolds
    <3>2. hand[r] > 0
      BY <1>1, <1>3, <3>1 DEF LandlordHands
    <3>. QED
      BY <3>2 DEF LandlordHolds
  <2>2. \A q \in LandlordSeats : q = p \/ q \in LandlordSeats \ {p}
    OBVIOUS
  <2>. QED
    BY <1>4, <1>5, <2>1, <2>2
<1>7. LandlordComplete(t.hands, t.bottom, t.discard)
  <2>1. \A r \in LandlordRanks : /\ s.hands[0][r] \in Nat /\ s.hands[1][r] \in Nat
                                 /\ s.hands[2][r] \in Nat /\ s.bottom[r] \in Nat
                                 /\ s.discard[r] \in Nat
    BY <1>1 DEF LandlordHands, LandlordSeats
  <2>2. LandlordSeats = {0, 1, 2}
    BY DEF LandlordSeats
  <2>3. p = 0 \/ p = 1 \/ p = 2
    BY <2>2
  <2>4. Copies \in Nat
    BY DEF GamesAssumption
  <2>5. \A r \in LandlordRanks :
          hands[0][r] + hands[1][r] + hands[2][r] =
            s.hands[0][r] + s.hands[1][r] + s.hands[2][r] + s.bottom[r]
    BY <1>3, <1>4, <2>1, <2>2, <2>3
  <2>6. \A r \in LandlordRanks : /\ hands[0][r] \in Nat /\ hands[1][r] \in Nat
                                 /\ hands[2][r] \in Nat
    BY <1>4, <2>2 DEF LandlordHands
  <2>. QED
    BY <1>5, <2>1, <2>4, <2>5, <2>6, LandlordEmpty DEF LandlordComplete
<1>8. LandlordDue(t)
  <2>1. Landlord!Doubled(score, 0) = score
    <3>1. score \in Nat /\ 0 \in Nat
      OBVIOUS
    <3>. QED
      BY <3>1, DoubledMore
  <2>2. MaxMultiplier \in Nat /\ MaxMultiplier >= 3
    BY DEF GamesAssumption
  <2>. QED
    BY <1>5, <2>1, <2>2 DEF LandlordDue, LandlordCapped
<1>9. LandlordOpen(t)
  BY <1>5, <1>6 DEF LandlordOpen, LandlordTrick
<1>10. LandlordInv(t)
  BY <1>5, <1>7, <1>8, <1>9 DEF LandlordInv
<1>. QED
  BY <1>2, <1>10

LEMMA LandlordBid ==
  ASSUME GamesAssumption, LandlordInv(g), LandlordOpen(g), NEW p \in LandlordSeats, Landlord!Bid(p)
  PROVE  LandlordInv(g')
<1>1. PICK score \in {0} \cup ((Landlord!Highest(g) + 1)..3) :
        /\ g.phase = "bidding" /\ g.turn = p /\ g.bids[p] = -1
        /\ LET s == [g EXCEPT !.bids[p] = score]
               complete == score = 3 \/ \A q \in LandlordSeats : s.bids[q] >= 0
               top == CHOOSE q \in LandlordSeats : s.bids[q] = Landlord!Highest(s)
           IN IF complete /\ Landlord!Highest(s) > 0
              THEN g' = Landlord!FinalizeLandlord(s, top, Landlord!Highest(s))
              ELSE IF complete
              THEN \E d \in Landlord!Deals : g' = Landlord!Dealt(d, p)
              ELSE g' = [s EXCEPT !.turn = Landlord!Seat(p)]
  BY DEF Landlord!Bid, Landlord!Players, LandlordSeats
<1>2. g \in LandlordStates /\ LandlordComplete(g.hands, g.bottom, g.discard)
  BY DEF LandlordInv
<1>3. g.bids \in [LandlordSeats -> {-1} \cup (0..3)] /\ Landlord!Highest(g) \in 0..3
  BY <1>2, LandlordTop DEF LandlordStates
<1>4. score \in 0..3
  BY <1>3
<1> DEFINE bids == [g.bids EXCEPT ![p] = score]
           s == LandlordBids(g, bids)
           complete == score = 3 \/ \A q \in LandlordSeats : s.bids[q] >= 0
           top == CHOOSE q \in LandlordSeats : s.bids[q] = Landlord!Highest(s)
<1>5. s = [g EXCEPT !.bids[p] = score]
  BY <1>2 DEF LandlordBids, LandlordStates
<1>6. IF complete /\ Landlord!Highest(s) > 0
      THEN g' = Landlord!FinalizeLandlord(s, top, Landlord!Highest(s))
      ELSE IF complete
      THEN \E d \in Landlord!Deals : g' = Landlord!Dealt(d, p)
      ELSE g' = LandlordTurns(s, Landlord!Seat(p))
  BY <1>1, <1>5, ZenonT(60) DEF LandlordTurns
<1>7. /\ bids \in [LandlordSeats -> {-1} \cup (0..3)] /\ bids[p] = score
      /\ \A q \in LandlordSeats \ {p} : bids[q] = g.bids[q]
  BY <1>3, <1>4
<1> HIDE DEF bids
<1>8. /\ s \in LandlordStates /\ s.bids = bids /\ s.hands = g.hands /\ s.bottom = g.bottom
      /\ s.discard = g.discard /\ s.last = g.last /\ s.passed = g.passed /\ s.bombs = g.bombs
      /\ s.result = g.result /\ s.phase = g.phase /\ s.landlord = g.landlord
  BY <1>2, <1>7 DEF LandlordStates, LandlordBids
<1> HIDE DEF s
<1>9. LandlordComplete(s.hands, s.bottom, s.discard) /\ s.result = [over |-> FALSE]
      /\ \A q \in LandlordSeats : LandlordHolds(s.hands[q])
  BY <1>2, <1>8 DEF LandlordOpen
<1>10. CASE complete /\ Landlord!Highest(s) > 0
  <2>1. top \in LandlordSeats /\ Landlord!Highest(s) \in 1..3
    BY <1>8, <1>10, LandlordTop
  <2>2. g' = Landlord!FinalizeLandlord(s, top, Landlord!Highest(s))
    BY <1>6, <1>10
  <2> HIDE DEF top
  <2>3. s.last = Landlord!NoPlay /\ s.passed = {} /\ s.bombs = 0
    BY <1>1, <1>8 DEF LandlordOpen, LandlordBidding
  <2>. QED
    BY <1>8, <1>9, <2>1, <2>2, <2>3, LandlordFinalized
<1>11. CASE complete /\ ~(Landlord!Highest(s) > 0)
  BY <1>6, <1>11, LandlordDeal
<1>12. CASE ~complete
  <2> DEFINE n == Landlord!Seat(p)
  <2>1. g' = LandlordTurns(s, n)
    BY <1>6, <1>12
  <2>2. n \in LandlordSeats
    BY LandlordSeating
  <2>3. LandlordBidding(g)
    BY <1>1 DEF LandlordOpen
  <2>4. g'.bids = bids /\ g'.turn = n /\ g' \in LandlordStates /\ g'.landlord = s.landlord
        /\ g'.last = s.last /\ g'.passed = s.passed /\ g'.bombs = s.bombs
        /\ g'.hands = s.hands /\ g'.bottom = s.bottom /\ g'.discard = s.discard
        /\ g'.result = s.result /\ g'.phase = s.phase
    BY <1>8, <2>1, <2>2 DEF LandlordStates, LandlordTurns
  <2>5. bids[n] = -1 /\ (bids[Landlord!Seat(n)] # -1 => bids[Landlord!Seat(Landlord!Seat(n))] # -1)
    <3> DEFINE m == Landlord!Seat(Landlord!Seat(p))
    <3>1. /\ n \in LandlordSeats \ {p} /\ m \in LandlordSeats \ {p}
          /\ LandlordSeats = {p, n, m} /\ Landlord!Seat(n) = m /\ Landlord!Seat(m) = p
      BY LandlordSeating
    <3>2. g.bids[n] # -1 => g.bids[m] # -1
      BY <1>1, <2>3 DEF LandlordBidding
    <3> HIDE DEF m, n
    <3>3. \A q \in LandlordSeats : bids[q] # -1 => bids[q] >= 0
      BY <1>7
    <3>4. bids[p] # -1
      BY <1>4, <1>7
    <3>5. bids[n] = -1
      <4>1. SUFFICES ASSUME bids[n] # -1 PROVE FALSE
        OBVIOUS
      <4>2. bids[m] # -1
        BY <1>7, <3>1, <3>2, <4>1
      <4>3. \A q \in LandlordSeats : bids[q] >= 0
        BY <3>1, <3>3, <3>4, <4>1, <4>2
      <4>. QED
        BY <1>8, <1>12, <4>3
    <3>. QED
      BY <3>1, <3>4, <3>5
  <2> HIDE DEF n
  <2>6. LandlordBidding(g')
    BY <1>8, <2>3, <2>4, <2>5 DEF LandlordBidding
  <2>7. LandlordOpen(g')
    BY <1>1, <1>8, <1>9, <2>4, <2>6 DEF LandlordOpen
  <2>8. LandlordComplete(g'.hands, g'.bottom, g'.discard) /\ g'.landlord = -1
    BY <1>8, <1>9, <2>3, <2>4 DEF LandlordBidding
  <2>. QED
    BY <2>4, <2>7, <2>8 DEF LandlordInv
<1>. QED
  BY <1>10, <1>11, <1>12

LandlordCards(play) == [Landlord!Empty EXCEPT ![play.rank] = Landlord!Need(play.kind)]
LandlordLays(s, hands, discard, play, bombs, multiplier) ==
  [s EXCEPT !.hands = hands, !.discard = discard, !.last = play, !.passed = {},
            !.bombs = bombs, !.multiplier = multiplier]

LEMMA LandlordRaised ==
  ASSUME GamesAssumption, NEW s \in LandlordStates, LandlordDue(s), NEW t \in LandlordStates,
         t.base = s.base, t.bombs = s.bombs + 1,
         t.multiplier = IF 2 * s.multiplier < MaxMultiplier THEN 2 * s.multiplier ELSE MaxMultiplier
  PROVE  LandlordDue(t)
<1>1. s.bombs \in Nat /\ s.base \in Nat /\ s.multiplier \in Nat
  BY DEF LandlordStates
<1>2. MaxMultiplier \in Nat /\ MaxMultiplier >= 3
  BY DEF GamesAssumption
<1> DEFINE due == Landlord!Doubled(s.base, s.bombs)
           more == Landlord!Doubled(s.base, s.bombs + 1)
<1>3. due \in Nat /\ more = 2 * due
  BY <1>1, DoubledMore
<1>4. s.base \in 1..3 /\ s.multiplier > 0
      /\ s.multiplier = IF due < MaxMultiplier THEN due ELSE MaxMultiplier
  BY DEF LandlordDue, LandlordCapped
<1>5. Landlord!Doubled(t.base, t.bombs) = more
  OBVIOUS
<1> HIDE DEF due, more
<1>6. t.multiplier = IF more < MaxMultiplier THEN more ELSE MaxMultiplier
  BY <1>1, <1>2, <1>3, <1>4
<1>7. t.multiplier > 0
  BY <1>1, <1>2, <1>4
<1>. QED
  BY <1>4, <1>5, <1>6, <1>7 DEF LandlordDue, LandlordCapped

LEMMA LandlordPlay ==
  ASSUME GamesAssumption, LandlordInv(g), LandlordOpen(g), NEW p \in LandlordSeats, Landlord!Play(p)
  PROVE  LandlordInv(g')
<1>1. PICK play \in Landlord!Plays(g, p) :
       LET cards == LandlordCards(play)
           bomb == play.kind = "bomb"
           double == IF 2 * g.multiplier < MaxMultiplier THEN 2 * g.multiplier
                     ELSE MaxMultiplier
           s == [g EXCEPT !.hands[p] = Landlord!Minus(@, cards), !.discard = Landlord!Plus(@, cards),
                          !.last = play, !.passed = {},
                          !.bombs = IF bomb THEN @ + 1 ELSE @,
                          !.multiplier = IF bomb THEN double ELSE @]
       IN g' = IF Landlord!Size(s.hands[p]) = 0
               THEN Landlord!Finish(s, Landlord!Side(s, p), Landlord!Deltas(s, Landlord!Side(s, p)))
               ELSE [s EXCEPT !.turn = Landlord!Seat(p)]
  BY DEF Landlord!Play, LandlordCards
<1>2. /\ g \in LandlordStates /\ LandlordComplete(g.hands, g.bottom, g.discard)
      /\ (g.landlord # -1 => LandlordDue(g)) /\ g.phase = "playing" /\ g.turn = p
  BY DEF LandlordInv, Landlord!Play
<1>3. /\ g.hands \in [LandlordSeats -> LandlordHands] /\ g.discard \in LandlordHands
      /\ g.hands[p] \in LandlordHands /\ g.bombs \in Nat /\ g.multiplier \in Nat
      /\ g.bottom \in LandlordHands
  BY <1>2 DEF LandlordStates
<1>4. g.landlord \in LandlordSeats /\ LandlordDue(g) /\ g.result = [over |-> FALSE]
  BY <1>2 DEF LandlordOpen, LandlordSeats
<1>5. play \in LandlordPlays /\ play.by = p /\ play.rank \in LandlordRanks
      /\ g.hands[p][play.rank] >= Landlord!Need(play.kind)
  BY DEF Landlord!Plays, LandlordPlays, LandlordRanks, Landlord!Ranks
<1> DEFINE cards == LandlordCards(play)
           hand == Landlord!Minus(g.hands[p], cards)
           hands == [g.hands EXCEPT ![p] = hand]
           discard == Landlord!Plus(g.discard, cards)
           bombs == IF play.kind = "bomb" THEN g.bombs + 1 ELSE g.bombs
           multiplier == IF play.kind = "bomb"
                         THEN IF 2 * g.multiplier < MaxMultiplier THEN 2 * g.multiplier
                              ELSE MaxMultiplier
                         ELSE g.multiplier
           s == LandlordLays(g, hands, discard, play, bombs, multiplier)
<1>6. s = [g EXCEPT !.hands[p] = Landlord!Minus(@, cards), !.discard = Landlord!Plus(@, cards),
                    !.last = play, !.passed = {},
                    !.bombs = IF play.kind = "bomb" THEN @ + 1 ELSE @,
                    !.multiplier = IF play.kind = "bomb"
                         THEN IF 2 * g.multiplier < MaxMultiplier THEN 2 * g.multiplier
                              ELSE MaxMultiplier
                         ELSE @]
  BY <1>2 DEF LandlordStates, LandlordLays
<1>7. g' = IF Landlord!Size(s.hands[p]) = 0
           THEN Landlord!Finish(s, Landlord!Side(s, p), Landlord!Deltas(s, Landlord!Side(s, p)))
           ELSE LandlordTurns(s, Landlord!Seat(p))
  <2> HIDE DEF s
  <2>. QED
    BY <1>1, <1>6, Zenon DEF LandlordTurns
<1>8. cards \in LandlordHands /\ \A r \in LandlordRanks : cards[r] <= g.hands[p][r]
  <2>1. Landlord!Need(play.kind) \in Nat
    BY <1>5 DEF LandlordPlays, Landlord!Need, GamesAssumption
  <2>2. cards \in LandlordHands /\ cards[play.rank] = Landlord!Need(play.kind)
        /\ \A r \in LandlordRanks \ {play.rank} : cards[r] = 0
    BY <1>5, <2>1, LandlordEmpty DEF LandlordCards, LandlordHands
  <2> HIDE DEF cards
  <2>. QED
    BY <1>3, <1>5, <2>2 DEF LandlordHands
<1> HIDE DEF cards
<1>9. /\ hand \in LandlordHands /\ discard \in LandlordHands
      /\ \A r \in LandlordRanks : /\ hand[r] = g.hands[p][r] - cards[r]
                                  /\ discard[r] = g.discard[r] + cards[r]
  BY <1>3, <1>8, LandlordSums
<1> HIDE DEF hand, discard
<1>10. /\ hands \in [LandlordSeats -> LandlordHands] /\ hands[p] = hand
       /\ \A q \in LandlordSeats \ {p} : hands[q] = g.hands[q]
  BY <1>3, <1>9
<1>11. bombs \in Nat /\ multiplier \in Nat
  BY <1>3 DEF GamesAssumption
<1>12. bombs = (IF play.kind = "bomb" THEN g.bombs + 1 ELSE g.bombs)
       /\ multiplier = IF play.kind = "bomb"
                         THEN IF 2 * g.multiplier < MaxMultiplier THEN 2 * g.multiplier
                              ELSE MaxMultiplier
                         ELSE g.multiplier
  OBVIOUS
<1> HIDE DEF hands, bombs, multiplier
<1>13. /\ s \in LandlordStates /\ s.hands = hands /\ s.discard = discard /\ s.last = play
       /\ s.passed = {} /\ s.bombs = bombs /\ s.multiplier = multiplier
       /\ s.bottom = g.bottom /\ s.landlord = g.landlord /\ s.base = g.base /\ s.phase = g.phase
       /\ s.result = g.result /\ s.turn = g.turn
  BY <1>2, <1>5, <1>9, <1>10, <1>11 DEF LandlordStates, LandlordLays
<1> HIDE DEF s
<1>14. LandlordComplete(s.hands, s.bottom, s.discard)
  <2>1. LandlordSeats = {0, 1, 2} /\ (p = 0 \/ p = 1 \/ p = 2)
    BY DEF LandlordSeats
  <2>2. \A r \in LandlordRanks : /\ g.hands[0][r] \in Nat /\ g.hands[1][r] \in Nat
                                 /\ g.hands[2][r] \in Nat /\ g.bottom[r] \in Nat
                                 /\ g.discard[r] \in Nat /\ cards[r] \in Nat
    BY <1>3, <1>8, <2>1 DEF LandlordHands
  <2>3. \A r \in LandlordRanks :
          hands[0][r] + hands[1][r] + hands[2][r] =
            g.hands[0][r] + g.hands[1][r] + g.hands[2][r] - cards[r]
    BY <1>9, <1>10, <2>1, <2>2
  <2>4. \A r \in LandlordRanks : /\ hands[0][r] \in Nat /\ hands[1][r] \in Nat
                                 /\ hands[2][r] \in Nat
    BY <1>10, <2>1 DEF LandlordHands
  <2>5. \A r \in LandlordRanks : g.hands[0][r] + g.hands[1][r] + g.hands[2][r] + g.bottom[r] + g.discard[r] = Copies
    BY <1>2 DEF LandlordComplete
  <2>. QED
    BY <1>9, <1>13, <2>2, <2>3, <2>4, <2>5 DEF LandlordComplete
<1>15. LandlordDue(s)
  <2>1. CASE play.kind = "bomb"
    BY <1>2, <1>4, <1>12, <1>13, <2>1, LandlordRaised
  <2>2. CASE play.kind # "bomb"
    BY <1>4, <1>12, <1>13, <2>2 DEF LandlordDue
  <2>. QED
    BY <2>1, <2>2
<1>16. CASE Landlord!Size(s.hands[p]) = 0
  <2> DEFINE w == Landlord!Side(s, p)
             d == Landlord!Deltas(s, w)
  <2>1. LandlordPaid(s, w, d)
    BY <1>4, <1>13, <1>15, LandlordShares DEF LandlordPaid
  <2>2. g' = Landlord!Finish(s, w, d)
    BY <1>7, <1>16
  <2> HIDE DEF w, d
  <2>. QED
    BY <1>13, <1>14, <1>15, <2>1, <2>2, LandlordFinish
<1>17. CASE Landlord!Size(s.hands[p]) # 0
  <2> DEFINE n == Landlord!Seat(p)
  <2>1. g' = LandlordTurns(s, n) /\ n \in LandlordSeats
    BY <1>7, <1>17, LandlordSeating
  <2>2. n = Landlord!Seat(play.by)
    BY <1>5
  <2> HIDE DEF n
  <2>3. /\ g' \in LandlordStates /\ g'.turn = n /\ g'.hands = s.hands /\ g'.discard = s.discard
        /\ g'.last = s.last /\ g'.passed = s.passed /\ g'.bombs = s.bombs
        /\ g'.multiplier = s.multiplier /\ g'.bottom = s.bottom /\ g'.landlord = s.landlord
        /\ g'.base = s.base /\ g'.phase = s.phase /\ g'.result = s.result
    BY <1>13, <2>1 DEF LandlordStates, LandlordTurns
  <2>4. \A q \in LandlordSeats : LandlordHolds(g'.hands[q])
    <3>1. LandlordHolds(hand)
      <4>1. s.hands[p] = hand
        BY <1>10, <1>13
      <4>2. Landlord!Size(hand) \in Nat /\ (Landlord!Size(hand) > 0 <=> LandlordHolds(hand))
        BY <1>9, LandlordSize
      <4>. QED
        BY <1>17, <4>1, <4>2
    <3>2. \A q \in LandlordSeats : q = p \/ q \in LandlordSeats \ {p}
      OBVIOUS
    <3>. QED
      BY <1>10, <1>13, <2>3, <3>1, <3>2 DEF LandlordOpen
  <2>5. LandlordTrick(g')
    BY <1>5, <1>13, <2>2, <2>3 DEF LandlordTrick
  <2>6. LandlordOpen(g')
    BY <1>2, <1>4, <1>13, <2>3, <2>4, <2>5 DEF LandlordOpen
  <2>7. LandlordDue(g')
    BY <1>15, <2>3 DEF LandlordDue
  <2>. QED
    BY <1>14, <2>3, <2>6, <2>7 DEF LandlordInv
<1>. QED
  BY <1>16, <1>17

LandlordYields(s, last, passed, p) == [s EXCEPT !.last = last, !.passed = passed, !.turn = p]

LEMMA LandlordPass ==
  ASSUME GamesAssumption, LandlordInv(g), LandlordOpen(g), NEW p \in LandlordSeats, Landlord!Pass(p)
  PROVE  LandlordInv(g')
<1>1. /\ g \in LandlordStates /\ LandlordComplete(g.hands, g.bottom, g.discard)
      /\ (g.landlord # -1 => LandlordDue(g)) /\ g.phase = "playing" /\ g.turn = p
      /\ g.last # Landlord!NoPlay
  BY DEF LandlordInv, Landlord!Pass
<1>2. g.landlord \in LandlordSeats /\ LandlordTrick(g)
  BY <1>1 DEF LandlordOpen
<1> DEFINE by == g.last.by
           passed == g.passed \cup {p}
           a == Landlord!Seat(by)
           b == Landlord!Seat(a)
<1>3. /\ g.last \in LandlordPlays /\ by \in LandlordSeats
      /\ \/ g.passed = {} /\ p = a
         \/ g.passed = {a} /\ p = b
  BY <1>1, <1>2 DEF LandlordTrick, LandlordPlays
<1>4. g' = IF LandlordSeats \ {by} \subseteq passed
           THEN LandlordYields(g, Landlord!NoPlay, {}, by)
           ELSE LandlordYields(g, g.last, passed, Landlord!Seat(p))
  <2>1. [g EXCEPT !.passed = passed, !.turn = Landlord!Seat(p)] =
          LandlordYields(g, g.last, passed, Landlord!Seat(p))
    BY <1>1 DEF LandlordYields, LandlordStates
  <2>. QED
    BY <2>1 DEF Landlord!Pass, Landlord!Players, LandlordSeats, LandlordYields
<1>5. LandlordSeats = {by, a, b} /\ a # by /\ b # by /\ a # b
  BY <1>3, LandlordSeating
<1> DEFINE t == g'
<1>6. ASSUME NEW last \in LandlordPlays \cup {Landlord!NoPlay}, NEW stay \in SUBSET LandlordSeats,
             NEW n \in LandlordSeats, g' = LandlordYields(g, last, stay, n),
             \/ last = Landlord!NoPlay /\ stay = {}
             \/ /\ last \in LandlordPlays
                /\ \/ stay = {} /\ n = Landlord!Seat(last.by)
                   \/ stay = {Landlord!Seat(last.by)} /\ n = Landlord!Seat(Landlord!Seat(last.by))
      PROVE  LandlordInv(g')
  <2>1. /\ g' \in LandlordStates /\ g'.turn = n /\ g'.hands = g.hands /\ g'.discard = g.discard
        /\ g'.last = last /\ g'.passed = stay /\ g'.bombs = g.bombs
        /\ g'.multiplier = g.multiplier /\ g'.bottom = g.bottom /\ g'.landlord = g.landlord
        /\ g'.base = g.base /\ g'.phase = g.phase /\ g'.result = g.result
    BY <1>1, <1>6 DEF LandlordStates, LandlordYields
  <2>2. LandlordTrick(g')
    BY <1>6, <2>1 DEF LandlordTrick
  <2>3. LandlordOpen(g')
    BY <1>1, <2>1, <2>2 DEF LandlordOpen
  <2>4. g'.landlord # -1 => LandlordDue(g')
    BY <1>1, <2>1 DEF LandlordDue
  <2>. QED
    BY <1>1, <2>1, <2>3, <2>4 DEF LandlordInv
<1>7. CASE g.passed = {} /\ p = a
  <2>1. passed = {a} /\ ~(LandlordSeats \ {by} \subseteq passed)
    BY <1>5, <1>7
  <2>2. g' = LandlordYields(g, g.last, {a}, b)
    BY <1>4, <1>7, <2>1
  <2>3. {a} \in SUBSET LandlordSeats /\ b \in LandlordSeats
    BY <1>5
  <2>. QED
    BY <1>3, <1>6, <2>2, <2>3
<1>8. CASE g.passed = {a} /\ p = b
  <2>1. LandlordSeats \ {by} \subseteq passed
    BY <1>5, <1>8
  <2>2. g' = LandlordYields(g, Landlord!NoPlay, {}, by)
    BY <1>4, <2>1
  <2>. QED
    BY <1>3, <1>6, <2>2
<1>. QED
  BY <1>3, <1>7, <1>8

LEMMA LandlordInit ==
  ASSUME GamesAssumption, Landlord!Init
  PROVE  LandlordInv(g)
<1>1. PICK d \in Landlord!Deals : g = Landlord!Dealt(d, 0)
  BY DEF Landlord!Init
<1>2. 0 \in LandlordSeats
  BY DEF LandlordSeats
<1>. QED
  BY <1>1, <1>2, LandlordDeal

LEMMA LandlordPreserved ==
  ASSUME GamesAssumption, LandlordInv(g), Landlord!Next
  PROVE  LandlordInv(g')
<1>1. PICK p \in LandlordSeats :
        Landlord!Bid(p) \/ Landlord!Play(p) \/ Landlord!Pass(p) \/ Landlord!Resign(p)
  BY DEF Landlord!Next, Landlord!Players, LandlordSeats
<1>2. g.phase \in {"bidding", "playing"} \/ ~g.result.over
  BY <1>1 DEF Landlord!Bid, Landlord!Play, Landlord!Pass, Landlord!Resign, Landlord!Over
<1>3. LandlordOpen(g)
  BY <1>2 DEF LandlordInv, LandlordEnded, LandlordEnds
<1>. QED
  BY <1>1, <1>3, LandlordBid, LandlordPlay, LandlordPass, LandlordResign

LEMMA LandlordHonours ==
  ASSUME GamesAssumption, LandlordInv(g)
  PROVE  Landlord!AskedMayAct /\ Landlord!Settled /\ Landlord!CardsConserved
<1>1. /\ g \in LandlordStates /\ LandlordComplete(g.hands, g.bottom, g.discard)
      /\ (g.landlord # -1 => LandlordDue(g))
  BY DEF LandlordInv
<1>2. LandlordSeats = {0, 1, 2} /\ Landlord!Players = LandlordSeats
  BY DEF LandlordSeats, Landlord!Players
<1>3. Landlord!AskedMayAct
  <2>1. ASSUME g.phase = "bidding" PROVE g.bids[g.turn] = -1
    BY <2>1 DEF LandlordInv, LandlordOpen, LandlordBidding, LandlordEnded
  <2>2. ASSUME g.phase = "playing"
        PROVE  Landlord!Size(g.hands[g.turn]) > 0
               /\ (g.last # Landlord!NoPlay => g.turn \notin g.passed \cup {g.last.by})
    <3>1. LandlordOpen(g) /\ LandlordTrick(g) /\ g.turn \in LandlordSeats
          /\ g.hands[g.turn] \in LandlordHands
      BY <1>1, <2>2 DEF LandlordInv, LandlordOpen, LandlordEnded, LandlordStates
    <3>2. LandlordHolds(g.hands[g.turn])
      BY <3>1 DEF LandlordOpen
    <3>3. Landlord!Size(g.hands[g.turn]) > 0
      BY <3>1, <3>2, LandlordSize
    <3>4. ASSUME g.last # Landlord!NoPlay PROVE g.turn \notin g.passed \cup {g.last.by}
      <4>1. /\ g.last.by \in LandlordSeats
            /\ \/ g.passed = {} /\ g.turn = Landlord!Seat(g.last.by)
               \/ /\ g.passed = {Landlord!Seat(g.last.by)}
                  /\ g.turn = Landlord!Seat(Landlord!Seat(g.last.by))
        BY <3>1, <3>4 DEF LandlordTrick, LandlordPlays
      <4>. QED
        BY <4>1, LandlordSeating
    <3>. QED
      BY <3>3, <3>4
  <2>. QED
    BY <2>1, <2>2 DEF Landlord!AskedMayAct
<1>4. Landlord!Settled
  <2>1. g.landlord # -1 =>
          LET due == Landlord!Doubled(g.base, g.bombs)
          IN g.multiplier = (IF due < MaxMultiplier THEN due ELSE MaxMultiplier)
    BY <1>1 DEF LandlordDue, LandlordCapped
  <2>2. ASSUME Landlord!Over PROVE LandlordEnded(g)
    BY <2>2 DEF LandlordInv, LandlordOpen, Landlord!Over
  <2>3. ASSUME Landlord!Over PROVE Landlord!Total(g.result.deltas, LandlordSeats) = 0
    <3> DEFINE d == g.result.deltas
    <3>1. d \in [LandlordSeats -> Int] /\ d[0] + d[1] + d[2] = 0
      BY <2>2, <2>3 DEF LandlordEnded, LandlordEnds
    <3>2. IsFiniteSet(LandlordSeats) /\ IsFiniteSet({1, 2}) /\ IsFiniteSet({2})
      <4>1. IsFiniteSet(0..2) /\ {1, 2} \subseteq 0..2 /\ {2} \subseteq 0..2
        <5>1. 0 \in Int /\ 2 \in Int
          OBVIOUS
        <5>2. IsFiniteSet(0..2)
          BY <5>1, FS_Interval
        <5>. QED
          BY <5>2
      <4>. QED
        BY <4>1, FS_Subset DEF LandlordSeats
    <3>3. LandlordSeats \ {0} = {1, 2} /\ {1, 2} \ {1} = {2} /\ {2} \ {2} = {}
      BY <1>2
    <3>4. \A x \in LandlordSeats : d[x] \in Int
      BY <3>1
    <3> HIDE DEF d
    <3>5. Total(d, LandlordSeats) = d[0] + Total(d, {1, 2})
      BY <1>2, <3>2, <3>3, <3>4, TotalRemove
    <3>6. Total(d, {1, 2}) = d[1] + Total(d, {2})
      BY <1>2, <3>2, <3>3, <3>4, TotalRemove
    <3>7. Total(d, {2}) = d[2] + Total(d, {})
      BY <1>2, <3>2, <3>3, <3>4, TotalRemove
    <3>8. Total(d, {}) = 0
      BY TotalEmpty
    <3>9. Total(d, LandlordSeats) = 0
      BY <1>2, <3>1, <3>4, <3>5, <3>6, <3>7, <3>8
    <3>. QED
      BY <3>9, LandlordNames DEF d
  <2>. QED
    BY <1>2, <2>1, <2>2, <2>3 DEF Landlord!Settled, LandlordEnded
<1>5. Landlord!CardsConserved
  <2>1. /\ g.hands[0] \in LandlordHands /\ g.hands[1] \in LandlordHands
        /\ g.hands[2] \in LandlordHands /\ g.bottom \in LandlordHands /\ g.discard \in LandlordHands
    BY <1>1, <1>2 DEF LandlordStates
  <2> DEFINE two == Landlord!Plus(g.hands[0], g.hands[1])
             three == Landlord!Plus(two, g.hands[2])
             rest == Landlord!Plus(g.bottom, g.discard)
             all == Landlord!Plus(three, rest)
  <2>2. two \in LandlordHands /\ \A r \in LandlordRanks : two[r] = g.hands[0][r] + g.hands[1][r]
    BY <2>1, LandlordSums
  <2>3. rest \in LandlordHands /\ \A r \in LandlordRanks : rest[r] = g.bottom[r] + g.discard[r]
    BY <2>1, LandlordSums
  <2> HIDE DEF two, rest
  <2>4. three \in LandlordHands /\ \A r \in LandlordRanks : three[r] = two[r] + g.hands[2][r]
    BY <2>1, <2>2, LandlordSums
  <2> HIDE DEF three
  <2>5. all \in LandlordHands /\ \A r \in LandlordRanks : all[r] = three[r] + rest[r]
    BY <2>3, <2>4, LandlordSums
  <2> HIDE DEF all
  <2>6. \A r \in LandlordRanks : /\ g.hands[0][r] \in Nat /\ g.hands[1][r] \in Nat
                                 /\ g.hands[2][r] \in Nat /\ g.bottom[r] \in Nat
                                 /\ g.discard[r] \in Nat
    BY <2>1 DEF LandlordHands
  <2>7. \A r \in LandlordRanks : all[r] = Copies
    BY <1>1, <2>2, <2>3, <2>4, <2>5, <2>6 DEF LandlordComplete
  <2>8. all = Landlord!Full
    BY <2>5, <2>7 DEF Landlord!Full, LandlordHands, Landlord!Ranks, LandlordRanks
  <2>. QED
    BY <2>8 DEF Landlord!CardsConserved, all, three, two, rest
<1>. QED
  BY <1>3, <1>4, <1>5

-----------------------------------------------------------------------------
(* Uno. *)

LEMMA ColoursNames ==
  \A S : Colours!Cardinality(S) = Cardinality(S)
BY DEF Colours!Cardinality, Cardinality

ColoursSeats == 0..(SeatCount - 1)
ColoursHues == {c.color : c \in UnoCards}
ColoursEnds == [over : {TRUE}, winner : ColoursSeats]
ColoursStates ==
  [hands : [ColoursSeats -> SUBSET UnoCards], top : UnoCards, discard : SUBSET UnoCards,
   color : ColoursHues, deck : SUBSET UnoCards, order : SUBSET ColoursSeats,
   turn : ColoursSeats \cup {-1}, step : {1, -1}, drawn : SUBSET UnoCards,
   pending : [offender : ColoursSeats \cup {-1}, challenger : ColoursSeats \cup {-1},
              legal : BOOLEAN, winner : ColoursSeats \cup {-1}],
   window : [offender : ColoursSeats \cup {-1}, catcher : ColoursSeats \cup {-1}],
   result : ColoursEnds \cup {[over |-> FALSE]}]

\* Every card is in one place.
ColoursDealt(s) ==
  /\ \A c \in UnoCards : \/ c = s.top \/ c \in s.discard \/ c \in s.deck
                         \/ \E p \in ColoursSeats : c \in s.hands[p]
  /\ s.top \notin s.discard /\ s.top \notin s.deck /\ s.discard \cap s.deck = {}
  /\ \A p \in ColoursSeats : /\ s.top \notin s.hands[p]
                             /\ s.hands[p] \cap s.discard = {}
                             /\ s.hands[p] \cap s.deck = {}
  /\ \A p, q \in ColoursSeats : p # q => s.hands[p] \cap s.hands[q] = {}

\* Only a legal wild draw four can be somebody's last card.
ColoursAnswered(s) ==
  s.pending # Colours!NoPending =>
    /\ s.pending.challenger = s.turn /\ s.pending.offender \in s.order \ {s.turn}
    /\ s.pending.winner # -1 => /\ s.pending.legal /\ s.pending.winner = s.pending.offender
                                /\ s.hands[s.pending.winner] = {}
    /\ s.drawn = {}

ColoursCaught(s) ==
  s.window # Colours!NoWindow =>
    /\ s.window.catcher = s.turn /\ s.window.offender \in s.order \ {s.turn}
    /\ Cardinality(s.hands[s.window.offender]) = 1

ColoursOpen(s) ==
  /\ s.result = [over |-> FALSE]
  /\ s.turn \in s.order /\ \E q \in s.order : q # s.turn
  /\ s.drawn \subseteq s.hands[s.turn]
  /\ ColoursAnswered(s) /\ ColoursCaught(s)
  /\ s.order = ColoursSeats =>
       \A p \in ColoursSeats : s.hands[p] = {} => s.pending.winner = p

\* Who wins is at the table, without a card or alone.
ColoursWon(s, p) == p \in s.order /\ (s.hands[p] = {} \/ s.order = {p})

ColoursEnded(s) ==
  /\ s.result \in ColoursEnds /\ s.turn = -1 /\ ColoursWon(s, s.result.winner)
  /\ s.order = ColoursSeats =>
       \A p \in ColoursSeats : s.hands[p] = {} => s.result.winner = p

ColoursInv(s) ==
  s \in ColoursStates /\ ColoursDealt(s) /\ (ColoursOpen(s) \/ ColoursEnded(s))

ColoursConstants == Colours!NoSeat = -1 /\ Colours!Players = ColoursSeats

LEMMA ColoursNo ==
  /\ ColoursConstants /\ -1 \notin ColoursSeats
  /\ Colours!NoPending = [offender |-> -1, challenger |-> -1, legal |-> TRUE, winner |-> -1]
  /\ Colours!NoWindow = [offender |-> -1, catcher |-> -1]
BY DEF ColoursConstants, Colours!NoSeat, Colours!Players, ColoursSeats, Colours!NoPending,
       Colours!NoWindow

-----------------------------------------------------------------------------
(* The turn, in either direction. *)

LEMMA ColoursMet ==
  ASSUME GamesAssumption, NEW s \in ColoursStates, NEW p \in ColoursSeats, NEW q \in s.order
  PROVE  /\ Colours!Next1(s, p) \in s.order
         /\ q # p => Colours!Next1(s, p) # p
<1> DEFINE n == SeatCount
           e == s.step
           Met(k) == (p + e * k) % n \in s.order
           c == CHOOSE k \in 1..n : Met(k) /\ \A j \in 1..(k - 1) : ~Met(j)
           d == IF e = 1 THEN IF q > p THEN q - p ELSE q - p + n
                ELSE IF p > q THEN p - q ELSE p - q + n
           S == {k \in 1..n : Met(k)}
<1>1. n \in Nat \ {0} /\ e \in {1, -1} /\ p \in 0..(n - 1) /\ q \in 0..(n - 1)
  BY DEF GamesAssumption, ColoursStates, ColoursSeats
<1>2. Colours!Next1(s, p) = (p + e * c) % n
  BY DEF Colours!Next1
<1> HIDE DEF n, e
<1>3. d \in 1..n /\ (q # p => d # n) /\ (p + e * d) % n = q
  <2>1. CASE e = 1
    <3>1. d \in 1..n /\ (q # p => d # n) /\ (p + d = q \/ p + d = q + n)
      BY <1>1, <2>1
    <3>2. p + d \in 0..(2 * n - 1) /\ q < n
      BY <1>1, <3>1
    <3> HIDE DEF d
    <3>3. (p + d) % n = IF p + d < n THEN p + d ELSE p + d - n
      <4> DEFINE x == p + d
      <4>1. x \in 0..(2 * n - 1)
        BY <3>2
      <4> HIDE DEF x
      <4>2. x % n = IF x < n THEN x ELSE x - n
        BY ONLY <1>1, <4>1, Wraps
      <4>. QED
        BY <1>1, <3>1, <4>2 DEF x
    <3>4. e * d = d
      BY <2>1, <3>1
    <3>. QED
      BY <1>1, <3>1, <3>3, <3>4
  <2>2. CASE e = -1
    <3>1. d \in 1..n /\ (q # p => d # n) /\ (p - d = q \/ p - d = q - n)
      BY <1>1, <2>2
    <3> HIDE DEF d
    <3>2. e * d = -d /\ d \in Int
      BY <2>2, <3>1
    <3>3. p + e * d = q \/ p + e * d = q - n
      BY <1>1, <3>1, <3>2
    <3>4. q % n = q /\ (q - n) % n = q
      BY <1>1
    <3>. QED
      BY <3>1, <3>3, <3>4
  <2>. QED
    BY <1>1, <2>1, <2>2
<1> HIDE DEF d
<1>4. S \in SUBSET Nat /\ d \in S
  BY <1>1, <1>3
<1> HIDE DEF Met
<1>5. PICK k \in S : \A j \in S : k <= j
  BY <1>4, LeastNatural
<1>6. k \in 1..n /\ Met(k) /\ \A j \in 1..(k - 1) : ~Met(j)
  <2>1. k \in 1..n /\ Met(k)
    BY <1>5
  <2>2. ASSUME NEW j \in 1..(k - 1), Met(j) PROVE FALSE
    <3>1. j \in S /\ j < k
      BY <1>1, <2>1, <2>2
    <3>. QED
      BY <1>1, <1>5, <2>1, <3>1
  <2>. QED
    BY <2>1, <2>2
<1>7. c \in 1..n /\ Met(c) /\ \A j \in 1..(c - 1) : ~Met(j)
  BY <1>6
<1> HIDE DEF c
<1>8. (p + e * c) % n \in s.order
  BY <1>7 DEF Met
<1>9. ASSUME q # p PROVE (p + e * c) % n # p
  <2>1. c <= d
    <3>1. Met(d)
      BY <1>4
    <3>. QED
      BY <1>1, <1>3, <1>7, <3>1
  <2>2. c \in 1..n /\ c < n
    BY <1>1, <1>3, <1>7, <1>9, <2>1
  <2>3. CASE e = 1
    <3>1. e * c = c
      BY <2>2, <2>3
    <3>2. (p + c) % n = IF p + c < n THEN p + c ELSE p + c - n
      <4> DEFINE x == p + c
      <4>1. x \in 0..(2 * n - 1)
        BY <1>1, <2>2
      <4> HIDE DEF x
      <4>2. x % n = IF x < n THEN x ELSE x - n
        BY ONLY <1>1, <4>1, Wraps
      <4>. QED
        BY <1>1, <2>2, <4>2 DEF x
    <3>. QED
      BY <1>1, <2>2, <3>1, <3>2
  <2>4. CASE e = -1
    <3>1. e * c = -c
      BY <2>2, <2>4
    <3>2. (p - c) % n = IF p - c >= 0 THEN p - c ELSE p - c + n
      BY <1>1, <2>2
    <3>3. p + e * c = p - c
      BY <1>1, <2>2, <3>1
    <3>. QED
      BY <1>1, <2>2, <3>2, <3>3
  <2>. QED
    BY <1>1, <2>3, <2>4
<1>. QED
  BY <1>2, <1>8, <1>9

-----------------------------------------------------------------------------
(* Cards drawn. *)

\* Some hand has grown, and nothing but the piles has changed.
ColoursMore(s, t, p) ==
  /\ t \in ColoursStates /\ ColoursDealt(t)
  /\ \E h \in SUBSET UnoCards, deck \in SUBSET UnoCards, discard \in SUBSET UnoCards :
       t = [s EXCEPT !.hands = [s.hands EXCEPT ![p] = h], !.deck = deck, !.discard = discard]
  /\ t.order = s.order /\ t.turn = s.turn /\ t.step = s.step /\ t.drawn = s.drawn
  /\ t.pending = s.pending /\ t.window = s.window /\ t.result = s.result
  /\ \A q \in ColoursSeats : s.hands[q] \subseteq t.hands[q]
  /\ \A q \in ColoursSeats \ {p} : t.hands[q] = s.hands[q]

LEMMA ColoursDrawn ==
  ASSUME NEW s \in ColoursStates, ColoursDealt(s), NEW p \in ColoursSeats, NEW n,
         NEW t \in Colours!DrawMany(s, p, n)
  PROVE  ColoursMore(s, t, p)
<1>1. PICK c \in SUBSET UnoCards, deck \in SUBSET UnoCards, discard \in SUBSET UnoCards :
        /\ t = [s EXCEPT !.hands[p] = @ \cup c, !.deck = deck, !.discard = discard]
        /\ c \cap deck = {} /\ c \cap discard = {} /\ deck \cap discard = {}
        /\ c \cup deck \cup discard = s.deck \cup s.discard
  <2> DEFINE short == n - Colours!Cardinality(s.deck)
             from == {[cards |-> x, deck |-> s.deck \ x, discard |-> s.discard] :
                        x \in Colours!kSubset(n, s.deck)}
             other == {[cards |-> s.deck \cup x, deck |-> s.discard \ x, discard |-> {}] :
                        x \in Colours!kSubset(Colours!Min({short, Colours!Cardinality(s.discard)}),
                                              s.discard)}
             taken == IF short <= 0 THEN from ELSE other
  <2>1. PICK r \in taken :
          t = [s EXCEPT !.hands[p] = @ \cup r.cards, !.deck = r.deck, !.discard = r.discard]
    BY DEF Colours!DrawMany
  <2>2. s.deck \in SUBSET UnoCards /\ s.discard \in SUBSET UnoCards /\ s.deck \cap s.discard = {}
    BY DEF ColoursStates, ColoursDealt
  <2>3. CASE r \in from
    <3>1. PICK x \in SUBSET s.deck : r = [cards |-> x, deck |-> s.deck \ x, discard |-> s.discard]
      BY <2>3 DEF Colours!kSubset
    <3>2. r.cards = x /\ r.deck = s.deck \ x /\ r.discard = s.discard
      BY <3>1
    <3>3. /\ x \in SUBSET UnoCards /\ s.deck \ x \in SUBSET UnoCards
          /\ x \cap (s.deck \ x) = {} /\ x \cap s.discard = {} /\ (s.deck \ x) \cap s.discard = {}
          /\ x \cup (s.deck \ x) \cup s.discard = s.deck \cup s.discard
      BY <2>2
    <3>4. t = [s EXCEPT !.hands[p] = @ \cup x, !.deck = s.deck \ x, !.discard = s.discard]
      BY <2>1, <3>2
    <3>. QED
      BY <2>2, <3>3, <3>4
  <2>4. CASE r \in other
    <3>1. PICK x \in SUBSET s.discard :
            r = [cards |-> s.deck \cup x, deck |-> s.discard \ x, discard |-> {}]
      BY <2>4 DEF Colours!kSubset
    <3>2. r.cards = s.deck \cup x /\ r.deck = s.discard \ x /\ r.discard = {}
      BY <3>1
    <3> DEFINE c == s.deck \cup x
               deck == s.discard \ x
    <3>3. /\ c \in SUBSET UnoCards /\ deck \in SUBSET UnoCards /\ {} \in SUBSET UnoCards
          /\ c \cap deck = {} /\ c \cap {} = {} /\ deck \cap {} = {}
          /\ c \cup deck \cup {} = s.deck \cup s.discard
      BY <2>2
    <3>4. t = [s EXCEPT !.hands[p] = @ \cup c, !.deck = deck, !.discard = {}]
      BY <2>1, <3>2
    <3> HIDE DEF c, deck
    <3>. QED
      BY <3>3, <3>4
  <2>. QED
    BY <2>1, <2>3, <2>4
<1> DEFINE h == s.hands[p] \cup c
<1>2. s.hands \in [ColoursSeats -> SUBSET UnoCards] /\ h \in SUBSET UnoCards
  BY DEF ColoursStates
<1>3. t = [s EXCEPT !.hands = [s.hands EXCEPT ![p] = h], !.deck = deck, !.discard = discard]
  BY <1>1, <1>2 DEF ColoursStates
<1>4. /\ t \in ColoursStates
      /\ t.deck = deck /\ t.discard = discard /\ t.top = s.top
      /\ t.order = s.order /\ t.turn = s.turn /\ t.step = s.step /\ t.drawn = s.drawn
      /\ t.pending = s.pending /\ t.window = s.window /\ t.result = s.result
      /\ t.hands = [s.hands EXCEPT ![p] = h]
  <2> HIDE DEF h
  <2>1. [s.hands EXCEPT ![p] = h] \in [ColoursSeats -> SUBSET UnoCards]
    BY <1>2
  <2>. QED
    BY <1>3, <2>1 DEF ColoursStates
<1>5. t.hands[p] = s.hands[p] \cup c /\ \A q \in ColoursSeats \ {p} : t.hands[q] = s.hands[q]
  BY <1>2, <1>4
<1>6. ColoursDealt(t)
  <2>1. /\ s.top \notin t.discard /\ s.top \notin t.deck /\ t.discard \cap t.deck = {}
        /\ s.top \notin c
    BY <1>1, <1>4 DEF ColoursDealt
  <2>2. ASSUME NEW q \in ColoursSeats
        PROVE  s.top \notin t.hands[q] /\ t.hands[q] \cap t.discard = {} /\ t.hands[q] \cap t.deck = {}
    BY <1>1, <1>4, <1>5, <2>1 DEF ColoursDealt
  <2>3. ASSUME NEW q \in ColoursSeats, NEW r \in ColoursSeats, q # r
        PROVE  t.hands[q] \cap t.hands[r] = {}
    BY <1>1, <1>5, <2>3 DEF ColoursDealt
  <2>4. ASSUME NEW x \in UnoCards
        PROVE  \/ x = s.top \/ x \in t.discard \/ x \in t.deck
               \/ \E q \in ColoursSeats : x \in t.hands[q]
    <3>1. CASE x \in s.discard \/ x \in s.deck
      BY <1>1, <1>4, <1>5, <3>1
    <3>2. CASE \E q \in ColoursSeats : x \in s.hands[q]
      BY <1>5, <3>2
    <3>. QED
      BY <3>1, <3>2 DEF ColoursDealt
  <2>. QED
    BY <1>4, <2>1, <2>2, <2>3, <2>4 DEF ColoursDealt
<1>7. \A q \in ColoursSeats : s.hands[q] \subseteq t.hands[q]
  BY <1>5
<1> HIDE DEF h
<1>8. \E k \in SUBSET UnoCards, y \in SUBSET UnoCards, z \in SUBSET UnoCards :
        t = [s EXCEPT !.hands = [s.hands EXCEPT ![p] = k], !.deck = y, !.discard = z]
  BY <1>2, <1>3
<1>. QED
  BY <1>4, <1>5, <1>6, <1>7, <1>8 DEF ColoursMore

-----------------------------------------------------------------------------
(* The steps. *)

LEMMA ColoursClosed ==
  ASSUME NEW s \in ColoursStates, ColoursOpen(s), NEW p \in ColoursSeats, s.turn = p
  PROVE  /\ Colours!CloseWindow(s, p) = [s EXCEPT !.window = Colours!NoWindow]
         /\ [s EXCEPT !.window = Colours!NoWindow] \in ColoursStates
<1>1. s.window.catcher = p \/ s.window = Colours!NoWindow
  BY DEF ColoursOpen, ColoursCaught
<1>2. Colours!CloseWindow(s, p) =
        [s EXCEPT !.window = IF s.window.catcher = p THEN Colours!NoWindow ELSE s.window]
  BY DEF Colours!CloseWindow, ColoursStates
<1>3. Colours!NoWindow \in [offender : ColoursSeats \cup {-1}, catcher : ColoursSeats \cup {-1}]
  BY ColoursNo
<1>. QED
  BY <1>1, <1>2, <1>3 DEF ColoursStates

LEMMA ColoursOver ==
  ASSUME NEW s \in ColoursStates, ColoursDealt(s), NEW p \in ColoursSeats, ColoursWon(s, p),
         s.order = ColoursSeats => \A q \in ColoursSeats : s.hands[q] = {} => q = p
  PROVE  ColoursInv(Colours!Finish(s, p))
<1> DEFINE t == Colours!Finish(s, p)
           r == [over |-> TRUE, winner |-> p]
<1>1. r \in ColoursEnds /\ r.winner = p
  BY DEF ColoursEnds
<1> HIDE DEF r
<1>2. t = [s EXCEPT !.turn = -1, !.pending = Colours!NoPending, !.window = Colours!NoWindow,
                    !.drawn = {}, !.result = r]
  BY ColoursNo DEF Colours!Finish, ColoursConstants, r
<1> HIDE DEF t
<1>3. /\ Colours!NoWindow \in [offender : ColoursSeats \cup {-1}, catcher : ColoursSeats \cup {-1}]
      /\ Colours!NoPending \in [offender : ColoursSeats \cup {-1},
           challenger : ColoursSeats \cup {-1}, legal : BOOLEAN, winner : ColoursSeats \cup {-1}]
  BY ColoursNo
<1>4. /\ t \in ColoursStates /\ t.result = r /\ t.turn = -1 /\ t.order = s.order
      /\ t.hands = s.hands /\ t.deck = s.deck /\ t.discard = s.discard /\ t.top = s.top
  BY <1>1, <1>2, <1>3 DEF ColoursStates
<1>5. ColoursDealt(t)
  BY <1>4 DEF ColoursDealt
<1>6. ColoursEnded(t)
  BY <1>1, <1>4 DEF ColoursEnded, ColoursWon
<1>. QED
  BY <1>4, <1>5, <1>6 DEF ColoursInv, t

LEMMA ColoursPass ==
  ASSUME GamesAssumption, ColoursInv(g), ColoursOpen(g), NEW p \in ColoursSeats, Colours!Pass(p)
  PROVE  ColoursInv(g')
<1>1. /\ g \in ColoursStates /\ ColoursDealt(g) /\ g.turn = p /\ g.pending = Colours!NoPending
      /\ p \in g.order /\ \E q \in g.order : q # p
  BY DEF ColoursInv, Colours!Pass, Colours!Free, ColoursOpen
<1> DEFINE s == [g EXCEPT !.window = Colours!NoWindow]
           next == Colours!Next1(g, p)
<1>2. g' = [s EXCEPT !.drawn = {}, !.turn = next]
  BY <1>1, ColoursClosed DEF Colours!Pass
<1>3. s \in ColoursStates
  BY <1>1, ColoursClosed
<1>4. next \in g.order /\ next # p /\ next \in ColoursSeats
  <2>1. PICK q \in g.order : q # p
    BY <1>1
  <2>2. next \in g.order /\ next # p
    BY <1>1, <2>1, ColoursMet
  <2>. QED
    BY <1>1, <2>2 DEF ColoursStates
<1> HIDE DEF next
<1>5. /\ g' \in ColoursStates /\ g'.turn = next /\ g'.drawn = {} /\ g'.window = Colours!NoWindow
      /\ g'.pending = g.pending /\ g'.order = g.order /\ g'.hands = g.hands /\ g'.top = g.top
      /\ g'.deck = g.deck /\ g'.discard = g.discard /\ g'.result = g.result
  BY <1>1, <1>2, <1>3, <1>4 DEF ColoursStates
<1>6. ColoursDealt(g')
  BY <1>1, <1>5 DEF ColoursDealt
<1>7. ColoursOpen(g')
  BY <1>1, <1>4, <1>5 DEF ColoursOpen, ColoursAnswered, ColoursCaught
<1>. QED
  BY <1>5, <1>6, <1>7 DEF ColoursInv

LEMMA ColoursCatch ==
  ASSUME GamesAssumption, ColoursInv(g), ColoursOpen(g), NEW p \in ColoursSeats,
         Colours!CatchUno(p)
  PROVE  ColoursInv(g')
<1>1. /\ g \in ColoursStates /\ ColoursDealt(g) /\ g.turn = p /\ g.window.catcher = p
      /\ g.window.offender \in ColoursSeats
  <2>1. g \in ColoursStates /\ ColoursDealt(g) /\ g.turn = p /\ g.window.catcher = p
    BY DEF ColoursInv, Colours!CatchUno
  <2>2. g.window # Colours!NoWindow
    BY <2>1, ColoursNo
  <2>. QED
    BY <2>1, <2>2 DEF ColoursOpen, ColoursCaught, ColoursStates
<1> DEFINE s == [g EXCEPT !.window = Colours!NoWindow]
<1>2. g' \in Colours!DrawMany(s, g.window.offender, 2)
  BY DEF Colours!CatchUno
<1>3. s \in ColoursStates
  BY <1>1, ColoursClosed
<1>4. /\ s.window = Colours!NoWindow /\ s.turn = g.turn /\ s.drawn = g.drawn /\ s.result = g.result
      /\ s.pending = g.pending /\ s.order = g.order /\ s.hands = g.hands /\ s.top = g.top
      /\ s.deck = g.deck /\ s.discard = g.discard
  BY <1>1 DEF ColoursStates
<1>5. ColoursDealt(s)
  BY <1>1, <1>4 DEF ColoursDealt
<1> HIDE DEF s
<1>6. ColoursMore(s, g', g.window.offender)
  BY <1>1, <1>2, <1>3, <1>5, ColoursDrawn
<1>7. ColoursOpen(g')
  <2>1. g.order = ColoursSeats =>
          \A q \in ColoursSeats : g'.hands[q] = {} => g'.pending.winner = q
    BY <1>4, <1>6 DEF ColoursMore, ColoursOpen
  <2>2. g'.drawn \subseteq g'.hands[p]
    BY <1>1, <1>4, <1>6 DEF ColoursMore, ColoursOpen
  <2>3. ColoursCaught(g')
    BY <1>4, <1>6 DEF ColoursMore, ColoursCaught
  <2>4. g.hands[g.window.offender] # {}
    <3>1. Cardinality(g.hands[g.window.offender]) = 1
      BY <1>1, ColoursNo DEF ColoursOpen, ColoursCaught
    <3>. QED
      BY <3>1, FS_EmptySet
  <2>5. ColoursAnswered(g')
    <3>1. SUFFICES ASSUME g'.pending # Colours!NoPending PROVE ColoursAnswered(g')
      BY DEF ColoursAnswered
    <3>2. /\ g'.pending = g.pending /\ g'.turn = g.turn /\ g'.order = g.order
          /\ g'.drawn = g.drawn
          /\ \A q \in ColoursSeats \ {g.window.offender} : g'.hands[q] = g.hands[q]
      BY <1>4, <1>6 DEF ColoursMore
    <3>3. g.pending.winner \in ColoursSeats \cup {-1} /\ ColoursAnswered(g)
      BY <1>1 DEF ColoursStates, ColoursOpen
    <3>4. g.pending.winner # -1 =>
            g.pending.winner \in ColoursSeats \ {g.window.offender} /\ g.hands[g.pending.winner] = {}
      BY <2>4, <3>1, <3>2, <3>3 DEF ColoursAnswered
    <3>. QED
      BY <3>1, <3>2, <3>3, <3>4 DEF ColoursAnswered
  <2>. QED
    BY <1>1, <1>4, <1>6, <2>1, <2>2, <2>3, <2>5 DEF ColoursMore, ColoursOpen
<1>. QED
  BY <1>6, <1>7 DEF ColoursInv, ColoursMore

\* The turn goes on: the answer, or the draw, of p is done.
LEMMA ColoursOn ==
  ASSUME GamesAssumption, NEW s \in ColoursStates, ColoursDealt(s), NEW p \in ColoursSeats,
         p \in s.order, \E q \in s.order : q # p, s.result = [over |-> FALSE], s.drawn = {},
         s.pending = Colours!NoPending, s.window = Colours!NoWindow,
         s.order = ColoursSeats => \A q \in ColoursSeats : s.hands[q] # {}
  PROVE  ColoursInv([s EXCEPT !.turn = Colours!Next1(s, p)])
<1> DEFINE next == Colours!Next1(s, p)
           t == [s EXCEPT !.turn = next]
<1>1. PICK q \in s.order : q # p
  OBVIOUS
<1>2. next \in s.order /\ next # p
  BY <1>1, ColoursMet
<1> HIDE DEF next
<1>3. /\ t \in ColoursStates /\ t.turn = next /\ t.drawn = s.drawn /\ t.window = s.window
      /\ t.pending = s.pending /\ t.order = s.order /\ t.hands = s.hands /\ t.top = s.top
      /\ t.deck = s.deck /\ t.discard = s.discard /\ t.result = s.result
  BY <1>2 DEF ColoursStates
<1> HIDE DEF t
<1>4. ColoursDealt(t)
  BY <1>3 DEF ColoursDealt
<1>5. ColoursOpen(t)
  BY <1>2, <1>3 DEF ColoursOpen, ColoursAnswered, ColoursCaught
<1>. QED
  BY <1>3, <1>4, <1>5 DEF ColoursInv, t, next

LEMMA ColoursDraw ==
  ASSUME GamesAssumption, ColoursInv(g), ColoursOpen(g), NEW p \in ColoursSeats, Colours!Draw(p)
  PROVE  ColoursInv(g')
<1>1. /\ g \in ColoursStates /\ ColoursDealt(g) /\ g.turn = p /\ g.pending = Colours!NoPending
      /\ p \in g.order /\ \E q \in g.order : q # p
      /\ g.drawn = {} /\ g.result = [over |-> FALSE]
  BY DEF ColoursInv, Colours!Draw, Colours!Free, ColoursOpen
<1> DEFINE s == [g EXCEPT !.window = Colours!NoWindow]
<1>2. PICK t \in Colours!DrawMany(s, p, 1) :
        LET fit == {c \in t.hands[p] \ g.hands[p] : Colours!CanPlay(t, c)}
        IN g' = IF fit # {} THEN [t EXCEPT !.drawn = fit]
                ELSE [t EXCEPT !.turn = Colours!Next1(t, p)]
  BY <1>1, ColoursClosed DEF Colours!Draw
<1>3. s \in ColoursStates
  BY <1>1, ColoursClosed
<1>4. /\ s.window = Colours!NoWindow /\ s.turn = p /\ s.drawn = {} /\ s.result = [over |-> FALSE]
      /\ s.pending = Colours!NoPending /\ s.order = g.order /\ s.hands = g.hands /\ s.top = g.top
      /\ s.deck = g.deck /\ s.discard = g.discard
  BY <1>1 DEF ColoursStates
<1>5. ColoursDealt(s)
  BY <1>1, <1>4 DEF ColoursDealt
<1> HIDE DEF s
<1>6. ColoursMore(s, t, p)
  BY <1>2, <1>3, <1>5, ColoursDrawn
<1>7. g.order = ColoursSeats => \A q \in ColoursSeats : g.hands[q] # {}
  BY <1>1, ColoursNo DEF ColoursOpen
<1>8. /\ t \in ColoursStates /\ ColoursDealt(t) /\ t.order = g.order /\ t.turn = p /\ t.drawn = {}
      /\ t.pending = Colours!NoPending /\ t.window = Colours!NoWindow
      /\ t.result = [over |-> FALSE]
      /\ t.order = ColoursSeats => \A q \in ColoursSeats : t.hands[q] # {}
  BY <1>4, <1>6, <1>7 DEF ColoursMore
<1> DEFINE fit == {c \in t.hands[p] \ g.hands[p] : Colours!CanPlay(t, c)}
<1>9. CASE fit # {}
  <2>1. g' = [t EXCEPT !.drawn = fit]
    BY <1>2, <1>9
  <2>2. fit \subseteq t.hands[p] /\ fit \in SUBSET UnoCards
    BY <1>8 DEF ColoursStates
  <2> HIDE DEF fit
  <2>3. /\ g' \in ColoursStates /\ g'.turn = p /\ g'.drawn = fit /\ g'.window = t.window
        /\ g'.pending = t.pending /\ g'.order = t.order /\ g'.hands = t.hands /\ g'.top = t.top
        /\ g'.deck = t.deck /\ g'.discard = t.discard /\ g'.result = t.result
    BY <1>8, <2>1, <2>2 DEF ColoursStates
  <2>4. ColoursDealt(g')
    BY <1>8, <2>3 DEF ColoursDealt
  <2>5. ColoursOpen(g')
    BY <1>1, <1>8, <2>2, <2>3 DEF ColoursOpen, ColoursAnswered, ColoursCaught
  <2>. QED
    BY <2>3, <2>4, <2>5 DEF ColoursInv
<1>10. CASE fit = {}
  <2>1. g' = [t EXCEPT !.turn = Colours!Next1(t, p)]
    BY <1>2, <1>10
  <2>2. p \in t.order /\ \E q \in t.order : q # p
    BY <1>1, <1>8
  <2>. QED
    BY <1>8, <2>1, <2>2, ColoursOn
<1>. QED
  BY <1>9, <1>10

LEMMA ColoursAnswer ==
  ASSUME GamesAssumption, ColoursInv(g), ColoursOpen(g), NEW p \in ColoursSeats,
         Colours!Answer(p)
  PROVE  ColoursInv(g')
<1>1. /\ g \in ColoursStates /\ ColoursDealt(g) /\ g.turn = p /\ g.pending # Colours!NoPending
      /\ p \in g.order /\ \E q \in g.order : q # p
      /\ g.result = [over |-> FALSE] /\ g.drawn \subseteq g.hands[p]
  <2>1. g.pending.challenger = p
    BY DEF Colours!Answer
  <2>2. g.pending # Colours!NoPending
    BY <2>1, ColoursNo
  <2>. QED
    BY <2>2 DEF ColoursInv, Colours!Answer, ColoursOpen
<1> DEFINE s == [Colours!CloseWindow(g, p) EXCEPT !.pending = Colours!NoPending]
           winner == g.pending.winner
<1>2. \/ ~g.pending.legal /\ g' \in Colours!DrawMany(s, g.pending.offender, 4)
      \/ \E n \in Int : \E d \in Colours!DrawMany(s, p, n) :
           g' = IF winner # -1 THEN Colours!Finish(d, winner)
                ELSE [d EXCEPT !.turn = Colours!Next1(d, p)]
  <2>1. {4} \cup (IF g.pending.legal THEN {6} ELSE {}) \subseteq Int
    OBVIOUS
  <2>. QED
    BY <2>1, ColoursNo DEF Colours!Answer, ColoursConstants
<1>3. winner # -1 => /\ g.pending.legal /\ winner \in ColoursSeats /\ winner \in g.order
                    /\ winner # p /\ g.hands[winner] = {}
  BY <1>1 DEF ColoursOpen, ColoursAnswered, ColoursStates
<1>4. g.pending.offender \in g.order \ {p} /\ g.pending.offender \in ColoursSeats /\ g.drawn = {}
  BY <1>1 DEF ColoursOpen, ColoursAnswered, ColoursStates
<1>5. s = [g EXCEPT !.window = Colours!NoWindow, !.pending = Colours!NoPending]
  BY <1>1, ColoursClosed DEF ColoursStates
<1> HIDE DEF s
<1>6. /\ Colours!NoWindow \in [offender : ColoursSeats \cup {-1}, catcher : ColoursSeats \cup {-1}]
      /\ Colours!NoPending \in [offender : ColoursSeats \cup {-1},
           challenger : ColoursSeats \cup {-1}, legal : BOOLEAN, winner : ColoursSeats \cup {-1}]
  BY ColoursNo
<1>7. /\ s \in ColoursStates
      /\ s.window = Colours!NoWindow /\ s.turn = p /\ s.drawn = {} /\ s.result = [over |-> FALSE]
      /\ s.pending = Colours!NoPending /\ s.order = g.order /\ s.hands = g.hands /\ s.top = g.top
      /\ s.deck = g.deck /\ s.discard = g.discard
  BY <1>1, <1>4, <1>5, <1>6 DEF ColoursStates
<1>8. ColoursDealt(s)
  BY <1>1, <1>7 DEF ColoursDealt
<1>9. g.order = ColoursSeats => \A q \in ColoursSeats : g.hands[q] = {} => q = winner
  BY <1>1 DEF ColoursOpen
<1>10. CASE ~g.pending.legal /\ g' \in Colours!DrawMany(s, g.pending.offender, 4)
  <2>1. ColoursMore(s, g', g.pending.offender)
    BY <1>4, <1>7, <1>8, <1>10, ColoursDrawn
  <2>2. g.order = ColoursSeats => \A q \in ColoursSeats : g.hands[q] # {}
    BY <1>3, <1>9, <1>10, ColoursNo
  <2>3. ColoursOpen(g')
    BY <1>1, <1>7, <2>1, <2>2 DEF ColoursMore, ColoursOpen, ColoursAnswered, ColoursCaught
  <2>. QED
    BY <2>1, <2>3 DEF ColoursInv, ColoursMore
<1>11. ASSUME NEW n \in Int, NEW d \in Colours!DrawMany(s, p, n),
              g' = IF winner # -1 THEN Colours!Finish(d, winner)
                   ELSE [d EXCEPT !.turn = Colours!Next1(d, p)]
       PROVE  ColoursInv(g')
  <2>1. ColoursMore(s, d, p)
    BY <1>7, <1>8, ColoursDrawn
  <2>2. /\ d \in ColoursStates /\ ColoursDealt(d) /\ d.order = g.order /\ d.drawn = {}
        /\ d.pending = Colours!NoPending /\ d.window = Colours!NoWindow
        /\ d.result = [over |-> FALSE] /\ \A q \in ColoursSeats : g.hands[q] \subseteq d.hands[q]
    BY <1>7, <2>1 DEF ColoursMore
  <2>3. d.order = ColoursSeats => \A q \in ColoursSeats : d.hands[q] = {} => q = winner
    BY <1>9, <2>2
  <2>4. CASE winner # -1
    <3>1. g' = Colours!Finish(d, winner) /\ winner \in ColoursSeats
      BY <1>3, <1>11, <2>4
    <3>2. ColoursWon(d, winner)
      <4>1. winner \in d.order /\ winner \in ColoursSeats \ {p} /\ g.hands[winner] = {}
        BY <1>3, <2>2, <2>4
      <4>2. d.hands[winner] = s.hands[winner] /\ s.hands = g.hands
        BY <1>7, <2>1, <4>1 DEF ColoursMore
      <4>. QED
        BY <4>1, <4>2 DEF ColoursWon
    <3> HIDE DEF winner
    <3>. QED
      BY <2>2, <2>3, <3>1, <3>2, ColoursOver
  <2>5. CASE winner = -1
    <3>1. g' = [d EXCEPT !.turn = Colours!Next1(d, p)]
      BY <1>11, <2>5
    <3>2. d.order = ColoursSeats => \A q \in ColoursSeats : d.hands[q] # {}
      BY <2>3, <2>5, ColoursNo
    <3>3. p \in d.order /\ \E q \in d.order : q # p
      BY <1>1, <2>2
    <3>. QED
      BY <2>2, <3>1, <3>2, <3>3, ColoursOn
  <2>. QED
    BY <2>4, <2>5
<1>. QED
  BY <1>2, <1>10, <1>11

LEMMA ColoursResign ==
  ASSUME GamesAssumption, ColoursInv(g), ColoursOpen(g), NEW p \in ColoursSeats,
         Colours!Resign(p)
  PROVE  ColoursInv(g')
<1>1. /\ g \in ColoursStates /\ ColoursDealt(g) /\ p \in g.order
      /\ g.turn \in g.order /\ g.turn \in ColoursSeats /\ \E q \in g.order : q # g.turn
      /\ g.result = [over |-> FALSE] /\ g.drawn \subseteq g.hands[g.turn]
      /\ g.order \in SUBSET ColoursSeats
  BY DEF ColoursInv, Colours!Resign, ColoursOpen, ColoursStates
<1> DEFINE rest == g.order \ {p}
           turn == IF g.turn = p THEN Colours!Next1(g, p) ELSE g.turn
           drawn == IF g.turn = p THEN {} ELSE g.drawn
           pending == IF p \in {g.pending.offender, g.pending.challenger}
                      THEN Colours!NoPending ELSE g.pending
           window == IF p \in {g.window.offender, g.window.catcher}
                     THEN Colours!NoWindow ELSE g.window
           s == [g EXCEPT !.order = rest, !.turn = turn, !.drawn = drawn, !.pending = pending,
                          !.window = window]
<1>2. g' = IF Colours!Cardinality(rest) = 1 THEN Colours!Finish(s, CHOOSE q \in rest : TRUE) ELSE s
  BY <1>1 DEF Colours!Resign, ColoursStates
<1>3. /\ window \in [offender : ColoursSeats \cup {-1}, catcher : ColoursSeats \cup {-1}]
      /\ pending \in [offender : ColoursSeats \cup {-1}, challenger : ColoursSeats \cup {-1},
                       legal : BOOLEAN, winner : ColoursSeats \cup {-1}]
      /\ drawn \in SUBSET UnoCards
  BY <1>1, ColoursNo DEF ColoursStates
<1>4. turn \in rest /\ turn \in ColoursSeats
  <2>1. CASE g.turn = p
    <3>1. PICK q \in g.order : q # p
      BY <1>1, <2>1
    <3>2. Colours!Next1(g, p) \in g.order /\ Colours!Next1(g, p) # p
      BY <1>1, <3>1, ColoursMet
    <3>. QED
      BY <1>1, <2>1, <3>2
  <2>2. CASE g.turn # p
    BY <1>1, <2>2
  <2>. QED
    BY <2>1, <2>2
<1>5. pending = Colours!NoPending \/ (pending = g.pending /\ p # g.pending.offender /\ turn = g.turn)
  BY <1>1 DEF ColoursOpen, ColoursAnswered
<1>6. window = Colours!NoWindow \/ (window = g.window /\ p # g.window.offender /\ turn = g.turn)
  BY <1>1 DEF ColoursOpen, ColoursCaught
<1>7. drawn = {} \/ (drawn = g.drawn /\ turn = g.turn)
  OBVIOUS
<1>8. g.drawn = {} => drawn = {}
  OBVIOUS
<1> HIDE DEF turn, drawn, pending, window
<1>9. /\ s \in ColoursStates /\ s.order = rest /\ s.turn = turn /\ s.drawn = drawn
      /\ s.pending = pending /\ s.window = window /\ s.result = [over |-> FALSE]
      /\ s.hands = g.hands /\ s.top = g.top /\ s.deck = g.deck /\ s.discard = g.discard
  <2>1. rest \in SUBSET ColoursSeats
    BY <1>1
  <2> HIDE DEF rest
  <2>. QED
    BY <1>1, <1>3, <1>4, <2>1, ZenonT(60) DEF ColoursStates
<1> HIDE DEF s
<1>10. ColoursDealt(s)
  BY <1>1, <1>9 DEF ColoursDealt
<1>11. rest # ColoursSeats /\ rest \in SUBSET ColoursSeats /\ IsFiniteSet(rest) /\ rest # {}
  <2>1. IsFiniteSet(ColoursSeats)
    BY SeatsFinite DEF GamesAssumption, ColoursSeats
  <2>2. rest \in SUBSET ColoursSeats
    BY <1>1
  <2>3. IsFiniteSet(rest)
    BY <2>1, <2>2, FS_Subset
  <2>. QED
    BY <1>4, <2>2, <2>3
<1>12. CASE Colours!Cardinality(rest) = 1
  <2>1. g' = Colours!Finish(s, CHOOSE q \in rest : TRUE)
    BY <1>2, <1>12
  <2>2. (CHOOSE q \in rest : TRUE) \in ColoursSeats
    BY <1>11
  <2>3. rest = {CHOOSE q \in rest : TRUE}
    <3>1. Cardinality(rest) = 1
      BY <1>12, ColoursNames
    <3>2. PICK x : rest = {x}
      BY <1>11, <3>1, FS_Singleton
    <3>. QED
      BY <3>2
  <2>4. ColoursWon(s, CHOOSE q \in rest : TRUE)
    BY <1>9, <2>3 DEF ColoursWon
  <2>. QED
    BY <1>9, <1>10, <1>11, <2>1, <2>2, <2>4, ColoursOver
<1>13. CASE Colours!Cardinality(rest) # 1
  <2>1. g' = s
    BY <1>2, <1>13
  <2>2. Cardinality(rest) # 1
    BY <1>13, ColoursNames
  <2>3. PICK x \in rest, y \in rest : x # y
    BY <1>11, <2>2, OneOrTwo
  <2>4. \E q \in rest : q # turn
    BY <2>3
  <2>5. ColoursAnswered(s)
    <3>1. CASE pending = Colours!NoPending
      BY <1>9, <3>1 DEF ColoursAnswered
    <3>2. CASE pending = g.pending /\ pending # Colours!NoPending /\ p # g.pending.offender /\ turn = g.turn
      BY <1>8, <1>9, <3>2 DEF ColoursOpen, ColoursAnswered
    <3>. QED
      BY <1>5, <3>1, <3>2
  <2>6. ColoursCaught(s)
    <3>1. CASE window = Colours!NoWindow
      BY <1>9, <3>1 DEF ColoursCaught
    <3>2. CASE window = g.window /\ window # Colours!NoWindow /\ p # g.window.offender /\ turn = g.turn
      BY <1>9, <3>2 DEF ColoursOpen, ColoursCaught
    <3>. QED
      BY <1>6, <3>1, <3>2
  <2>7. s.drawn \subseteq s.hands[s.turn]
    BY <1>1, <1>7, <1>9
  <2>8. ColoursOpen(s)
    BY <1>4, <1>9, <1>11, <2>4, <2>5, <2>6, <2>7 DEF ColoursOpen
  <2>. QED
    BY <1>9, <1>10, <2>1, <2>8 DEF ColoursInv
<1>. QED
  BY <1>12, <1>13

\* The card is on the pile and the turn has been decided: g before, s after.
ColoursTold(s, p, rest) ==
  /\ s \in ColoursStates /\ ColoursDealt(s) /\ s.order = g.order /\ s.drawn = {}
  /\ s.pending = Colours!NoPending /\ s.result = [over |-> FALSE]
  /\ s.hands[p] = rest /\ \A q \in ColoursSeats \ {p} : s.hands[q] = g.hands[q]
  /\ s.turn \in g.order /\ ColoursCaught(s)
  /\ s.window # Colours!NoWindow => s.window.offender = p

LEMMA ColoursWaits ==
  ASSUME ColoursInv(g), ColoursOpen(g), NEW p \in ColoursSeats, g.turn = p,
         g.pending = Colours!NoPending, NEW rest, NEW s, ColoursTold(s, p, rest),
         NEW next \in g.order, next # p, s.turn = next, NEW legal \in BOOLEAN,
         rest = {} => legal
  PROVE  ColoursInv([s EXCEPT !.pending = [offender |-> p, challenger |-> next,
                                           legal |-> legal,
                                           winner |-> IF rest = {} THEN p ELSE -1]])
<1> DEFINE winner == IF rest = {} THEN p ELSE -1
           pending == [offender |-> p, challenger |-> next, legal |-> legal, winner |-> winner]
           t == [s EXCEPT !.pending = pending]
<1>1. /\ p \in g.order /\ next \in ColoursSeats /\ g \in ColoursStates
  BY DEF ColoursInv, ColoursOpen, ColoursStates
<1>2. /\ winner \in ColoursSeats \cup {-1} /\ (rest = {} => winner = p)
      /\ winner # -1 => legal /\ winner = p /\ rest = {}
  BY ColoursNo
<1> HIDE DEF winner
<1>3. /\ pending \in [offender : ColoursSeats \cup {-1}, challenger : ColoursSeats \cup {-1},
                      legal : BOOLEAN, winner : ColoursSeats \cup {-1}]
      /\ pending.offender = p /\ pending.challenger = next /\ pending.legal = legal
      /\ pending.winner = winner
  BY <1>1, <1>2
<1> HIDE DEF pending
<1>4. /\ t \in ColoursStates /\ t.pending = pending /\ t.turn = next /\ t.drawn = {}
      /\ t.window = s.window /\ t.order = g.order /\ t.hands = s.hands /\ t.top = s.top
      /\ t.deck = s.deck /\ t.discard = s.discard /\ t.result = [over |-> FALSE]
  BY <1>3 DEF ColoursStates, ColoursTold
<1> HIDE DEF t
<1>5. ColoursDealt(t)
  BY <1>4 DEF ColoursDealt, ColoursTold
<1>6. ColoursAnswered(t) /\ ColoursCaught(t)
  BY <1>1, <1>2, <1>3, <1>4 DEF ColoursAnswered, ColoursCaught, ColoursTold
<1>7. t.order = ColoursSeats => \A q \in ColoursSeats : t.hands[q] = {} => t.pending.winner = q
  <2>1. SUFFICES ASSUME t.order = ColoursSeats, NEW q \in ColoursSeats, t.hands[q] = {}
                 PROVE  q = p /\ rest = {}
    BY <1>2, <1>3, <1>4
  <2>2. g.hands[q] # {}
    BY <1>4, <2>1, ColoursNo DEF ColoursOpen
  <2>. QED
    BY <1>4, <2>1, <2>2 DEF ColoursTold
<1>8. ColoursOpen(t)
  BY <1>1, <1>4, <1>6, <1>7 DEF ColoursOpen
<1>. QED
  BY <1>4, <1>5, <1>8 DEF ColoursInv, t, pending, winner

LEMMA ColoursPlays ==
  ASSUME ColoursInv(g), ColoursOpen(g), NEW p \in ColoursSeats, g.turn = p,
         g.pending = Colours!NoPending, NEW rest, NEW s, ColoursTold(s, p, rest),
         NEW next \in g.order, next # p, NEW n, NEW d \in Colours!DrawMany(s, next, n)
  PROVE  ColoursInv(IF rest = {} THEN Colours!Finish(d, p) ELSE d)
<1>1. /\ s \in ColoursStates /\ ColoursDealt(s) /\ next \in ColoursSeats /\ p \in g.order
      /\ g \in ColoursStates
  BY DEF ColoursTold, ColoursInv, ColoursOpen, ColoursStates
<1>2. ColoursMore(s, d, next)
  BY <1>1, ColoursDrawn
<1>3. /\ d \in ColoursStates /\ ColoursDealt(d) /\ d.order = g.order /\ d.turn = s.turn /\ d.drawn = {}
      /\ d.pending = Colours!NoPending /\ d.window = s.window /\ d.result = [over |-> FALSE]
      /\ d.hands[p] = rest /\ \A q \in ColoursSeats : s.hands[q] \subseteq d.hands[q]
  BY <1>2 DEF ColoursMore, ColoursTold
<1>4. g.order = ColoursSeats => \A q \in ColoursSeats : d.hands[q] = {} => q = p /\ rest = {}
  <2>1. SUFFICES ASSUME g.order = ColoursSeats, NEW q \in ColoursSeats, d.hands[q] = {}
                 PROVE  q = p /\ rest = {}
    OBVIOUS
  <2>2. g.hands[q] # {}
    BY <2>1, ColoursNo DEF ColoursOpen
  <2>. QED
    BY <1>3, <2>1, <2>2 DEF ColoursTold
<1>5. CASE rest = {}
  <2>1. ColoursWon(d, p)
    BY <1>1, <1>3, <1>5 DEF ColoursWon
  <2>2. ColoursInv(Colours!Finish(d, p))
    BY <1>3, <1>4, <2>1, ColoursOver
  <2>. QED
    BY <1>5, <2>2
<1>6. CASE rest # {}
  <2>1. ColoursCaught(d)
    BY <1>3 DEF ColoursTold, ColoursCaught
  <2>2. d.turn \in d.order /\ \E q \in d.order : q # d.turn
    BY <1>1, <1>3 DEF ColoursTold
  <2>3. d.order = ColoursSeats => \A q \in ColoursSeats : d.hands[q] = {} => d.pending.winner = q
    BY <1>3, <1>4, <1>6
  <2>4. ColoursOpen(d)
    BY <1>3, <2>1, <2>2, <2>3 DEF ColoursOpen, ColoursAnswered
  <2>. QED
    BY <1>3, <1>6, <2>4 DEF ColoursInv
<1>. QED
  BY <1>5, <1>6

LEMMA ColoursPlay ==
  ASSUME GamesAssumption, ColoursInv(g), ColoursOpen(g), NEW p \in ColoursSeats, Colours!Play(p)
  PROVE  ColoursInv(g')
<1>1. /\ g \in ColoursStates /\ ColoursDealt(g) /\ g.turn = p /\ g.pending = Colours!NoPending
      /\ p \in g.order /\ \E q \in g.order : q # p
      /\ g.result = [over |-> FALSE] /\ g.drawn \subseteq g.hands[p]
  BY ZenonT(60) DEF ColoursInv, Colours!Play, Colours!Free, ColoursOpen
<1> DEFINE fresh == Colours!CloseWindow(g, p)
           two == Colours!Cardinality(g.order) = 2
           Goes(card, color, uno) ==
             LET held == g.hands[p] \ {card}
                 t == [fresh EXCEPT
                         !.hands[p] = held, !.discard = @ \cup {g.top}, !.top = card,
                         !.color = color, !.drawn = {},
                         !.step = IF card.kind = "reverse" /\ ~two THEN -@ ELSE @]
                 follows == Colours!Next1(t, p)
                 ahead == IF card.kind \in {"skip", "draw_two"} \/ (card.kind = "reverse" /\ two)
                          THEN Colours!Next1(t, follows) ELSE follows
                 said == [t EXCEPT
                   !.turn = ahead,
                   !.window = IF Colours!Cardinality(held) = 1 /\ ~uno /\ ahead # p
                              THEN [offender |-> p, catcher |-> ahead]
                              ELSE IF held = {} \/ uno THEN Colours!NoWindow ELSE @]
             IN /\ Colours!CanPlay(g, card)
                /\ uno => Colours!Cardinality(held) = 1
                /\ IF card.kind = "wild_draw_four"
                   THEN g' = [said EXCEPT
                                !.pending = [offender |-> p, challenger |-> follows,
                                             legal |-> ~\E c \in held : c.color = g.color,
                                             winner |-> IF held = {} THEN p ELSE Colours!NoSeat]]
                   ELSE \E d \in Colours!DrawMany(said, follows,
                                                  IF card.kind = "draw_two" THEN 2 ELSE 0) :
                          g' = IF held = {} THEN Colours!Finish(d, p) ELSE d
<1>a. PICK card \in IF g.drawn = {} THEN g.hands[p] ELSE g.drawn :
        \E color \in IF card.kind \in Colours!Wild THEN Colours!Colors ELSE {card.color} :
        \E uno \in BOOLEAN : Goes(card, color, uno)
  BY DEF Colours!Play
<1> HIDE DEF Goes
<1>b. PICK color \in IF card.kind \in Colours!Wild THEN Colours!Colors ELSE {card.color},
            uno \in BOOLEAN : Goes(card, color, uno)
  BY <1>a
<1>2. card \in g.hands[p] /\ color \in ColoursHues
  <2>1. card \in g.hands[p] /\ card \in UnoCards
    BY <1>1, <1>a DEF ColoursStates
  <2>2. (IF card.kind \in Colours!Wild THEN Colours!Colors ELSE {card.color}) \subseteq ColoursHues
    BY <2>1 DEF ColoursHues, Colours!Colors
  <2>. QED
    BY <1>b, <2>1, <2>2
<1> DEFINE left == g.hands[p] \ {card}
           laid == [fresh EXCEPT
                      !.hands[p] = left, !.discard = @ \cup {g.top}, !.top = card,
                      !.color = color, !.drawn = {},
                      !.step = IF card.kind = "reverse" /\ ~two THEN -@ ELSE @]
           after == Colours!Next1(laid, p)
           upon == IF card.kind \in {"skip", "draw_two"} \/ (card.kind = "reverse" /\ two)
                   THEN Colours!Next1(laid, after) ELSE after
           known == [laid EXCEPT
                       !.turn = upon,
                       !.window = IF Colours!Cardinality(left) = 1 /\ ~uno /\ upon # p
                                  THEN [offender |-> p, catcher |-> upon]
                                  ELSE IF left = {} \/ uno THEN Colours!NoWindow ELSE @]
           legal == ~\E c \in left : c.color = g.color
           draws == IF card.kind = "draw_two" THEN 2 ELSE 0
<1>3. /\ left = g.hands[p] \ {card} /\ left \in SUBSET UnoCards /\ card \in UnoCards
      /\ card \in g.hands[p] /\ color \in ColoursHues
  BY <1>1, <1>2 DEF ColoursStates
<1>4. legal \in BOOLEAN /\ (left = {} => legal)
  BY <1>3
<1>5. /\ laid \in ColoursStates /\ laid.window = Colours!NoWindow /\ laid.drawn = {}
      /\ laid.pending = Colours!NoPending /\ laid.order = g.order /\ laid.deck = g.deck
      /\ laid.top = card /\ laid.discard = g.discard \cup {g.top}
      /\ laid.result = [over |-> FALSE] /\ laid.hands = [g.hands EXCEPT ![p] = left]
  <2>1. fresh \in ColoursStates
    BY <1>1, ColoursClosed
  <2>2. /\ fresh.window = Colours!NoWindow /\ fresh.pending = g.pending /\ fresh.order = g.order
        /\ fresh.deck = g.deck /\ fresh.result = g.result /\ fresh.hands = g.hands
        /\ fresh.discard = g.discard /\ fresh.step = g.step
    <3>1. fresh = [g EXCEPT !.window = Colours!NoWindow]
      BY <1>1, ColoursClosed
    <3>. QED
      BY <1>1, <3>1 DEF ColoursStates
  <2> DEFINE step == IF card.kind = "reverse" /\ ~two THEN -(fresh.step) ELSE fresh.step
             under == fresh.discard \cup {g.top}
             hands == [fresh.hands EXCEPT ![p] = left]
  <2>3. step \in {1, -1} /\ under \in SUBSET UnoCards /\ hands \in [ColoursSeats -> SUBSET UnoCards]
    BY <1>1, <1>3, <2>1 DEF ColoursStates
  <2>4. laid = [fresh EXCEPT !.hands = hands, !.discard = under, !.top = card, !.color = color,
                             !.drawn = {}, !.step = step]
    BY <2>1 DEF ColoursStates
  <2> HIDE DEF fresh, step, under, hands, laid, left
  <2>5. /\ laid \in ColoursStates /\ laid.window = fresh.window /\ laid.drawn = {}
        /\ laid.pending = fresh.pending /\ laid.order = fresh.order /\ laid.deck = fresh.deck
        /\ laid.top = card /\ laid.discard = under /\ laid.result = fresh.result
        /\ laid.hands = hands
    BY <1>3, <2>1, <2>3, <2>4 DEF ColoursStates
  <2>. QED
    BY <1>1, <2>2, <2>5 DEF under, hands
<1>6. after = Colours!Next1(laid, p)
  OBVIOUS
<1>7. upon = IF card.kind \in {"skip", "draw_two"} \/ (card.kind = "reverse" /\ two)
             THEN Colours!Next1(laid, after) ELSE after
  OBVIOUS
<1> DEFINE window == IF Colours!Cardinality(left) = 1 /\ ~uno /\ upon # p
                     THEN [offender |-> p, catcher |-> upon] ELSE Colours!NoWindow
<1>8. known = [laid EXCEPT !.turn = upon, !.window = window]
  BY <1>5, ZenonT(60)
<1>9. IF card.kind = "wild_draw_four"
      THEN g' = [known EXCEPT !.pending = [offender |-> p, challenger |-> after, legal |-> legal,
                                           winner |-> IF left = {} THEN p ELSE Colours!NoSeat]]
      ELSE \E d \in Colours!DrawMany(known, after, draws) :
             g' = IF left = {} THEN Colours!Finish(d, p) ELSE d
  BY <1>b DEF Goes
<1> HIDE DEF known, legal, upon, after, laid, left, two, fresh, draws
<1>10. after \in g.order /\ after # p /\ after \in ColoursSeats
  <2>1. PICK q \in laid.order : q # p
    BY <1>1, <1>5
  <2>2. Colours!Next1(laid, p) \in laid.order /\ Colours!Next1(laid, p) # p
    BY <1>5, <2>1, ColoursMet
  <2>. QED
    BY <1>1, <1>5, <1>6, <2>2 DEF ColoursStates
<1>11. upon \in g.order /\ upon \in ColoursSeats
  <2>1. p \in laid.order
    BY <1>1, <1>5
  <2>2. Colours!Next1(laid, after) \in laid.order
    BY <1>5, <1>10, <2>1, ColoursMet
  <2>. QED
    BY <1>1, <1>5, <1>7, <1>10, <2>2 DEF ColoursStates
<1>12. window \in [offender : ColoursSeats \cup {-1}, catcher : ColoursSeats \cup {-1}]
       /\ (window # Colours!NoWindow =>
             /\ window.offender = p /\ window.catcher = upon /\ upon # p
             /\ Cardinality(left) = 1)
  BY <1>11, ColoursNo, ColoursNames
<1> HIDE DEF window
<1>13. /\ known \in ColoursStates /\ known.turn = upon /\ known.window = window /\ known.drawn = {}
       /\ known.pending = Colours!NoPending /\ known.order = g.order /\ known.deck = g.deck
       /\ known.top = card /\ known.discard = g.discard \cup {g.top}
       /\ known.result = [over |-> FALSE] /\ known.hands = [g.hands EXCEPT ![p] = left]
  BY <1>5, <1>8, <1>11, <1>12 DEF ColoursStates
<1>14. known.hands[p] = left /\ \A q \in ColoursSeats \ {p} : known.hands[q] = g.hands[q]
  BY <1>1, <1>13 DEF ColoursStates
<1>15. ColoursDealt(known)
  <2>1. /\ card \notin known.discard /\ card \notin known.deck
        /\ known.discard \cap known.deck = {}
    BY <1>1, <1>3, <1>13 DEF ColoursDealt
  <2>2. ASSUME NEW q \in ColoursSeats
        PROVE  /\ card \notin known.hands[q] /\ known.hands[q] \cap known.discard = {}
               /\ known.hands[q] \cap known.deck = {}
    <3>1. known.hands[q] \subseteq g.hands[q] /\ card \notin known.hands[q]
      BY <1>1, <1>3, <1>14 DEF ColoursDealt
    <3>. QED
      BY <1>1, <1>13, <3>1 DEF ColoursDealt
  <2>3. ASSUME NEW q \in ColoursSeats, NEW r \in ColoursSeats, q # r
        PROVE  known.hands[q] \cap known.hands[r] = {}
    <3>1. known.hands[q] \subseteq g.hands[q] /\ known.hands[r] \subseteq g.hands[r]
      BY <1>3, <1>14
    <3>. QED
      BY <1>1, <2>3, <3>1 DEF ColoursDealt
  <2>4. ASSUME NEW x \in UnoCards
        PROVE  \/ x = card \/ x \in known.discard \/ x \in known.deck
               \/ \E q \in ColoursSeats : x \in known.hands[q]
    <3>1. CASE \E q \in ColoursSeats : x \in g.hands[q]
      BY <1>3, <1>14, <3>1
    <3>2. CASE x = g.top \/ x \in g.discard \/ x \in g.deck
      BY <1>13, <3>2
    <3>. QED
      BY <1>1, <3>1, <3>2 DEF ColoursDealt
  <2>. QED
    BY <1>13, <2>1, <2>2, <2>3, <2>4 DEF ColoursDealt
<1>16. ColoursTold(known, p, left)
  <2>1. ColoursCaught(known)
    BY <1>1, <1>12, <1>13, <1>14 DEF ColoursCaught
  <2>. QED
    BY <1>11, <1>12, <1>13, <1>14, <1>15, <2>1 DEF ColoursTold
<1>17. CASE card.kind = "wild_draw_four"
  <2>1. g' = [known EXCEPT !.pending = [offender |-> p, challenger |-> after, legal |-> legal,
                                        winner |-> IF left = {} THEN p ELSE -1]]
    BY <1>9, <1>17, ColoursNo DEF ColoursConstants
  <2>2. upon = after
    BY <1>7, <1>17
  <2>. QED
    BY <1>1, <1>4, <1>10, <1>13, <1>16, <2>1, <2>2, ColoursWaits
<1>18. CASE card.kind # "wild_draw_four"
  <2>1. PICK d \in Colours!DrawMany(known, after, draws) :
          g' = IF left = {} THEN Colours!Finish(d, p) ELSE d
    BY <1>9, <1>18
  <2>2. ColoursInv(IF left = {} THEN Colours!Finish(d, p) ELSE d)
    BY <1>1, <1>10, <1>16, ColoursPlays
  <2>. QED
    BY <2>1, <2>2
<1>. QED
  BY <1>17, <1>18

LEMMA ColoursPreserved ==
  ASSUME GamesAssumption, ColoursInv(g), Colours!Next
  PROVE  ColoursInv(g')
<1>1. PICK p \in ColoursSeats :
        \/ Colours!CatchUno(p) \/ Colours!Draw(p) \/ Colours!Pass(p) \/ Colours!Play(p)
        \/ Colours!Answer(p) \/ Colours!Resign(p)
  BY ColoursNo DEF Colours!Next, ColoursConstants
<1>2. ColoursOpen(g)
  <2>1. ~ColoursEnded(g)
    BY <1>1, ColoursNo DEF ColoursEnded, ColoursEnds, Colours!CatchUno, Colours!Draw, Colours!Pass,
       Colours!Play, Colours!Answer, Colours!Resign, Colours!Free, Colours!Over
  <2>. QED
    BY <2>1 DEF ColoursInv
<1>. QED
  BY <1>1, <1>2, ColoursCatch, ColoursDraw, ColoursPass, ColoursPlay, ColoursAnswer, ColoursResign

LEMMA ColoursInit ==
  ASSUME GamesAssumption, Colours!Init
  PROVE  ColoursInv(g)
<1> DEFINE Opens(top, hands) ==
             /\ \A p, q \in ColoursSeats : p # q => hands[p] \cap hands[q] = {}
             /\ g = [hands |-> hands, top |-> top, discard |-> {}, color |-> top.color,
                     deck |-> UnoCards \ ({top} \cup UNION {hands[p] : p \in ColoursSeats}),
                     order |-> ColoursSeats, turn |-> 0, step |-> 1, drawn |-> {},
                     pending |-> Colours!NoPending, window |-> Colours!NoWindow,
                     result |-> [over |-> FALSE]]
<1>0. PICK top \in UnoCards :
        \E hands \in [ColoursSeats -> Colours!kSubset(HandSize, UnoCards \ {top})] : Opens(top, hands)
  BY ColoursNo, ZenonT(60) DEF Colours!Init, ColoursConstants, Colours!NoResult
<1>1. PICK hands \in [ColoursSeats -> Colours!kSubset(HandSize, UnoCards \ {top})] : Opens(top, hands)
  BY <1>0
<1>2. 0 \in ColoursSeats /\ 1 \in ColoursSeats
  BY DEF GamesAssumption, ColoursSeats
<1>3. \A p \in ColoursSeats : /\ hands[p] \subseteq UnoCards /\ top \notin hands[p]
                              /\ hands[p] # {}
  <2>1. \A p \in ColoursSeats : hands[p] \in SUBSET (UnoCards \ {top}) /\ Cardinality(hands[p]) = HandSize
    BY <1>1, ColoursNames DEF Colours!kSubset
  <2>2. Cardinality({}) = 0 /\ HandSize # 0
    BY FS_EmptySet DEF GamesAssumption
  <2>. QED
    BY <2>1, <2>2
<1> DEFINE deck == UnoCards \ ({top} \cup UNION {hands[p] : p \in ColoursSeats})
<1>4. /\ deck \in SUBSET UnoCards /\ hands \in [ColoursSeats -> SUBSET UnoCards]
      /\ top.color \in ColoursHues
  BY <1>1, <1>3 DEF ColoursHues
<1>5. /\ \A p \in ColoursSeats : hands[p] \cap deck = {}
      /\ \A c \in UnoCards : c = top \/ c \in deck \/ \E p \in ColoursSeats : c \in hands[p]
      /\ top \notin deck
  OBVIOUS
<1> HIDE DEF deck
<1>6. /\ g.hands = hands /\ g.top = top /\ g.discard = {} /\ g.deck = deck /\ g.order = ColoursSeats
      /\ g.turn = 0 /\ g.drawn = {} /\ g.pending = Colours!NoPending
      /\ g.window = Colours!NoWindow /\ g.result = [over |-> FALSE]
  BY <1>1 DEF deck
<1>7. g \in ColoursStates
  <2>1. /\ Colours!NoWindow \in [offender : ColoursSeats \cup {-1}, catcher : ColoursSeats \cup {-1}]
        /\ Colours!NoPending \in [offender : ColoursSeats \cup {-1},
             challenger : ColoursSeats \cup {-1}, legal : BOOLEAN, winner : ColoursSeats \cup {-1}]
    BY ColoursNo
  <2>. QED
    BY <1>1, <1>2, <1>4, <2>1 DEF ColoursStates, deck
<1>8. ColoursDealt(g)
  BY <1>1, <1>3, <1>5, <1>6 DEF ColoursDealt
<1>9. ColoursOpen(g)
  BY <1>2, <1>3, <1>6 DEF ColoursOpen, ColoursAnswered, ColoursCaught
<1>. QED
  BY <1>7, <1>8, <1>9 DEF ColoursInv

LEMMA ColoursHonours ==
  ASSUME GamesAssumption, ColoursInv(g)
  PROVE  Colours!AskedMayAct /\ Colours!Settled /\ Colours!CardsConserved
<1>1. /\ Colours!Over => ColoursEnded(g)
      /\ ~Colours!Over => ColoursOpen(g)
  <2>1. ColoursOpen(g) => ~Colours!Over
    BY DEF ColoursOpen, Colours!Over
  <2>2. ColoursEnded(g) => Colours!Over
    BY DEF ColoursEnded, ColoursEnds, Colours!Over
  <2>. QED
    BY <2>1, <2>2 DEF ColoursInv
<1>2. Colours!AskedMayAct
  BY <1>1, ColoursNames DEF Colours!AskedMayAct, ColoursOpen, ColoursAnswered, ColoursCaught
<1>3. Colours!Settled
  BY <1>1, ColoursNo DEF Colours!Settled, Colours!EmptyHandWins, ColoursOpen, ColoursEnded, ColoursWon,
     ColoursConstants
<1>4. Colours!CardsConserved
  <2> DEFINE n == SeatCount
             first == <<{g.top}, g.discard, g.deck>>
             last == [i \in 1..n |-> g.hands[i - 1]]
             piles == first \o last
  <2>1. n \in Nat /\ ColoursDealt(g) /\ g \in ColoursStates
    BY DEF GamesAssumption, ColoursInv
  <2>2. /\ last \in Seq(SUBSET UnoCards) /\ Len(last) = n /\ first \in Seq(SUBSET UnoCards)
        /\ Len(first) = 3 /\ first[1] = {g.top} /\ first[2] = g.discard /\ first[3] = g.deck
    <3>1. \A i \in 1..n : g.hands[i - 1] \in SUBSET UnoCards
      BY <2>1 DEF ColoursStates, ColoursSeats
    <3>. QED
      BY <2>1, <3>1 DEF ColoursStates
  <2>3. \A i \in 1..n : last[i] = g.hands[i - 1] /\ i - 1 \in ColoursSeats
    BY <2>1 DEF ColoursSeats
  <2>4. \A p \in ColoursSeats : p + 1 \in 1..n /\ p \in Int
    BY <2>1 DEF ColoursSeats
  <2> HIDE DEF first, last, n
  <2>5. /\ DOMAIN piles = 1..(n + 3)
        /\ piles[1] = {g.top} /\ piles[2] = g.discard /\ piles[3] = g.deck
        /\ \A i \in 4..(n + 3) : piles[i] = last[i - 3]
    <3> DEFINE X == SUBSET UnoCards
    <3>0. first \in Seq(X) /\ last \in Seq(X) /\ Len(first) = 3 /\ Len(last) = n
      BY <2>2
    <3> HIDE DEF X
    <3>1. /\ piles \in Seq(X) /\ Len(piles) = Len(first) + Len(last)
          /\ \A i \in 1..(Len(first) + Len(last)) :
               piles[i] = IF i <= Len(first) THEN first[i] ELSE last[i - Len(first)]
      BY ONLY <3>0, ConcatProperties
    <3> HIDE DEF piles
    <3>2. \A i \in 1..(3 + n) : piles[i] = IF i <= 3 THEN first[i] ELSE last[i - 3]
      BY <3>0, <3>1
    <3> HIDE DEF piles
    <3>3. 1 \in 1..(3 + n) /\ 2 \in 1..(3 + n) /\ 3 \in 1..(3 + n)
      BY <2>1
    <3>4. piles[1] = {g.top} /\ piles[2] = g.discard /\ piles[3] = g.deck
      BY <2>2, <3>2, <3>3
    <3>5. \A i \in 4..(n + 3) : i \in 1..(3 + n) /\ ~(i <= 3)
      BY <2>1
    <3>6. \A i \in 4..(n + 3) : piles[i] = last[i - 3]
      BY <3>2, <3>5
    <3>7. DOMAIN piles = 1..(n + 3)
      BY <2>1, <3>0, <3>1
    <3>. QED
      BY <3>4, <3>6, <3>7
  <2> HIDE DEF piles
  <2>6. \A i \in 4..(n + 3) : piles[i] = g.hands[i - 4] /\ i - 4 \in ColoursSeats
    <3>1. \A i \in 4..(n + 3) : i - 3 \in 1..n /\ (i - 3) - 1 = i - 4
      BY <2>1
    <3>. QED
      BY <2>3, <2>5, <3>1
  <2>7. UNION {piles[i] : i \in DOMAIN piles} = UnoCards
    <3>1. ASSUME NEW i \in DOMAIN piles PROVE piles[i] \subseteq UnoCards
      <4>1. i = 1 \/ i = 2 \/ i = 3 \/ i \in 4..(n + 3)
        BY <2>1, <2>5
      <4>. QED
        BY <2>1, <2>5, <2>6, <4>1 DEF ColoursStates
    <3>2. ASSUME NEW c \in UnoCards PROVE \E i \in DOMAIN piles : c \in piles[i]
      <4>1. 1 \in DOMAIN piles /\ 2 \in DOMAIN piles /\ 3 \in DOMAIN piles
        BY <2>1, <2>5
      <4>2. ASSUME NEW p \in ColoursSeats, c \in g.hands[p] PROVE \E i \in DOMAIN piles : c \in piles[i]
        <5>1. p + 4 \in 4..(n + 3) /\ p + 4 \in DOMAIN piles /\ (p + 4) - 4 = p
          BY <2>1, <2>4, <2>5
        <5>2. piles[p + 4] = g.hands[(p + 4) - 4]
          BY <2>6, <5>1
        <5>. QED
          BY <4>2, <5>1, <5>2
      <4>. QED
        BY <2>1, <2>5, <4>1, <4>2 DEF ColoursDealt
    <3>. QED
      BY <3>1, <3>2
  <2>a. ASSUME NEW i \in 4..(n + 3), NEW j \in {1, 2, 3} PROVE piles[i] \cap piles[j] = {}
    <3>1. g.top \notin piles[i] /\ piles[i] \cap g.discard = {} /\ piles[i] \cap g.deck = {}
      BY <2>1, <2>6 DEF ColoursDealt
    <3>. QED
      BY <2>5, <3>1
  <2>8. ASSUME NEW i \in DOMAIN piles, NEW j \in DOMAIN piles, i # j
        PROVE  piles[i] \cap piles[j] = {}
    <3>1. i = 1 \/ i = 2 \/ i = 3 \/ i \in 4..(n + 3)
      BY <2>1, <2>5
    <3>2. j = 1 \/ j = 2 \/ j = 3 \/ j \in 4..(n + 3)
      BY <2>1, <2>5
    <3>3. CASE i \in 4..(n + 3) /\ j \in 4..(n + 3)
      <4>1. i - 4 # j - 4
        BY <2>1, <2>8, <3>3
      <4>. QED
        BY <2>1, <2>6, <3>3, <4>1 DEF ColoursDealt
    <3>4. CASE i \in 4..(n + 3) /\ j \in {1, 2, 3}
      BY <3>4, <2>a
    <3>5. CASE i \in {1, 2, 3} /\ j \in 4..(n + 3)
      <4>1. piles[j] \cap piles[i] = {}
        BY <3>5, <2>a
      <4>. QED
        BY <4>1
    <3>6. CASE i \in {1, 2, 3} /\ j \in {1, 2, 3}
      BY <2>1, <2>5, <2>8, <3>6 DEF ColoursDealt
    <3>. QED
      BY <3>1, <3>2, <3>3, <3>4, <3>5, <3>6
  <2>. QED
    BY <2>7, <2>8 DEF Colours!CardsConserved, piles, first, last, n
<1>. QED
  BY <1>2, <1>3, <1>4

-----------------------------------------------------------------------------
(* Dark chess. *)

LEMMA FlippedNames ==
  /\ \A S : Flipped!Cardinality(S) = Cardinality(S)
  /\ \A f, S : Flipped!Total(f, S) = Total(f, S)
<1>1. \A S : Flipped!Cardinality(S) = Cardinality(S)
  BY DEF Flipped!Cardinality, Cardinality
<1>2. \A f, S : Flipped!Total(f, S) = Total(f, S)
  BY DEF Flipped!Total, Flipped!MapThenSumSet, Flipped!MapThenFoldSet, Total, MapThenSumSet, MapThenFoldSet
<1>. QED
  BY <1>1, <1>2

FlippedColors == {"r", "b"}
FlippedKinds == DOMAIN PieceCount
FlippedPieces == [color : FlippedColors, kind : FlippedKinds]
FlippedBoards == [Flipped!Squares -> FlippedPieces \cup {Flipped!Empty, Flipped!Hidden}]
FlippedPools == [FlippedColors \X FlippedKinds -> Nat]
FlippedEnds ==
  [over : {TRUE}, winner : {-1} \cup (0..1),
   reason : {"all_captured", "immobilized", "quiet_turn_limit"}]
FlippedStates ==
  [board : FlippedBoards, pool : FlippedPools, color : [0..1 -> FlippedColors \cup {"none"}],
   turn : 0..1, quiet : Nat, result : FlippedEnds \cup {[over |-> FALSE]}]

\* The players hold the two colours, or none before the first piece is turned up.
FlippedSides(color) ==
  (color[0] = "none" /\ color[1] = "none") \/ {color[0], color[1]} = FlippedColors

\* A piece of the colour is on the board or still face down.
FlippedAlive(s, c) ==
  \/ \E q \in Flipped!Squares : s.board[q].color = c
  \/ \E k \in FlippedKinds : s.pool[<<c, k>>] > 0

FlippedPooled(board, pool) ==
  Cardinality({q \in Flipped!Squares : board[q] = Flipped!Hidden})
    = Total(pool, FlippedColors \X FlippedKinds)

FlippedOpen(s) ==
  /\ s.result = [over |-> FALSE]
  /\ Flipped!HasAction(s, s.turn)
  /\ \A c \in FlippedColors : FlippedAlive(s, c)

FlippedEnded(s) ==
  /\ s.result \in FlippedEnds /\ s.color[0] # "none"
  /\ IF s.result.winner = -1 THEN \A p \in 0..1 : FlippedAlive(s, s.color[p])
     ELSE FlippedAlive(s, s.color[s.result.winner])

FlippedInv(s) ==
  /\ s \in FlippedStates /\ FlippedSides(s.color) /\ FlippedPooled(s.board, s.pool)
  /\ FlippedOpen(s) \/ FlippedEnded(s)

LEMMA FlippedFinite ==
  ASSUME GamesAssumption
  PROVE  /\ IsFiniteSet(Flipped!Squares) /\ Cardinality(Flipped!Squares) = Length
         /\ IsFiniteSet(FlippedKinds) /\ IsFiniteSet(FlippedColors \X FlippedKinds)
<1>1. /\ IsFiniteSet(1..1) /\ Cardinality(1..1) = 1
      /\ IsFiniteSet(1..Length) /\ Cardinality(1..Length) = Length /\ Length \in Nat
  BY CountFinite DEF GamesAssumption
<1>2. /\ IsFiniteSet((1..1) \X (1..Length))
      /\ Cardinality((1..1) \X (1..Length)) = Cardinality(1..1) * Cardinality(1..Length)
  BY <1>1, FS_Product
<1>3. Flipped!Squares = (1..1) \X (1..Length)
  BY DEF Flipped!Squares
<1>4. IsFiniteSet(FlippedKinds)
  BY DEF GamesAssumption, PiecesAssumption, FlippedKinds
<1>5. IsFiniteSet(FlippedColors)
  <2>1. IsFiniteSet({"r"}) /\ IsFiniteSet({"r"} \cup {"b"})
    BY FS_Singleton, FS_AddElement
  <2>2. FlippedColors = {"r"} \cup {"b"}
    BY DEF FlippedColors
  <2>. QED
    BY <2>1, <2>2
<1>. QED
  BY <1>1, <1>2, <1>3, <1>4, <1>5, FS_Product

LEMMA FlippedRemaining ==
  ASSUME GamesAssumption, NEW s, s.board \in FlippedBoards, s.pool \in FlippedPools,
         NEW c \in FlippedColors
  PROVE  /\ Flipped!Remaining(s, c) \in Nat
         /\ Flipped!Remaining(s, c) > 0 <=> FlippedAlive(s, c)
<1> DEFINE on == {q \in Flipped!Squares : s.board[q].color = c}
           down == [k \in FlippedKinds |-> s.pool[<<c, k>>]]
<1>1. Flipped!Remaining(s, c) = Cardinality(on) + Total(down, FlippedKinds)
  BY FlippedNames DEF Flipped!Remaining, FlippedKinds
<1>2. IsFiniteSet(on) /\ Cardinality(on) \in Nat /\ (Cardinality(on) = 0 <=> on = {})
  <2>1. on \subseteq Flipped!Squares
    OBVIOUS
  <2> HIDE DEF on
  <2>. QED
    BY <2>1, FlippedFinite, FS_Subset, FS_CardinalityType, FS_EmptySet
<1>3. \A k \in FlippedKinds : down[k] \in Nat
  BY DEF FlippedPools
<1>0. \A k \in FlippedKinds : down[k] = s.pool[<<c, k>>]
  OBVIOUS
<1>4. IsFiniteSet(FlippedKinds)
  BY FlippedFinite
<1> HIDE DEF down
<1>5. Total(down, FlippedKinds) \in Nat
  BY <1>3, <1>4, TotalNatural
<1>6. Total(down, FlippedKinds) = 0 <=> \A k \in FlippedKinds : down[k] = 0
  <2>1. (\A k \in FlippedKinds : down[k] = 0) => Total(down, FlippedKinds) = 0
    BY <1>4, TotalZero
  <2>2. ASSUME NEW k \in FlippedKinds, down[k] # 0 PROVE Total(down, FlippedKinds) # 0
    <3>1. \A x \in FlippedKinds : down[x] \in Int
      BY <1>3
    <3>2. Total(down, FlippedKinds) = down[k] + Total(down, FlippedKinds \ {k})
      BY <1>4, <3>1, TotalRemove
    <3>3. IsFiniteSet(FlippedKinds \ {k})
      BY <1>4, FS_RemoveElement
    <3>4. \A x \in FlippedKinds \ {k} : down[x] \in Nat
      BY <1>3
    <3>5. Total(down, FlippedKinds \ {k}) \in Nat
      BY <3>3, <3>4, TotalNatural
    <3>6. down[k] \in Nat
      BY <1>3
    <3>. QED
      BY <2>2, <3>2, <3>5, <3>6
  <2>. QED
    BY <2>1, <2>2
<1>7. FlippedAlive(s, c) <=> on # {} \/ \E k \in FlippedKinds : down[k] > 0
  BY <1>0 DEF FlippedAlive
<1>8. (\E k \in FlippedKinds : down[k] > 0) <=> Total(down, FlippedKinds) # 0
  BY <1>3, <1>6
<1> HIDE DEF on
<1>. QED
  BY <1>1, <1>2, <1>5, <1>7, <1>8

FlippedWon(s, w, reason) ==
  [s EXCEPT !.result = [over |-> TRUE, winner |-> w, reason |-> reason]]

LEMMA FlippedOver ==
  ASSUME NEW s \in FlippedStates, FlippedSides(s.color), FlippedPooled(s.board, s.pool),
         s.color[0] # "none", NEW w \in {-1} \cup (0..1),
         NEW reason \in {"all_captured", "immobilized", "quiet_turn_limit"},
         IF w = -1 THEN \A p \in 0..1 : FlippedAlive(s, s.color[p]) ELSE FlippedAlive(s, s.color[w])
  PROVE  FlippedInv(FlippedWon(s, w, reason))
<1> DEFINE t == FlippedWon(s, w, reason)
<1>1. /\ t \in FlippedStates /\ t.result \in FlippedEnds /\ t.result.winner = w
      /\ t.board = s.board /\ t.pool = s.pool /\ t.color = s.color
  BY DEF FlippedStates, FlippedWon, FlippedEnds
<1> HIDE DEF t
<1>2. \A c : FlippedAlive(t, c) <=> FlippedAlive(s, c)
  BY <1>1 DEF FlippedAlive
<1>3. FlippedEnded(t)
  BY <1>1, <1>2 DEF FlippedEnded
<1>4. FlippedInv(t)
  BY <1>1, <1>3 DEF FlippedInv
<1>. QED
  BY <1>4 DEF t

\* The one who moved keeps a piece, so only the other can have lost.
LEMMA FlippedFinish ==
  ASSUME GamesAssumption, NEW s \in FlippedStates, NEW p \in 0..1, FlippedSides(s.color),
         s.color[p] # "none", FlippedPooled(s.board, s.pool), s.result = [over |-> FALSE],
         s.turn = 1 - p, FlippedAlive(s, s.color[p])
  PROVE  FlippedInv(Flipped!Finish(s, p, 1 - p))
<1> DEFINE q == 1 - p
<1>1. q \in 0..1 /\ q # p /\ \A x \in 0..1 : x = p \/ x = q
  OBVIOUS
<1>2. /\ s.color[0] # "none" /\ s.color[p] \in FlippedColors /\ s.color[q] \in FlippedColors
      /\ {s.color[p], s.color[q]} = FlippedColors
  <2>1. {s.color[0], s.color[1]} = FlippedColors
    BY DEF FlippedSides
  <2>2. {s.color[p], s.color[q]} = {s.color[0], s.color[1]}
    OBVIOUS
  <2>3. "none" \notin FlippedColors
    BY DEF FlippedColors
  <2>. QED
    BY <2>1, <2>2, <2>3
<1>3. s.board \in FlippedBoards /\ s.pool \in FlippedPools
  BY DEF FlippedStates
<1>4. Flipped!Remaining(s, s.color[p]) # 0
  BY <1>2, <1>3, FlippedRemaining
<1>5. Flipped!Remaining(s, s.color[q]) # 0 => FlippedAlive(s, s.color[q])
  BY <1>2, <1>3, FlippedRemaining
<1>6. Flipped!Finish(s, p, q) =
        IF Flipped!Remaining(s, s.color[q]) = 0 THEN FlippedWon(s, p, "all_captured")
        ELSE IF ~Flipped!HasAction(s, q) THEN FlippedWon(s, p, "immobilized")
        ELSE IF s.quiet >= QuietLimit THEN FlippedWon(s, -1, "quiet_turn_limit")
        ELSE s
  BY <1>4 DEF Flipped!Finish, FlippedWon
<1>7. s.turn = q
  OBVIOUS
<1> HIDE DEF q
<1>8. p \in {-1} \cup (0..1) /\ p # -1 /\ -1 \in {-1} \cup (0..1)
  OBVIOUS
<1>9. FlippedInv(FlippedWon(s, p, "all_captured")) /\ FlippedInv(FlippedWon(s, p, "immobilized"))
  BY <1>2, <1>8, FlippedOver
<1>10. ASSUME FlippedAlive(s, s.color[q]) PROVE FlippedInv(FlippedWon(s, -1, "quiet_turn_limit"))
  <2>1. \A x \in 0..1 : FlippedAlive(s, s.color[x])
    BY <1>1, <1>10
  <2>. QED
    BY <1>2, <1>8, <2>1, FlippedOver
<1>11. ASSUME FlippedAlive(s, s.color[q]), Flipped!HasAction(s, q) PROVE FlippedInv(s)
  <2>1. \A c \in FlippedColors : FlippedAlive(s, c)
    BY <1>2, <1>11
  <2>2. FlippedOpen(s)
    BY <1>7, <1>11, <2>1 DEF FlippedOpen
  <2>. QED
    BY <2>2 DEF FlippedInv
<1>12. FlippedInv(Flipped!Finish(s, p, q))
  BY <1>5, <1>6, <1>9, <1>10, <1>11
<1>. QED
  BY <1>12 DEF q

FlippedSets(s, board, pool, color, p, quiet) ==
  [s EXCEPT !.board = board, !.pool = pool, !.color = color, !.turn = 1 - p, !.quiet = quiet]

LEMMA FlippedSet ==
  ASSUME NEW s \in FlippedStates, NEW board \in FlippedBoards, NEW pool \in FlippedPools,
         NEW color \in [0..1 -> FlippedColors \cup {"none"}], NEW p \in 0..1, NEW quiet \in Nat,
         NEW t, t = FlippedSets(s, board, pool, color, p, quiet)
  PROVE  /\ t \in FlippedStates /\ t.board = board /\ t.pool = pool /\ t.color = color
         /\ t.turn = 1 - p /\ t.quiet = quiet /\ t.result = s.result
<1>1. 1 - p \in 0..1
  OBVIOUS
<1>. QED
  BY <1>1 DEF FlippedStates, FlippedSets

\* What stands on a square is a piece, face down or nothing, and these differ.
LEMMA FlippedFaces ==
  /\ Flipped!Empty # Flipped!Hidden
  /\ \A x \in FlippedPieces : /\ x # Flipped!Empty /\ x # Flipped!Hidden
                              /\ x.color \in FlippedColors
  /\ Flipped!Empty.color = "none" /\ Flipped!Hidden.color = "none"
BY DEF Flipped!Empty, Flipped!Hidden, FlippedPieces, FlippedColors

\* A piece turned up leaves the pool.
LEMMA FlippedTaken ==
  ASSUME GamesAssumption, NEW pool \in FlippedPools, NEW x \in FlippedColors \X FlippedKinds
  PROVE  /\ Total([pool EXCEPT ![x] = @ - 1], FlippedColors \X FlippedKinds)
              = Total(pool, FlippedColors \X FlippedKinds) - 1
         /\ Total(pool, FlippedColors \X FlippedKinds) \in Int
<1> DEFINE S == FlippedColors \X FlippedKinds
           less == [pool EXCEPT ![x] = @ - 1]
<1>1. IsFiniteSet(S)
  BY FlippedFinite
<1>2. \A y \in S : pool[y] \in Int
  BY DEF FlippedPools
<1>3. less[x] = pool[x] - 1 /\ less[x] \in Int
  BY <1>2 DEF FlippedPools
<1>4. \A y \in S \ {x} : less[y] = pool[y]
  BY DEF FlippedPools
<1>5. x \in S
  OBVIOUS
<1> HIDE DEF less, S
<1>6. Total(less, S) = Total(pool, S) + less[x] - pool[x]
  BY <1>1, <1>2, <1>3, <1>4, <1>5, TotalUpdate
<1>7. Total(pool, S) \in Int
  BY <1>1, <1>2, TotalType
<1>8. pool[x] \in Int
  BY <1>2, <1>5
<1>. QED
  BY <1>3, <1>6, <1>7, <1>8 DEF less, S

LEMMA FlippedFlip ==
  ASSUME GamesAssumption, FlippedInv(g), NEW p \in 0..1, Flipped!Flip(p)
  PROVE  FlippedInv(g')
<1>1. /\ g \in FlippedStates /\ FlippedSides(g.color) /\ FlippedPooled(g.board, g.pool)
      /\ FlippedOpen(g)
  BY DEF FlippedInv, FlippedEnded, FlippedEnds, Flipped!Flip, Flipped!Over
<1>2. PICK q \in Flipped!Flips(g), c \in FlippedColors, k \in FlippedKinds :
        /\ g.pool[<<c, k>>] > 0
        /\ LET other == CHOOSE d \in FlippedColors \ {c} : TRUE
               s == [g EXCEPT !.board[q] = [color |-> c, kind |-> k], !.pool[<<c, k>>] = @ - 1,
                              !.quiet = 0, !.turn = 1 - p,
                              !.color = IF @[p] # "none" THEN @
                                        ELSE [r \in 0..1 |-> IF r = p THEN c ELSE other]]
           IN g' = Flipped!Finish(s, p, 1 - p)
  BY DEF Flipped!Flip, FlippedColors, Flipped!Colors, FlippedKinds, Flipped!Players
<1> DEFINE other == CHOOSE d \in FlippedColors \ {c} : TRUE
           board == [g.board EXCEPT ![q] = [color |-> c, kind |-> k]]
           pool == [g.pool EXCEPT ![<<c, k>>] = @ - 1]
           color == IF g.color[p] # "none" THEN g.color
                    ELSE [r \in 0..1 |-> IF r = p THEN c ELSE other]
           s == FlippedSets(g, board, pool, color, p, 0)
<1>3. g' = Flipped!Finish(s, p, 1 - p)
  <2>1. s = [g EXCEPT !.board[q] = [color |-> c, kind |-> k], !.pool[<<c, k>>] = @ - 1,
                      !.quiet = 0, !.turn = 1 - p,
                      !.color = IF @[p] # "none" THEN @
                                ELSE [r \in 0..1 |-> IF r = p THEN c ELSE other]]
    BY <1>1 DEF FlippedSets, FlippedStates
  <2> HIDE DEF s
  <2>. QED
    BY <1>2, <2>1
<1>4. q \in Flipped!Squares /\ g.board[q] = Flipped!Hidden
  BY DEF Flipped!Flips
<1>5. /\ board \in FlippedBoards /\ board[q] = [color |-> c, kind |-> k]
      /\ \A x \in Flipped!Squares \ {q} : board[x] = g.board[x]
  BY <1>1, <1>4 DEF FlippedStates, FlippedBoards, FlippedPieces
<1>6. /\ <<c, k>> \in FlippedColors \X FlippedKinds /\ g.pool \in FlippedPools
      /\ g.pool[<<c, k>>] \in Nat /\ g.pool[<<c, k>>] >= 1
  BY <1>1, <1>2 DEF FlippedStates, FlippedPools
<1>7. /\ pool \in FlippedPools /\ pool[<<c, k>>] = g.pool[<<c, k>>] - 1
      /\ \A x \in (FlippedColors \X FlippedKinds) \ {<<c, k>>} : pool[x] = g.pool[x]
  BY <1>6 DEF FlippedPools
<1>8. other \in FlippedColors /\ {c, other} = FlippedColors
  <2>1. \E d : d \in FlippedColors \ {c}
    BY DEF FlippedColors
  <2>2. other \in FlippedColors \ {c}
    BY <2>1
  <2> HIDE DEF other
  <2>. QED
    BY <2>2 DEF FlippedColors
<1> HIDE DEF other
<1>9. /\ color \in [0..1 -> FlippedColors \cup {"none"}] /\ color[p] # "none"
      /\ FlippedSides(color)
  <2>0. "none" \notin FlippedColors
    BY DEF FlippedColors
  <2>1. CASE g.color[p] # "none"
    BY <1>1, <2>1 DEF FlippedStates
  <2>2. CASE g.color[p] = "none"
    <3>1. {color[0], color[1]} = {c, other}
      BY <2>2
    <3>. QED
      BY <1>8, <2>0, <2>2, <3>1 DEF FlippedSides
  <2>. QED
    BY <2>1, <2>2
<1> HIDE DEF board, pool, color
<1>10. /\ s \in FlippedStates /\ s.board = board /\ s.pool = pool /\ s.color = color
       /\ s.turn = 1 - p /\ s.result = [over |-> FALSE]
  <2>1. s = FlippedSets(g, board, pool, color, p, 0) /\ 0 \in Nat
    OBVIOUS
  <2> HIDE DEF s
  <2>. QED
    BY <1>1, <1>5, <1>7, <1>9, <2>1, FlippedSet DEF FlippedOpen
<1> HIDE DEF s
<1>11. FlippedPooled(board, pool)
  <2> DEFINE hid(b) == {x \in Flipped!Squares : b[x] = Flipped!Hidden}
  <2>1. hid(board) = hid(g.board) \ {q}
    <3>1. board[q] # Flipped!Hidden
      BY <1>5, FlippedFaces DEF FlippedPieces
    <3>. QED
      BY <1>4, <1>5, <3>1
  <2>2. q \in hid(g.board) /\ IsFiniteSet(hid(g.board))
    BY <1>4, FlippedFinite, FS_Subset
  <2>3. Cardinality(hid(g.board)) = Total(g.pool, FlippedColors \X FlippedKinds)
    BY <1>1 DEF FlippedPooled
  <2> HIDE DEF hid
  <2>4. Cardinality(hid(board)) = Cardinality(hid(g.board)) - 1
    BY <2>1, <2>2, FS_RemoveElement
  <2>7. Total(pool, FlippedColors \X FlippedKinds) = Total(g.pool, FlippedColors \X FlippedKinds) - 1
    BY <1>6, FlippedTaken DEF pool
  <2>8. Total(g.pool, FlippedColors \X FlippedKinds) \in Int
    BY <1>6, FlippedTaken
  <2>9. Cardinality(hid(board)) = Total(pool, FlippedColors \X FlippedKinds)
    BY <2>3, <2>4, <2>7, <2>8
  <2>. QED
    BY <2>9 DEF FlippedPooled, hid
<1>12. FlippedAlive(s, color[p])
  <2>1. color[p] \in FlippedColors
    BY <1>9
  <2>2. FlippedAlive(g, color[p])
    BY <1>1, <2>1 DEF FlippedOpen
  <2>3. CASE \E x \in Flipped!Squares : g.board[x].color = color[p]
    <3>1. PICK x \in Flipped!Squares : g.board[x].color = color[p]
      BY <2>3
    <3>2. x # q
      BY <1>4, <1>9, <3>1, FlippedFaces
    <3>3. board[x].color = color[p]
      BY <1>5, <3>1, <3>2
    <3>. QED
      BY <1>10, <3>3 DEF FlippedAlive
  <2>4. CASE \E y \in FlippedKinds : g.pool[<<color[p], y>>] > 0
    <3>1. PICK y \in FlippedKinds : g.pool[<<color[p], y>>] > 0
      BY <2>4
    <3>2. CASE <<color[p], y>> = <<c, k>>
      <4>1. board[q].color = color[p]
        BY <1>5, <3>2
      <4>. QED
        BY <1>4, <1>10, <4>1 DEF FlippedAlive
    <3>3. CASE <<color[p], y>> # <<c, k>>
      <4>1. <<color[p], y>> \in (FlippedColors \X FlippedKinds) \ {<<c, k>>}
        BY <2>1, <3>3
      <4>2. pool[<<color[p], y>>] > 0
        BY <1>7, <3>1, <4>1
      <4>. QED
        BY <1>10, <4>2 DEF FlippedAlive
    <3>. QED
      BY <3>2, <3>3
  <2>. QED
    BY <2>2, <2>3, <2>4 DEF FlippedAlive
<1>13. FlippedInv(Flipped!Finish(s, p, 1 - p))
  BY <1>9, <1>10, <1>11, <1>12, FlippedFinish
<1>. QED
  BY <1>3, <1>13

LEMMA FlippedMove ==
  ASSUME GamesAssumption, FlippedInv(g), NEW p \in 0..1, Flipped!Move(p)
  PROVE  FlippedInv(g')
<1>1. /\ g \in FlippedStates /\ FlippedSides(g.color) /\ FlippedPooled(g.board, g.pool)
      /\ FlippedOpen(g)
  BY DEF FlippedInv, FlippedEnded, FlippedEnds, Flipped!Move, Flipped!Over
<1>2. PICK m \in Flipped!PieceMoves(g, p) :
        LET s == [g EXCEPT !.board[m[2]] = g.board[m[1]], !.board[m[1]] = Flipped!Empty,
                           !.quiet = Flipped!Quiet(g, m[2]), !.turn = 1 - p]
        IN g' = Flipped!Finish(s, p, 1 - p)
  BY DEF Flipped!Move
<1> DEFINE a == m[1]
           b == m[2]
           board == [[g.board EXCEPT ![b] = g.board[a]] EXCEPT ![a] = Flipped!Empty]
           quiet == Flipped!Quiet(g, b)
           s == FlippedSets(g, board, g.pool, g.color, p, quiet)
<1>3. g' = Flipped!Finish(s, p, 1 - p)
  <2>1. s = [g EXCEPT !.board[m[2]] = g.board[m[1]], !.board[m[1]] = Flipped!Empty,
                      !.quiet = Flipped!Quiet(g, m[2]), !.turn = 1 - p]
    BY <1>1 DEF FlippedSets, FlippedStates
  <2> HIDE DEF s
  <2>. QED
    BY <1>2, <2>1
<1>4. /\ a \in Flipped!Squares /\ b \in Flipped!Squares
      /\ g.board[a].color = g.color[p] /\ g.color[p] # "none"
      /\ Flipped!CanMove(g.board, a, b)
  BY DEF Flipped!PieceMoves
<1>5. g.quiet \in Nat /\ quiet \in Nat
  <2>1. g.quiet \in Nat
    BY <1>1 DEF FlippedStates
  <2>. QED
    BY <2>1 DEF Flipped!Quiet
<1> HIDE DEF a, b, quiet
<1>6. a # b /\ g.board[b] # Flipped!Hidden
  <2>1. CASE Flipped!Distance(a, b) = 1 /\ g.board[b] = Flipped!Empty
    <3>1. a \in (1..1) \X (1..Length)
      BY <1>4 DEF Flipped!Squares
    <3>2. a[1] \in Int /\ a[2] \in Int
      BY <3>1 DEF GamesAssumption
    <3>3. Flipped!Distance(a, a) = 0
      BY <3>2 DEF Flipped!Distance, Flipped!Apart
    <3>. QED
      BY <2>1, <3>3, FlippedFaces
  <2>2. CASE g.board[b].color \notin {"none", g.board[a].color}
    BY <2>2, FlippedFaces
  <2>. QED
    BY <1>4, <2>1, <2>2 DEF Flipped!CanMove
<1>7. /\ board \in FlippedBoards /\ board[a] = Flipped!Empty /\ board[b] = g.board[a]
      /\ \A x \in Flipped!Squares \ {a, b} : board[x] = g.board[x]
  BY <1>1, <1>4, <1>6 DEF FlippedStates, FlippedBoards
<1> HIDE DEF board
<1>8. /\ s \in FlippedStates /\ s.board = board /\ s.pool = g.pool /\ s.color = g.color
      /\ s.turn = 1 - p /\ s.result = [over |-> FALSE]
  <2>1. s = FlippedSets(g, board, g.pool, g.color, p, quiet)
    OBVIOUS
  <2>2. g.pool \in FlippedPools /\ g.color \in [0..1 -> FlippedColors \cup {"none"}]
    BY <1>1 DEF FlippedStates
  <2> HIDE DEF s
  <2>. QED
    BY <1>1, <1>5, <1>7, <2>1, <2>2, FlippedSet DEF FlippedOpen
<1> HIDE DEF s
<1>9. g.board[a] # Flipped!Hidden
  BY <1>4, FlippedFaces
<1>10. {x \in Flipped!Squares : board[x] = Flipped!Hidden}
         = {x \in Flipped!Squares : g.board[x] = Flipped!Hidden}
  BY <1>4, <1>6, <1>7, <1>9, FlippedFaces
<1>11. FlippedPooled(board, g.pool)
  BY <1>1, <1>10 DEF FlippedPooled
<1>12. FlippedAlive(s, g.color[p])
  BY <1>4, <1>7, <1>8 DEF FlippedAlive
<1>13. FlippedInv(Flipped!Finish(s, p, 1 - p))
  BY <1>1, <1>4, <1>8, <1>11, <1>12, FlippedFinish
<1>. QED
  BY <1>3, <1>13

LEMMA FlippedPreserved ==
  ASSUME GamesAssumption, FlippedInv(g), Flipped!Next
  PROVE  FlippedInv(g')
<1>1. PICK p \in 0..1 : Flipped!Flip(p) \/ Flipped!Move(p)
  BY DEF Flipped!Next, Flipped!Players
<1>. QED
  BY <1>1, FlippedFlip, FlippedMove

LEMMA FlippedInit ==
  ASSUME GamesAssumption, Flipped!Init
  PROVE  FlippedInv(g)
<1>1. g = [board |-> [q \in Flipped!Squares |-> Flipped!Hidden],
           pool |-> [x \in FlippedColors \X FlippedKinds |-> PieceCount[x[2]]],
           color |-> [p \in 0..1 |-> "none"], turn |-> 0, quiet |-> 0,
           result |-> [over |-> FALSE]]
  BY DEF Flipped!Init, Flipped!Players, Flipped!NoResult, Flipped!Colors, FlippedColors,
         FlippedKinds
<1>2. /\ g.board = [q \in Flipped!Squares |-> Flipped!Hidden]
      /\ g.pool = [x \in FlippedColors \X FlippedKinds |-> PieceCount[x[2]]]
      /\ g.color = [p \in 0..1 |-> "none"] /\ g.turn = 0 /\ g.result = [over |-> FALSE]
  BY <1>1
<1>3. \A k \in FlippedKinds : PieceCount[k] \in Nat
  BY DEF GamesAssumption, PiecesAssumption, FlippedKinds
<1>4. g.pool \in FlippedPools
  BY <1>2, <1>3 DEF FlippedPools
<1>5. g \in FlippedStates
  BY <1>1, <1>2, <1>4 DEF FlippedStates, FlippedBoards
<1>6. Total(g.pool, FlippedColors \X FlippedKinds) = Length
  <2>1. g.pool = BanqiPieces /\ DOMAIN BanqiPieces = FlippedColors \X FlippedKinds
    BY <1>2 DEF BanqiPieces, FlippedColors, FlippedKinds
  <2>2. Length = Total(BanqiPieces, DOMAIN BanqiPieces)
    BY DEF GamesAssumption, PiecesAssumption, Total
  <2>. QED
    BY <2>1, <2>2
<1>7. {q \in Flipped!Squares : g.board[q] = Flipped!Hidden} = Flipped!Squares
  BY <1>2
<1>8. FlippedPooled(g.board, g.pool)
  BY <1>6, <1>7, FlippedFinite DEF FlippedPooled
<1>9. Length # 0
  BY DEF GamesAssumption
<1>10. Flipped!HasAction(g, g.turn)
  <2>1. Flipped!Squares # {}
    BY <1>9, FlippedFinite, FS_EmptySet
  <2>. QED
    BY <1>7, <2>1 DEF Flipped!HasAction, Flipped!Flips
<1>11. PICK k \in FlippedKinds : PieceCount[k] > 0
  <2>1. SUFFICES ASSUME \A k \in FlippedKinds : ~(PieceCount[k] > 0) PROVE FALSE
    OBVIOUS
  <2>2. \A k \in FlippedKinds : PieceCount[k] = 0
    BY <1>3, <2>1
  <2>3. \A x \in FlippedColors \X FlippedKinds : g.pool[x] = 0
    BY <1>2, <2>2
  <2>. QED
    BY <1>6, <1>9, <2>3, FlippedFinite, TotalZero
<1>12. \A c \in FlippedColors : FlippedAlive(g, c)
  <2>1. \A c \in FlippedColors : g.pool[<<c, k>>] > 0
    BY <1>2, <1>11
  <2>. QED
    BY <2>1 DEF FlippedAlive
<1>13. FlippedOpen(g)
  BY <1>2, <1>10, <1>12 DEF FlippedOpen
<1>14. FlippedSides(g.color)
  BY <1>2 DEF FlippedSides
<1>. QED
  BY <1>5, <1>8, <1>13, <1>14 DEF FlippedInv

LEMMA FlippedHonours ==
  ASSUME GamesAssumption, FlippedInv(g)
  PROVE  Flipped!AskedMayAct /\ Flipped!Settled /\ Flipped!PoolMatchesBoard
<1>1. g \in FlippedStates /\ FlippedSides(g.color) /\ FlippedPooled(g.board, g.pool)
  BY DEF FlippedInv
<1>2. /\ Flipped!Over => FlippedEnded(g)
      /\ ~Flipped!Over => FlippedOpen(g)
  <2>1. FlippedOpen(g) => ~Flipped!Over
    BY DEF FlippedOpen, Flipped!Over
  <2>2. FlippedEnded(g) => Flipped!Over
    BY DEF FlippedEnded, FlippedEnds, Flipped!Over
  <2>. QED
    BY <2>1, <2>2 DEF FlippedInv
<1>3. Flipped!PoolMatchesBoard
  BY <1>1, FlippedNames DEF FlippedPooled, Flipped!PoolMatchesBoard, Flipped!Flips,
     Flipped!Colors, FlippedColors, FlippedKinds
<1>4. \A c \in FlippedColors : FlippedAlive(g, c) => Flipped!Remaining(g, c) > 0
  BY <1>1, FlippedRemaining DEF FlippedStates
<1>5. g.color[0] = g.color[1] <=> g.color[0] = "none"
  BY <1>1 DEF FlippedSides, FlippedColors
<1>6. g.color[0] # "none" => \A p \in 0..1 : g.color[p] \in FlippedColors
  <2>1. g.color[0] # "none" => {g.color[0], g.color[1]} = FlippedColors
    BY <1>1 DEF FlippedSides
  <2>. QED
    BY <2>1
<1>7. ASSUME Flipped!Over
      PROVE  IF g.result.winner = -1 THEN \A p \in 0..1 : Flipped!Remaining(g, g.color[p]) > 0
             ELSE Flipped!Remaining(g, g.color[g.result.winner]) > 0
  <2>1. FlippedEnded(g)
    BY <1>2, <1>7
  <2>2. g.result.winner \in {-1} \cup (0..1)
    BY <2>1 DEF FlippedEnded, FlippedEnds
  <2>. QED
    BY <1>4, <1>6, <2>1, <2>2 DEF FlippedEnded
<1>8. ~Flipped!Over => \A c \in FlippedColors : Flipped!Remaining(g, c) > 0
  BY <1>2, <1>4 DEF FlippedOpen
<1>9. Flipped!AskedMayAct
  BY <1>2 DEF FlippedOpen, Flipped!AskedMayAct
<1>10. Flipped!Settled
  BY <1>5, <1>7, <1>8 DEF Flipped!Settled, Flipped!Colors, FlippedColors, Flipped!Players
<1>. QED
  BY <1>3, <1>9, <1>10

-----------------------------------------------------------------------------
(* Dots and boxes. *)

LEMMA DotsNames ==
  /\ \A S : Dots!Cardinality(S) = Cardinality(S)
  /\ \A f, S : Dots!Total(f, S) = Total(f, S)
  /\ \A n, p, S : Dots!NextSeat(n, p, S) = T!NextSeat(n, p, S)
<1>1. \A S : Dots!Cardinality(S) = Cardinality(S)
  BY DEF Dots!Cardinality, Cardinality
<1>2. \A f, S : Dots!Total(f, S) = Total(f, S)
  BY DEF Dots!Total, Dots!MapThenSumSet, Dots!MapThenFoldSet, Total, MapThenSumSet, MapThenFoldSet
<1>3. \A n, p, S : Dots!NextSeat(n, p, S) = T!NextSeat(n, p, S)
  BY DEF Dots!NextSeat, T!NextSeat
<1>. QED
  BY <1>1, <1>2, <1>3

DotsSeats == 0..(SeatCount - 1)
DotsWon == [over : {TRUE}, winners : SUBSET DotsSeats]
DotsStates ==
  [drawn : SUBSET Dots!Edges, owner : [Dots!Boxes -> DotsSeats \cup {-1}],
   score : [DotsSeats -> Nat], turn : DotsSeats, left : SUBSET DotsSeats,
   result : DotsWon \cup {[over |-> FALSE]}]

\* A box is owned when its four edges are drawn, and counted once.
DotsOwned(drawn, owner, score) ==
  /\ \A b \in Dots!Boxes : owner[b] # -1 <=> Dots!Sides(b) \subseteq drawn
  /\ \A p \in DotsSeats : score[p] = Cardinality({b \in Dots!Boxes : owner[b] = p})

DotsOpen(s) ==
  /\ s.result = [over |-> FALSE]
  /\ s.turn \in Dots!Active(s)
  /\ \E p, q \in Dots!Active(s) : p # q
  /\ ~Dots!Full(s)

DotsEnded(s) ==
  /\ s.result \in DotsWon
  /\ s.result.winners # {} /\ s.result.winners \subseteq Dots!Active(s)
  /\ \A p \in s.result.winners, q \in Dots!Active(s) : s.score[q] <= s.score[p]

DotsInv(s) == s \in DotsStates /\ DotsOwned(s.drawn, s.owner, s.score) /\ (DotsOpen(s) \/ DotsEnded(s))

LEMMA DotsActive ==
  ASSUME GamesAssumption, NEW s
  PROVE  Dots!Active(s) = DotsSeats \ s.left /\ IsFiniteSet(Dots!Active(s)) /\ IsFiniteSet(DotsSeats)
<1>1. IsFiniteSet(DotsSeats)
  BY SeatsFinite DEF GamesAssumption, DotsSeats
<1>2. Dots!Active(s) = DotsSeats \ s.left
  BY DEF Dots!Active, Dots!Players, DotsSeats
<1>. QED
  BY <1>1, <1>2, FS_Subset

LEMMA DotsBoxesFinite ==
  ASSUME GamesAssumption
  PROVE  IsFiniteSet(Dots!Boxes) /\ Dots!Boxes # {}
<1>1. IsFiniteSet(1..Rows) /\ IsFiniteSet(1..Columns)
  BY CountFinite DEF GamesAssumption
<1>2. IsFiniteSet((1..Rows) \X (1..Columns))
  BY <1>1, FS_Product
<1>3. <<1, 1>> \in (1..Rows) \X (1..Columns)
  BY DEF GamesAssumption
<1>. QED
  BY <1>2, <1>3 DEF Dots!Boxes

\* The completed boxes are new ones, and count for the one who draws.
LEMMA DotsCompleted ==
  ASSUME GamesAssumption, NEW s \in DotsStates, DotsOwned(s.drawn, s.owner, s.score),
         NEW p \in DotsSeats, NEW e, e \notin s.drawn, NEW done, done = Dots!Completed(s, e),
         NEW owner, owner = Dots!SetAll(s.owner, done, p),
         NEW score, score = [s.score EXCEPT ![p] = @ + Cardinality(done)]
  PROVE  /\ owner \in [Dots!Boxes -> DotsSeats \cup {-1}] /\ score \in [DotsSeats -> Nat]
         /\ DotsOwned(s.drawn \cup {e}, owner, score)
<1>1. s.owner \in [Dots!Boxes -> DotsSeats \cup {-1}] /\ s.score \in [DotsSeats -> Nat]
  BY DEF DotsStates
<1>2. \A b : b \in done <=> /\ b \in Dots!Boxes /\ s.owner[b] = -1
                            /\ e \in Dots!Sides(b) /\ Dots!Sides(b) \subseteq s.drawn \cup {e}
  BY DEF Dots!Completed, Dots!None
<1>3. IsFiniteSet(done) /\ Cardinality(done) \in Nat
  <2>1. done \subseteq Dots!Boxes
    BY <1>2
  <2>. QED
    BY <2>1, DotsBoxesFinite, FS_Subset, FS_CardinalityType
<1>4. /\ owner \in [Dots!Boxes -> DotsSeats \cup {-1}]
      /\ \A b \in Dots!Boxes : owner[b] = IF b \in done THEN p ELSE s.owner[b]
  BY <1>1 DEF Dots!SetAll
<1>5. score \in [DotsSeats -> Nat] /\ score[p] = s.score[p] + Cardinality(done)
      /\ \A q \in DotsSeats \ {p} : score[q] = s.score[q]
  BY <1>1, <1>3
<1>6. p # -1 /\ \A q \in DotsSeats : q # -1
  BY DEF DotsSeats
<1>7. \A b \in Dots!Boxes : s.owner[b] # -1 <=> Dots!Sides(b) \subseteq s.drawn
  BY DEF DotsOwned
<1>8. \A q \in DotsSeats : s.score[q] = Cardinality({b \in Dots!Boxes : s.owner[b] = q})
  BY DEF DotsOwned
<1>9. ASSUME NEW b \in Dots!Boxes
      PROVE  owner[b] # -1 <=> Dots!Sides(b) \subseteq s.drawn \cup {e}
  <2>1. CASE b \in done
    BY <1>2, <1>4, <1>6, <2>1
  <2>2. CASE b \notin done /\ s.owner[b] # -1
    BY <1>4, <1>7, <2>2
  <2>3. CASE b \notin done /\ s.owner[b] = -1
    <3>1. owner[b] = -1
      BY <1>4, <2>3
    <3>2. ~(e \in Dots!Sides(b) /\ Dots!Sides(b) \subseteq s.drawn \cup {e})
      BY <1>2, <2>3
    <3>3. ~(Dots!Sides(b) \subseteq s.drawn)
      BY <1>7, <2>3
    <3>. QED
      BY <3>1, <3>2, <3>3
  <2>. QED
    BY <2>1, <2>2, <2>3
<1>10. ASSUME NEW q \in DotsSeats
       PROVE  score[q] = Cardinality({b \in Dots!Boxes : owner[b] = q})
  <2> DEFINE own(f) == {b \in Dots!Boxes : f[b] = q}
  <2>1. IsFiniteSet(own(s.owner)) /\ Cardinality(own(s.owner)) = s.score[q]
    BY <1>8, DotsBoxesFinite, FS_Subset
  <2>2. CASE q = p
    <3>1. own(owner) = own(s.owner) \cup done /\ own(s.owner) \cap done = {}
      BY <1>2, <1>4, <1>6, <2>2
    <3>2. Cardinality(own(s.owner) \cup done)
            = Cardinality(own(s.owner)) + Cardinality(done) - Cardinality(own(s.owner) \cap done)
      BY <1>3, <2>1, FS_Union
    <3>3. Cardinality(own(s.owner) \cap done) = 0
      BY <3>1, FS_EmptySet
    <3>4. s.score[q] \in Nat
      BY <1>1
    <3> HIDE DEF own
    <3>5. score[q] = Cardinality(own(owner))
      BY <1>3, <1>5, <2>1, <2>2, <3>1, <3>2, <3>3, <3>4
    <3>. QED
      BY <3>5 DEF own
  <2>3. CASE q # p
    <3>1. own(owner) = own(s.owner)
      BY <1>2, <1>4, <1>6, <2>3
    <3> HIDE DEF own
    <3>2. score[q] = Cardinality(own(owner))
      BY <1>5, <2>1, <2>3, <3>1
    <3>. QED
      BY <3>2 DEF own
  <2>. QED
    BY <2>2, <2>3
<1>. QED
  BY <1>4, <1>5, <1>9, <1>10 DEF DotsOwned

LEMMA DotsNext ==
  ASSUME GamesAssumption, NEW p \in DotsSeats, NEW S \in SUBSET DotsSeats, S # {}
  PROVE  Dots!NextSeat(SeatCount, p, S) \in S
<1>1. SeatCount \in Nat \ {0}
  BY DEF GamesAssumption
<1>. QED
  BY <1>1, SeatIn, DotsNames DEF DotsSeats

LEMMA DotsDraw ==
  ASSUME GamesAssumption, DotsInv(g), DotsOpen(g), NEW p \in DotsSeats, Dots!Draw(p)
  PROVE  DotsInv(g')
<1>1. g \in DotsStates /\ DotsOwned(g.drawn, g.owner, g.score)
  BY DEF DotsInv
<1>2. PICK e \in Dots!Edges \ g.drawn :
        LET done == Dots!Completed(g, e)
            s == [g EXCEPT !.drawn = @ \cup {e}, !.owner = Dots!SetAll(@, done, p),
                           !.score[p] = @ + Cardinality(done),
                           !.turn = IF done # {} THEN p
                                    ELSE Dots!NextSeat(SeatCount, p, Dots!Active(g))]
        IN /\ g.turn = p
           /\ g' = IF Dots!Full(s) THEN [s EXCEPT !.result = Dots!Won(Dots!Leaders(s))] ELSE s
  BY DotsNames DEF Dots!Draw
<1> DEFINE done == Dots!Completed(g, e)
           owner == Dots!SetAll(g.owner, done, p)
           score == [g.score EXCEPT ![p] = @ + Cardinality(done)]
           turn == IF done # {} THEN p ELSE Dots!NextSeat(SeatCount, p, Dots!Active(g))
           drawn == g.drawn \cup {e}
           s == [g EXCEPT !.drawn = drawn, !.owner = owner, !.score = score, !.turn = turn]
<1>3. g' = IF Dots!Full(s) THEN [s EXCEPT !.result = Dots!Won(Dots!Leaders(s))] ELSE s
  BY <1>2
<1>4. /\ owner \in [Dots!Boxes -> DotsSeats \cup {-1}] /\ score \in [DotsSeats -> Nat]
      /\ DotsOwned(drawn, owner, score)
  <2>1. done = Dots!Completed(g, e) /\ owner = Dots!SetAll(g.owner, done, p)
        /\ score = [g.score EXCEPT ![p] = @ + Cardinality(done)] /\ e \notin g.drawn
    OBVIOUS
  <2> HIDE DEF done, owner, score
  <2>. QED
    BY <1>1, <2>1, DotsCompleted
<1>5. drawn \in SUBSET Dots!Edges
  BY <1>1 DEF DotsStates
<1>6. p \in Dots!Active(g) /\ Dots!Active(g) # {} /\ Dots!Active(g) \subseteq DotsSeats
  BY <1>2, DotsActive DEF DotsOpen
<1> HIDE DEF done, owner, score, drawn
<1>7. turn \in Dots!Active(g) /\ turn \in DotsSeats
  BY <1>6, DotsNext
<1> HIDE DEF turn
<1>8. /\ s \in DotsStates /\ s.drawn = drawn /\ s.owner = owner /\ s.score = score
      /\ s.turn = turn /\ s.left = g.left /\ s.result = [over |-> FALSE]
  BY <1>1, <1>4, <1>5, <1>7 DEF DotsStates, DotsOpen
<1> HIDE DEF s
<1>9. Dots!Active(s) = Dots!Active(g)
  BY <1>8 DEF Dots!Active
<1>10. CASE ~Dots!Full(s)
  <2>1. g' = s
    BY <1>3, <1>10
  <2>2. DotsOpen(s)
    BY <1>7, <1>8, <1>9, <1>10 DEF DotsOpen
  <2>. QED
    BY <1>4, <1>8, <2>1, <2>2 DEF DotsInv
<1>11. CASE Dots!Full(s)
  <2> DEFINE best == {x \in Dots!Active(s) : \A y \in Dots!Active(s) : s.score[y] <= s.score[x]}
            won == [over |-> TRUE, winners |-> best]
  <2>1. g' = [s EXCEPT !.result = won]
    BY <1>3, <1>11 DEF Dots!Won, Dots!Leaders, Dots!Best
  <2>2. best # {}
    <3>1. \A x \in Dots!Active(s) : s.score[x] \in Int
      BY <1>6, <1>8, <1>9 DEF DotsStates
    <3>. QED
      BY <1>6, <1>9, <3>1, DotsActive, Highest
  <2>3. won \in DotsWon
    BY <1>6, <1>9 DEF DotsWon
  <2>4. /\ g' \in DotsStates /\ g'.drawn = drawn /\ g'.owner = owner /\ g'.score = s.score
        /\ g'.left = s.left /\ g'.result = won
    BY <1>8, <2>1, <2>3 DEF DotsStates
  <2>5. Dots!Active(g') = Dots!Active(s)
    BY <2>4 DEF Dots!Active
  <2>6. DotsEnded(g')
    BY <2>2, <2>3, <2>4, <2>5 DEF DotsEnded
  <2>7. DotsOwned(g'.drawn, g'.owner, g'.score)
    BY <1>4, <1>8, <2>4
  <2>. QED
    BY <2>4, <2>6, <2>7 DEF DotsInv
<1>. QED
  BY <1>10, <1>11

LEMMA DotsResign ==
  ASSUME GamesAssumption, DotsInv(g), DotsOpen(g), NEW p \in DotsSeats, Dots!Resign(p)
  PROVE  DotsInv(g')
<1> DEFINE stay == Dots!Active(g) \ {p}
          turn == IF g.turn = p THEN Dots!NextSeat(SeatCount, p, stay) ELSE g.turn
          s == [g EXCEPT !.left = @ \cup {p}, !.turn = turn]
<1>1. g \in DotsStates /\ DotsOwned(g.drawn, g.owner, g.score)
  BY DEF DotsInv
<1>2. g' = IF Cardinality(stay) = 1 THEN [s EXCEPT !.result = Dots!Won(stay)] ELSE s
  BY DotsNames DEF Dots!Resign
<1>3. stay # {} /\ stay \subseteq DotsSeats /\ IsFiniteSet(stay)
  <2>1. stay # {}
    BY DEF DotsOpen
  <2>2. IsFiniteSet(stay)
    BY DotsActive, FS_Subset
  <2>. QED
    BY <2>1, <2>2, DotsActive
<1>4. turn \in stay /\ turn \in DotsSeats
  <2>1. g.turn \in Dots!Active(g)
    BY DEF DotsOpen
  <2> HIDE DEF stay
  <2>2. g.turn = p => turn \in stay
    BY <1>3, DotsNext
  <2>3. g.turn # p => turn \in stay
    BY <2>1 DEF stay
  <2>. QED
    BY <1>3, <2>2, <2>3
<1> HIDE DEF turn
<1>5. /\ s \in DotsStates /\ s.drawn = g.drawn /\ s.owner = g.owner /\ s.score = g.score
      /\ s.turn = turn /\ s.left = g.left \cup {p} /\ s.result = [over |-> FALSE]
  BY <1>1, <1>4 DEF DotsStates, DotsOpen
<1> HIDE DEF s
<1>6. Dots!Active(s) = stay
  BY <1>5, DotsActive
<1> HIDE DEF stay
<1>7. CASE Cardinality(stay) = 1
  <2> DEFINE won == [over |-> TRUE, winners |-> stay]
  <2>1. g' = [s EXCEPT !.result = won]
    BY <1>2, <1>7 DEF Dots!Won
  <2>2. won \in DotsWon
    BY <1>3 DEF DotsWon
  <2>3. /\ g' \in DotsStates /\ g'.drawn = s.drawn /\ g'.owner = s.owner /\ g'.score = s.score
        /\ g'.left = s.left /\ g'.result = won
    BY <1>5, <2>1, <2>2 DEF DotsStates
  <2>4. Dots!Active(g') = stay
    BY <1>6, <2>3 DEF Dots!Active
  <2>5. \A x, y \in stay : x = y /\ s.score[x] \in Int
    BY <1>3, <1>5, <1>7, OneOrTwo DEF DotsStates
  <2>6. DotsEnded(g')
    BY <1>3, <2>2, <2>3, <2>4, <2>5 DEF DotsEnded
  <2>. QED
    BY <1>1, <1>5, <2>3, <2>6 DEF DotsInv
<1>8. CASE Cardinality(stay) # 1
  <2>1. g' = s
    BY <1>2, <1>8
  <2>2. \E x, y \in stay : x # y
    BY <1>3, <1>8, OneOrTwo
  <2>3. ~Dots!Full(s)
    BY <1>5 DEF DotsOpen, Dots!Full
  <2>4. DotsOpen(s)
    BY <1>4, <1>5, <1>6, <2>2, <2>3 DEF DotsOpen
  <2>. QED
    BY <1>1, <1>5, <2>1, <2>4 DEF DotsInv
<1>. QED
  BY <1>7, <1>8

LEMMA DotsInit ==
  ASSUME GamesAssumption, Dots!Init
  PROVE  DotsInv(g)
<1>1. PICK first \in DotsSeats :
        g = [drawn |-> {}, owner |-> [b \in Dots!Boxes |-> -1],
             score |-> [p \in DotsSeats |-> 0], turn |-> first, left |-> {},
             result |-> [over |-> FALSE]]
  BY DEF Dots!Init, Dots!Players, Dots!None, Dots!NoResult, DotsSeats
<1>2. g \in DotsStates /\ \A b \in Dots!Boxes : g.owner[b] = -1
  BY <1>1 DEF DotsStates
<1>3. DotsOwned(g.drawn, g.owner, g.score)
  <2>1. \A b \in Dots!Boxes : ~(Dots!Sides(b) \subseteq g.drawn)
    BY <1>1 DEF Dots!Sides
  <2>2. \A q \in DotsSeats : {b \in Dots!Boxes : g.owner[b] = q} = {}
    BY <1>2 DEF DotsSeats
  <2>3. \A q \in DotsSeats : g.score[q] = 0
    BY <1>1
  <2>. QED
    BY <1>2, <2>1, <2>2, <2>3, FS_EmptySet DEF DotsOwned
<1>4. DotsOpen(g)
  <2>1. 0 \in DotsSeats /\ 1 \in DotsSeats /\ 0 # 1
    BY DEF GamesAssumption, DotsSeats
  <2>2. Dots!Active(g) = DotsSeats
    <3>1. g.left = {}
      BY <1>1
    <3>. QED
      BY <3>1, DotsActive
  <2>3. ~Dots!Full(g)
    BY <1>2, DotsBoxesFinite DEF Dots!Full, Dots!None
  <2>. QED
    BY <1>1, <2>1, <2>2, <2>3 DEF DotsOpen
<1>. QED
  BY <1>2, <1>3, <1>4 DEF DotsInv

LEMMA DotsPreserved ==
  ASSUME GamesAssumption, DotsInv(g), Dots!Next
  PROVE  DotsInv(g')
<1>1. PICK p \in DotsSeats : Dots!Draw(p) \/ Dots!Resign(p)
  BY DEF Dots!Next, Dots!Players, DotsSeats
<1>2. DotsOpen(g)
  BY <1>1 DEF DotsInv, DotsEnded, DotsWon, Dots!Draw, Dots!Resign, Dots!Over
<1>. QED
  BY <1>1, <1>2, DotsDraw, DotsResign

LEMMA DotsHonours ==
  ASSUME GamesAssumption, DotsInv(g)
  PROVE  Dots!AskedMayAct /\ Dots!Settled /\ Dots!ScoresHonest
<1>1. Dots!ScoresHonest
  BY DotsNames DEF DotsInv, DotsOwned, Dots!ScoresHonest, Dots!Players, Dots!None, DotsSeats
<1>2. Dots!AskedMayAct
  <2>1. SUFFICES ASSUME ~Dots!Over PROVE Dots!AskedMayAct
    BY DEF Dots!AskedMayAct
  <2>2. DotsOpen(g)
    BY <2>1 DEF DotsInv, DotsEnded, DotsWon, Dots!Over
  <2>3. PICK b \in Dots!Boxes : g.owner[b] = -1
    BY <2>2 DEF DotsOpen, Dots!Full, Dots!None
  <2>4. ~(Dots!Sides(b) \subseteq g.drawn)
    BY <2>3 DEF DotsInv, DotsOwned
  <2>5. Dots!Sides(b) \subseteq Dots!Edges
    BY DEF Dots!Edges
  <2>. QED
    BY <2>2, <2>4, <2>5 DEF DotsOpen, Dots!AskedMayAct
<1>3. Dots!Settled
  <2>1. SUFFICES ASSUME Dots!Over PROVE Dots!Settled
    BY DEF Dots!Settled
  <2> DEFINE w == g.result.winners  d == Dots!Deltas(w)
  <2>2. /\ w # {} /\ w \subseteq Dots!Active(g) /\ g \in DotsStates
        /\ \A p \in w, q \in Dots!Active(g) : g.score[q] <= g.score[p]
    BY <2>1 DEF DotsInv, DotsOpen, DotsEnded, Dots!Over
  <2>3. \A p \in DotsSeats : d[p] = IF Cardinality(w) > 1 THEN 0
                                    ELSE IF p \in w THEN Stake * (SeatCount - 1) ELSE -Stake
    BY DotsNames DEF Dots!Deltas, Dots!Players, DotsSeats
  <2> HIDE DEF d, w
  <2>4. w \subseteq DotsSeats /\ IsFiniteSet(w) /\ IsFiniteSet(DotsSeats)
    BY <2>2, DotsActive, FS_Subset
  <2>5. Total(d, DotsSeats) = 0
    <3>1. CASE Cardinality(w) > 1
      BY <2>3, <2>4, <3>1, TotalZero
    <3>2. CASE ~(Cardinality(w) > 1)
      <4>1. PICK x \in w : w = {x}
        BY <2>2, <2>4, <3>2, OneOrTwo
      <4>2. \A q \in 0..(SeatCount - 1) : d[q] = IF q = x THEN Stake * (SeatCount - 1) ELSE -Stake
        BY <2>3, <3>2, <4>1 DEF DotsSeats
      <4>3. SeatCount \in Nat \ {0} /\ Stake \in Nat /\ x \in 0..(SeatCount - 1)
        BY <2>4 DEF GamesAssumption, DotsSeats
      <4>. QED
        BY <4>2, <4>3, WinnerTakes DEF DotsSeats
    <3>. QED
      BY <3>1, <3>2
  <2>6. \A p \in w, q \in Dots!Active(g) : g.score[p] >= g.score[q]
    <3>1. \A p \in DotsSeats : g.score[p] \in Int
      BY <2>2 DEF DotsStates
    <3>. QED
      BY <2>2, <2>4, <3>1, DotsActive
  <2>. QED
    BY <2>2, <2>5, <2>6, DotsNames DEF Dots!Settled, Dots!Players, DotsSeats, w, d
<1>. QED
  BY <1>1, <1>2, <1>3

-----------------------------------------------------------------------------
(* Bomb plane. *)

LEMMA BombNames ==
  \A S : Bomb!Cardinality(S) = Cardinality(S)
<1>1. \A S : Bomb!Cardinality(S) = Cardinality(S)
  BY DEF Bomb!Cardinality, Cardinality
<1>. QED
  BY <1>1

BombShots == {"none", "head", "hit", "miss"}
BombWon == [over : {TRUE}, winner : 0..1]
BombStates ==
  [phase : {"setup", "play", "finished"}, first : 0..1, active : {-1} \cup (0..1),
   planes : [0..1 -> Bomb!Layouts], ready : [0..1 -> BOOLEAN],
   shots : [0..1 -> [FleetCells -> BombShots]], result : BombWon \cup {[over |-> FALSE]}]

BombFired(shots, p) == Cardinality({c \in FleetCells : shots[p][c] # "none"})
BombDowned(shots, p) == Cardinality({c \in FleetCells : shots[p][c] = "head"})

\* Every answer tells where the planes of the other seat lie.
BombTruth(planes, shots) ==
  \A p \in 0..1 : /\ planes[p] \in Bomb!Fleets
                  /\ \A c \in FleetCells : shots[p][c] \in {"none", Bomb!Answer(planes[1 - p], c)}

BombSetup(s) ==
  /\ s.phase = "setup"
  /\ \A p \in 0..1, c \in FleetCells : s.shots[p][c] = "none"
  /\ \A p \in 0..1 : s.ready[p] => s.planes[p] \in Bomb!Fleets

\* The one who fired first is as many shots ahead as the other has the turn.
BombPlay(s) ==
  /\ s.phase \in {"play", "finished"}
  /\ BombTruth(s.planes, s.shots)
  /\ BombFired(s.shots, s.first) - BombFired(s.shots, 1 - s.first) \in {0, 1}

BombOpen(s) ==
  /\ s.result = [over |-> FALSE]
  /\ s.phase = "setup" => s.active \in 0..1 /\ ~s.ready[s.active]
  /\ s.phase # "setup" =>
       /\ s.active \in 0..1
       /\ BombFired(s.shots, s.first) - BombFired(s.shots, 1 - s.first)
            = IF s.active = s.first THEN 0 ELSE 1
       /\ \A p \in 0..1 : BombDowned(s.shots, p) < FleetSize

BombEnded(s) == s.result \in BombWon

BombInv(s) == s \in BombStates /\ (BombSetup(s) \/ BombPlay(s)) /\ (BombOpen(s) \/ BombEnded(s))

LEMMA BombFleets == Bomb!Fleets \subseteq Bomb!Layouts
  BY DEF Bomb!Fleets

LEMMA BombCounts ==
  ASSUME GamesAssumption, NEW shots, NEW p
  PROVE  /\ BombFired(shots, p) \in Nat /\ BombDowned(shots, p) \in Nat
         /\ (\A c \in FleetCells : shots[p][c] = "none") => BombFired(shots, p) = 0 /\ BombDowned(shots, p) = 0
<1>1. IsFiniteSet(FleetCells)
  BY DEF GamesAssumption
<1>2. {c \in FleetCells : shots[p][c] # "none"} \subseteq FleetCells
      /\ {c \in FleetCells : shots[p][c] = "head"} \subseteq FleetCells
  OBVIOUS
<1>3. BombFired(shots, p) \in Nat /\ BombDowned(shots, p) \in Nat
  BY <1>1, <1>2, FS_Subset, FS_CardinalityType DEF BombFired, BombDowned
<1>4. ASSUME \A c \in FleetCells : shots[p][c] = "none"
      PROVE  BombFired(shots, p) = 0 /\ BombDowned(shots, p) = 0
  <2>1. {c \in FleetCells : shots[p][c] # "none"} = {} /\ {c \in FleetCells : shots[p][c] = "head"} = {}
    BY <1>4
  <2>. QED
    BY <2>1, FS_EmptySet DEF BombFired, BombDowned
<1>. QED
  BY <1>3, <1>4

LEMMA BombEdit ==
  ASSUME GamesAssumption, BombInv(g), BombOpen(g), NEW p \in 0..1, Bomb!Edit(p)
  PROVE  BombInv(g')
<1>1. PICK l \in Bomb!Layouts : g' = [g EXCEPT !.planes[p] = l]
  BY DEF Bomb!Edit
<1>2. g.phase = "setup" /\ ~g.ready[p] /\ g \in BombStates
  BY DEF Bomb!Edit, Bomb!Editing, BombInv
<1> DEFINE planes == [g.planes EXCEPT ![p] = l]
<1>3. planes \in [0..1 -> Bomb!Layouts] /\ \A q \in 0..1 : q # p => planes[q] = g.planes[q]
  BY <1>2 DEF BombStates
<1>4. g' = [g EXCEPT !.planes = planes]
  BY <1>1
<1> HIDE DEF planes
<1>5. /\ g' \in BombStates /\ g'.phase = g.phase /\ g'.shots = g.shots /\ g'.ready = g.ready
      /\ g'.planes = planes /\ g'.result = g.result /\ g'.active = g.active /\ g'.first = g.first
  BY <1>2, <1>3, <1>4 DEF BombStates
<1>6. BombSetup(g)
  BY <1>2 DEF BombInv, BombPlay
<1>7. BombSetup(g')
  BY <1>2, <1>3, <1>5, <1>6 DEF BombSetup
<1>8. BombOpen(g')
  BY <1>2, <1>5 DEF BombOpen
<1>. QED
  BY <1>5, <1>7, <1>8 DEF BombInv

LEMMA BombLocked ==
  ASSUME GamesAssumption, BombInv(g), BombOpen(g), NEW p \in 0..1, Bomb!Editing(p),
         NEW l \in Bomb!Fleets, Bomb!Locked(p, l)
  PROVE  BombInv(g')
<1> DEFINE ready == [g.ready EXCEPT ![p] = TRUE]
           planes == [g.planes EXCEPT ![p] = l]
           s == [g EXCEPT !.planes = planes, !.ready = ready]
<1>1. g.phase = "setup" /\ ~g.ready[p] /\ g \in BombStates
  BY DEF Bomb!Editing, BombInv
<1>2. BombSetup(g) /\ g.active \in 0..1 /\ ~g.ready[g.active] /\ g.result = [over |-> FALSE]
  BY <1>1 DEF BombInv, BombPlay, BombOpen
<1>3. /\ planes \in [0..1 -> Bomb!Layouts] /\ planes[p] = l
      /\ \A q \in 0..1 : q # p => planes[q] = g.planes[q]
      /\ ready \in [0..1 -> BOOLEAN] /\ ready[p] = TRUE
      /\ \A q \in 0..1 : q # p => ready[q] = g.ready[q]
  BY <1>1, BombFleets DEF BombStates
<1>4. g' = IF ready[1 - p] THEN [s EXCEPT !.phase = "play", !.active = g.first]
           ELSE [s EXCEPT !.active = IF ready[g.active] THEN 1 - p ELSE g.active]
  BY DEF Bomb!Locked, Bomb!Cursor
<1> HIDE DEF ready, planes
<1>5. /\ s \in BombStates /\ s.planes = planes /\ s.ready = ready /\ s.shots = g.shots
      /\ s.phase = g.phase /\ s.first = g.first /\ s.result = g.result
  BY <1>1, <1>3 DEF BombStates
<1> HIDE DEF s
<1>6. \A q \in 0..1 : ready[q] => planes[q] \in Bomb!Fleets
  BY <1>2, <1>3 DEF BombSetup
<1>7. 1 - p \in 0..1 /\ 1 - p # p /\ g.first \in 0..1 /\ 1 - g.first \in 0..1
  BY <1>1 DEF BombStates
<1>8. CASE ready[1 - p]
  <2>1. g' = [s EXCEPT !.phase = "play", !.active = g.first]
    BY <1>4, <1>8
  <2>2. /\ g' \in BombStates /\ g'.phase = "play" /\ g'.active = g.first /\ g'.first = g.first
        /\ g'.planes = planes /\ g'.shots = g.shots /\ g'.result = g.result
    BY <1>5, <1>7, <2>1 DEF BombStates
  <2>3. planes[0] \in Bomb!Fleets /\ planes[1] \in Bomb!Fleets
    <3>1. \A q \in 0..1 : ready[q]
      BY <1>3, <1>7, <1>8
    <3>. QED
      BY <1>6, <3>1
  <2>4. BombTruth(g'.planes, g'.shots)
    BY <1>2, <2>2, <2>3 DEF BombTruth, BombSetup
  <2>5. \A q \in 0..1 : BombFired(g'.shots, q) = 0 /\ BombDowned(g'.shots, q) = 0
    BY <1>2, <2>2, BombCounts DEF BombSetup
  <2>6. BombFired(g'.shots, g'.first) = 0 /\ BombFired(g'.shots, 1 - g'.first) = 0
    BY <1>7, <2>2, <2>5
  <2>7. BombPlay(g')
    BY <2>2, <2>4, <2>6 DEF BombPlay
  <2>8. FleetSize > 0 /\ FleetSize \in Nat
    BY DEF GamesAssumption
  <2>9. BombOpen(g')
    BY <1>2, <1>7, <2>2, <2>5, <2>6, <2>8 DEF BombOpen
  <2>. QED
    BY <2>2, <2>7, <2>9 DEF BombInv
<1>9. CASE ~ready[1 - p]
  <2> DEFINE active == IF ready[g.active] THEN 1 - p ELSE g.active
  <2>1. g' = [s EXCEPT !.active = active]
    BY <1>4, <1>9
  <2>2. active \in 0..1 /\ ~ready[active]
    BY <1>2, <1>7, <1>9
  <2> HIDE DEF active
  <2>3. /\ g' \in BombStates /\ g'.phase = g.phase /\ g'.active = active /\ g'.first = g.first
        /\ g'.planes = planes /\ g'.shots = g.shots /\ g'.result = g.result /\ g'.ready = ready
    BY <1>5, <2>1, <2>2 DEF BombStates
  <2>4. BombSetup(g')
    BY <1>1, <1>2, <1>6, <2>3 DEF BombSetup
  <2>5. BombOpen(g')
    BY <1>1, <1>2, <2>2, <2>3 DEF BombOpen
  <2>. QED
    BY <2>3, <2>4, <2>5 DEF BombInv
<1>. QED
  BY <1>8, <1>9

\* A shot adds one to the cells fired at, and at most one to the heads hit.
LEMMA BombShot ==
  ASSUME GamesAssumption, NEW shots \in [0..1 -> [FleetCells -> BombShots]], NEW p \in 0..1,
         NEW c \in FleetCells, shots[p][c] = "none", NEW a \in BombShots \ {"none"},
         NEW after, after = [shots EXCEPT ![p][c] = a]
  PROVE  /\ after \in [0..1 -> [FleetCells -> BombShots]]
         /\ \A d \in FleetCells : after[p][d] = IF d = c THEN a ELSE shots[p][d]
         /\ after[1 - p] = shots[1 - p]
         /\ BombFired(after, p) = BombFired(shots, p) + 1
         /\ BombFired(after, 1 - p) = BombFired(shots, 1 - p)
         /\ BombDowned(after, p) <= BombDowned(shots, p) + 1
         /\ BombDowned(after, 1 - p) = BombDowned(shots, 1 - p)
<1> DEFINE fired(r) == {d \in FleetCells : r[p][d] # "none"}
          downed(r) == {d \in FleetCells : r[p][d] = "head"}
<1>1. /\ after \in [0..1 -> [FleetCells -> BombShots]]
      /\ \A d \in FleetCells : after[p][d] = IF d = c THEN a ELSE shots[p][d]
      /\ after[1 - p] = shots[1 - p]
  <2>1. shots[p] \in [FleetCells -> BombShots] /\ 1 - p \in 0..1 /\ 1 - p # p
    OBVIOUS
  <2> DEFINE row == [shots[p] EXCEPT ![c] = a]
  <2>2. row \in [FleetCells -> BombShots] /\ \A d \in FleetCells : row[d] = IF d = c THEN a ELSE shots[p][d]
    BY <2>1
  <2>3. after = [shots EXCEPT ![p] = row]
    OBVIOUS
  <2> HIDE DEF row
  <2>. QED
    BY <2>1, <2>2, <2>3
<1>2. IsFiniteSet(fired(shots)) /\ IsFiniteSet(downed(shots))
      /\ IsFiniteSet(downed(after)) /\ c \notin fired(shots) /\ c \notin downed(shots)
  BY FS_Subset DEF GamesAssumption
<1>3. fired(after) = fired(shots) \cup {c} /\ downed(after) \subseteq downed(shots) \cup {c}
  BY <1>1
<1> HIDE DEF fired, downed
<1>4. /\ Cardinality(fired(shots) \cup {c}) = Cardinality(fired(shots)) + 1
      /\ Cardinality(downed(shots) \cup {c}) = Cardinality(downed(shots)) + 1
      /\ IsFiniteSet(downed(shots) \cup {c})
  BY <1>2, FS_AddElement
<1>5. Cardinality(downed(after)) <= Cardinality(downed(shots) \cup {c})
  BY <1>3, <1>4, FS_Subset
<1>6. BombFired(after, p) = BombFired(shots, p) + 1
  BY <1>3, <1>4 DEF BombFired, fired
<1>7. BombDowned(after, p) <= BombDowned(shots, p) + 1
  BY <1>4, <1>5 DEF BombDowned, downed
<1>8. BombFired(after, 1 - p) = BombFired(shots, 1 - p)
      /\ BombDowned(after, 1 - p) = BombDowned(shots, 1 - p)
  BY <1>1 DEF BombFired, BombDowned
<1>. QED
  BY <1>1, <1>6, <1>7, <1>8

LEMMA BombAttack ==
  ASSUME GamesAssumption, BombInv(g), BombOpen(g), NEW p \in 0..1, Bomb!Attack(p)
  PROVE  BombInv(g')
<1>1. g \in BombStates /\ g.phase = "play" /\ g.active = p
  BY DEF BombInv, Bomb!Attack
<1>2. PICK c \in FleetCells :
        /\ g.shots[p][c] = "none"
        /\ LET s == [g EXCEPT !.shots[p][c] = Bomb!Answer(g.planes[1 - p], c)]
           IN g' = IF Cardinality(Bomb!Downed(s, p)) = FleetSize
                   THEN [s EXCEPT !.phase = "finished", !.active = -1,
                                  !.result = [over |-> TRUE, winner |-> p]]
                   ELSE [s EXCEPT !.active = 1 - p]
  BY BombNames DEF Bomb!Attack, Bomb!None
<1> DEFINE a == Bomb!Answer(g.planes[1 - p], c)
           shots == [g.shots EXCEPT ![p][c] = a]
           s == [g EXCEPT !.shots = shots]
<1>3. a \in BombShots \ {"none"}
  BY DEF Bomb!Answer, BombShots
<1>4. g' = IF Cardinality(Bomb!Downed(s, p)) = FleetSize
           THEN [s EXCEPT !.phase = "finished", !.active = -1,
                          !.result = [over |-> TRUE, winner |-> p]]
           ELSE [s EXCEPT !.active = 1 - p]
  BY <1>2
<1>5. g.shots \in [0..1 -> [FleetCells -> BombShots]] /\ g.first \in 0..1 /\ 1 - p \in 0..1
      /\ 1 - g.first \in 0..1
  BY <1>1 DEF BombStates
<1>6. shots = [g.shots EXCEPT ![p][c] = a]
  OBVIOUS
<1> HIDE DEF a, shots
<1>7. /\ shots \in [0..1 -> [FleetCells -> BombShots]]
      /\ \A d \in FleetCells : shots[p][d] = IF d = c THEN a ELSE g.shots[p][d]
      /\ shots[1 - p] = g.shots[1 - p]
      /\ BombFired(shots, p) = BombFired(g.shots, p) + 1
      /\ BombFired(shots, 1 - p) = BombFired(g.shots, 1 - p)
      /\ BombDowned(shots, p) <= BombDowned(g.shots, p) + 1
      /\ BombDowned(shots, 1 - p) = BombDowned(g.shots, 1 - p)
  BY <1>2, <1>3, <1>5, <1>6, BombShot, SMTT(30)
<1>8. /\ s \in BombStates /\ s.shots = shots /\ s.planes = g.planes /\ s.first = g.first
      /\ s.phase = "play" /\ s.result = g.result
  BY <1>1, <1>7 DEF BombStates
<1> HIDE DEF s
<1>9. Cardinality(Bomb!Downed(s, p)) = BombDowned(shots, p)
  BY <1>8 DEF Bomb!Downed, BombDowned
<1>10. BombPlay(g)
  BY <1>1 DEF BombInv, BombSetup
<1>11. BombTruth(g.planes, shots)
  <2>1. BombTruth(g.planes, g.shots)
    BY <1>10 DEF BombPlay
  <2>2. \A d \in FleetCells : shots[p][d] \in {"none", Bomb!Answer(g.planes[1 - p], d)}
    BY <1>7, <2>1 DEF BombTruth, a
  <2>3. \A q \in 0..1 : q # p => q = 1 - p
    OBVIOUS
  <2>4. \A q \in 0..1, d \in FleetCells : shots[q][d] \in {"none", Bomb!Answer(g.planes[1 - q], d)}
    BY <1>7, <2>1, <2>2, <2>3 DEF BombTruth
  <2>. QED
    BY <2>1, <2>4 DEF BombTruth
<1>12. BombFired(shots, g.first) - BombFired(shots, 1 - g.first)
         = IF p = g.first THEN 1 ELSE 0
  <2>1. BombFired(g.shots, g.first) - BombFired(g.shots, 1 - g.first)
          = IF p = g.first THEN 0 ELSE 1
    BY <1>1 DEF BombOpen
  <2>2. \A q : BombFired(g.shots, q) \in Nat /\ BombFired(shots, q) \in Nat
    BY BombCounts
  <2>3. p = g.first \/ (g.first = 1 - p /\ 1 - g.first = p)
    BY <1>5
  <2>. QED
    BY <1>5, <1>7, <2>1, <2>2, <2>3
<1>13. CASE BombDowned(shots, p) = FleetSize
  <2> DEFINE won == [over |-> TRUE, winner |-> p]
  <2>1. g' = [s EXCEPT !.phase = "finished", !.active = -1, !.result = won]
    BY <1>4, <1>9, <1>13
  <2>2. won \in BombWon
    BY DEF BombWon
  <2> HIDE DEF won
  <2>3. /\ g' \in BombStates /\ g'.phase = "finished" /\ g'.shots = shots /\ g'.planes = g.planes
        /\ g'.first = g.first /\ g'.result \in BombWon
    BY <1>8, <2>1, <2>2 DEF BombStates
  <2>4. BombPlay(g')
    BY <1>11, <1>12, <2>3 DEF BombPlay
  <2>. QED
    BY <2>3, <2>4 DEF BombInv, BombEnded
<1>14. CASE BombDowned(shots, p) # FleetSize
  <2>1. g' = [s EXCEPT !.active = 1 - p]
    BY <1>4, <1>9, <1>14
  <2>2. /\ g' \in BombStates /\ g'.phase = "play" /\ g'.shots = shots /\ g'.planes = g.planes
        /\ g'.first = g.first /\ g'.result = g.result /\ g'.active = 1 - p
    BY <1>5, <1>8, <2>1 DEF BombStates
  <2>3. BombPlay(g')
    BY <1>11, <1>12, <2>2 DEF BombPlay
  <2>4. \A q \in 0..1 : BombDowned(shots, q) < FleetSize
    <3>1. \A q \in 0..1 : BombDowned(g.shots, q) < FleetSize
      BY <1>1 DEF BombOpen
    <3>2. \A q : BombDowned(g.shots, q) \in Nat /\ BombDowned(shots, q) \in Nat
      BY BombCounts
    <3>3. FleetSize \in Nat /\ \A q \in 0..1 : q # p => q = 1 - p
      BY DEF GamesAssumption
    <3>4. BombDowned(shots, p) < FleetSize
      BY <1>7, <1>14, <3>1, <3>2, <3>3
    <3>5. BombDowned(shots, 1 - p) < FleetSize
      BY <1>5, <1>7, <3>1
    <3>. QED
      BY <3>3, <3>4, <3>5
  <2>5. (1 - p = g.first) = (p # g.first)
    BY <1>5
  <2>6. BombOpen(g')
    BY <1>5, <1>12, <2>2, <2>4, <2>5 DEF BombOpen
  <2>. QED
    BY <2>2, <2>3, <2>6 DEF BombInv
<1>. QED
  BY <1>13, <1>14

LEMMA BombPreserved ==
  ASSUME GamesAssumption, BombInv(g), Bomb!Next
  PROVE  BombInv(g')
<1>1. PICK p \in 0..1 : Bomb!Edit(p) \/ Bomb!Ready(p) \/ Bomb!AutoSetup(p) \/ Bomb!Attack(p)
                        \/ Bomb!Resign(p)
  BY DEF Bomb!Next, Bomb!Players
<1>2. BombOpen(g) /\ g \in BombStates
  BY <1>1 DEF BombInv, BombEnded, BombWon, Bomb!Edit, Bomb!Ready, Bomb!AutoSetup, Bomb!Attack,
     Bomb!Resign, Bomb!Editing, Bomb!Over
<1>3. CASE Bomb!Edit(p)
  BY <1>2, <1>3, BombEdit
<1>4. CASE Bomb!Ready(p)
  <2>1. g.planes[p] \in Bomb!Fleets
    BY <1>2, <1>4 DEF Bomb!Ready, Bomb!Fleets, BombStates
  <2>2. Bomb!Editing(p) /\ Bomb!Locked(p, g.planes[p])
    BY <1>4 DEF Bomb!Ready
  <2>. QED
    BY <1>2, <2>1, <2>2, BombLocked
<1>5. CASE Bomb!AutoSetup(p)
  <2>1. PICK l \in Bomb!Fleets : Bomb!Editing(p) /\ Bomb!Locked(p, l)
    BY <1>5 DEF Bomb!AutoSetup
  <2>. QED
    BY <1>2, <2>1, BombLocked
<1>6. CASE Bomb!Attack(p)
  BY <1>2, <1>6, BombAttack
<1>7. CASE Bomb!Resign(p)
  <2> DEFINE won == [over |-> TRUE, winner |-> 1 - p]
  <2>1. g' = [g EXCEPT !.active = -1, !.result = won]
    BY <1>7 DEF Bomb!Resign, Bomb!None
  <2>2. won \in BombWon
    BY DEF BombWon
  <2> HIDE DEF won
  <2>3. /\ g' \in BombStates /\ g'.phase = g.phase /\ g'.shots = g.shots /\ g'.planes = g.planes
        /\ g'.first = g.first /\ g'.ready = g.ready /\ g'.result \in BombWon
    BY <1>2, <2>1, <2>2 DEF BombStates
  <2>4. BombSetup(g') \/ BombPlay(g')
    BY <2>3 DEF BombInv, BombSetup, BombPlay
  <2>. QED
    BY <2>3, <2>4 DEF BombInv, BombEnded
<1>. QED
  BY <1>1, <1>3, <1>4, <1>5, <1>6, <1>7

LEMMA BombInit ==
  ASSUME GamesAssumption, Bomb!Init
  PROVE  BombInv(g)
<1>1. PICK first \in 0..1 :
        g = [phase |-> "setup", first |-> first, active |-> first,
             planes |-> [p \in 0..1 |-> <<>>], ready |-> [p \in 0..1 |-> FALSE],
             shots |-> [p \in 0..1 |-> [c \in FleetCells |-> "none"]], result |-> [over |-> FALSE]]
  BY DEF Bomb!Init, Bomb!Players, Bomb!NoResult
<1>2. <<>> \in Bomb!Layouts
  <2>1. 0 \in 0..FleetSize
    BY DEF GamesAssumption
  <2>2. <<>> \in [1..0 -> Bomb!Planes] /\ DOMAIN <<>> = {}
    OBVIOUS
  <2>3. <<>> \in UNION {[1..n -> Bomb!Planes] : n \in 0..FleetSize}
    BY <2>1, <2>2
  <2>. QED
    BY <2>2, <2>3 DEF Bomb!Layouts
<1>3. g \in BombStates
  BY <1>1, <1>2 DEF BombStates, BombShots
<1>4. BombSetup(g) /\ BombOpen(g)
  BY <1>1 DEF BombSetup, BombOpen
<1>. QED
  BY <1>3, <1>4 DEF BombInv

\* A whole fleet has more heads than the other seat has hit.
LEMMA BombHeads ==
  ASSUME GamesAssumption, NEW l \in Bomb!Fleets, NEW D, IsFiniteSet(D), Cardinality(D) < FleetSize
  PROVE  Bomb!Heads(l) \ D # {}
<1>1. FleetSize \in Nat
  BY DEF GamesAssumption
<1>2. /\ DOMAIN l = 1..FleetSize
      /\ \A i, j \in DOMAIN l : l[i].head = l[j].head => i = j
  <2>1. PICK n \in 0..FleetSize : l \in [1..n -> Bomb!Planes]
    BY DEF Bomb!Fleets, Bomb!Layouts
  <2>2. Len(l) = FleetSize /\ n \in Nat
    BY <1>1 DEF Bomb!Fleets
  <2>3. l \in Seq(Bomb!Planes) /\ Len(l) = n
    BY <2>1, <2>2
  <2>4. \A i, j \in DOMAIN l : l[i].head = l[j].head => i = j
    BY DEF Bomb!Fleets, Bomb!Layouts
  <2>. QED
    BY <2>1, <2>2, <2>3, <2>4
<1>3. SUFFICES ASSUME Bomb!Heads(l) \subseteq D PROVE FALSE
  OBVIOUS
<1> DEFINE f == [i \in 1..FleetSize |-> l[i].head]
<1>4. f \in [1..FleetSize -> D]
  BY <1>2, <1>3 DEF Bomb!Heads
<1>5. IsFiniteSet(1..FleetSize) /\ Cardinality(1..FleetSize) = FleetSize
  BY <1>1, CountFinite
<1>6. \A x, y \in 1..FleetSize : f[x] = f[y] => x = y
  BY <1>2
<1> HIDE DEF f
<1>7. \E x, y \in 1..FleetSize : x # y /\ f[x] = f[y]
  BY <1>4, <1>5, FS_PigeonHole
<1>. QED
  BY <1>6, <1>7

LEMMA BombHonours ==
  ASSUME GamesAssumption, BombInv(g)
  PROVE  Bomb!AskedMayAct /\ Bomb!FleetsHonest
<1>1. g \in BombStates
  BY DEF BombInv
<1>2. Bomb!AskedMayAct
  <2>1. SUFFICES ASSUME ~Bomb!Over PROVE Bomb!AskedMayAct
    BY DEF Bomb!AskedMayAct
  <2>2. BombOpen(g)
    BY <2>1 DEF BombInv, BombEnded, BombWon, Bomb!Over
  <2>3. CASE g.phase = "setup"
    BY <2>2, <2>3 DEF BombOpen, Bomb!AskedMayAct
  <2>4. CASE g.phase # "setup"
    <3> DEFINE D == {c \in FleetCells : g.shots[g.active][c] = "head"}
    <3>1. g.active \in 0..1 /\ 1 - g.active \in 0..1 /\ Cardinality(D) < FleetSize
      BY <2>2, <2>4 DEF BombOpen, BombDowned
    <3>2. g.planes[1 - g.active] \in Bomb!Fleets
      BY <2>4, <3>1 DEF BombInv, BombSetup, BombPlay, BombTruth
    <3>3. IsFiniteSet(D)
      BY FS_Subset DEF GamesAssumption
    <3>4. D = Bomb!Downed(g, g.active)
      BY DEF Bomb!Downed
    <3> HIDE DEF D
    <3>5. Bomb!Heads(g.planes[1 - g.active]) \ D # {}
      BY <3>1, <3>2, <3>3, BombHeads
    <3>. QED
      BY <2>4, <3>4, <3>5 DEF Bomb!AskedMayAct
  <2>. QED
    BY <2>3, <2>4
<1>3. Bomb!FleetsHonest
  <2>1. CASE BombSetup(g)
    BY <2>1 DEF BombSetup, Bomb!FleetsHonest, Bomb!Players
  <2>2. CASE BombPlay(g)
    <3> DEFINE fired == [p \in 0..1 |-> BombFired(g.shots, p)]
    <3>1. g.first \in 0..1 /\ 1 - g.first \in 0..1
      BY <1>1 DEF BombStates
    <3>2. fired[g.first] - fired[1 - g.first] \in {0, 1}
      BY <2>2, <3>1 DEF BombPlay
    <3>3. fired = [p \in Bomb!Players |->
                     Bomb!Cardinality({c \in FleetCells : g.shots[p][c] # "none"})]
      BY BombNames DEF BombFired, Bomb!Players
    <3> HIDE DEF fired
    <3>. QED
      BY <2>2, <3>2, <3>3 DEF BombPlay, BombTruth, Bomb!FleetsHonest, Bomb!Players
  <2>. QED
    BY <2>1, <2>2 DEF BombInv
<1>. QED
  BY <1>2, <1>3

-----------------------------------------------------------------------------
(* Rummikub. *)

LEMMA MeldingNames ==
  /\ \A S : Melding!Cardinality(S) = Cardinality(S)
  /\ \A f, S : Melding!Total(f, S) = Total(f, S)
  /\ \A n, p, S : Melding!NextSeat(n, p, S) = T!NextSeat(n, p, S)
<1>1. \A S : Melding!Cardinality(S) = Cardinality(S)
  BY DEF Melding!Cardinality, Cardinality
<1>2. \A f, S : Melding!Total(f, S) = Total(f, S)
  BY DEF Melding!Total, Melding!MapThenSumSet, Melding!MapThenFoldSet, Total, MapThenSumSet, MapThenFoldSet
<1>3. \A n, p, S : Melding!NextSeat(n, p, S) = T!NextSeat(n, p, S)
  BY DEF Melding!NextSeat, T!NextSeat
<1>. QED
  BY <1>1, <1>2, <1>3


MeldingSeats == 0..(SeatCount - 1)
MeldingTiles == Melding!Tiles
MeldingHands == [MeldingSeats -> SUBSET MeldingTiles]
MeldingReasons == {"empty_rack", "blocked", "resignation", "only_system_npcs_remaining"}
MeldingEnds == [over : {TRUE}, reason : MeldingReasons, winners : SUBSET MeldingSeats,
                paid : [MeldingSeats -> Int]]
MeldingStates ==
  [hand : MeldingHands, pool : SUBSET MeldingTiles, table : SUBSET RummikubMelds,
   opened : [MeldingSeats -> BOOLEAN], blocked : SUBSET MeldingSeats,
   turn : MeldingSeats \cup {-1}, left : SUBSET MeldingSeats,
   result : MeldingEnds \cup {[over |-> FALSE]}]

\* Each tile is in one place.
MeldingPlaced(hand, pool, table) ==
  /\ \A p, q \in MeldingSeats : p # q => hand[p] \cap hand[q] = {}
  /\ \A p \in MeldingSeats : hand[p] \cap pool = {} /\ hand[p] \cap Melding!TilesOf(table) = {}
  /\ pool \cap Melding!TilesOf(table) = {}
  /\ \A m, n \in table : m.tiles \cap n.tiles # {} => m = n
  /\ \A t \in MeldingTiles : \/ t \in pool \/ t \in Melding!TilesOf(table)
                             \/ \E p \in MeldingSeats : t \in hand[p]
  /\ Melding!TilesOf(table) \subseteq MeldingTiles

MeldingUnopened(hand, opened) ==
  \A p \in MeldingSeats : ~opened[p] => Cardinality(hand[p]) >= 2

\* Those who said they cannot go on are the last ones the turn comes to.
MeldingQueue(s) ==
  /\ s.turn \notin s.blocked
  /\ s.blocked # {} => s.pool = {}
  /\ \A q, r \in Melding!Active(s) \ {s.turn} :
       q \in s.blocked /\ Gap(SeatCount, s.turn, q) < Gap(SeatCount, s.turn, r) => r \in s.blocked

MeldingMany(s) == \E x, y \in Melding!Active(s) : x # y

MeldingOpen(s) ==
  /\ s.result = [over |-> FALSE] /\ MeldingMany(s)
  /\ s.turn \in Melding!Active(s)
  /\ \A p \in MeldingSeats : s.hand[p] # {}
  /\ MeldingQueue(s)

MeldingEnded(s) ==
  /\ s.result \in MeldingEnds
  /\ s.result.winners \subseteq Melding!Active(s)
  /\ s.result.winners = {} => Melding!Active(s) \cap Wallets = {}
  /\ s.result.reason \in {"empty_rack", "blocked"} =>
       \A p \in s.result.winners, q \in Melding!Active(s) : Melding!Held(s, p) <= Melding!Held(s, q)
  /\ \A p \in MeldingSeats : s.result.paid[p] >= 0
  /\ s.left # {} => \A p \in MeldingSeats : s.result.paid[p] = 0

MeldingInv(s) ==
  /\ s \in MeldingStates
  /\ MeldingPlaced(s.hand, s.pool, s.table)
  /\ MeldingUnopened(s.hand, s.opened)
  /\ MeldingOpen(s) \/ MeldingEnded(s)

LEMMA MeldingFinite ==
  ASSUME GamesAssumption
  PROVE  IsFiniteSet(MeldingTiles) /\ \A t \in MeldingTiles : Melding!Value[t] \in Nat
<1> DEFINE faces == [color : TileColors, number : TileNumbers, copy : 1..1]
           pairs == TileColors \X TileNumbers
           jokers == [color : {"joker"}, number : {0}, copy : 1..1]
           f == [x \in pairs |-> [color |-> x[1], number |-> x[2], copy |-> 1]]
<1>1. IsFiniteSet(pairs)
  BY FS_Product DEF GamesAssumption
<1>2. f \in Surjection(pairs, faces)
  <2>1. \A x \in pairs : f[x] \in faces
    OBVIOUS
  <2>2. ASSUME NEW t \in faces PROVE \E x \in pairs : f[x] = t
    <3>1. t = [color |-> t.color, number |-> t.number, copy |-> 1]
          /\ <<t.color, t.number>> \in pairs
      OBVIOUS
    <3>2. f[<<t.color, t.number>>] = t
      BY <3>1
    <3>. QED
      BY <3>1, <3>2
  <2>. QED
    BY <2>1, <2>2 DEF Surjection
<1> HIDE DEF f
<1>3. IsFiniteSet(faces)
  BY <1>1, <1>2, FS_Surjection
<1>4. IsFiniteSet(jokers)
  <2> DEFINE j == [color |-> "joker", number |-> 0, copy |-> 1]
  <2>2. \A t \in jokers : t.color = "joker" /\ t.number = 0 /\ t.copy = 1
                        /\ t = [color |-> t.color, number |-> t.number, copy |-> t.copy]
    OBVIOUS
  <2>3. \A t \in jokers : t = j
    BY <2>2
  <2>4. j \in jokers
    OBVIOUS
  <2> HIDE DEF j, jokers
  <2>1. jokers = {j}
    BY <2>3, <2>4
  <2>. QED
    BY <2>1, FS_Singleton
<1>5. MeldingTiles = faces \cup jokers
  BY DEF MeldingTiles, Melding!Tiles
<1>6. ASSUME NEW t \in MeldingTiles PROVE Melding!Value[t] \in Nat
  <2>1. Melding!Value[t] = IF Melding!IsJoker(t) THEN 30 ELSE t.number
    BY DEF Melding!Value, MeldingTiles
  <2>2. t.number \in Nat
    <3>1. CASE t \in faces
      BY <3>1 DEF GamesAssumption
    <3>2. CASE t \in jokers
      BY <3>2
    <3> HIDE DEF faces, jokers
    <3>. QED
      BY <1>5, <3>1, <3>2
  <2>. QED
    BY <2>1, <2>2
<1> HIDE DEF faces, jokers
<1>. QED
  BY <1>3, <1>4, <1>5, <1>6, FS_Union

LEMMA MeldingHeld ==
  ASSUME GamesAssumption, NEW s, NEW p, s.hand[p] \in SUBSET MeldingTiles
  PROVE  /\ IsFiniteSet(s.hand[p]) /\ Melding!Held(s, p) \in Nat
         /\ s.hand[p] = {} => Melding!Held(s, p) = 0
<1>1. Melding!Held(s, p) = Total(Melding!Value, s.hand[p])
  BY MeldingNames DEF Melding!Held
<1>2. IsFiniteSet(s.hand[p])
  BY MeldingFinite, FS_Subset
<1>3. \A t \in s.hand[p] : Melding!Value[t] \in Nat
  BY MeldingFinite
<1>4. Total(Melding!Value, s.hand[p]) \in Nat
  BY <1>2, <1>3, TotalNatural
<1>5. s.hand[p] = {} => Total(Melding!Value, s.hand[p]) = 0
  BY TotalEmpty
<1>. QED
  BY <1>1, <1>2, <1>4, <1>5

LEMMA MeldingActive ==
  ASSUME GamesAssumption, NEW s
  PROVE  /\ Melding!Active(s) = MeldingSeats \ s.left
         /\ IsFiniteSet(Melding!Active(s)) /\ IsFiniteSet(MeldingSeats)
<1>1. Melding!Active(s) = MeldingSeats \ s.left
  BY DEF Melding!Active, Melding!Players, MeldingSeats
<1>2. IsFiniteSet(MeldingSeats)
  BY SeatsFinite DEF GamesAssumption, MeldingSeats
<1>. QED
  BY <1>1, <1>2, FS_Subset

\* Somebody who stayed has least in hand.
LEMMA MeldingLeast ==
  ASSUME GamesAssumption, NEW s \in MeldingStates, Melding!Active(s) # {}
  PROVE  \E m \in Melding!Active(s) :
           \A q \in Melding!Active(s) : Melding!Held(s, m) <= Melding!Held(s, q)
<1> DEFINE f == [p \in MeldingSeats |-> -Melding!Held(s, p)]
<1>1. \A p \in MeldingSeats : Melding!Held(s, p) \in Nat
  BY MeldingHeld DEF MeldingStates, MeldingHands
<1>2. \A p \in Melding!Active(s) : f[p] = -Melding!Held(s, p) /\ f[p] \in Int
  BY <1>1, MeldingActive
<1> HIDE DEF f
<1>3. PICK m \in Melding!Active(s) : \A q \in Melding!Active(s) : f[q] <= f[m]
  BY <1>2, MeldingActive, Highest
<1>4. \A p \in Melding!Active(s) : Melding!Held(s, p) \in Nat
  BY <1>1, MeldingActive
<1>. QED
  BY <1>2, <1>3, <1>4

\* How a game ends.
LEMMA MeldingFinish ==
  ASSUME GamesAssumption, NEW s \in MeldingStates, MeldingPlaced(s.hand, s.pool, s.table),
         MeldingUnopened(s.hand, s.opened), s.result = [over |-> FALSE],
         NEW reason \in MeldingReasons, NEW winners \in SUBSET Melding!Active(s),
         winners = {} => Melding!Active(s) \cap Wallets = {},
         reason \in {"empty_rack", "blocked"} =>
           \A p \in winners, q \in Melding!Active(s) : Melding!Held(s, p) <= Melding!Held(s, q),
         Melding!Active(s) # {}
  PROVE  MeldingInv(Melding!Finish(s, reason, winners))
<1> DEFINE base == IF reason = "empty_rack" THEN 0
                   ELSE Melding!Min({Melding!Held(s, p) : p \in Melding!Active(s)})
           scored == s.left = {} /\ reason \in {"empty_rack", "blocked"}
           paid == [p \in MeldingSeats |-> IF scored /\ p \notin winners
                                           THEN Melding!Held(s, p) - base ELSE 0]
           end == [over |-> TRUE, reason |-> reason, winners |-> winners, paid |-> paid]
           t == [s EXCEPT !.turn = -1, !.result = end]
<1>1. t = Melding!Finish(s, reason, winners)
  BY DEF Melding!Finish, Melding!None, Melding!Players, MeldingSeats
<1>2. \A p \in MeldingSeats : Melding!Held(s, p) \in Nat
  BY MeldingHeld DEF MeldingStates, MeldingHands
<1>3. base \in Nat /\ \A p \in Melding!Active(s) : base <= Melding!Held(s, p)
  <2>1. PICK m \in Melding!Active(s) :
          \A q \in Melding!Active(s) : Melding!Held(s, m) <= Melding!Held(s, q)
    BY MeldingLeast
  <2> DEFINE S == {Melding!Held(s, p) : p \in Melding!Active(s)}
  <2>2. Melding!Held(s, m) \in S /\ \A y \in S : Melding!Held(s, m) <= y
    BY <2>1
  <2>3. S \subseteq Nat
    BY <1>2, MeldingActive
  <2>4. Melding!Min(S) = CHOOSE x \in S : \A y \in S : x =< y
    BY DEF Melding!Min
  <2>5. \A p \in Melding!Active(s) : Melding!Held(s, p) \in S
    OBVIOUS
  <2>6. base = IF reason = "empty_rack" THEN 0 ELSE Melding!Min(S)
    OBVIOUS
  <2> HIDE DEF S, base
  <2>7. Melding!Min(S) \in S /\ \A y \in S : Melding!Min(S) <= y
    BY <2>2, <2>4
  <2>8. \A p \in Melding!Active(s) : Melding!Held(s, p) \in Nat
    BY <1>2, MeldingActive
  <2>. QED
    BY <2>3, <2>5, <2>6, <2>7, <2>8
<1> HIDE DEF base
<1>4. s.left = {} => Melding!Active(s) = MeldingSeats
  BY MeldingActive
<1>5. paid \in [MeldingSeats -> Int]
  BY <1>2, <1>3
<1>6. \A p \in MeldingSeats : paid[p] >= 0
  BY <1>2, <1>3, <1>4
<1>7. s.left # {} => \A p \in MeldingSeats : paid[p] = 0
  OBVIOUS
<1> HIDE DEF paid
<1>8. winners \in SUBSET MeldingSeats
  BY MeldingActive
<1>9. end \in MeldingEnds
  BY <1>5, <1>8 DEF MeldingEnds
<1>10. end.paid = paid /\ end.winners = winners /\ end.reason = reason
  OBVIOUS
<1> HIDE DEF end
<1>11. /\ t \in MeldingStates /\ t.hand = s.hand /\ t.pool = s.pool /\ t.table = s.table
       /\ t.opened = s.opened /\ t.left = s.left /\ t.result = end
  BY <1>9 DEF MeldingStates
<1> HIDE DEF t
<1>12. Melding!Active(t) = Melding!Active(s) /\ \A p : Melding!Held(t, p) = Melding!Held(s, p)
  BY <1>11 DEF Melding!Active, Melding!Held
<1>13. MeldingEnded(t)
  BY <1>6, <1>7, <1>9, <1>10, <1>11, <1>12 DEF MeldingEnded
<1>. QED
  BY <1>1, <1>11, <1>13 DEF MeldingInv

\* The turn goes on to another seat, or stays with the only one.
MeldingTurns(s, p) == [s EXCEPT !.turn = p]

LEMMA MeldingPassed ==
  ASSUME GamesAssumption, NEW s \in MeldingStates, MeldingPlaced(s.hand, s.pool, s.table),
         MeldingUnopened(s.hand, s.opened), s.result = [over |-> FALSE],
         \A p \in MeldingSeats : s.hand[p] # {}, NEW p \in MeldingSeats,
         MeldingMany(s),
         LET n == Melding!NextSeat(SeatCount, p, Melding!Active(s))
         IN \/ s.blocked = {}
            \/ /\ s.pool = {} /\ n \notin s.blocked
               /\ \A q, r \in Melding!Active(s) \ {n} :
                    q \in s.blocked /\ Gap(SeatCount, n, q) < Gap(SeatCount, n, r) => r \in s.blocked
  PROVE  MeldingInv(Melding!Passed(s, p))
<1> DEFINE n == Melding!NextSeat(SeatCount, p, Melding!Active(s))
           t == MeldingTurns(s, n)
<1>1. n \in Melding!Active(s) /\ Melding!Active(s) \in SUBSET MeldingSeats
  <2>1. Melding!Active(s) \in SUBSET (0..(SeatCount - 1)) /\ SeatCount \in Nat \ {0}
    BY MeldingActive DEF MeldingSeats, GamesAssumption
  <2>2. Melding!Active(s) # {}
    BY DEF MeldingMany
  <2>. QED
    BY <2>1, <2>2, SeatIn, MeldingNames DEF MeldingSeats
<1>2. t = Melding!Passed(s, p)
  BY DEF Melding!Passed, MeldingTurns
<1> HIDE DEF n
<1>3. /\ t \in MeldingStates /\ t.hand = s.hand /\ t.pool = s.pool /\ t.table = s.table
      /\ t.opened = s.opened /\ t.left = s.left /\ t.result = s.result /\ t.turn = n
      /\ t.blocked = s.blocked
  BY <1>1 DEF MeldingStates, MeldingTurns
<1> HIDE DEF t
<1>4. Melding!Active(t) = Melding!Active(s)
  BY <1>3 DEF Melding!Active
<1>5. \/ s.blocked = {}
      \/ /\ s.pool = {} /\ n \notin s.blocked
         /\ \A q, r \in Melding!Active(s) \ {n} :
              q \in s.blocked /\ Gap(SeatCount, n, q) < Gap(SeatCount, n, r) => r \in s.blocked
  BY DEF n
<1>6. MeldingQueue(t)
  BY <1>3, <1>4, <1>5 DEF MeldingQueue
<1>7. MeldingOpen(t)
  BY <1>1, <1>3, <1>4, <1>6 DEF MeldingOpen, MeldingMany
<1>8. MeldingInv(t)
  BY <1>3, <1>7 DEF MeldingInv
<1>. QED
  BY <1>2, <1>8

MeldingSays(s, blocked) == [s EXCEPT !.blocked = blocked]

LEMMA MeldingPass ==
  ASSUME GamesAssumption, MeldingInv(g), MeldingOpen(g), NEW p \in MeldingSeats, Melding!Pass(p)
  PROVE  MeldingInv(g')
<1> DEFINE A == Melding!Active(g)
           blocked == g.blocked \cup {p}
           s == MeldingSays(g, blocked)
           n == Melding!NextSeat(SeatCount, p, A)
<1>1. /\ g \in MeldingStates /\ MeldingPlaced(g.hand, g.pool, g.table)
      /\ MeldingUnopened(g.hand, g.opened) /\ g.turn = p /\ p \in A /\ MeldingQueue(g)
      /\ g.result = [over |-> FALSE] /\ \A q \in MeldingSeats : g.hand[q] # {}
      /\ g.pool = {} /\ MeldingMany(g)
  BY DEF MeldingInv, MeldingOpen, Melding!Pass
<1>2. g' = IF Melding!Active(s) \subseteq s.blocked
           THEN Melding!Finish(s, "blocked", Melding!Lowest(s)) ELSE Melding!Passed(s, p)
  <2>1. s = [g EXCEPT !.blocked = @ \cup {p}]
    BY <1>1 DEF MeldingSays, MeldingStates
  <2>. QED
    BY <2>1 DEF Melding!Pass
<1>3. /\ s \in MeldingStates /\ s.hand = g.hand /\ s.pool = g.pool /\ s.table = g.table
      /\ s.opened = g.opened /\ s.left = g.left /\ s.result = g.result /\ s.blocked = blocked
  BY <1>1 DEF MeldingStates, MeldingSays
<1> HIDE DEF s
<1>4. Melding!Active(s) = A
  BY <1>3 DEF Melding!Active
<1>5. A \in SUBSET MeldingSeats /\ SeatCount \in Nat \ {0}
  BY MeldingActive DEF GamesAssumption
<1>6. CASE A \subseteq blocked
  <2> DEFINE w == Melding!Lowest(s)
  <2>1. w = {x \in A : \A q \in A : Melding!Held(s, x) <= Melding!Held(s, q)}
    BY <1>4 DEF Melding!Lowest
  <2>2. g' = Melding!Finish(s, "blocked", w)
    BY <1>2, <1>3, <1>4, <1>6
  <2>3. w # {}
    BY <1>1, <1>3, <1>4, <2>1, MeldingLeast
  <2>4. w \in SUBSET A /\ \A x \in w, q \in A : Melding!Held(s, x) <= Melding!Held(s, q)
    BY <2>1
  <2> HIDE DEF w, A
  <2>5. "blocked" \in MeldingReasons
    BY DEF MeldingReasons
  <2>. QED
    BY <1>1, <1>3, <1>4, <2>2, <2>3, <2>4, <2>5, MeldingFinish
<1>7. CASE ~(A \subseteq blocked)
  <2>1. g' = Melding!Passed(s, p)
    BY <1>2, <1>3, <1>4, <1>7
  <2>2. n \in A /\ \A q \in A : Gap(SeatCount, p, n) <= Gap(SeatCount, p, q)
    <3>1. n = T!NextSeat(SeatCount, p, A) /\ p \in 0..(SeatCount - 1)
      BY MeldingNames DEF MeldingSeats
    <3>2. \A q \in A : q \in A \cap (0..(SeatCount - 1))
      BY <1>5 DEF MeldingSeats
    <3> HIDE DEF A, n
    <3>3. ASSUME NEW q \in A
          PROVE  T!NextSeat(SeatCount, p, A) \in A
                 /\ Gap(SeatCount, p, T!NextSeat(SeatCount, p, A)) <= Gap(SeatCount, p, q)
      BY <1>5, <3>1, <3>2, SeatMet
    <3>. QED
      BY <1>1, <3>1, <3>3
  <2>3. \A q, r \in A \ {p} : q \in g.blocked /\ Gap(SeatCount, p, q) < Gap(SeatCount, p, r) => r \in g.blocked
    BY <1>1 DEF MeldingQueue
  <2>4. \A x \in A : x \in 0..(SeatCount - 1)
    BY <1>5 DEF MeldingSeats
  <2> HIDE DEF A, n
  <2>5. n # p /\ n \notin g.blocked
    <3>1. PICK u \in A : u # p /\ u \notin g.blocked
      BY <1>7
    <3>2. n # p
      <4>1. Gap(SeatCount, p, u) < Gap(SeatCount, p, p)
        BY <1>1, <1>5, <2>4, <3>1 DEF Gap
      <4>2. Gap(SeatCount, p, n) <= Gap(SeatCount, p, u)
        BY <2>2
      <4>3. Gap(SeatCount, p, u) \in Int /\ Gap(SeatCount, p, n) \in Int /\ Gap(SeatCount, p, p) \in Int
        BY <1>1, <1>5, <2>2, <2>4 DEF Gap
      <4>. QED
        BY <4>1, <4>2, <4>3
    <3>3. n \notin g.blocked
      <4>1. CASE u = n
        BY <3>1, <4>1
      <4>2. CASE u # n
        <5>1. Gap(SeatCount, p, n) < Gap(SeatCount, p, u)
          <6>1. Gap(SeatCount, p, n) <= Gap(SeatCount, p, u)
            BY <2>2
          <6>. QED
            BY <1>1, <1>5, <2>2, <2>4, <4>2, <6>1 DEF Gap
        <5>. QED
          BY <2>2, <2>3, <3>1, <3>2, <5>1
      <4>. QED
        BY <4>1, <4>2
    <3>. QED
      BY <3>2, <3>3
  <2>6. ASSUME NEW q \in A \ {n}, NEW r \in A \ {n}, q \in blocked,
               Gap(SeatCount, n, q) < Gap(SeatCount, n, r)
        PROVE  r \in blocked
    <3>1. CASE r = p
      BY <3>1
    <3>2. CASE r # p /\ q = p
      <4>1. Gap(SeatCount, p, n) <= Gap(SeatCount, p, r)
        BY <2>2
      <4>. QED
        BY <1>1, <1>5, <2>2, <2>4, <2>5, <2>6, <3>2, <4>1 DEF Gap
    <3>3. CASE r # p /\ q # p
      <4>1. Gap(SeatCount, p, n) <= Gap(SeatCount, p, r) /\ Gap(SeatCount, p, n) <= Gap(SeatCount, p, q)
        BY <2>2
      <4>2. Gap(SeatCount, p, q) < Gap(SeatCount, p, r)
        BY <1>1, <1>5, <2>2, <2>4, <2>5, <2>6, <3>3, <4>1 DEF Gap
      <4>. QED
        BY <2>3, <2>6, <3>3, <4>2
    <3>. QED
      BY <3>1, <3>2, <3>3
  <2>7. n \notin blocked
    BY <2>5
  <2>8. n = Melding!NextSeat(SeatCount, p, Melding!Active(s))
    BY <1>4 DEF n
  <2>9. MeldingMany(s) /\ s.pool = {} /\ n \notin s.blocked
        /\ \A q, r \in Melding!Active(s) \ {n} :
             q \in s.blocked /\ Gap(SeatCount, n, q) < Gap(SeatCount, n, r) => r \in s.blocked
    BY <1>1, <1>3, <1>4, <2>6, <2>7 DEF MeldingMany, A
  <2>10. MeldingPlaced(s.hand, s.pool, s.table) /\ MeldingUnopened(s.hand, s.opened)
         /\ s.result = [over |-> FALSE] /\ \A q \in MeldingSeats : s.hand[q] # {}
    BY <1>1, <1>3
  <2>. QED
    BY <1>3, <2>1, <2>8, <2>9, <2>10, MeldingPassed
<1>. QED
  BY <1>6, <1>7

MeldingDraws(s, hand, pool) == [s EXCEPT !.hand = hand, !.pool = pool, !.blocked = {}]

LEMMA MeldingDraw ==
  ASSUME GamesAssumption, MeldingInv(g), MeldingOpen(g), NEW p \in MeldingSeats,
         Melding!DrawTile(p)
  PROVE  MeldingInv(g')
<1>1. /\ g \in MeldingStates /\ MeldingPlaced(g.hand, g.pool, g.table)
      /\ MeldingUnopened(g.hand, g.opened) /\ p \in Melding!Active(g)
      /\ g.result = [over |-> FALSE] /\ (\A q \in MeldingSeats : g.hand[q] # {})
      /\ MeldingMany(g)
  BY DEF MeldingInv, MeldingOpen, Melding!DrawTile
<1>2. PICK t \in g.pool :
        g' = Melding!Passed([g EXCEPT !.hand[p] = @ \cup {t}, !.pool = @ \ {t}, !.blocked = {}], p)
  BY DEF Melding!DrawTile
<1> DEFINE more == g.hand[p] \cup {t}
           hand == [g.hand EXCEPT ![p] = more]
           pool == g.pool \ {t}
           s == MeldingDraws(g, hand, pool)
<1>3. /\ g.hand \in MeldingHands /\ g.pool \in SUBSET MeldingTiles /\ g.hand[p] \in SUBSET MeldingTiles
      /\ g.opened \in [MeldingSeats -> BOOLEAN]
  BY <1>1 DEF MeldingStates, MeldingHands
<1>4. s = [g EXCEPT !.hand[p] = @ \cup {t}, !.pool = @ \ {t}, !.blocked = {}]
  BY <1>1 DEF MeldingDraws, MeldingStates
<1>5. g' = Melding!Passed(s, p)
  BY <1>2, <1>4
<1>6. /\ hand \in MeldingHands /\ hand[p] = more
      /\ \A q \in MeldingSeats \ {p} : hand[q] = g.hand[q]
  BY <1>3 DEF MeldingHands
<1>7. pool \in SUBSET MeldingTiles /\ t \in g.pool /\ t \notin pool
  BY <1>3
<1>8. \A q \in MeldingSeats : q = p \/ q \in MeldingSeats \ {p}
  OBVIOUS
<1> HIDE DEF hand
<1>9. MeldingPlaced(hand, pool, g.table)
  <2>1. \A x, y \in MeldingSeats : x # y => hand[x] \cap hand[y] = {}
    BY <1>1, <1>6, <1>7, <1>8 DEF MeldingPlaced
  <2>2. \A x \in MeldingSeats : hand[x] \cap pool = {} /\ hand[x] \cap Melding!TilesOf(g.table) = {}
    BY <1>1, <1>6, <1>7, <1>8 DEF MeldingPlaced
  <2>3. \A x \in MeldingTiles : \/ x \in pool \/ x \in Melding!TilesOf(g.table)
                                \/ \E y \in MeldingSeats : x \in hand[y]
    <3>1. ASSUME NEW x \in MeldingTiles, NEW y \in MeldingSeats, x \in g.hand[y]
          PROVE  x \in hand[y]
      BY <1>6, <1>8, <3>1
    <3>2. t \in hand[p]
      BY <1>6
    <3>. QED
      BY <1>1, <3>1, <3>2 DEF MeldingPlaced
  <2>. QED
    BY <1>1, <2>1, <2>2, <2>3 DEF MeldingPlaced
<1>10. MeldingUnopened(hand, g.opened)
  <2>1. IsFiniteSet(g.hand[p])
    BY <1>3, MeldingHeld
  <2>2. Cardinality(more) >= Cardinality(g.hand[p])
        /\ Cardinality(more) \in Nat /\ Cardinality(g.hand[p]) \in Nat
    <3>1. IsFiniteSet(more) /\ g.hand[p] \in SUBSET more
      BY <2>1, FS_AddElement
    <3> HIDE DEF more
    <3>. QED
      BY <2>1, <3>1, FS_Subset, FS_CardinalityType
  <2>. QED
    BY <1>1, <1>6, <1>8, <2>2 DEF MeldingUnopened
<1> HIDE DEF pool
<1>11. /\ s \in MeldingStates /\ s.hand = hand /\ s.pool = pool /\ s.blocked = {}
       /\ s.table = g.table /\ s.opened = g.opened /\ s.left = g.left /\ s.result = g.result
  BY <1>1, <1>6, <1>7 DEF MeldingStates, MeldingDraws
<1> HIDE DEF s
<1>12. MeldingMany(s)
  BY <1>1, <1>11 DEF Melding!Active, MeldingMany
<1>13. \A q \in MeldingSeats : s.hand[q] # {}
  BY <1>1, <1>6, <1>8, <1>11
<1>14. MeldingPlaced(s.hand, s.pool, s.table) /\ MeldingUnopened(s.hand, s.opened)
       /\ s.result = [over |-> FALSE]
  BY <1>1, <1>9, <1>10, <1>11
<1>. QED
  BY <1>5, <1>11, <1>12, <1>13, <1>14, MeldingPassed

MeldingMelds(s, hand, table, opened) ==
  [s EXCEPT !.hand = hand, !.table = table, !.opened = opened, !.blocked = {}]

LEMMA MeldingMeld ==
  ASSUME GamesAssumption, MeldingInv(g), MeldingOpen(g), NEW p \in MeldingSeats, Melding!Meld(p)
  PROVE  MeldingInv(g')
<1>1. /\ g \in MeldingStates /\ MeldingPlaced(g.hand, g.pool, g.table)
      /\ MeldingUnopened(g.hand, g.opened) /\ p \in Melding!Active(g)
      /\ g.result = [over |-> FALSE] /\ (\A q \in MeldingSeats : g.hand[q] # {})
      /\ MeldingMany(g)
  BY DEF MeldingInv, MeldingOpen, Melding!Meld
<1>2. PICK table \in Melding!Legal(g, p) :
        LET s == [g EXCEPT !.hand[p] = @ \ Melding!TilesOf(table), !.table = table,
                           !.opened[p] = TRUE, !.blocked = {}]
        IN g' = IF s.hand[p] = {} THEN Melding!Finish(s, "empty_rack", {p}) ELSE Melding!Passed(s, p)
  BY DEF Melding!Meld
<1> DEFINE T1 == Melding!TilesOf(g.table)
           T2 == Melding!TilesOf(table)
           rest == g.hand[p] \ T2
           hand == [g.hand EXCEPT ![p] = rest]
           opened == [g.opened EXCEPT ![p] = TRUE]
           s == MeldingMelds(g, hand, table, opened)
<1>3. /\ g.hand \in MeldingHands /\ g.hand[p] \in SUBSET MeldingTiles
      /\ g.opened \in [MeldingSeats -> BOOLEAN] /\ g.pool \in SUBSET MeldingTiles
  BY <1>1 DEF MeldingStates, MeldingHands
<1>4. /\ table \in SUBSET RummikubMelds /\ \A m \in table : m.tiles \subseteq T1 \cup g.hand[p]
      /\ \A m, n \in table : m.tiles \cap n.tiles # {} => m = n
      /\ T1 \subseteq T2
  BY DEF Melding!Legal, Melding!Layouts
<1>5. T2 \subseteq T1 \cup g.hand[p]
  BY <1>4 DEF Melding!TilesOf
<1>6. s = [g EXCEPT !.hand[p] = @ \ Melding!TilesOf(table), !.table = table,
                    !.opened[p] = TRUE, !.blocked = {}]
  BY <1>1 DEF MeldingMelds, MeldingStates
<1>7. g' = IF s.hand[p] = {} THEN Melding!Finish(s, "empty_rack", {p}) ELSE Melding!Passed(s, p)
  <2> HIDE DEF s, T2, rest, hand, opened
  <2>. QED
    BY <1>2, <1>6
<1>8. /\ hand \in MeldingHands /\ hand[p] = rest
      /\ \A q \in MeldingSeats \ {p} : hand[q] = g.hand[q]
  BY <1>3 DEF MeldingHands
<1>9. /\ opened \in [MeldingSeats -> BOOLEAN] /\ opened[p]
      /\ \A q \in MeldingSeats \ {p} : opened[q] = g.opened[q]
  BY <1>3
<1>10. \A q \in MeldingSeats : q = p \/ q \in MeldingSeats \ {p}
  OBVIOUS
<1>11. rest \subseteq g.hand[p] /\ rest \cap T2 = {} /\ g.hand[p] \subseteq rest \cup T2
  OBVIOUS
<1> HIDE DEF hand, opened, rest
<1>12. MeldingPlaced(hand, g.pool, table)
  <2>1. /\ \A x, y \in MeldingSeats : x # y => g.hand[x] \cap g.hand[y] = {}
        /\ \A x \in MeldingSeats : g.hand[x] \cap g.pool = {} /\ g.hand[x] \cap T1 = {}
        /\ g.pool \cap T1 = {}
        /\ \A t \in MeldingTiles : t \in g.pool \/ t \in T1 \/ \E x \in MeldingSeats : t \in g.hand[x]
        /\ T1 \subseteq MeldingTiles
    BY <1>1 DEF MeldingPlaced
  <2> HIDE DEF T1, T2
  <2>2. \A x, y \in MeldingSeats : x # y => hand[x] \cap hand[y] = {}
    BY <1>8, <1>10, <1>11, <2>1
  <2>3. \A x \in MeldingSeats : hand[x] \cap g.pool = {}
    BY <1>8, <1>10, <1>11, <2>1
  <2>4. ASSUME NEW x \in MeldingSeats PROVE hand[x] \cap T2 = {}
    <3>1. CASE x = p
      BY <1>8, <1>11, <3>1
    <3>2. CASE x # p
      <4>1. hand[x] = g.hand[x] /\ g.hand[x] \cap g.hand[p] = {} /\ g.hand[x] \cap T1 = {}
        BY <1>8, <2>1, <3>2
      <4>. QED
        BY <1>5, <4>1
    <3>. QED
      BY <3>1, <3>2
  <2>5. g.pool \cap T2 = {} /\ T2 \subseteq MeldingTiles
    BY <1>3, <1>5, <2>1
  <2>6. ASSUME NEW t \in MeldingTiles
        PROVE  t \in g.pool \/ t \in T2 \/ \E x \in MeldingSeats : t \in hand[x]
    <3>1. CASE t \in g.pool \/ t \in T1
      BY <1>4, <3>1
    <3>2. CASE \E x \in MeldingSeats : t \in g.hand[x]
      <4>1. PICK x \in MeldingSeats : t \in g.hand[x]
        BY <3>2
      <4>2. x = p \/ hand[x] = g.hand[x]
        BY <1>8, <1>10
      <4>. QED
        BY <1>8, <1>11, <4>1, <4>2
    <3>. QED
      BY <2>1, <3>1, <3>2
  <2>. QED
    BY <1>4, <2>2, <2>3, <2>4, <2>5, <2>6 DEF MeldingPlaced, T2
<1>13. MeldingUnopened(hand, opened)
  BY <1>1, <1>8, <1>9, <1>10 DEF MeldingUnopened
<1>14. /\ s \in MeldingStates /\ s.hand = hand /\ s.pool = g.pool /\ s.blocked = {}
       /\ s.table = table /\ s.opened = opened /\ s.left = g.left /\ s.result = g.result
  BY <1>1, <1>4, <1>8, <1>9 DEF MeldingStates, MeldingMelds
<1> HIDE DEF s
<1>15. Melding!Active(s) = Melding!Active(g)
  BY <1>14 DEF Melding!Active
<1>16. MeldingPlaced(s.hand, s.pool, s.table) /\ MeldingUnopened(s.hand, s.opened)
       /\ s.result = [over |-> FALSE]
  BY <1>1, <1>12, <1>13, <1>14
<1>17. CASE s.hand[p] = {}
  <2>1. g' = Melding!Finish(s, "empty_rack", {p})
    BY <1>7, <1>17
  <2>2. Melding!Held(s, p) = 0 /\ \A q \in Melding!Active(s) : Melding!Held(s, q) \in Nat
    <3>1. \A q \in MeldingSeats : s.hand[q] \in SUBSET MeldingTiles
      BY <1>8, <1>14 DEF MeldingHands
    <3>. QED
      BY <1>17, <3>1, MeldingHeld, MeldingActive
  <2>3. /\ {p} \in SUBSET Melding!Active(s) /\ {p} # {} /\ Melding!Active(s) # {}
        /\ \A x \in {p}, q \in Melding!Active(s) : Melding!Held(s, x) <= Melding!Held(s, q)
    BY <1>1, <1>15, <2>2
  <2>4. "empty_rack" \in MeldingReasons
    BY DEF MeldingReasons
  <2>. QED
    BY <1>14, <1>16, <2>1, <2>3, <2>4, MeldingFinish
<1>18. CASE s.hand[p] # {}
  <2>1. g' = Melding!Passed(s, p)
    BY <1>7, <1>18
  <2>2. \A q \in MeldingSeats : s.hand[q] # {}
    BY <1>1, <1>8, <1>10, <1>14, <1>18
  <2>3. MeldingMany(s)
    BY <1>1, <1>15 DEF MeldingMany
  <2>. QED
    BY <1>14, <1>16, <2>1, <2>2, <2>3, MeldingPassed
<1>. QED
  BY <1>17, <1>18

MeldingLeaves(s, left) == [s EXCEPT !.left = left, !.blocked = {}]

LEMMA MeldingResign ==
  ASSUME GamesAssumption, MeldingInv(g), MeldingOpen(g), NEW p \in MeldingSeats, Melding!Resign(p)
  PROVE  MeldingInv(g')
<1> DEFINE left == g.left \cup {p}
           s == MeldingLeaves(g, left)
<1>1. /\ g \in MeldingStates /\ MeldingPlaced(g.hand, g.pool, g.table)
      /\ MeldingUnopened(g.hand, g.opened) /\ p \in Melding!Active(g) \cap Wallets
      /\ g.result = [over |-> FALSE] /\ (\A q \in MeldingSeats : g.hand[q] # {})
      /\ g.turn \in Melding!Active(g) /\ MeldingMany(g)
  BY DEF MeldingInv, MeldingOpen, Melding!Resign
<1>2. g' = IF Cardinality(Melding!Active(s)) = 1 THEN Melding!Finish(s, "resignation", Melding!Active(s))
           ELSE IF Melding!Active(s) \cap Wallets = {}
           THEN Melding!Finish(s, "only_system_npcs_remaining", {})
           ELSE IF g.turn = p THEN Melding!Passed(s, p) ELSE s
  <2>1. s = [g EXCEPT !.left = @ \cup {p}, !.blocked = {}]
    BY <1>1 DEF MeldingLeaves, MeldingStates
  <2> HIDE DEF s
  <2>. QED
    BY <2>1, MeldingNames, Zenon DEF Melding!Resign
<1>3. left \in SUBSET MeldingSeats
  BY <1>1 DEF MeldingStates
<1> HIDE DEF left
<1>4. /\ s \in MeldingStates /\ s.hand = g.hand /\ s.pool = g.pool /\ s.table = g.table
      /\ s.opened = g.opened /\ s.left = left /\ s.result = g.result /\ s.blocked = {}
      /\ s.turn = g.turn
  BY <1>1, <1>3 DEF MeldingStates, MeldingLeaves
<1> HIDE DEF s
<1>5. MeldingPlaced(s.hand, s.pool, s.table) /\ MeldingUnopened(s.hand, s.opened)
      /\ s.result = [over |-> FALSE] /\ \A q \in MeldingSeats : s.hand[q] # {}
  BY <1>1, <1>4
<1>6. Melding!Active(s) = Melding!Active(g) \ {p}
  <2>1. Melding!Active(s) = MeldingSeats \ left /\ Melding!Active(g) = MeldingSeats \ g.left
    BY <1>4, MeldingActive
  <2>. QED
    BY <2>1 DEF left
<1>7. IsFiniteSet(Melding!Active(s)) /\ IsFiniteSet(Melding!Active(g))
  BY MeldingActive
<1>8. "resignation" \in MeldingReasons /\ "only_system_npcs_remaining" \in MeldingReasons
  BY DEF MeldingReasons
<1>9. CASE Cardinality(Melding!Active(s)) = 1
  <2>1. Melding!Active(s) # {}
    BY <1>9, FS_EmptySet
  <2>2. g' = Melding!Finish(s, "resignation", Melding!Active(s))
    BY <1>2, <1>9
  <2>3. Melding!Active(s) \in SUBSET Melding!Active(s)
    OBVIOUS
  <2>. QED
    BY <1>4, <1>5, <1>8, <2>1, <2>2, <2>3, MeldingFinish
<1>11. Melding!Active(s) # {}
  BY <1>1, <1>6 DEF MeldingMany
<1>10. CASE Cardinality(Melding!Active(s)) # 1
  <2>4. MeldingMany(s)
    BY <1>7, <1>10, <1>11, OneOrTwo DEF MeldingMany
  <2>1. CASE Melding!Active(s) \cap Wallets = {}
    <3>1. g' = Melding!Finish(s, "only_system_npcs_remaining", {})
      BY <1>2, <1>10, <2>1
    <3>2. {} \in SUBSET Melding!Active(s)
      OBVIOUS
    <3>. QED
      BY <1>4, <1>5, <1>8, <1>11, <2>1, <3>1, <3>2, MeldingFinish
  <2>2. CASE Melding!Active(s) \cap Wallets # {} /\ g.turn = p
    <3>1. g' = Melding!Passed(s, p)
      BY <1>2, <1>10, <2>2
    <3>. QED
      BY <1>4, <1>5, <2>4, <3>1, MeldingPassed
  <2>3. CASE Melding!Active(s) \cap Wallets # {} /\ g.turn # p
    <3>1. g' = s
      BY <1>2, <1>10, <2>3
    <3>2. s.turn \in Melding!Active(s) /\ MeldingQueue(s)
      BY <1>1, <1>4, <1>6, <2>3 DEF MeldingQueue
    <3>3. MeldingOpen(s)
      BY <1>5, <2>4, <3>2 DEF MeldingOpen
    <3>. QED
      BY <1>4, <1>5, <3>1, <3>3 DEF MeldingInv
  <2>. QED
    BY <2>1, <2>2, <2>3
<1>. QED
  BY <1>9, <1>10

LEMMA MeldingInit ==
  ASSUME GamesAssumption, Melding!Init
  PROVE  MeldingInv(g)
<1>1. PICK hand \in Melding!Deals, first \in {1} :
        g = [hand |-> hand, pool |-> Melding!Tiles \ UNION Melding!Range(hand), table |-> {},
             opened |-> [p \in MeldingSeats |-> FALSE], blocked |-> {}, turn |-> first,
             left |-> {}, result |-> [over |-> FALSE]]
  BY DEF Melding!Init, Melding!Players, MeldingSeats, Melding!NoResult
<1> DEFINE pool == MeldingTiles \ UNION Melding!Range(hand)
           opened == [p \in MeldingSeats |-> FALSE]
<1>2. /\ hand \in MeldingHands
      /\ \A p \in MeldingSeats : Cardinality(hand[p]) = 2
      /\ \A p, q \in MeldingSeats : hand[p] \cap hand[q] # {} => p = q
  BY MeldingNames DEF Melding!Deals, Melding!kSubset, Melding!Players, MeldingSeats, MeldingHands,
     MeldingTiles
<1>3. \A t : t \in pool <=> t \in MeldingTiles /\ \A p \in MeldingSeats : t \notin hand[p]
  BY <1>2 DEF Melding!Range, MeldingHands
<1>4. opened \in [MeldingSeats -> BOOLEAN]
  OBVIOUS
<1>5. SeatCount \in Nat /\ SeatCount >= 2 /\ 0 \in MeldingSeats /\ 1 \in MeldingSeats
  BY DEF GamesAssumption, MeldingSeats
<1>6. first = 1
  OBVIOUS
<1>7. pool \in SUBSET MeldingTiles
  OBVIOUS
<1>8. g = [hand |-> hand, pool |-> pool, table |-> {}, opened |-> opened, blocked |-> {},
           turn |-> 1, left |-> {}, result |-> [over |-> FALSE]]
  BY <1>1, <1>6 DEF MeldingTiles
<1> HIDE DEF pool, opened
<1>9. /\ g \in MeldingStates /\ g.hand = hand /\ g.pool = pool /\ g.table = {}
      /\ g.opened = opened /\ g.blocked = {} /\ g.turn = 1 /\ g.left = {}
      /\ g.result = [over |-> FALSE]
  BY <1>2, <1>4, <1>5, <1>7, <1>8 DEF MeldingStates
<1>10. Melding!Active(g) = MeldingSeats
  BY <1>9, MeldingActive
<1>11. Melding!TilesOf({}) = {}
  BY DEF Melding!TilesOf
<1>12. MeldingPlaced(g.hand, g.pool, g.table)
  BY <1>2, <1>3, <1>9, <1>11 DEF MeldingPlaced
<1>13. MeldingUnopened(g.hand, g.opened)
  BY <1>2, <1>9 DEF MeldingUnopened
<1>14. \A p \in MeldingSeats : g.hand[p] # {}
  <2>1. Cardinality({}) = 0
    BY FS_EmptySet
  <2>. QED
    BY <1>2, <1>9, <2>1
<1>15. MeldingQueue(g) /\ MeldingMany(g)
  BY <1>5, <1>9, <1>10 DEF MeldingQueue, MeldingMany
<1>16. MeldingOpen(g)
  BY <1>5, <1>9, <1>10, <1>14, <1>15 DEF MeldingOpen
<1>. QED
  BY <1>9, <1>12, <1>13, <1>16 DEF MeldingInv

LEMMA MeldingPreserved ==
  ASSUME GamesAssumption, MeldingInv(g), Melding!Next
  PROVE  MeldingInv(g')
<1>1. PICK p \in MeldingSeats :
        Melding!Meld(p) \/ Melding!DrawTile(p) \/ Melding!Pass(p) \/ Melding!Resign(p)
  BY DEF Melding!Next, Melding!Players, MeldingSeats
<1>2. MeldingOpen(g)
  BY <1>1 DEF MeldingInv, MeldingEnded, MeldingEnds, Melding!Meld, Melding!DrawTile, Melding!Pass,
     Melding!Resign, Melding!Over
<1>. QED
  BY <1>1, <1>2, MeldingMeld, MeldingDraw, MeldingPass, MeldingResign

LEMMA MeldingHonours ==
  ASSUME GamesAssumption, MeldingInv(g)
  PROVE  Melding!AskedMayAct /\ Melding!Settled /\ Melding!TilesConserved
<1>1. /\ g \in MeldingStates /\ MeldingPlaced(g.hand, g.pool, g.table)
      /\ MeldingUnopened(g.hand, g.opened) /\ Melding!Players = MeldingSeats
      /\ g.hand \in MeldingHands /\ g.pool \in SUBSET MeldingTiles
  BY DEF MeldingInv, MeldingStates, Melding!Players, MeldingSeats
<1>2. Melding!AskedMayAct
  <2>1. ASSUME ~Melding!Over PROVE MeldingOpen(g)
    BY <2>1 DEF MeldingInv, MeldingEnded, MeldingEnds, Melding!Over
  <2>2. ASSUME MeldingOpen(g)
        PROVE  /\ g.turn \in Melding!Active(g) \ g.blocked
               /\ g.hand[g.turn] # {}
               /\ g.blocked # {} => g.pool = {}
    BY <2>2, MeldingActive DEF MeldingOpen, MeldingQueue
  <2>. QED
    BY <2>1, <2>2 DEF Melding!AskedMayAct
<1>3. Melding!Settled
  <2>1. ASSUME Melding!Over PROVE MeldingEnded(g)
    BY <2>1 DEF MeldingInv, MeldingOpen, Melding!Over
  <2>2. \A p \in MeldingSeats : ~g.opened[p] => Melding!Cardinality(g.hand[p]) >= 2
    BY <1>1, MeldingNames DEF MeldingUnopened
  <2>. QED
    BY <1>1, <2>1, <2>2 DEF Melding!Settled, MeldingEnded
<1>4. Melding!TilesConserved
  <2>1. \A p, q \in MeldingSeats : g.hand[p] \cap g.hand[q] # {} => p = q
    BY <1>1 DEF MeldingPlaced
  <2>2. (UNION Melding!Range(g.hand)) \cup g.pool \cup Melding!TilesOf(g.table) = MeldingTiles
    <3>1. \A t : t \in UNION Melding!Range(g.hand) <=> \E p \in MeldingSeats : t \in g.hand[p]
      BY <1>1 DEF Melding!Range, MeldingHands
    <3>2. \A p \in MeldingSeats : g.hand[p] \subseteq MeldingTiles
      BY <1>1 DEF MeldingHands
    <3>. QED
      BY <1>1, <3>1, <3>2 DEF MeldingPlaced
  <2>3. \A p \in MeldingSeats : g.hand[p] \cap (g.pool \cup Melding!TilesOf(g.table)) = {}
    BY <1>1 DEF MeldingPlaced
  <2>4. /\ g.pool \cap Melding!TilesOf(g.table) = {}
        /\ \A m, n \in g.table : m.tiles \cap n.tiles # {} => m = n
    BY <1>1 DEF MeldingPlaced
  <2>. QED
    BY <1>1, <2>1, <2>2, <2>3, <2>4 DEF Melding!TilesConserved, MeldingTiles
<1>. QED
  BY <1>2, <1>3, <1>4

-----------------------------------------------------------------------------
(* The party table of liar's dice. *)

LEMMA PartyNames ==
  /\ \A S : Party!Cardinality(S) = Cardinality(S)
  /\ \A f, S : Party!Total(f, S) = Total(f, S)
  /\ \A n, p, S : Party!NextSeat(n, p, S) = T!NextSeat(n, p, S)
<1>1. \A S : Party!Cardinality(S) = Cardinality(S)
  BY DEF Party!Cardinality, Cardinality
<1>2. \A f, S : Party!Total(f, S) = Total(f, S)
  BY DEF Party!Total, Party!MapThenSumSet, Party!MapThenFoldSet, Total, MapThenSumSet, MapThenFoldSet
<1>3. \A n, p, S : Party!NextSeat(n, p, S) = T!NextSeat(n, p, S)
  BY DEF Party!NextSeat, T!NextSeat
<1>. QED
  BY <1>1, <1>2, <1>3

PartySeats == 0..(Couple - 1)
PartyBids == [quantity : Nat, face : 1..Faces, exact : BOOLEAN, bidder : PartySeats]
PartyEnds == [over : {TRUE}, reason : {"session_ended", "participant_departed"},
              deltas : [PartySeats -> Int]]
PartyStates ==
  [options : AllVariants, dice : [PartySeats -> Party!Cups], rerolled : SUBSET PartySeats,
   bid : PartyBids \cup {Party!NoBid},
   phase : {"bidding", "awaiting_acknowledgement", "finished"}, turn : PartySeats,
   starter : {-1} \cup PartySeats, keep : BOOLEAN, window : BOOLEAN,
   half : [PartySeats -> Int], wins : [PartySeats -> Nat], losses : [PartySeats -> Nat],
   result : PartyEnds \cup {[over |-> FALSE]}]

\* The bid that stands is not that of the player asked, and opened the window.
PartyAsked(s) ==
  s.phase = "bidding" => /\ s.bid # Party!NoBid => s.bid.bidder # s.turn
                         /\ s.window => s.bid # Party!NoBid

\* A round makes one winner and one loser, and moves each within its bounds.
PartyLedger(wins, losses, half) ==
  /\ Total(wins, PartySeats) = Total(losses, PartySeats)
  /\ \A p \in PartySeats : /\ half[p] <= 2 * wins[p]
                           /\ half[p] >= -(8 * Total(losses, PartySeats))

PartyOpen(s) ==
  /\ s.result = [over |-> FALSE] /\ s.phase # "finished"
  /\ s.phase = "awaiting_acknowledgement" => s.starter \in PartySeats /\ ~s.window

PartyPaid(s, d) ==
  /\ Total(d, PartySeats) = 0
  /\ Total(s.losses, PartySeats) = 0 => d = Party!Zero
  /\ Total(s.losses, PartySeats) > 0 =>
       \A p \in PartySeats : IF \E q \in PartySeats : s.half[q] > s.half[p]
                             THEN d[p] = -Stake ELSE d[p] >= 0

PartyEnded(s) == s.result \in PartyEnds /\ s.phase = "finished" /\ PartyPaid(s, s.result.deltas)

PartyInv(s) ==
  /\ s \in PartyStates /\ PartyAsked(s) /\ PartyLedger(s.wins, s.losses, s.half)
  /\ PartyOpen(s) \/ PartyEnded(s)

LEMMA PartySeated ==
  ASSUME GamesAssumption
  PROVE  /\ IsFiniteSet(PartySeats) /\ 0 \in PartySeats /\ Party!Players = PartySeats
         /\ \A p \in PartySeats : p # -1 /\ p \in Nat
<1>1. IsFiniteSet(PartySeats)
  BY SeatsFinite DEF GamesAssumption, PartySeats
<1>. QED
  BY <1>1 DEF GamesAssumption, PartySeats, Party!Players

LEMMA PartyNext ==
  ASSUME GamesAssumption, NEW p \in PartySeats
  PROVE  Party!NextSeat(Couple, p, PartySeats) \in PartySeats \ {p}
<1>1. Couple \in Nat \ {0} /\ p \in 0..(Couple - 1)
  BY DEF GamesAssumption, PartySeats
<1> DEFINE q == IF p = 0 THEN 1 ELSE 0
<1>2. q \in PartySeats \cap (0..(Couple - 1)) /\ q # p
  BY DEF GamesAssumption, PartySeats
<1>3. T!NextSeat(Couple, p, PartySeats) \in PartySeats /\ T!NextSeat(Couple, p, PartySeats) # p
  BY <1>1, <1>2, SeatMet
<1>. QED
  BY <1>3, PartyNames

\* What one round moves.
LEMMA PartyDelta ==
  ASSUME GamesAssumption, NEW loser \in PartySeats, NEW winner \in PartySeats,
         NEW hits, Cardinality(hits) \in 0..3, NEW c, NEW surrender \in BOOLEAN,
         NEW p \in PartySeats
  PROVE  LET d == Party!RoundDeltas(loser, winner, hits, c, surrender)
         IN d[p] \in Int /\ d[p] >= -8 /\ d[p] <= IF p = winner THEN 2 ELSE 0
<1> DEFINE m == <<1, 2, 4, 8>>[Party!Cardinality(hits) + 1]
           raw == IF p = loser THEN m * (IF c = loser THEN 2 ELSE 1) ELSE IF p = c THEN m ELSE 0
           base == IF surrender THEN 1 ELSE 2
           reward == IF p = winner /\ ~surrender THEN 2 ELSE 0
<1>1. m \in Nat
  BY PartyNames
<1>2. Party!RoundDeltas(loser, winner, hits, c, surrender)[p]
        = reward - Party!AtMost(base * Party!AtMost(raw, 4), 8)
  BY PartySeated DEF Party!RoundDeltas
<1> HIDE DEF m
<1>3. raw \in Nat /\ base \in {1, 2} /\ reward \in {0, 2} /\ (reward = 2 => p = winner)
  BY <1>1
<1> HIDE DEF raw, base, reward
<1>4. Party!AtMost(raw, 4) \in 0..4
  BY <1>3 DEF Party!AtMost
<1>5. Party!AtMost(base * Party!AtMost(raw, 4), 8) \in 0..8
  BY <1>3, <1>4 DEF Party!AtMost
<1>. QED
  BY <1>2, <1>3, <1>5

LEMMA PartyHits ==
  ASSUME NEW s, NEW loser, NEW challenger
  PROVE  Cardinality(Party!Hits(s, loser, challenger)) \in 0..3
<1> DEFINE all == {"cup_loser", "under_half", "over_double"}
<1>1. Party!Hits(s, loser, challenger) \subseteq all
  BY DEF Party!Hits
<1>2. IsFiniteSet({"cup_loser"}) /\ Cardinality({"cup_loser"}) = 1
  BY FS_Singleton
<1>3. IsFiniteSet({"cup_loser", "under_half"}) /\ Cardinality({"cup_loser", "under_half"}) = 2
  <2>1. {"cup_loser", "under_half"} = {"cup_loser"} \cup {"under_half"}
    OBVIOUS
  <2>. QED
    BY <1>2, <2>1, FS_AddElement
<1>4. IsFiniteSet(all) /\ Cardinality(all) = 3
  <2>1. all = {"cup_loser", "under_half"} \cup {"over_double"}
    OBVIOUS
  <2>. QED
    BY <1>3, <2>1, FS_AddElement
<1> HIDE DEF all
<1>5. /\ Cardinality(Party!Hits(s, loser, challenger)) <= 3
      /\ IsFiniteSet(Party!Hits(s, loser, challenger))
  BY <1>1, <1>4, FS_Subset
<1>. QED
  BY <1>5, FS_CardinalityType

PartyCloses(s, half, losses, wins, starter, keep) ==
  [s EXCEPT !.half = half, !.losses = losses, !.wins = wins, !.bid = Party!NoBid,
            !.window = FALSE, !.starter = starter, !.keep = keep,
            !.phase = "awaiting_acknowledgement", !.turn = 0]

LEMMA PartyClosing ==
  ASSUME GamesAssumption, NEW s \in PartyStates, s.result = [over |-> FALSE],
         NEW half \in [PartySeats -> Int], NEW wins \in [PartySeats -> Nat],
         NEW losses \in [PartySeats -> Nat], PartyLedger(wins, losses, half),
         NEW starter \in PartySeats, NEW keep \in BOOLEAN
  PROVE  PartyInv(PartyCloses(s, half, losses, wins, starter, keep))
<1> DEFINE t == PartyCloses(s, half, losses, wins, starter, keep)
<1>1. /\ t \in PartyStates /\ t.phase = "awaiting_acknowledgement" /\ t.result = s.result
      /\ t.half = half /\ t.wins = wins /\ t.losses = losses /\ t.starter = starter
      /\ ~t.window
  BY PartySeated DEF PartyCloses, PartyStates
<1> HIDE DEF t
<1>2. PartyAsked(t) /\ PartyOpen(t)
  BY <1>1 DEF PartyAsked, PartyOpen
<1>3. PartyInv(t)
  BY <1>1, <1>2 DEF PartyInv
<1>. QED
  BY <1>3 DEF t

LEMMA PartyOneMore ==
  ASSUME NEW S, IsFiniteSet(S), NEW f, \A x \in S : f[x] \in Nat, NEW a \in S, NEW e,
         e[a] = f[a] + 1, \A x \in S \ {a} : e[x] = f[x]
  PROVE  Total(e, S) = Total(f, S) + 1 /\ Total(f, S) \in Int
<1>1. \A x \in S : f[x] \in Int
  OBVIOUS
<1>2. e[a] \in Int
  OBVIOUS
<1>3. Total(e, S) = Total(f, S) + e[a] - f[a]
  <2>1. a \in S /\ IsFiniteSet(S) /\ \A x \in S \ {a} : e[x] = f[x]
    OBVIOUS
  <2>. QED
    BY ONLY <1>1, <1>2, <2>1, TotalUpdate
<1>4. Total(f, S) \in Int
  BY <1>1, TotalType
<1>. QED
  BY <1>1, <1>3, <1>4

LEMMA PartyClose ==
  ASSUME GamesAssumption, NEW s \in PartyStates, s.result = [over |-> FALSE],
         PartyLedger(s.wins, s.losses, s.half),
         NEW loser \in PartySeats, NEW winner \in PartySeats,
         NEW hits, Cardinality(hits) \in 0..3, NEW surrender \in BOOLEAN,
         NEW t \in Party!CloseRound(s, loser, winner, hits, surrender)
  PROVE  PartyInv(t)
<1> DEFINE keep == surrender /\ s.options.keepDice
           losses == [s.losses EXCEPT ![loser] = @ + 1]
           wins == [s.wins EXCEPT ![winner] = @ + 1]
           total(f) == Total(f, PartySeats)
<1>1. PICK c \in Party!Companions(s, surrender) :
        t = [s EXCEPT !.half = [p \in Party!Players |->
                                  @[p] + Party!RoundDeltas(loser, winner, hits, c, surrender)[p]],
                      !.losses[loser] = @ + 1, !.wins[winner] = @ + 1,
                      !.bid = Party!NoBid, !.window = FALSE, !.starter = loser,
                      !.keep = keep, !.phase = "awaiting_acknowledgement", !.turn = Party!Host]
  BY DEF Party!CloseRound
<1> DEFINE d == Party!RoundDeltas(loser, winner, hits, c, surrender)
           half == [p \in PartySeats |-> s.half[p] + d[p]]
<1>2. t = PartyCloses(s, half, losses, wins, loser, keep)
  BY <1>1, PartySeated DEF PartyCloses, Party!Host
<1>3. /\ s.half \in [PartySeats -> Int] /\ s.wins \in [PartySeats -> Nat]
      /\ s.losses \in [PartySeats -> Nat] /\ s.options \in AllVariants
  BY DEF PartyStates
<1>4. keep \in BOOLEAN
  BY <1>3 DEF GamesAssumption, VariantsAssumption
<1>5. \A p \in PartySeats : d[p] \in Int /\ d[p] >= -8 /\ d[p] <= IF p = winner THEN 2 ELSE 0
  BY PartyDelta
<1> HIDE DEF d, keep
<1>6. half \in [PartySeats -> Int] /\ \A p \in PartySeats : half[p] = s.half[p] + d[p]
  BY <1>3, <1>5
<1>7. /\ losses \in [PartySeats -> Nat] /\ losses[loser] = s.losses[loser] + 1
      /\ \A p \in PartySeats \ {loser} : losses[p] = s.losses[p]
  BY <1>3
<1>8. /\ wins \in [PartySeats -> Nat] /\ wins[winner] = s.wins[winner] + 1
      /\ \A p \in PartySeats \ {winner} : wins[p] = s.wins[p]
  BY <1>3
<1> HIDE DEF half, losses, wins
<1>9. IsFiniteSet(PartySeats)
  BY PartySeated
<1>10. Total(losses, PartySeats) = Total(s.losses, PartySeats) + 1 /\ Total(s.losses, PartySeats) \in Int
  <2>1. \A x \in PartySeats : s.losses[x] \in Nat
    BY <1>3
  <2>. QED
    BY <1>7, <1>9, <2>1, PartyOneMore
<1>11. Total(wins, PartySeats) = Total(s.wins, PartySeats) + 1
  <2>1. \A x \in PartySeats : s.wins[x] \in Nat
    BY <1>3
  <2>. QED
    BY <1>8, <1>9, <2>1, PartyOneMore
<1>12. ASSUME NEW p \in PartySeats
       PROVE  half[p] <= 2 * wins[p] /\ half[p] >= -(8 * Total(losses, PartySeats))
  <2>1. s.half[p] \in Int /\ s.half[p] <= 2 * s.wins[p] /\ s.wins[p] \in Nat
        /\ s.half[p] >= -(8 * Total(s.losses, PartySeats))
    BY <1>3 DEF PartyLedger
  <2>2. wins[p] = IF p = winner THEN s.wins[p] + 1 ELSE s.wins[p]
    BY <1>8
  <2>3. d[p] \in Int /\ d[p] >= -8 /\ d[p] <= IF p = winner THEN 2 ELSE 0
    BY <1>5
  <2>4. half[p] = s.half[p] + d[p]
    BY <1>6
  <2>. QED
    BY <1>10, <2>1, <2>2, <2>3, <2>4
<1>13. PartyLedger(wins, losses, half)
  <2>1. Total(wins, PartySeats) = Total(losses, PartySeats)
    BY <1>10, <1>11 DEF PartyLedger
  <2>. QED
    BY <1>12, <2>1 DEF PartyLedger
<1>14. PartyInv(PartyCloses(s, half, losses, wins, loser, keep))
  BY <1>4, <1>6, <1>7, <1>8, <1>13, PartyClosing
<1>. QED
  BY <1>2, <1>14

-----------------------------------------------------------------------------
(* The payout of a session. *)

\* The winners' share, and one more for the first r of them.
PartyShares(s, q, r) ==
  [p \in s |-> q + (IF Cardinality({x \in s : x < p}) < r THEN 1 ELSE 0)]

LEMMA PartyShared ==
  ASSUME NEW W \in SUBSET Nat, IsFiniteSet(W), NEW q \in Int, NEW r \in Nat, r <= Cardinality(W)
  PROVE  Total(PartyShares(W, q, r), W) = Cardinality(W) * q + r
<1> DEFINE least(x, y) == IF x < y THEN x ELSE y
           D == {s \in SUBSET W : Total(PartyShares(s, q, r), s)
                                    = Cardinality(s) * q + least(r, Cardinality(s))}
<1>1. {} \in D
  BY TotalEmpty, FS_EmptySet
<1>2. ASSUME NEW s \in SUBSET W, s # {}, \A x \in s : s \ {x} \in D PROVE s \in D
  <2>1. IsFiniteSet(s) /\ s \in SUBSET Nat
    BY FS_Subset
  <2>2. PICK m \in s : \A y \in s : m >= y
    BY <1>2, <2>1, LargestNatural
  <2> DEFINE rest == s \ {m}
             e == PartyShares(s, q, r)
             f == PartyShares(rest, q, r)
  <2>3. /\ IsFiniteSet(rest) /\ Cardinality(s) \in Nat /\ Cardinality(rest) = Cardinality(s) - 1
        /\ Cardinality(rest) \in Nat
    BY <2>1, <2>2, FS_RemoveElement, FS_CardinalityType
  <2>4. Total(f, rest) = Cardinality(rest) * q + least(r, Cardinality(rest))
    BY <1>2, <2>2
  <2>5. \A p \in rest : {x \in s : x < p} = {x \in rest : x < p}
    BY <2>1, <2>2
  <2>6. {x \in s : x < m} = rest
    <3>1. \A x \in s : x \in Nat /\ m \in Nat /\ m >= x
      BY <2>1, <2>2
    <3>2. \A x \in s : x < m <=> x # m
      BY <3>1
    <3>. QED
      BY <3>2
  <2>7. e[m] = q + IF Cardinality(rest) < r THEN 1 ELSE 0
    BY <2>2, <2>6 DEF PartyShares
  <2>8. \A p \in rest : f[p] \in Int /\ e[p] = f[p]
    BY <2>5 DEF PartyShares
  <2>9. e[m] \in Int
    BY <2>7
  <2> HIDE DEF e, f
  <2>10. \A p \in s : e[p] \in Int
    BY <2>8, <2>9
  <2> HIDE DEF rest
  <2>11. Total(e, s) = e[m] + Total(e, rest)
    BY <2>1, <2>2, <2>10, TotalRemove DEF rest
  <2>12. Total(e, rest) = Total(f, rest)
    BY <2>3, <2>8, TotalSame
  <2>13. (Cardinality(rest) + 1) * q = Cardinality(rest) * q + q
    BY <2>3
  <2>14. Total(e, s) = Cardinality(s) * q + least(r, Cardinality(s))
    BY <2>3, <2>4, <2>7, <2>11, <2>12, <2>13
  <2>. QED
    BY <2>14 DEF e
<1> HIDE DEF D
<1>3. W \in D
  BY <1>1, <1>2, SubsetsInduction
<1>4. Cardinality(W) \in Nat
  BY FS_CardinalityType
<1>. QED
  BY <1>3, <1>4 DEF D

LEMMA PartyPlatform ==
  ASSUME GamesAssumption, NEW half \in [PartySeats -> Int], NEW d, d = Party!PlatformDeltas(half)
  PROVE  /\ d \in [PartySeats -> Int] /\ Total(d, PartySeats) = 0
         /\ \A p \in PartySeats : IF \E q \in PartySeats : half[q] > half[p]
                                  THEN d[p] = -Stake ELSE d[p] >= 0
<1> DEFINE W == Party!Best(half, PartySeats)
           L == PartySeats \ W
           pool == Stake * Cardinality(L)
           n == Cardinality(W)
           q == pool \div n
           r == pool % n
           extra(p) == Cardinality({x \in W : x < p}) < r
<1>1. \A p : p \in W <=> p \in PartySeats /\ \A x \in PartySeats : half[x] <= half[p]
  BY DEF Party!Best
<1>2. d = [p \in PartySeats |-> IF L = {} THEN 0 ELSE IF p \in L THEN -Stake
                                ELSE q + IF extra(p) THEN 1 ELSE 0]
  BY PartySeated, PartyNames DEF Party!PlatformDeltas
<1>3. /\ IsFiniteSet(PartySeats) /\ PartySeats # {} /\ PartySeats \in SUBSET Nat /\ Stake \in Nat
      /\ \A p \in PartySeats : half[p] \in Int
  BY PartySeated DEF GamesAssumption
<1>4. \E m \in PartySeats : \A x \in PartySeats : half[x] <= half[m]
  BY <1>3, Highest
<1> HIDE DEF W
<1>5. W \in SUBSET PartySeats /\ W # {} /\ W \in SUBSET Nat
  BY <1>1, <1>3, <1>4
<1>6. IsFiniteSet(W) /\ IsFiniteSet(L)
  BY <1>3, <1>5, FS_Subset
<1>7. n \in Nat \ {0} /\ Cardinality(L) \in Nat
  BY <1>5, <1>6, FS_CardinalityType, FS_EmptySet
<1>8. pool \in Nat
  BY <1>3, <1>7
<1> HIDE DEF pool, n
<1>9. q \in Nat /\ r \in Nat /\ r <= n /\ n * q + r = pool
  BY <1>7, <1>8
<1> HIDE DEF q, r
<1>10. ASSUME NEW p \in PartySeats
       PROVE  IF \E x \in PartySeats : half[x] > half[p] THEN p \in L ELSE p \in W
  <2>1. CASE \E x \in PartySeats : half[x] > half[p]
    <3>1. PICK x \in PartySeats : half[x] > half[p]
      BY <2>1
    <3>2. ~(half[x] <= half[p])
      BY <1>3, <3>1
    <3>. QED
      BY <1>1, <2>1, <3>2
  <2>2. CASE ~\E x \in PartySeats : half[x] > half[p]
    <3>1. \A x \in PartySeats : half[x] <= half[p]
      BY <1>3, <2>2
    <3>. QED
      BY <1>1, <2>2, <3>1
  <2>. QED
    BY <2>1, <2>2
<1>11. d \in [PartySeats -> Int]
       /\ \A p \in PartySeats : IF \E x \in PartySeats : half[x] > half[p]
                                  THEN d[p] = -Stake ELSE d[p] >= 0
  <2>1. \A p \in PartySeats : d[p] \in Int /\ (p \in L => d[p] = -Stake) /\ (p \in W => d[p] >= 0)
    BY <1>2, <1>3, <1>9
  <2>2. d \in [PartySeats -> Int]
    BY <1>2, <2>1
  <2>. QED
    BY <1>10, <2>1, <2>2
<1>12. CASE L = {}
  <2>1. \A p \in PartySeats : d[p] = 0
    BY <1>2, <1>12
  <2>2. Total(d, PartySeats) = 0
    BY <1>3, <2>1, TotalZero
  <2>. QED
    BY <1>11, <2>2
<1>13. CASE L # {}
  <2>1. L \in SUBSET PartySeats /\ PartySeats \ L = W
    BY <1>5
  <2>2. \A p \in L : d[p] = -Stake
    BY <1>2, <1>13, <2>1
  <2>3. \A p \in PartySeats \ L : d[p] \in Int
    BY <1>11
  <2>4. -Stake \in Int
    BY <1>3
  <2> HIDE DEF L
  <2>5. Total(d, PartySeats) = Cardinality(L) * (-Stake) + Total(d, PartySeats \ L)
    <3>1. IsFiniteSet(PartySeats)
      BY <1>3
    <3>. QED
      BY ONLY <2>1, <2>2, <2>3, <2>4, <3>1, TotalLevels
  <2> DEFINE e == PartyShares(W, q, r)
  <2>6. \A p \in W : e[p] \in Int /\ d[p] = e[p]
    <3>1. \A p \in W : p \in PartySeats /\ p \notin L
      BY <2>1
    <3>2. \A p \in W : e[p] = q + IF extra(p) THEN 1 ELSE 0
      BY DEF PartyShares
    <3>3. \A p \in W : d[p] = q + IF extra(p) THEN 1 ELSE 0
      BY <1>2, <1>13, <3>1
    <3> HIDE DEF e, extra
    <3>. QED
      BY <1>9, <3>2, <3>3
  <2>7. Total(e, W) = n * q + r
    BY <1>5, <1>6, <1>9, PartyShared DEF n
  <2> HIDE DEF e
  <2>8. Total(d, W) = Total(e, W)
    BY <1>6, <2>6, TotalSame
  <2>9. Total(d, PartySeats) = Cardinality(L) * (-Stake) + pool
    BY <1>9, <2>1, <2>5, <2>7, <2>8
  <2>10. Total(d, PartySeats) = 0
    BY <1>3, <1>7, <2>9 DEF pool
  <2>. QED
    BY <1>11, <2>10
<1>. QED
  BY <1>12, <1>13

LEMMA PartyFinish ==
  ASSUME GamesAssumption, PartyInv(g),
         NEW reason \in {"session_ended", "participant_departed"}, g' = Party!Finish(g, reason)
  PROVE  PartyInv(g')
<1> DEFINE d == IF Party!Rounds(g) = 0 THEN Party!Zero ELSE Party!PlatformDeltas(g.half)
           res == [over |-> TRUE, reason |-> reason, deltas |-> d]
<1>1. g \in PartyStates /\ PartyLedger(g.wins, g.losses, g.half)
  BY DEF PartyInv
<1>2. g.half \in [PartySeats -> Int] /\ Party!Rounds(g) = Total(g.losses, PartySeats)
  BY <1>1, PartyNames, PartySeated DEF PartyStates, Party!Rounds
<1>3. PartyPaid(g, d) /\ d \in [PartySeats -> Int]
  <2>1. CASE Party!Rounds(g) = 0
    <3>1. d = [p \in PartySeats |-> 0]
      BY <2>1, PartySeated DEF Party!Zero
    <3>2. \A p \in PartySeats : d[p] = 0
      BY <3>1
    <3> HIDE DEF d
    <3>3. Total(d, PartySeats) = 0
      BY <3>2, PartySeated, TotalZero
    <3>4. d = Party!Zero /\ ~(0 > 0)
      BY <2>1 DEF d
    <3>. QED
      BY <1>2, <2>1, <3>1, <3>3, <3>4 DEF PartyPaid
  <2>2. CASE Party!Rounds(g) # 0
    <3>1. d = Party!PlatformDeltas(g.half)
      BY <2>2
    <3> HIDE DEF d
    <3>2. /\ d \in [PartySeats -> Int] /\ Total(d, PartySeats) = 0
          /\ \A p \in PartySeats : IF \E q \in PartySeats : g.half[q] > g.half[p]
                                   THEN d[p] = -Stake ELSE d[p] >= 0
      BY <1>2, <3>1, PartyPlatform
    <3>. QED
      BY <1>2, <2>2, <3>2 DEF PartyPaid
  <2>. QED
    BY <2>1, <2>2
<1>4. g' = [g EXCEPT !.phase = "finished", !.bid = Party!NoBid, !.window = FALSE,
                     !.starter = -1, !.result = res]
  BY DEF Party!Finish
<1> HIDE DEF d
<1>5. res \in PartyEnds /\ res.deltas = d
  BY <1>3 DEF PartyEnds
<1> HIDE DEF res
<1>6. /\ g' \in PartyStates /\ g'.phase = "finished" /\ g'.result = res
      /\ g'.wins = g.wins /\ g'.losses = g.losses /\ g'.half = g.half
  BY <1>1, <1>4, <1>5 DEF PartyStates
<1>7. PartyPaid(g', d)
  BY <1>3, <1>6 DEF PartyPaid
<1>. QED
  BY <1>1, <1>5, <1>6, <1>7 DEF PartyInv, PartyEnded, PartyAsked

-----------------------------------------------------------------------------
LEMMA PartyInit ==
  ASSUME GamesAssumption, Party!Init
  PROVE  PartyInv(g)
<1>1. PICK options \in AllVariants, dice \in [PartySeats -> Party!Cups] :
        g = [options |-> options, dice |-> dice, rerolled |-> {}, bid |-> Party!NoBid,
             phase |-> "bidding", turn |-> 0, starter |-> -1, keep |-> FALSE,
             window |-> FALSE, half |-> Party!Zero, wins |-> Party!Zero,
             losses |-> Party!Zero, result |-> [over |-> FALSE]]
  BY PartySeated DEF Party!Init, Party!NoResult
<1> DEFINE zero == [p \in PartySeats |-> 0]
<1>2. Party!Zero = zero
  BY PartySeated DEF Party!Zero
<1>3. zero \in [PartySeats -> Nat] /\ zero \in [PartySeats -> Int] /\ \A p \in PartySeats : zero[p] = 0
  OBVIOUS
<1> HIDE DEF zero
<1>4. Total(zero, PartySeats) = 0
  BY <1>3, PartySeated, TotalZero
<1>5. PartyLedger(zero, zero, zero)
  BY <1>3, <1>4 DEF PartyLedger
<1>6. /\ g \in PartyStates /\ g.bid = Party!NoBid /\ g.phase = "bidding" /\ ~g.window
      /\ g.wins = zero /\ g.losses = zero /\ g.half = zero /\ g.result = [over |-> FALSE]
  BY <1>1, <1>2, <1>3, PartySeated DEF PartyStates
<1>. QED
  BY <1>5, <1>6 DEF PartyInv, PartyAsked, PartyOpen

LEMMA PartyBid ==
  ASSUME GamesAssumption, PartyInv(g), PartyOpen(g), NEW p \in PartySeats, Party!Bid(p)
  PROVE  PartyInv(g')
<1>1. g \in PartyStates /\ PartyLedger(g.wins, g.losses, g.half)
  BY DEF PartyInv
<1>2. PICK quantity \in 1..Party!TotalDice(g), face \in 1..Faces, exact \in BOOLEAN :
        /\ g.phase = "bidding"
        /\ g' = [g EXCEPT !.bid = [quantity |-> quantity, face |-> face, bidder |-> p,
                                   exact |-> Party!IsExact(g, face, exact)],
                          !.window = g.options.rush,
                          !.turn = Party!NextSeat(Couple, p, PartySeats)]
  BY PartySeated DEF Party!Bid, Party!Bidding
<1> DEFINE bid == [quantity |-> quantity, face |-> face, bidder |-> p,
                   exact |-> Party!IsExact(g, face, exact)]
           next == Party!NextSeat(Couple, p, PartySeats)
<1>3. next \in PartySeats /\ next # p
  BY PartyNext
<1>4. Party!IsExact(g, face, exact) \in BOOLEAN
  BY DEF Party!IsExact
<1>5. quantity \in Nat
  <2>1. CupSize \in Nat /\ Couple \in Nat
    BY DEF GamesAssumption
  <2>2. Party!TotalDice(g) \in Int
    BY <2>1 DEF Party!TotalDice
  <2>. QED
    BY <2>2
<1>6. bid \in PartyBids /\ bid.bidder = p
  BY <1>4, <1>5 DEF PartyBids
<1>7. bid # Party!NoBid
  BY <1>6, PartySeated DEF Party!NoBid
<1>8. g.options.rush \in BOOLEAN
  BY <1>1 DEF PartyStates, GamesAssumption, VariantsAssumption
<1>9. g' = [g EXCEPT !.bid = bid, !.window = g.options.rush, !.turn = next]
  BY <1>2
<1> HIDE DEF bid, next
<1>10. /\ g' \in PartyStates /\ g'.bid = bid /\ g'.turn = next /\ g'.phase = "bidding"
       /\ g'.wins = g.wins /\ g'.losses = g.losses /\ g'.half = g.half
       /\ g'.result = g.result
  BY <1>1, <1>2, <1>3, <1>6, <1>8, <1>9 DEF PartyStates
<1>11. PartyAsked(g') /\ PartyOpen(g')
  BY <1>3, <1>6, <1>7, <1>10 DEF PartyAsked, PartyOpen
<1>. QED
  BY <1>1, <1>10, <1>11 DEF PartyInv

LEMMA PartyReveal ==
  ASSUME GamesAssumption, PartyInv(g), PartyOpen(g), NEW p \in PartySeats, Party!Reveal(p)
  PROVE  PartyInv(g')
<1> DEFINE holds == Party!CountBid(g) >= g.bid.quantity
           dark == g.options.dark /\ \A q \in Party!Players : g.dice[q][g.bid.face] = 0
           loser == IF holds # dark THEN p ELSE g.bid.bidder
           winner == IF loser = p THEN g.bid.bidder ELSE p
           hits == Party!Hits(g, loser, p)
<1>1. g \in PartyStates /\ PartyLedger(g.wins, g.losses, g.half)
  BY DEF PartyInv
<1>2. g.bid # Party!NoBid /\ g' \in Party!CloseRound(g, loser, winner, hits, FALSE)
  BY DEF Party!Reveal
<1>3. g.bid.bidder \in PartySeats
  BY <1>1, <1>2 DEF PartyStates, PartyBids
<1> HIDE DEF holds, dark
<1>4. loser \in PartySeats /\ winner \in PartySeats
  BY <1>3
<1> HIDE DEF loser, winner
<1>5. Cardinality(hits) \in 0..3
  BY PartyHits
<1> HIDE DEF hits
<1>6. g.result = [over |-> FALSE]
  BY DEF PartyOpen
<1>. QED
  BY <1>1, <1>2, <1>4, <1>5, <1>6, PartyClose

LEMMA PartySurrender ==
  ASSUME GamesAssumption, PartyInv(g), PartyOpen(g), NEW p \in PartySeats, Party!Surrender(p)
  PROVE  PartyInv(g')
<1>1. g \in PartyStates /\ PartyLedger(g.wins, g.losses, g.half) /\ g.result = [over |-> FALSE]
  BY DEF PartyInv, PartyOpen
<1>2. g.bid # Party!NoBid /\ g' \in Party!CloseRound(g, p, g.bid.bidder, {}, TRUE)
  BY DEF Party!Surrender
<1>3. g.bid.bidder \in PartySeats
  BY <1>1, <1>2 DEF PartyStates, PartyBids
<1>4. Cardinality({}) \in 0..3
  BY FS_EmptySet
<1>. QED
  BY <1>1, <1>2, <1>3, <1>4, PartyClose

LEMMA PartyPreserved ==
  ASSUME GamesAssumption, PartyInv(g), Party!Next
  PROVE  PartyInv(g')
<1>1. g \in PartyStates /\ PartyLedger(g.wins, g.losses, g.half) /\ PartyAsked(g)
      /\ (PartyOpen(g) \/ PartyEnded(g))
  BY DEF PartyInv
<1>2. CASE Party!Acknowledge
  <2>1. g.phase = "awaiting_acknowledgement"
    BY <1>2 DEF Party!Acknowledge
  <2>2. PICK dice \in IF g.keep THEN {g.dice} ELSE [PartySeats -> Party!Cups] :
          g' = [g EXCEPT !.dice = dice, !.rerolled = {}, !.bid = Party!NoBid, !.keep = FALSE,
                         !.phase = "bidding", !.turn = g.starter, !.starter = -1]
    BY <1>2, PartySeated DEF Party!Acknowledge
  <2>3. PartyOpen(g) /\ g.starter \in PartySeats /\ ~g.window
    BY <1>1, <2>1 DEF PartyOpen, PartyEnded
  <2>4. dice \in [PartySeats -> Party!Cups]
    BY <1>1, <2>2 DEF PartyStates
  <2>5. /\ g' \in PartyStates /\ g'.phase = "bidding" /\ g'.bid = Party!NoBid
        /\ g'.window = g.window /\ g'.result = g.result
        /\ g'.wins = g.wins /\ g'.losses = g.losses /\ g'.half = g.half
    BY <1>1, <2>2, <2>3, <2>4 DEF PartyStates
  <2>. QED
    BY <1>1, <2>3, <2>5 DEF PartyInv, PartyAsked, PartyOpen
<1>3. CASE Party!WindowExpires
  <2>1. g' = [g EXCEPT !.window = FALSE]
    BY <1>3 DEF Party!WindowExpires
  <2>2. /\ g' \in PartyStates /\ g'.phase = g.phase /\ g'.bid = g.bid /\ g'.turn = g.turn
        /\ ~g'.window /\ g'.result = g.result /\ g'.starter = g.starter
        /\ g'.wins = g.wins /\ g'.losses = g.losses /\ g'.half = g.half
    BY <1>1, <2>1 DEF PartyStates
  <2>3. PartyAsked(g')
    BY <1>1, <2>2 DEF PartyAsked
  <2>4. PartyOpen(g') \/ PartyEnded(g')
    BY <1>1, <2>2 DEF PartyOpen, PartyEnded, PartyPaid
  <2>. QED
    BY <1>1, <2>2, <2>3, <2>4 DEF PartyInv
<1>4. ASSUME NEW p \in PartySeats, Party!Bid(p) \/ Party!Challenge(p) \/ Party!RushOpen(p)
                                     \/ Party!Surrender(p)
      PROVE  PartyInv(g')
  <2>1. g.phase = "bidding"
    BY <1>4 DEF Party!Bid, Party!Challenge, Party!RushOpen, Party!Surrender, Party!Bidding
  <2>2. PartyOpen(g)
    BY <1>1, <2>1 DEF PartyEnded
  <2>3. CASE Party!Bid(p)
    BY <2>2, <2>3, PartyBid
  <2>4. CASE Party!Challenge(p) \/ Party!RushOpen(p)
    <3>1. Party!Reveal(p)
      BY <2>4 DEF Party!Challenge, Party!RushOpen
    <3>. QED
      BY <2>2, <3>1, PartyReveal
  <2>5. CASE Party!Surrender(p)
    BY <2>2, <2>5, PartySurrender
  <2>. QED
    BY <1>4, <2>3, <2>4, <2>5
<1>5. ASSUME NEW p \in PartySeats, Party!Reroll(p)
      PROVE  PartyInv(g')
  <2>1. g.phase = "bidding" /\ g.bid = Party!NoBid
    BY <1>5 DEF Party!Reroll, Party!Bidding
  <2>2. PICK cup \in Party!Cups : g' = [g EXCEPT !.dice[p] = cup, !.rerolled = @ \cup {p}]
    BY <1>5 DEF Party!Reroll
  <2> DEFINE dice == [g.dice EXCEPT ![p] = cup]
             rerolled == g.rerolled \cup {p}
  <2>3. dice \in [PartySeats -> Party!Cups] /\ rerolled \in SUBSET PartySeats
    BY <1>1 DEF PartyStates
  <2>4. g' = [g EXCEPT !.dice = dice, !.rerolled = rerolled]
    BY <2>2
  <2> HIDE DEF dice, rerolled
  <2>5. /\ g' \in PartyStates /\ g'.phase = g.phase /\ g'.bid = g.bid /\ g'.turn = g.turn
        /\ g'.window = g.window /\ g'.result = g.result /\ g'.starter = g.starter
        /\ g'.wins = g.wins /\ g'.losses = g.losses /\ g'.half = g.half
    BY <1>1, <2>3, <2>4 DEF PartyStates
  <2>6. PartyOpen(g') \/ PartyEnded(g')
    BY <1>1, <2>5 DEF PartyOpen, PartyEnded, PartyPaid
  <2>. QED
    BY <1>1, <2>5, <2>6 DEF PartyInv, PartyAsked
<1>6. ASSUME NEW p \in PartySeats, Party!EndSession(p) \/ Party!Resign(p)
      PROVE  PartyInv(g')
  BY <1>6, PartyFinish DEF Party!EndSession, Party!Resign
<1>. QED
  BY <1>2, <1>3, <1>4, <1>5, <1>6, PartySeated DEF Party!Next

LEMMA PartyHonours ==
  ASSUME GamesAssumption, PartyInv(g)
  PROVE  Party!AskedMayAct /\ Party!Settled /\ Party!LedgerBounded
<1>1. Party!AskedMayAct
  BY DEF PartyInv, PartyAsked, Party!AskedMayAct
<1>2. Party!Rounds(g) = Total(g.losses, PartySeats)
  BY PartyNames, PartySeated DEF Party!Rounds
<1>3. Party!LedgerBounded
  BY <1>2, PartyNames, PartySeated DEF PartyInv, PartyLedger, Party!LedgerBounded
<1>4. Party!Settled
  <2>1. SUFFICES ASSUME Party!Over PROVE Party!Settled
    BY DEF Party!Settled
  <2>2. PartyPaid(g, g.result.deltas)
    BY <2>1 DEF PartyInv, PartyOpen, PartyEnded, Party!Over
  <2>. QED
    BY <1>2, <2>2, PartyNames, PartySeated DEF PartyPaid, Party!Settled
<1>. QED
  BY <1>1, <1>3, <1>4

-----------------------------------------------------------------------------
(* Train cards. *)

LEMMA TrainNames ==
  /\ \A S : Train!Cardinality(S) = Cardinality(S)
  /\ \A f, S : Train!Total(f, S) = Total(f, S)
  /\ \A n, p, S : Train!NextSeat(n, p, S) = T!NextSeat(n, p, S)
<1>1. \A S : Train!Cardinality(S) = Cardinality(S)
  BY DEF Train!Cardinality, Cardinality
<1>2. \A f, S : Train!Total(f, S) = Total(f, S)
  BY DEF Train!Total, Train!MapThenSumSet, Train!MapThenFoldSet, Total, MapThenSumSet, MapThenFoldSet
<1>3. \A n, p, S : Train!NextSeat(n, p, S) = T!NextSeat(n, p, S)
  BY DEF Train!NextSeat, T!NextSeat
<1>. QED
  BY <1>1, <1>2, <1>3

TrainSeats == 0..(SeatCount - 1)
TrainTurns == {-1} \cup TrainSeats
TrainPiles == [TrainSeats -> Seq(Train!Cards)]
TrainEnds == [over : {TRUE}, winner : TrainTurns,
              reason : {"last_player_with_cards", "repeated_position", "action_limit"},
              deltas : [TrainSeats -> Int]]
TrainStates ==
  [hands : TrainPiles, table : Seq(Train!Cards), active : SUBSET TrainSeats,
   turn : TrainTurns, actions : Nat,
   seen : SUBSET (TrainTurns \X (SUBSET TrainSeats) \X Seq(Train!Cards) \X TrainPiles),
   result : TrainEnds \cup {[over |-> FALSE]}]

\* Every card is in one place: p's pile, or the train for p = -1.
TrainPile(hands, table, p) == IF p = -1 THEN table ELSE hands[p]
TrainHeld(hands, table, x) ==
  x \in TrainTurns \X Nat /\ x[2] >= 1 /\ x[2] <= Len(TrainPile(hands, table, x[1]))
TrainCard(hands, table, x) == TrainPile(hands, table, x[1])[x[2]]
TrainCounted(hands, table) ==
  \A c \in Train!Cards : \E x : /\ TrainHeld(hands, table, x) /\ TrainCard(hands, table, x) = c
                                /\ \A y : TrainHeld(hands, table, y) /\ TrainCard(hands, table, y) = c
                                            => y = x

TrainNoPair(table) ==
  \A i, j \in 1..Len(table) : i # j => TrainDeck[table[i]] # TrainDeck[table[j]]

\* Who is in the game has a card to turn.
TrainOpen(s) ==
  /\ s.result = [over |-> FALSE] /\ s.turn \in s.active
  /\ \E p, q \in s.active : p # q
  /\ \A p \in s.active : s.hands[p] # <<>>

TrainEnded(s) ==
  /\ s.result \in TrainEnds /\ Total(s.result.deltas, TrainSeats) = 0
  /\ IF s.result.winner = -1 THEN \E p, q \in s.active : p # q
     ELSE s.active = {s.result.winner}

TrainInv(s) ==
  /\ s \in TrainStates /\ TrainCounted(s.hands, s.table) /\ TrainNoPair(s.table)
  /\ TrainOpen(s) \/ TrainEnded(s)

LEMMA TrainSeated ==
  ASSUME GamesAssumption
  PROVE  /\ IsFiniteSet(TrainSeats) /\ 0 \in TrainSeats /\ Train!Players = TrainSeats
         /\ \A p \in TrainSeats : p # -1
         /\ Train!Cards = 1..Len(TrainDeck) /\ Len(TrainDeck) \in Nat
<1>1. IsFiniteSet(TrainSeats)
  BY SeatsFinite DEF GamesAssumption, TrainSeats
<1>2. Train!Cards = 1..Len(TrainDeck) /\ Len(TrainDeck) \in Nat
  <2>1. TrainDeck \in Seq(Nat)
    BY DEF GamesAssumption, DeckAssumption
  <2>. QED
    BY <2>1 DEF Train!Cards
<1>. QED
  BY <1>1, <1>2 DEF GamesAssumption, TrainSeats, Train!Players

LEMMA TrainNext ==
  ASSUME GamesAssumption, NEW p \in TrainSeats, NEW s, s.active \in SUBSET TrainSeats, s.active # {}
  PROVE  Train!After(s, p) \in s.active
<1>1. SeatCount \in Nat \ {0} /\ p \in 0..(SeatCount - 1) /\ s.active \in SUBSET (0..(SeatCount - 1))
  BY DEF GamesAssumption, TrainSeats
<1>2. T!NextSeat(SeatCount, p, s.active) \in s.active
  BY <1>1, SeatIn
<1>. QED
  BY <1>2, TrainNames DEF Train!After

\* Cards that are moved along a bijection of places are still in one place each.
LEMMA TrainMoved ==
  ASSUME NEW hands, NEW table, NEW later, NEW train, TrainCounted(hands, table),
         NEW from, NEW to,
         \A x : TrainHeld(later, train, x) =>
                  /\ TrainHeld(hands, table, from[x]) /\ to[from[x]] = x
                  /\ TrainCard(hands, table, from[x]) = TrainCard(later, train, x),
         \A y : TrainHeld(hands, table, y) =>
                  TrainHeld(later, train, to[y]) /\ from[to[y]] = y
  PROVE  TrainCounted(later, train)
<1>. SUFFICES ASSUME NEW c \in Train!Cards
              PROVE  \E x : /\ TrainHeld(later, train, x) /\ TrainCard(later, train, x) = c
                            /\ \A y : TrainHeld(later, train, y) /\ TrainCard(later, train, y) = c
                                        => y = x
  BY DEF TrainCounted
<1>1. PICK z : /\ TrainHeld(hands, table, z) /\ TrainCard(hands, table, z) = c
               /\ \A y : TrainHeld(hands, table, y) /\ TrainCard(hands, table, y) = c => y = z
  BY DEF TrainCounted
<1> DEFINE x == to[z]
<1>2. TrainHeld(later, train, x) /\ from[x] = z
  BY <1>1
<1>3. TrainCard(later, train, x) = c
  BY <1>1, <1>2
<1>4. ASSUME NEW y, TrainHeld(later, train, y), TrainCard(later, train, y) = c PROVE y = x
  <2>1. from[y] = z
    BY <1>1, <1>4
  <2>. QED
    BY <1>4, <2>1
<1>. QED
  BY <1>2, <1>3, <1>4

LEMMA TrainOver ==
  ASSUME GamesAssumption, NEW s \in TrainStates,
         TrainCounted(s.hands, s.table), TrainNoPair(s.table), NEW w \in TrainTurns,
         IF w = -1 THEN \E p, q \in s.active : p # q ELSE s.active = {w},
         NEW reason \in {"last_player_with_cards", "repeated_position", "action_limit"}
  PROVE  TrainInv(Train!Finish(s, w, reason))
<1> DEFINE d == [p \in TrainSeats |-> IF w = -1 THEN 0 ELSE IF p = w THEN SeatCount - 1 ELSE -1]
           res == [over |-> TRUE, winner |-> w, reason |-> reason, deltas |-> d]
           t == Train!Finish(s, w, reason)
<1>1. t = [s EXCEPT !.turn = -1, !.result = res]
  BY TrainSeated DEF Train!Finish
<1>2. SeatCount \in Nat \ {0}
  BY DEF GamesAssumption
<1>3. d \in [TrainSeats -> Int]
  BY <1>2
<1>4. Total(d, TrainSeats) = 0
  <2>1. CASE w = -1
    <3>1. \A p \in TrainSeats : d[p] = 0
      BY <2>1
    <3> HIDE DEF d
    <3>. QED
      BY <3>1, TrainSeated, TotalZero
  <2>2. CASE w # -1
    <3>1. w \in 0..(SeatCount - 1)
      BY <2>2 DEF TrainTurns, TrainSeats
    <3>2. \A q \in 0..(SeatCount - 1) : d[q] = IF q = w THEN 1 * (SeatCount - 1) ELSE -1
      BY <1>2, <2>2 DEF TrainSeats
    <3>3. 1 \in Nat
      OBVIOUS
    <3> HIDE DEF d
    <3>4. Total(d, 0..(SeatCount - 1)) = 0
      BY ONLY <1>2, <3>1, <3>2, <3>3, WinnerTakes
    <3>. QED
      BY <3>4 DEF TrainSeats
  <2>. QED
    BY <2>1, <2>2
<1> HIDE DEF d
<1>5. res \in TrainEnds /\ res.deltas = d /\ res.winner = w
  BY <1>3 DEF TrainEnds
<1> HIDE DEF res, t
<1>6. t \in TrainStates /\ t.result = res /\ t.active = s.active /\ t.hands = s.hands /\ t.table = s.table
  BY <1>1, <1>5 DEF TrainStates, TrainTurns
<1>7. TrainEnded(t)
  BY <1>4, <1>5, <1>6 DEF TrainEnded
<1>8. TrainInv(t)
  BY <1>6, <1>7 DEF TrainInv
<1>. QED
  BY <1>8 DEF t

LEMMA TrainHeldIs ==
  ASSUME NEW hands, NEW table, NEW q, NEW i
  PROVE  /\ TrainHeld(hands, table, <<q, i>>)
               <=> q \in TrainTurns /\ i \in Nat /\ i >= 1 /\ i <= Len(TrainPile(hands, table, q))
         /\ TrainCard(hands, table, <<q, i>>) = TrainPile(hands, table, q)[i]
BY DEF TrainHeld, TrainCard

LEMMA TrainHeldPair ==
  ASSUME NEW hands, NEW table, NEW x, TrainHeld(hands, table, x)
  PROVE  \E q \in TrainTurns, i \in Nat : x = <<q, i>>
BY DEF TrainHeld

\* hand and rest are what is left of the pile h and the train table when the first
\* card of h goes to the end of the train and all but its first k cards go under h.
CardMoved(h, table, train, hand, rest, k) ==
  /\ train[Len(table) + 1] = h[1] /\ \A i \in 1..Len(table) : train[i] = table[i]
  /\ Len(rest) = k /\ \A i \in 1..k : rest[i] = train[i]
  /\ Len(hand) = Len(h) + Len(table) - k
  /\ \A i \in 1..(Len(h) - 1) : hand[i] = h[i + 1]
  /\ \A i \in (k + 1)..(Len(table) + 1) : hand[i - k + Len(h) - 1] = train[i]

TrainPiled(hands, table, others, p, h) ==
  \A q \in TrainTurns : TrainPile(hands, table, q) =
                         IF q = -1 THEN table ELSE IF q = p THEN h ELSE others[q]

LEMMA TrainTaken ==
  ASSUME NEW hands, NEW table, NEW later, NEW rest, NEW hand, NEW train, NEW h,
         NEW k \in Nat, NEW p \in TrainTurns, p # -1, TrainCounted(hands, table),
         Len(h) \in Nat, Len(h) >= 1, Len(table) \in Nat, k <= Len(table) + 1,
         CardMoved(h, table, train, hand, rest, k),
         TrainPiled(hands, table, hands, p, h), TrainPiled(later, rest, hands, p, hand)
  PROVE  TrainCounted(later, rest)
<1>0. PICK m \in Nat, n \in Nat : m = Len(h) /\ n = Len(table)
  OBVIOUS
<1> DEFINE from == [x \in TrainTurns \X Nat |->
                      IF x[1] = -1 THEN IF x[2] <= n THEN x ELSE <<p, 1>>
                      ELSE IF x[1] # p THEN x
                      ELSE IF x[2] <= m - 1 THEN <<p, x[2] + 1>>
                      ELSE IF x[2] - m + 1 + k <= n THEN <<-1, x[2] - m + 1 + k>>
                      ELSE <<p, 1>>]
           to == [x \in TrainTurns \X Nat |->
                    IF x[1] = -1 THEN IF x[2] <= k THEN x ELSE <<p, x[2] - k + m - 1>>
                    ELSE IF x[1] # p THEN x
                    ELSE IF x[2] >= 2 THEN <<p, x[2] - 1>>
                    ELSE IF n + 1 <= k THEN <<-1, n + 1>> ELSE <<p, n - k + m>>]
<1>1. n \in Nat /\ k \in Nat /\ k <= n + 1 /\ p \in TrainTurns /\ p # -1 /\ m \in Nat /\ m >= 1
  BY <1>0
<1>2. train[n + 1] = h[1] /\ \A i \in 1..n : train[i] = table[i]
  BY <1>0 DEF CardMoved
<1>4. \A q \in TrainTurns : TrainPile(later, rest, q) = IF q = -1 THEN rest
                                                        ELSE IF q = p THEN hand ELSE hands[q]
  BY DEF TrainPiled
<1>5. \A q \in TrainTurns : TrainPile(hands, table, q) = IF q = -1 THEN table
                                                         ELSE IF q = p THEN h ELSE hands[q]
  BY DEF TrainPiled
<1>6. \A q \in TrainTurns, i \in Nat :
        from[<<q, i>>] = IF q = -1 THEN IF i <= n THEN <<q, i>> ELSE <<p, 1>>
                         ELSE IF q # p THEN <<q, i>>
                         ELSE IF i <= m - 1 THEN <<p, i + 1>>
                         ELSE IF i - m + 1 + k <= n THEN <<-1, i - m + 1 + k>>
                         ELSE <<p, 1>>
  OBVIOUS
<1>7. \A q \in TrainTurns, i \in Nat :
        to[<<q, i>>] = IF q = -1 THEN IF i <= k THEN <<q, i>> ELSE <<p, i - k + m - 1>>
                       ELSE IF q # p THEN <<q, i>>
                       ELSE IF i >= 2 THEN <<p, i - 1>>
                       ELSE IF n + 1 <= k THEN <<-1, n + 1>> ELSE <<p, n - k + m>>
  OBVIOUS
<1>8. -1 \in TrainTurns
  BY DEF TrainTurns
<1>9. Len(hand) = m + n - k /\ Len(rest) = k
  BY <1>0 DEF CardMoved
<1>10. /\ \A i \in 1..k : rest[i] = train[i]
       /\ \A i \in 1..(m - 1) : hand[i] = h[i + 1]
       /\ \A i \in (k + 1)..(n + 1) : hand[i - k + m - 1] = train[i]
  BY <1>0 DEF CardMoved
<1>11. Len(table) = n /\ Len(h) = m
  BY <1>0
<1> HIDE DEF from, to
<1>12. ASSUME NEW q \in TrainTurns, NEW i \in Nat, TrainHeld(later, rest, <<q, i>>)
       PROVE  /\ TrainHeld(hands, table, from[<<q, i>>]) /\ to[from[<<q, i>>]] = <<q, i>>
              /\ TrainCard(hands, table, from[<<q, i>>]) = TrainCard(later, rest, <<q, i>>)
  <2>1. q \in TrainTurns /\ i \in Nat /\ i >= 1 /\ i <= Len(TrainPile(later, rest, q))
    BY <1>12, TrainHeldIs
  <2>2. CASE q = -1
    <3>1. i <= k /\ rest[i] = train[i]
      BY <1>4, <1>9, <1>10, <2>1, <2>2
    <3>2. CASE i <= n
      <4>3. from[<<q, i>>] = <<q, i>> /\ to[<<q, i>>] = <<q, i>>
        BY <1>1, <1>6, <1>7, <2>1, <2>2, <3>1, <3>2
      <4>1. from[<<q, i>>] = <<q, i>> /\ to[<<q, i>>] = <<q, i>> /\ train[i] = table[i]
        BY <1>1, <1>2, <2>1, <3>2, <4>3
      <4>2. TrainHeld(hands, table, <<q, i>>)
        BY <1>11, <1>5, <1>8, <2>1, <2>2, <3>2, TrainHeldIs
      <4>. QED
        BY <1>4, <1>5, <2>2, <3>1, <4>1, <4>2, TrainHeldIs
    <3>3. CASE ~(i <= n)
      <4>1. i = n + 1 /\ n + 1 <= k
        BY <1>1, <3>1, <3>3
      <4>2. from[<<q, i>>] = <<p, 1>>
        BY <1>6, <2>2, <3>3
      <4>6. 1 \in Nat /\ ~(1 >= 2)
        OBVIOUS
      <4>3. to[<<p, 1>>] = <<q, i>>
        BY <1>1, <1>7, <2>2, <4>1, <4>6
      <4>4. TrainHeld(hands, table, <<p, 1>>)
        BY <1>1, <1>5, <1>11, TrainHeldIs
      <4>5. TrainCard(hands, table, <<p, 1>>) = h[1] /\ TrainCard(later, rest, <<q, i>>) = rest[i]
        BY <1>1, <1>4, <1>5, <1>11, <2>2, TrainHeldIs
      <4>. QED
        BY <1>2, <3>1, <4>1, <4>2, <4>3, <4>4, <4>5
    <3>. QED
      BY <3>2, <3>3
  <2>3. CASE q # -1 /\ q # p
    <3>1. from[<<q, i>>] = <<q, i>> /\ to[<<q, i>>] = <<q, i>>
      BY <1>6, <1>7, <2>3
    <3>2. TrainPile(later, rest, q) = TrainPile(hands, table, q)
      BY <1>4, <1>5, <2>3
    <3>. QED
      BY <2>1, <3>1, <3>2, TrainHeldIs
  <2>4. CASE q = p
    <3>1. i <= m + n - k /\ TrainCard(later, rest, <<q, i>>) = hand[i]
      BY <1>1, <1>4, <1>9, <2>1, <2>4, TrainHeldIs
    <3>2. CASE i <= m - 1
      <4>4. from[<<q, i>>] = <<p, i + 1>>
        BY <1>1, <1>6, <2>1, <2>4, <3>2
      <4>1. from[<<q, i>>] = <<p, i + 1>> /\ hand[i] = h[i + 1]
        BY <1>1, <1>10, <2>1, <3>2, <4>4
      <4>2. to[<<p, i + 1>>] = <<q, i>>
        <5>1. i + 1 \in Nat /\ i + 1 >= 2 /\ i + 1 - 1 = i
          BY <2>1
        <5> DEFINE j == i + 1
        <5>2. j \in Nat /\ j >= 2 /\ j - 1 = i
          BY <5>1
        <5> HIDE DEF j
        <5>3. to[<<p, j>>] = <<p, j - 1>>
          BY <1>1, <1>7, <5>2
        <5>. QED
          BY <2>4, <5>2, <5>3 DEF j
      <4>3. TrainHeld(hands, table, <<p, i + 1>>) /\ TrainCard(hands, table, <<p, i + 1>>) = h[i + 1]
        BY <1>1, <1>5, <1>11, <2>1, <3>2, TrainHeldIs
      <4>. QED
        BY <3>1, <4>1, <4>2, <4>3
    <3>3. CASE ~(i <= m - 1)
      <4> DEFINE j == i - m + 1 + k
      <4>1. j \in (k + 1)..(n + 1) /\ j - k + m - 1 = i /\ j \in Nat
        BY <1>1, <3>1, <3>3
      <4>2. hand[i] = train[j]
        BY <1>10, <4>1
      <4>3. CASE j <= n
        <5>1. from[<<q, i>>] = <<-1, j>>
          BY <1>1, <1>6, <2>4, <3>3, <4>3
        <5> HIDE DEF j
        <5>3. j >= 1 /\ ~(j <= k)
          BY <1>1, <4>1
        <5>2. to[<<-1, j>>] = <<q, i>>
          BY <1>1, <1>7, <1>8, <2>4, <4>1, <5>3
        <5>6. TrainPile(hands, table, -1) = table
          BY <1>5, <1>8
        <5>4. TrainHeld(hands, table, <<-1, j>>) /\ TrainCard(hands, table, <<-1, j>>) = table[j]
          BY <1>11, <1>8, <4>1, <4>3, <5>3, <5>6, TrainHeldIs
        <5>7. j \in 1..n
          BY <1>1, <4>1, <4>3, <5>3
        <5>5. train[j] = table[j]
          BY <1>2, <5>7
        <5>. QED
          BY <3>1, <4>2, <5>1, <5>2, <5>4, <5>5
      <4>4. CASE ~(j <= n)
        <5>1. j = n + 1 /\ ~(n + 1 <= k) /\ n - k + m = i
          BY <1>1, <4>1, <4>4
        <5>2. from[<<q, i>>] = <<p, 1>>
          BY <1>1, <1>6, <2>4, <3>3, <4>4
        <5>5. 1 \in Nat /\ ~(1 >= 2)
          OBVIOUS
        <5>3. to[<<p, 1>>] = <<q, i>>
          BY <1>1, <1>7, <2>4, <5>1, <5>5
        <5>4. TrainHeld(hands, table, <<p, 1>>) /\ TrainCard(hands, table, <<p, 1>>) = h[1]
          BY <1>1, <1>5, <1>11, TrainHeldIs
        <5>. QED
          BY <1>2, <3>1, <4>2, <5>1, <5>2, <5>3, <5>4
      <4>. QED
        BY <4>3, <4>4
    <3>. QED
      BY <3>2, <3>3
  <2>. QED
    BY <2>2, <2>3, <2>4
<1>13. ASSUME NEW q \in TrainTurns, NEW i \in Nat, TrainHeld(hands, table, <<q, i>>)
       PROVE  TrainHeld(later, rest, to[<<q, i>>]) /\ from[to[<<q, i>>]] = <<q, i>>
  <2>1. q \in TrainTurns /\ i \in Nat /\ i >= 1 /\ i <= Len(TrainPile(hands, table, q))
    BY <1>13, TrainHeldIs
  <2>2. CASE q = -1
    <3>1. i <= n
      BY <1>11, <1>5, <2>1, <2>2
    <3>2. CASE i <= k
      <4>1. to[<<q, i>>] = <<q, i>> /\ from[<<q, i>>] = <<q, i>>
        BY <1>6, <1>7, <2>2, <3>1, <3>2
      <4>. QED
        BY <1>4, <1>9, <2>1, <2>2, <3>2, <4>1, TrainHeldIs
    <3>3. CASE ~(i <= k)
      <4> DEFINE j == i - k + m - 1
      <4>1. to[<<q, i>>] = <<p, j>>
        BY <1>7, <2>2, <3>3
      <4>2. j \in Nat /\ j >= 1 /\ j <= m + n - k /\ ~(j <= m - 1) /\ j - m + 1 + k = i
        BY <1>1, <3>1, <3>3
      <4> HIDE DEF j
      <4>3. from[<<p, j>>] = <<q, i>>
        BY <1>1, <1>6, <2>2, <3>1, <4>2
      <4>4. TrainHeld(later, rest, <<p, j>>)
        BY <1>1, <1>4, <1>9, <4>2, TrainHeldIs
      <4>. QED
        BY <4>1, <4>3, <4>4
    <3>. QED
      BY <3>2, <3>3
  <2>3. CASE q # -1 /\ q # p
    <3>1. from[<<q, i>>] = <<q, i>> /\ to[<<q, i>>] = <<q, i>>
      BY <1>6, <1>7, <2>3
    <3>2. TrainPile(later, rest, q) = TrainPile(hands, table, q)
      BY <1>4, <1>5, <2>3
    <3>3. TrainHeld(later, rest, <<q, i>>)
      BY <2>1, <3>2, TrainHeldIs
    <3>. QED
      BY <3>1, <3>3
  <2>4. CASE q = p
    <3>1. i <= m
      BY <1>1, <1>5, <1>11, <2>1, <2>4
    <3>2. CASE i >= 2
      <4>1. to[<<q, i>>] = <<p, i - 1>>
        BY <1>1, <1>7, <2>4, <3>2
      <4> DEFINE j == i - 1
      <4>2. j \in Nat /\ j >= 1 /\ j <= m - 1 /\ j <= m + n - k /\ j + 1 = i
        BY <1>1, <3>1, <3>2
      <4>3. to[<<q, i>>] = <<p, j>>
        BY <4>1
      <4> HIDE DEF j
      <4>4. from[<<p, j>>] = <<q, i>>
        BY <1>1, <1>6, <2>4, <4>2
      <4>5. TrainHeld(later, rest, <<p, j>>)
        BY <1>1, <1>4, <1>9, <4>2, TrainHeldIs
      <4>. QED
        BY <4>3, <4>4, <4>5
    <3>3. CASE ~(i >= 2) /\ n + 1 <= k
      <4>4. i = 1 /\ n + 1 \in Nat /\ k = n + 1 /\ ~(n + 1 <= n)
        BY <1>1, <2>1, <3>3
      <4>1. to[<<q, i>>] = <<-1, n + 1>> /\ i = 1 /\ n + 1 \in Nat /\ k = n + 1 /\ ~(n + 1 <= n)
        BY <1>1, <1>7, <2>1, <2>4, <3>3, <4>4
      <4>2. from[<<-1, n + 1>>] = <<q, i>>
        BY <1>6, <1>8, <2>4, <4>1
      <4>3. TrainHeld(later, rest, <<-1, n + 1>>)
        BY <1>1, <1>4, <1>8, <1>9, <4>1, TrainHeldIs
      <4>. QED
        BY <4>1, <4>2, <4>3
    <3>4. CASE ~(i >= 2) /\ ~(n + 1 <= k)
      <4> DEFINE j == n - k + m
      <4>1. i = 1
        BY <2>1, <3>4
      <4>5. to[<<q, i>>] = <<p, j>>
        BY <1>1, <1>7, <2>1, <2>4, <3>4
      <4>2. j \in Nat /\ j >= 1 /\ j <= m + n - k /\ ~(j <= m - 1) /\ ~(j - m + 1 + k <= n)
        BY <1>1, <3>4
      <4> HIDE DEF j
      <4>3. from[<<p, j>>] = <<q, i>>
        BY <1>1, <1>6, <2>4, <4>1, <4>2
      <4>6. Len(TrainPile(later, rest, p)) = m + n - k
        BY <1>1, <1>4, <1>9
      <4>4. TrainHeld(later, rest, <<p, j>>)
        BY <1>1, <4>2, <4>6, TrainHeldIs
      <4>. QED
        BY <4>5, <4>3, <4>4
    <3>. QED
      BY <3>2, <3>3, <3>4
  <2>. QED
    BY <2>2, <2>3, <2>4
<1>14. \A x : TrainHeld(later, rest, x) =>
                 /\ TrainHeld(hands, table, from[x]) /\ to[from[x]] = x
                 /\ TrainCard(hands, table, from[x]) = TrainCard(later, rest, x)
  <2>. SUFFICES ASSUME NEW x, TrainHeld(later, rest, x)
                PROVE  /\ TrainHeld(hands, table, from[x]) /\ to[from[x]] = x
                       /\ TrainCard(hands, table, from[x]) = TrainCard(later, rest, x)
    OBVIOUS
  <2>1. PICK q \in TrainTurns, i \in Nat : x = <<q, i>>
    BY TrainHeldPair
  <2>2. TrainHeld(later, rest, <<q, i>>)
    BY <2>1
  <2>3. /\ TrainHeld(hands, table, from[<<q, i>>]) /\ to[from[<<q, i>>]] = <<q, i>>
        /\ TrainCard(hands, table, from[<<q, i>>]) = TrainCard(later, rest, <<q, i>>)
    BY <1>12, <2>2
  <2>. QED
    BY <2>1, <2>3
<1>15. \A y : TrainHeld(hands, table, y) => TrainHeld(later, rest, to[y]) /\ from[to[y]] = y
  <2>. SUFFICES ASSUME NEW y, TrainHeld(hands, table, y)
                PROVE  TrainHeld(later, rest, to[y]) /\ from[to[y]] = y
    OBVIOUS
  <2>1. PICK q \in TrainTurns, i \in Nat : y = <<q, i>>
    BY TrainHeldPair
  <2>2. TrainHeld(hands, table, <<q, i>>)
    BY <2>1
  <2>3. TrainHeld(later, rest, to[<<q, i>>]) /\ from[to[<<q, i>>]] = <<q, i>>
    BY <1>13, <2>2
  <2>. QED
    BY <2>1, <2>3
<1>16. TrainCounted(hands, table)
  OBVIOUS
<1>. QED
  BY ONLY <1>14, <1>15, <1>16, TrainMoved

\* The train holds at most one card of the rank that is turned.
LEMMA TrainMatch ==
  ASSUME GamesAssumption, NEW table \in Seq(Train!Cards), TrainNoPair(table),
         NEW card \in Train!Cards, NEW at, at = Train!Match(table, card)
  PROVE  \/ at = 0 /\ \A i \in 1..Len(table) : TrainDeck[table[i]] # TrainDeck[card]
         \/ at \in 1..Len(table)
<1> DEFINE same == {i \in 1..Len(table) : TrainDeck[table[i]] = TrainDeck[card]}
<1>1. DOMAIN table = 1..Len(table) /\ Len(table) \in Nat
  OBVIOUS
<1>2. at = IF same = {} THEN 0 ELSE Train!Max(same)
  BY <1>1 DEF Train!Match
<1>3. CASE same = {}
  BY <1>2, <1>3
<1>4. CASE same # {}
  <2>1. PICK i \in same : TRUE
    BY <1>4
  <2>2. \A j \in same : j = i
    BY <2>1 DEF TrainNoPair
  <2>3. \A j \in same : i >= j
    BY <1>1, <2>1, <2>2
  <2>4. Train!Max(same) = CHOOSE x \in same : \A y \in same : x >= y
    BY DEF Train!Max
  <2>5. Train!Max(same) \in same
    <3> HIDE DEF same
    <3>. QED
      BY <2>1, <2>3, <2>4
  <2>. QED
    BY <1>2, <1>4, <2>5
<1>. QED
  BY <1>3, <1>4

LEMMA Joined ==
  ASSUME NEW C, NEW a \in Seq(C), NEW b \in Seq(C)
  PROVE  /\ a \o b \in Seq(C) /\ Len(a \o b) = Len(a) + Len(b)
         /\ \A i \in 1..Len(a) : (a \o b)[i] = a[i]
         /\ \A j \in 1..Len(b) : (a \o b)[Len(a) + j] = b[j]
<1>1. Len(a) \in Nat /\ Len(b) \in Nat
  OBVIOUS
<1>2. a \o b \in Seq(C) /\ Len(a \o b) = Len(a) + Len(b)
  OBVIOUS
<1>3. \A i \in 1..Len(a) : (a \o b)[i] = a[i]
  BY <1>1
<1>4. \A j \in 1..Len(b) : (a \o b)[Len(a) + j] = b[j]
  BY <1>1
<1>. QED
  BY <1>2, <1>3, <1>4

LEMMA Cut ==
  ASSUME NEW C, NEW s \in Seq(C), NEW a \in Nat, NEW b \in Nat,
         1 <= a, a <= b + 1, b <= Len(s)
  PROVE  /\ SubSeq(s, a, b) \in Seq(C) /\ Len(SubSeq(s, a, b)) = b - a + 1
         /\ \A i \in 1..(b - a + 1) : SubSeq(s, a, b)[i] = s[a + i - 1]
<1>1. a \in Int /\ b \in Int /\ \A i \in a..b : s[i] \in C
  OBVIOUS
<1>2. /\ SubSeq(s, a, b) \in Seq(C)
      /\ Len(SubSeq(s, a, b)) = IF a <= b THEN b - a + 1 ELSE 0
      /\ \A i \in 1..(b - a + 1) : SubSeq(s, a, b)[i] = s[a + i - 1]
  BY ONLY <1>1, SubSeqProperties
<1>. QED
  BY <1>2

\* What a turned card makes of the pile and of the train.
CardTurned(h, table, at, train, taken, hand, rest, k) ==
  /\ train = Append(table, Head(h))
  /\ taken = IF at = 0 THEN <<>> ELSE SubSeq(train, at, Len(train))
  /\ hand = Tail(h) \o taken
  /\ rest = SubSeq(train, 1, Len(train) - Len(taken))
  /\ k = IF at = 0 THEN Len(table) + 1 ELSE at - 1

LEMMA TrainTurnedCard ==
  ASSUME NEW C, NEW h \in Seq(C), h # <<>>, NEW table \in Seq(C), NEW at \in 0..Len(table),
         NEW train, NEW taken, NEW hand, NEW rest, NEW k,
         CardTurned(h, table, at, train, taken, hand, rest, k)
  PROVE  rest \in Seq(C) /\ hand \in Seq(C) /\ CardMoved(h, table, train, hand, rest, k)
<1>0. /\ train = Append(table, Head(h))
      /\ taken = IF at = 0 THEN <<>> ELSE SubSeq(train, at, Len(train))
      /\ hand = Tail(h) \o taken
      /\ rest = SubSeq(train, 1, Len(train) - Len(taken))
      /\ k = IF at = 0 THEN Len(table) + 1 ELSE at - 1
  BY DEF CardTurned
<1> DEFINE n == Len(table)
           m == Len(h)
<1>1. n \in Nat /\ m \in Nat /\ m >= 1 /\ k \in Nat /\ k <= n + 1 /\ Head(h) = h[1] /\ h[1] \in C
  BY <1>0
<1>2. /\ train \in Seq(C) /\ Len(train) = n + 1 /\ train[n + 1] = h[1]
      /\ \A i \in 1..n : train[i] = table[i]
  <2>1. train = Append(table, h[1])
    BY <1>0, <1>1
  <2>. QED
    BY <1>1, <2>1
<1>3. /\ Tail(h) \in Seq(C) /\ Len(Tail(h)) = m - 1
      /\ \A i \in 1..(m - 1) : Tail(h)[i] = h[i + 1]
  OBVIOUS
<1>4. /\ taken \in Seq(C) /\ Len(taken) = n + 1 - k
      /\ \A i \in 1..(n + 1 - k) : taken[i] = train[k + i]
  <2>1. CASE at = 0
    BY <1>0, <1>1, <2>1
  <2>2. CASE at # 0
    <3>1. at \in 1..n /\ k = at - 1
      BY <1>0, <2>2
    <3> DEFINE e == n + 1
    <3>2. taken = SubSeq(train, at, e)
      BY <1>0, <1>2, <2>2
    <3>5. at \in Nat /\ e \in Nat /\ 1 <= at /\ at <= e + 1 /\ e <= Len(train) /\ k = at - 1 /\ e = n + 1
      BY <1>1, <1>2, <3>1
    <3>6. train \in Seq(C)
      BY <1>2
    <3> HIDE DEF e, n
    <3>3. /\ taken \in Seq(C) /\ Len(taken) = e - at + 1
          /\ \A i \in 1..(e - at + 1) : taken[i] = train[at + i - 1]
      BY ONLY <3>2, <3>5, <3>6, Cut
    <3>10. at \in Nat /\ n \in Nat /\ k = at - 1 /\ e = n + 1
      BY <1>1, <3>5
    <3>7. e - at + 1 = n + 1 - k
      BY ONLY <3>10
    <3>9. \A i \in Nat : at + i - 1 = k + i
      BY <1>1, <3>5
    <3>4. Len(taken) = n + 1 - k /\ \A i \in 1..(n + 1 - k) : taken[i] = train[at + i - 1]
      BY <3>3, <3>7
    <3>8. \A i \in 1..(n + 1 - k) : i \in Nat
      BY <1>1
    <3>. QED
      BY <3>3, <3>4, <3>8, <3>9
  <2>. QED
    BY <2>1, <2>2
<1> HIDE DEF n, m
<1>5. /\ rest \in Seq(C) /\ Len(rest) = k /\ \A i \in 1..k : rest[i] = train[i]
  <2>1. Len(train) - Len(taken) = k
    BY <1>1, <1>2, <1>4
  <2>2. rest = SubSeq(train, 1, k)
    BY <1>0, <2>1
  <2>3. 1 \in Nat /\ k \in Nat /\ 1 <= 1 /\ 1 <= k + 1 /\ k <= Len(train) /\ train \in Seq(C)
    BY <1>1, <1>2
  <2>4. /\ rest \in Seq(C) /\ Len(rest) = k - 1 + 1
        /\ \A i \in 1..(k - 1 + 1) : rest[i] = train[1 + i - 1]
    BY ONLY <2>2, <2>3, Cut
  <2>5. k - 1 + 1 = k /\ \A i \in 1..k : 1 + i - 1 = i
    BY <1>1
  <2>. QED
    BY <2>4, <2>5
<1>9. /\ hand \in Seq(C) /\ Len(hand) = Len(Tail(h)) + Len(taken)
      /\ \A i \in 1..Len(Tail(h)) : hand[i] = Tail(h)[i]
      /\ \A j \in 1..Len(taken) : hand[Len(Tail(h)) + j] = taken[j]
  <2>1. Tail(h) \in Seq(C) /\ taken \in Seq(C) /\ hand = Tail(h) \o taken
    BY <1>0, <1>3, <1>4
  <2>. QED
    BY ONLY <2>1, Joined
<1>6. hand \in Seq(C) /\ Len(hand) = m + n - k
  <2>1. Len(hand) = (m - 1) + (n + 1 - k)
    BY <1>3, <1>4, <1>9
  <2>2. (m - 1) + (n + 1 - k) = m + n - k
    BY <1>1
  <2>. QED
    BY <1>9, <2>1, <2>2
<1>7. \A i \in 1..(m - 1) : hand[i] = h[i + 1]
  BY <1>1, <1>3, <1>9
<1>8. \A i \in (k + 1)..(n + 1) : hand[i - k + m - 1] = train[i]
  <2>1. SUFFICES ASSUME NEW i \in (k + 1)..(n + 1) PROVE hand[i - k + m - 1] = train[i]
    OBVIOUS
  <2> DEFINE j == i - k
  <2>2. j \in 1..(n + 1 - k) /\ k + j = i /\ j \in Nat
    BY <1>1
  <2>3. i - k + m - 1 = (m - 1) + j
    BY <1>1, <2>1
  <2> HIDE DEF j
  <2>4. hand[(m - 1) + j] = taken[j]
    BY <1>3, <1>4, <1>9, <2>2
  <2>. QED
    BY <1>4, <2>2, <2>3, <2>4
<1>. QED
  BY <1>2, <1>5, <1>6, <1>7, <1>8 DEF n, m, CardMoved

\* The table goes on with the players active, or has its winner.
LEMMA TrainLeft ==
  ASSUME GamesAssumption, NEW s \in TrainStates, s.active # {},
         TrainCounted(s.hands, s.table), TrainNoPair(s.table)
  PROVE  /\ Train!Cardinality(s.active) = 1 =>
              TrainInv(Train!Finish(s, CHOOSE q \in s.active : TRUE, "last_player_with_cards"))
         /\ Train!Cardinality(s.active) # 1 => \E p, q \in s.active : p # q
<1>1. s.active \in SUBSET TrainSeats
  BY DEF TrainStates
<1>2. IsFiniteSet(s.active)
  BY <1>1, TrainSeated, FS_Subset
<1>3. /\ Cardinality(s.active) = 1 <=> \E x \in s.active : s.active = {x}
      /\ Cardinality(s.active) # 1 => \E x, y \in s.active : x # y
  BY <1>2, OneOrTwo
<1>4. ASSUME Cardinality(s.active) = 1
      PROVE  TrainInv(Train!Finish(s, CHOOSE q \in s.active : TRUE, "last_player_with_cards"))
  <2>1. PICK w \in s.active : s.active = {w}
    BY <1>3, <1>4
  <2>2. (CHOOSE q \in s.active : TRUE) = w
    BY <2>1
  <2>3. w \in TrainTurns /\ w # -1
    BY <1>1, TrainSeated DEF TrainTurns
  <2>4. TrainInv(Train!Finish(s, w, "last_player_with_cards"))
    BY <2>1, <2>3, TrainOver
  <2>. QED
    BY <2>2, <2>4
<1>. QED
  BY <1>3, <1>4, TrainNames

LEMMA TrainTurned ==
  ASSUME GamesAssumption, NEW s \in TrainStates, s.active # {}, NEW p \in TrainSeats,
         NEW t, t = [s EXCEPT !.turn = Train!After(s, p)]
  PROVE  /\ t \in TrainStates /\ t.turn \in t.active /\ t.active = s.active
         /\ t.hands = s.hands /\ t.table = s.table /\ t.result = s.result
         /\ t.seen = s.seen
<1>1. s.active \in SUBSET TrainSeats
  BY DEF TrainStates
<1> DEFINE q == Train!After(s, p)
<1>2. q \in s.active
  BY <1>1, TrainNext
<1>3. q \in TrainTurns
  BY <1>1, <1>2 DEF TrainTurns
<1> HIDE DEF q
<1>. QED
  BY <1>2, <1>3 DEF TrainStates, q

LEMMA TrainRemembers ==
  ASSUME NEW t \in TrainStates
  PROVE  LET u == [t EXCEPT !.seen = @ \union {Train!Position(t)}]
         IN /\ u \in TrainStates /\ u.turn = t.turn /\ u.active = t.active
            /\ u.hands = t.hands /\ u.table = t.table /\ u.result = t.result
<1> DEFINE x == Train!Position(t)
<1>1. x \in TrainTurns \X (SUBSET TrainSeats) \X Seq(Train!Cards) \X TrainPiles
  BY DEF Train!Position, TrainStates
<1> HIDE DEF x
<1>. QED
  BY <1>1 DEF TrainStates, x

LEMMA TrainNoPairLeft ==
  ASSUME NEW table, TrainNoPair(table), NEW rest, NEW k \in Nat, Len(rest) = k, k <= Len(table),
         Len(table) \in Nat, \A i \in 1..k : rest[i] = table[i]
  PROVE  TrainNoPair(rest)
BY DEF TrainNoPair

LEMMA TrainNoPairNew ==
  ASSUME NEW table, TrainNoPair(table), NEW rest, Len(rest) = Len(table) + 1,
         Len(table) \in Nat, \A i \in 1..Len(table) : rest[i] = table[i],
         NEW card, rest[Len(table) + 1] = card,
         \A i \in 1..Len(table) : TrainDeck[table[i]] # TrainDeck[card]
  PROVE  TrainNoPair(rest)
<1>1. \A i \in 1..Len(rest) : i \in 1..Len(table) \/ i = Len(table) + 1
  OBVIOUS
<1>. QED
  BY <1>1 DEF TrainNoPair

TrainAfter(s, p, hand, rest, active) ==
  [s EXCEPT !.hands[p] = hand, !.table = rest, !.active = active, !.actions = @ + 1]

LEMMA TrainAfterIs ==
  ASSUME GamesAssumption, NEW s \in TrainStates, NEW p \in TrainSeats,
         NEW hand \in Seq(Train!Cards), NEW rest \in Seq(Train!Cards),
         NEW active \in SUBSET TrainSeats,
         NEW t, t = TrainAfter(s, p, hand, rest, active)
  PROVE  /\ t \in TrainStates /\ t.active = active /\ t.table = rest
         /\ t.hands = [s.hands EXCEPT ![p] = hand] /\ t.result = s.result
         /\ t.turn = s.turn
<1>1. s.hands \in TrainPiles /\ s.actions \in Nat
  BY DEF TrainStates
<1>2. [s.hands EXCEPT ![p] = hand] \in TrainPiles /\ s.actions + 1 \in Nat
  BY <1>1 DEF TrainPiles
<1>. QED
  BY <1>2 DEF TrainStates, TrainAfter

\* The piles of who is in the game and the places of the cards after a turned card.
LEMMA TrainPlaced ==
  ASSUME GamesAssumption, NEW hands \in TrainPiles, NEW table \in Seq(Train!Cards),
         TrainCounted(hands, table), TrainNoPair(table),
         NEW p \in TrainSeats, hands[p] # <<>>, NEW at, at = Train!Match(table, Head(hands[p])),
         NEW train, NEW taken, NEW hand, NEW rest, NEW k,
         CardTurned(hands[p], table, at, train, taken, hand, rest, k)
  PROVE  /\ hand \in Seq(Train!Cards) /\ rest \in Seq(Train!Cards)
         /\ TrainCounted([hands EXCEPT ![p] = hand], rest) /\ TrainNoPair(rest)
<1> DEFINE h == hands[p]
           m == Len(h)
           n == Len(table)
           later == [hands EXCEPT ![p] = hand]
<1>1. h \in Seq(Train!Cards) /\ h # <<>> /\ h[1] \in Train!Cards /\ Head(h) = h[1]
  BY DEF TrainPiles
<1>2. \/ at = 0 /\ \A i \in 1..n : TrainDeck[table[i]] # TrainDeck[h[1]]
      \/ at \in 1..n
  BY <1>1, TrainMatch
<1>3. n \in Nat /\ m \in Nat /\ m >= 1
  BY <1>1
<1>4. at \in 0..n /\ (at # 0 => at \in 1..n)
  BY <1>2, <1>3
<1>17. k = IF at = 0 THEN n + 1 ELSE at - 1
  BY DEF CardTurned
<1>5. CardTurned(h, table, at, train, taken, hand, rest, k)
  OBVIOUS
<1>6. m = Len(h) /\ n = Len(table) /\ h = hands[p]
  OBVIOUS
<1>7. p \in TrainTurns /\ p # -1
  BY TrainSeated DEF TrainTurns
<1> HIDE DEF h, m, n
<1>14. k \in Nat /\ k <= n + 1 /\ (at = 0 => k = n + 1) /\ (at # 0 => k <= n)
  BY ONLY <1>3, <1>4, <1>17
<1>15. table \in Seq(Train!Cards) /\ at \in 0..Len(table) /\ h \in Seq(Train!Cards) /\ h # <<>>
  BY <1>1, <1>4, <1>6
<1>8. rest \in Seq(Train!Cards) /\ hand \in Seq(Train!Cards) /\ CardMoved(h, table, train, hand, rest, k)
  BY ONLY <1>5, <1>15, TrainTurnedCard
<1>9. /\ TrainPiled(hands, table, hands, p, h)
      /\ TrainPiled(later, rest, hands, p, hand)
  BY <1>6, <1>7 DEF TrainPile, TrainPiles, TrainTurns, TrainPiled
<1> HIDE DEF later
<1>11. /\ k \in Nat /\ TrainCounted(hands, table) /\ Len(h) \in Nat /\ Len(h) >= 1
       /\ Len(table) \in Nat /\ k <= Len(table) + 1
  BY <1>3, <1>6, <1>14
<1>12. TrainCounted(later, rest)
  BY ONLY <1>7, <1>8, <1>9, <1>11, TrainTaken
<1>16. /\ Len(rest) = k /\ \A i \in 1..k : rest[i] = train[i]
       /\ train[n + 1] = h[1] /\ \A i \in 1..n : train[i] = table[i]
  BY <1>6, <1>8 DEF CardMoved
<1>13. TrainNoPair(rest)
  <2>1. CASE at = 0
    <3>1. \A i \in 1..n : rest[i] = table[i]
      BY <1>3, <1>14, <1>16, <2>1
    <3>2. Len(rest) = n + 1 /\ rest[n + 1] = h[1]
      BY <1>3, <1>14, <1>16, <2>1
    <3>5. \A i \in 1..n : TrainDeck[table[i]] # TrainDeck[h[1]]
      BY <1>2, <1>3, <2>1
    <3>3. /\ Len(rest) = Len(table) + 1 /\ Len(table) \in Nat
          /\ \A i \in 1..Len(table) : rest[i] = table[i]
          /\ rest[Len(table) + 1] = h[1]
          /\ \A i \in 1..Len(table) : TrainDeck[table[i]] # TrainDeck[h[1]]
      BY ONLY <1>3, <1>6, <3>1, <3>2, <3>5
    <3>4. TrainNoPair(table)
      OBVIOUS
    <3>. QED
      BY ONLY <3>3, <3>4, TrainNoPairNew
  <2>2. CASE at # 0
    <3>1. \A i \in 1..k : rest[i] = table[i]
      <4>1. \A i \in 1..k : i \in 1..n
        BY ONLY <1>3, <1>14, <2>2
      <4>2. \A i \in 1..k : rest[i] = train[i]
        BY <1>16
      <4>3. \A i \in 1..n : train[i] = table[i]
        BY <1>16
      <4>. QED
        BY ONLY <4>1, <4>2, <4>3
    <3>3. /\ Len(rest) = k /\ k \in Nat /\ k <= Len(table) /\ Len(table) \in Nat
      BY <1>3, <1>6, <1>14, <1>16, <2>2
    <3>4. TrainNoPair(table)
      OBVIOUS
    <3>. QED
      BY ONLY <3>1, <3>3, <3>4, TrainNoPairLeft
  <2>. QED
    BY <2>1, <2>2
<1>. QED
  BY <1>8, <1>12, <1>13 DEF later

LEMMA TrainFlip ==
  ASSUME GamesAssumption, TrainInv(g), TrainOpen(g), NEW p \in TrainSeats, Train!Flip(p)
  PROVE  TrainInv(g')
<1> DEFINE card == Head(g.hands[p])
           at == Train!Match(g.table, card)
           train == Append(g.table, card)
           taken == IF at = 0 THEN <<>> ELSE SubSeq(train, at, Len(train))
           hand == Tail(g.hands[p]) \o taken
           rest == SubSeq(train, 1, Len(train) - Len(taken))
           left == IF hand = <<>> THEN g.active \ {p} ELSE g.active
           s == TrainAfter(g, p, hand, rest, left)
           t == [s EXCEPT !.turn = Train!After(s, p)]
<1>1. /\ g \in TrainStates /\ g.hands \in TrainPiles /\ g.table \in Seq(Train!Cards)
      /\ g.active \in SUBSET TrainSeats /\ TrainCounted(g.hands, g.table) /\ TrainNoPair(g.table)
  BY DEF TrainInv, TrainStates
<1>2. /\ ~Train!Over /\ g.turn = p /\ g.hands[p] # <<>>
      /\ g' = IF Train!Cardinality(s.active) = 1
              THEN Train!Finish(s, CHOOSE q \in s.active : TRUE, "last_player_with_cards")
              ELSE IF Train!Position(t) \in t.seen THEN Train!Finish(t, -1, "repeated_position")
              ELSE IF t.actions >= MaxActions THEN Train!Finish(t, -1, "action_limit")
              ELSE [t EXCEPT !.seen = @ \union {Train!Position(t)}]
  BY DEF Train!Flip, TrainAfter
<1> DEFINE later == [g.hands EXCEPT ![p] = hand]
<1>3. /\ hand \in Seq(Train!Cards) /\ rest \in Seq(Train!Cards)
      /\ TrainCounted(later, rest) /\ TrainNoPair(rest)
  <2> DEFINE k == IF at = 0 THEN Len(g.table) + 1 ELSE at - 1
  <2>1. CardTurned(g.hands[p], g.table, at, train, taken, hand, rest, k)
    BY DEF CardTurned
  <2>2. at = Train!Match(g.table, Head(g.hands[p]))
    OBVIOUS
  <2> HIDE DEF card, at, train, taken, hand, rest, k
  <2>3. /\ hand \in Seq(Train!Cards) /\ rest \in Seq(Train!Cards)
        /\ TrainCounted([g.hands EXCEPT ![p] = hand], rest) /\ TrainNoPair(rest)
    BY <1>1, <1>2, <2>1, <2>2, TrainPlaced
  <2>. QED
    BY <2>3
<1>4. left \in SUBSET TrainSeats
  BY <1>1
<1> HIDE DEF card, at, train, taken, hand, rest
<1>5. \A q \in left : later[q] # <<>>
  BY <1>1 DEF TrainOpen, TrainPiles
<1>6. left # {}
  BY DEF TrainOpen
<1> HIDE DEF left
<1>7. s = TrainAfter(g, p, hand, rest, left)
  OBVIOUS
<1> HIDE DEF s
<1>8. /\ s \in TrainStates /\ s.active = left /\ s.table = rest /\ s.hands = later
      /\ s.result = g.result
  BY <1>1, <1>3, <1>4, <1>7, TrainAfterIs
<1> HIDE DEF later
<1>9. TrainCounted(s.hands, s.table) /\ TrainNoPair(s.table) /\ s.active # {}
  BY <1>3, <1>6, <1>8
<1>10. CASE Train!Cardinality(s.active) = 1
  <2>1. TrainInv(Train!Finish(s, CHOOSE q \in s.active : TRUE, "last_player_with_cards"))
    BY <1>8, <1>9, <1>10, TrainLeft
  <2>. QED
    BY <1>2, <1>10, <2>1
<1>11. CASE Train!Cardinality(s.active) # 1
  <2>1. \E a, b \in s.active : a # b
    BY <1>8, <1>9, <1>11, TrainLeft
  <2>2. t = [s EXCEPT !.turn = Train!After(s, p)]
    OBVIOUS
  <2> HIDE DEF t
  <2>3. /\ t \in TrainStates /\ t.turn \in t.active /\ t.active = s.active
        /\ t.hands = s.hands /\ t.table = s.table /\ t.result = s.result
    BY <1>8, <1>9, <2>2, TrainTurned, ZenonT(60)
  <2>4. TrainCounted(t.hands, t.table) /\ TrainNoPair(t.table)
    BY <1>9, <2>3
  <2>5. -1 \in TrainTurns /\ \E a, b \in t.active : a # b
    BY <2>1, <2>3 DEF TrainTurns
  <2>6. /\ TrainInv(Train!Finish(t, -1, "repeated_position"))
        /\ TrainInv(Train!Finish(t, -1, "action_limit"))
    BY <2>3, <2>4, <2>5, TrainOver
  <2> DEFINE u == [t EXCEPT !.seen = @ \union {Train!Position(t)}]
  <2>7. /\ u \in TrainStates /\ u.turn = t.turn /\ u.active = t.active
        /\ u.hands = t.hands /\ u.table = t.table /\ u.result = t.result
    BY <2>3, TrainRemembers
  <2>8. g' = u \/ g' = Train!Finish(t, -1, "repeated_position") \/ g' = Train!Finish(t, -1, "action_limit")
    BY <1>2, <1>11
  <2> HIDE DEF u
  <2>9. TrainOpen(u)
    BY <1>5, <1>8, <2>3, <2>5, <2>7 DEF TrainOpen
  <2>10. TrainInv(u)
    BY <2>4, <2>7, <2>9 DEF TrainInv
  <2>. QED
    BY <2>6, <2>8, <2>10
<1>. QED
  BY <1>10, <1>11

LEMMA TrainResign ==
  ASSUME GamesAssumption, TrainInv(g), TrainOpen(g), NEW p \in TrainSeats, Train!Resign(p)
  PROVE  TrainInv(g')
<1> DEFINE left == g.active \ {p}
           s == [g EXCEPT !.active = left]
           t == [s EXCEPT !.turn = Train!After(s, p)]
<1>1. /\ g \in TrainStates /\ g.active \in SUBSET TrainSeats
      /\ TrainCounted(g.hands, g.table) /\ TrainNoPair(g.table)
  BY DEF TrainInv, TrainStates
<1>2. /\ p \in g.active
      /\ g' = IF Train!Cardinality(s.active) = 1
              THEN Train!Finish(s, CHOOSE q \in s.active : TRUE, "last_player_with_cards")
              ELSE IF g.turn = p THEN t ELSE s
  BY DEF Train!Resign
<1>3. left \in SUBSET TrainSeats /\ left # {}
  BY <1>1 DEF TrainOpen
<1>4. s = [g EXCEPT !.active = left]
  OBVIOUS
<1>5. (\A q \in left : g.hands[q] # <<>>) /\ (g.turn # p => g.turn \in left)
  BY DEF TrainOpen
<1> HIDE DEF s, left
<1>6. /\ s \in TrainStates /\ s.active = left /\ s.table = g.table /\ s.hands = g.hands
      /\ s.result = g.result /\ s.turn = g.turn
  BY <1>1, <1>3, <1>4 DEF TrainStates
<1>7. TrainCounted(s.hands, s.table) /\ TrainNoPair(s.table) /\ s.active # {}
  BY <1>1, <1>3, <1>6
<1>8. CASE Train!Cardinality(s.active) = 1
  <2>1. TrainInv(Train!Finish(s, CHOOSE q \in s.active : TRUE, "last_player_with_cards"))
    BY <1>6, <1>7, <1>8, TrainLeft
  <2>. QED
    BY <1>2, <1>8, <2>1
<1>9. CASE Train!Cardinality(s.active) # 1
  <2>1. \E a, b \in s.active : a # b
    BY <1>6, <1>7, <1>9, TrainLeft
  <2>2. CASE g.turn # p
    <3>1. TrainOpen(s)
      BY <1>5, <1>6, <2>1, <2>2 DEF TrainOpen
    <3>. QED
      BY <1>2, <1>6, <1>7, <1>9, <2>2, <3>1 DEF TrainInv
  <2>3. CASE g.turn = p
    <3>1. t = [s EXCEPT !.turn = Train!After(s, p)]
      OBVIOUS
    <3>2. g' = t
      BY <1>2, <1>9, <2>3
    <3> HIDE DEF t
    <3>3. /\ t \in TrainStates /\ t.turn \in t.active /\ t.active = s.active
          /\ t.hands = s.hands /\ t.table = s.table /\ t.result = s.result
      BY <1>6, <1>7, <3>1, TrainTurned, ZenonT(60)
    <3>4. TrainOpen(t)
      BY <1>5, <1>6, <2>1, <3>3 DEF TrainOpen
    <3>. QED
      BY <1>7, <3>2, <3>3, <3>4 DEF TrainInv
  <2>. QED
    BY <2>2, <2>3
<1>. QED
  BY <1>8, <1>9

LEMMA TrainPreserved ==
  ASSUME GamesAssumption, TrainInv(g), Train!Next
  PROVE  TrainInv(g')
<1>1. PICK p \in TrainSeats : Train!Flip(p) \/ Train!Resign(p)
  BY TrainSeated DEF Train!Next
<1>2. ~Train!Over
  BY <1>1 DEF Train!Flip, Train!Resign
<1>3. TrainOpen(g)
  BY <1>2 DEF TrainInv, TrainEnded, TrainEnds, Train!Over
<1>. QED
  BY <1>1, <1>3, TrainFlip, TrainResign

LEMMA TrainHonours ==
  ASSUME GamesAssumption, TrainInv(g)
  PROVE  Train!AskedMayAct /\ Train!Settled /\ Train!CardsConserved /\ Train!NoPairOnTrain
<1>1. /\ g \in TrainStates /\ g.hands \in TrainPiles /\ g.table \in Seq(Train!Cards)
      /\ g.active \in SUBSET TrainSeats /\ TrainCounted(g.hands, g.table) /\ TrainNoPair(g.table)
  BY DEF TrainInv, TrainStates
<1>2. Train!AskedMayAct
  BY DEF TrainInv, TrainOpen, TrainEnded, TrainEnds, Train!AskedMayAct, Train!Over
<1>3. Train!Settled
  <2>1. SUFFICES ASSUME Train!Over PROVE Train!Settled
    BY DEF Train!Settled
  <2>2. TrainEnded(g)
    BY <2>1 DEF TrainInv, TrainOpen, Train!Over
  <2>3. Train!Total(g.result.deltas, Train!Players) = 0
    BY <2>2, TrainNames, TrainSeated DEF TrainEnded
  <2>4. ASSUME g.result.winner = -1 PROVE Train!Cardinality(g.active) > 1
    <3>1. \E a, b \in g.active : a # b
      BY <2>2, <2>4 DEF TrainEnded
    <3>2. IsFiniteSet(g.active) /\ g.active # {}
      BY <1>1, <3>1, TrainSeated, FS_Subset
    <3>3. /\ Cardinality(g.active) \in Nat /\ Cardinality(g.active) >= 1
          /\ Cardinality(g.active) = 1 <=> \E x \in g.active : g.active = {x}
      BY <3>2, OneOrTwo
    <3>4. Cardinality(g.active) # 1
      BY <3>1, <3>3
    <3>. QED
      BY <3>3, <3>4, TrainNames
  <2>. QED
    BY <2>2, <2>3, <2>4 DEF TrainEnded, Train!Settled
<1>4. Train!NoPairOnTrain
  <2>1. DOMAIN g.table = 1..Len(g.table)
    BY <1>1
  <2>. QED
    BY <1>1, <2>1 DEF TrainNoPair, Train!NoPairOnTrain
<1>5. /\ Train!Players \union {-1} = TrainTurns
      /\ \A p \in TrainTurns : Train!Pile(g, p) = TrainPile(g.hands, g.table, p)
  BY TrainSeated DEF TrainTurns, TrainPile, Train!Pile
<1>6. \A p \in TrainTurns : TrainPile(g.hands, g.table, p) \in Seq(Train!Cards)
  BY <1>1 DEF TrainPile, TrainPiles, TrainTurns
<1>7. \A p \in TrainTurns : DOMAIN TrainPile(g.hands, g.table, p) = 1..Len(TrainPile(g.hands, g.table, p))
  BY <1>6
<1>8. \A x : x \in Train!Places(g) <=> TrainHeld(g.hands, g.table, x)
  <2>1. \A x : x \in Train!Places(g) <=>
          \E p \in TrainTurns : x \in {p} \X (1..Len(TrainPile(g.hands, g.table, p)))
    BY <1>5, <1>7 DEF Train!Places
  <2>2. \A p \in TrainTurns : Len(TrainPile(g.hands, g.table, p)) \in Nat
    BY <1>6
  <2>. QED
    BY <2>1, <2>2 DEF TrainHeld
<1>9. \A x : TrainHeld(g.hands, g.table, x) =>
               Train!CardAt(g, x) = TrainCard(g.hands, g.table, x)
  BY <1>5 DEF TrainHeld, TrainCard, Train!CardAt
<1>10. \A x \in Train!Places(g) : Train!CardAt(g, x) \in Train!Cards
  <2>1. SUFFICES ASSUME NEW x, TrainHeld(g.hands, g.table, x)
                 PROVE  TrainCard(g.hands, g.table, x) \in Train!Cards
    BY <1>8, <1>9
  <2>2. /\ x[1] \in TrainTurns /\ x[2] \in 1..Len(TrainPile(g.hands, g.table, x[1]))
    BY <2>1, <1>6 DEF TrainHeld
  <2>. QED
    BY <1>6, <2>2 DEF TrainCard
<1>11. ASSUME NEW c \in Train!Cards
       PROVE  \E x \in Train!Places(g) : {y \in Train!Places(g) : Train!CardAt(g, y) = c} = {x}
  <2>1. PICK x : /\ TrainHeld(g.hands, g.table, x) /\ TrainCard(g.hands, g.table, x) = c
                 /\ \A y : TrainHeld(g.hands, g.table, y) /\ TrainCard(g.hands, g.table, y) = c
                             => y = x
    BY <1>1 DEF TrainCounted
  <2>2. x \in Train!Places(g) /\ Train!CardAt(g, x) = c
    BY <1>8, <1>9, <2>1
  <2>3. \A y \in Train!Places(g) : Train!CardAt(g, y) = c => y = x
    BY <1>8, <1>9, <2>1
  <2>. QED
    BY <2>2, <2>3
<1>12. Train!CardsConserved
  BY <1>10, <1>11 DEF Train!CardsConserved
<1>. QED
  BY <1>2, <1>3, <1>4, <1>12

LEMMA TimesGrows ==
  ASSUME NEW a \in Nat, NEW b \in Nat, NEW n \in Nat, a <= b
  PROVE  a * n \in Nat /\ b * n \in Nat /\ a * n <= b * n
<1>1. PICK c \in Nat : b = a + c
  BY b - a \in Nat, b = a + (b - a)
<1>2. b * n = a * n + c * n /\ c * n \in Nat
  BY <1>1
<1>. QED
  BY <1>2

LEMMA Divided ==
  ASSUME NEW a \in Nat, NEW n \in Nat \ {0}
  PROVE  a \div n \in Nat /\ (a \div n) * n <= a /\ a < (a \div n) * n + n
OBVIOUS

\* Card i of p is in a deck of l cards dealt out to n.
LEMMA DealtIn ==
  ASSUME NEW n \in Nat \ {0}, NEW l \in Nat, NEW p \in 0..(n - 1), NEW i \in Nat, i >= 1
  PROVE  /\ (l + n - 1 - p) \div n \in Nat
         /\ i <= (l + n - 1 - p) \div n <=> (i - 1) * n + p + 1 <= l
         /\ (i - 1) * n + p + 1 \in Nat /\ (i - 1) * n + p + 1 >= 1
<1> DEFINE a == l + n - 1 - p
           q == a \div n
<1>1. a \in Nat
  OBVIOUS
<1> HIDE DEF a
<1>2. q \in Nat /\ q * n <= a /\ a < q * n + n
  BY <1>1, Divided
<1> HIDE DEF q
<1>3. q * n \in Nat /\ i * n \in Nat /\ (i - 1) * n = i * n - n /\ (q + 1) * n = q * n + n
  BY <1>2
<1>4. i - 1 \in Nat /\ (i - 1) * n \in Nat
  BY TimesGrows
<1>5. ASSUME i <= q PROVE i * n <= q * n
  BY <1>2, <1>5, TimesGrows
<1>6. ASSUME ~(i <= q) PROVE (q + 1) * n <= i * n
  <2>1. q + 1 \in Nat /\ q + 1 <= i
    BY <1>2, <1>6
  <2>. QED
    BY <2>1, TimesGrows
<1>7. a = l + n - 1 - p
  BY DEF a
<1>8. i <= q <=> (i - 1) * n + p + 1 <= l
  <2> DEFINE x == i * n
             y == q * n
  <2>1. x \in Nat /\ y \in Nat /\ (i - 1) * n = x - n /\ y <= a /\ a < y + n
    BY <1>2, <1>3
  <2>2. (i <= q => x <= y) /\ (~(i <= q) => y + n <= x)
    BY <1>3, <1>5, <1>6
  <2> HIDE DEF x, y
  <2>. QED
    BY <1>7, <2>1, <2>2
<1>. QED
  BY <1>2, <1>4, <1>8 DEF q, a

LEMMA DealtOnce ==
  ASSUME NEW n \in Nat \ {0}, NEW p \in 0..(n - 1), NEW r \in 0..(n - 1), NEW i \in Nat, NEW j \in Nat,
         i * n + p = j * n + r
  PROVE  i = j /\ p = r
<1>1. i * n \in Nat /\ j * n \in Nat /\ (i + 1) * n = i * n + n /\ (j + 1) * n = j * n + n
  OBVIOUS
<1>2. ~(i < j)
  <2>1. SUFFICES ASSUME i < j PROVE FALSE
    OBVIOUS
  <2>2. i + 1 \in Nat /\ i + 1 <= j
    BY <2>1
  <2>3. (i + 1) * n <= j * n
    BY <2>2, TimesGrows
  <2>. QED
    BY <1>1, <2>3
<1>3. ~(j < i)
  <2>1. SUFFICES ASSUME j < i PROVE FALSE
    OBVIOUS
  <2>2. j + 1 \in Nat /\ j + 1 <= i
    BY <2>1
  <2>3. (j + 1) * n <= i * n
    BY <2>2, TimesGrows
  <2>. QED
    BY <1>1, <2>3
<1>4. i = j
  BY <1>2, <1>3
<1>. QED
  BY <1>1, <1>4

\* A deck that is dealt out has each card at one place.
LEMMA TrainDeal ==
  ASSUME NEW n \in Nat, NEW d \in [1..n -> 1..n], \A a, b \in 1..n : d[a] = d[b] => a = b,
         NEW c \in 1..n
  PROVE  \E a \in 1..n : d[a] = c
<1>1. d \in Injection(1..n, 1..n)
  BY DEF Injection, IsInjective
<1>2. IsFiniteSet(1..n)
  BY CountFinite
<1>3. d \in Surjection(1..n, 1..n)
  BY <1>1, <1>2, FS_Injection
<1>. QED
  BY <1>3 DEF Surjection

LEMMA Listed ==
  ASSUME NEW C, NEW n \in Nat, NEW f \in [1..n -> C]
  PROVE  f \in Seq(C) /\ Len(f) = n
OBVIOUS

LEMMA TrainInit ==
  ASSUME GamesAssumption, Train!Init
  PROVE  TrainInv(g)
<1> DEFINE N == Len(TrainDeck)
<1>1. PICK deck \in [Train!Cards -> Train!Cards] :
        /\ \A a, b \in DOMAIN deck : deck[a] = deck[b] => a = b
        /\ g = LET hand(p) == [i \in 1..((Len(deck) + SeatCount - 1 - p) \div SeatCount) |->
                                 deck[(i - 1) * SeatCount + p + 1]]
                   hands == [p \in Train!Players |-> hand(p)]
               IN [hands |-> hands, table |-> <<>>, active |-> Train!Players, turn |-> 0,
                   actions |-> 0, seen |-> {<<0, Train!Players, <<>>, hands>>},
                   result |-> Train!NoResult]
  BY DEF Train!Init, Train!IsInjective
<1>2. /\ N \in Nat /\ N >= SeatCount /\ SeatCount \in Nat \ {0} /\ SeatCount >= 2
      /\ Train!Cards = 1..N /\ Train!Players = TrainSeats
  BY TrainSeated DEF GamesAssumption, DeckAssumption
<1> HIDE DEF N
<1>3. deck \in [1..N -> 1..N] /\ DOMAIN deck = 1..N /\ Len(deck) = N
  BY <1>2
<1> DEFINE q == [p \in TrainSeats |-> (N + SeatCount - 1 - p) \div SeatCount]
           hands == [p \in TrainSeats |-> [i \in 1..q[p] |-> deck[(i - 1) * SeatCount + p + 1]]]
<1>4. g = [hands |-> hands, table |-> <<>>, active |-> TrainSeats, turn |-> 0,
           actions |-> 0, seen |-> {<<0, TrainSeats, <<>>, hands>>},
           result |-> [over |-> FALSE]]
  BY <1>1, <1>2, <1>3 DEF Train!NoResult
<1>5. ASSUME NEW p \in TrainSeats, NEW i \in Nat, i >= 1
      PROVE  /\ q[p] \in Nat /\ (i <= q[p] <=> (i - 1) * SeatCount + p + 1 <= N)
             /\ (i - 1) * SeatCount + p + 1 \in Nat /\ (i - 1) * SeatCount + p + 1 >= 1
  <2>1. SeatCount \in Nat \ {0} /\ N \in Nat /\ p \in 0..(SeatCount - 1) /\ i \in Nat /\ i >= 1
    BY <1>2, <1>5 DEF TrainSeats
  <2>2. /\ (N + SeatCount - 1 - p) \div SeatCount \in Nat
        /\ i <= (N + SeatCount - 1 - p) \div SeatCount <=> (i - 1) * SeatCount + p + 1 <= N
        /\ (i - 1) * SeatCount + p + 1 \in Nat /\ (i - 1) * SeatCount + p + 1 >= 1
    BY ONLY <2>1, DealtIn
  <2>3. q[p] = (N + SeatCount - 1 - p) \div SeatCount
    OBVIOUS
  <2>. QED
    BY <2>2, <2>3
<1>6. \A p \in TrainSeats : hands[p] = [i \in 1..q[p] |-> deck[(i - 1) * SeatCount + p + 1]]
  OBVIOUS
<1>7. hands = [p \in TrainSeats |-> hands[p]]
  OBVIOUS
<1> HIDE DEF q, hands
<1>8. \A p \in TrainSeats : q[p] \in Nat
  BY <1>5
<1>9. \A p \in TrainSeats, i \in Nat :
        i >= 1 /\ i <= q[p] => (i - 1) * SeatCount + p + 1 \in 1..N
  BY <1>2, <1>5
<1>10. \A p \in TrainSeats : hands[p] \in Seq(1..N) /\ Len(hands[p]) = q[p]
  <2>1. SUFFICES ASSUME NEW p \in TrainSeats PROVE hands[p] \in Seq(1..N) /\ Len(hands[p]) = q[p]
    OBVIOUS
  <2>2. q[p] \in Nat
    BY <1>8
  <2>3. \A i \in 1..q[p] : deck[(i - 1) * SeatCount + p + 1] \in 1..N
    BY <1>3, <1>9, <2>2
  <2>4. hands[p] \in [1..q[p] -> 1..N]
    BY <1>6, <2>3
  <2>. QED
    BY ONLY <2>2, <2>4, Listed
<1>11. hands \in TrainPiles
  BY <1>2, <1>7, <1>10 DEF TrainPiles
<1>12. \A p \in TrainSeats : hands[p] # <<>>
  <2>1. SUFFICES ASSUME NEW p \in TrainSeats PROVE hands[p] # <<>>
    OBVIOUS
  <2>2. (1 - 1) * SeatCount + p + 1 <= N
    BY <1>2 DEF TrainSeats
  <2>3. 1 <= q[p]
    BY <1>5, <2>2
  <2>. QED
    BY <1>8, <1>10, <2>3
<1>13. 0 \in TrainSeats /\ 1 \in TrainSeats /\ 0 # 1
  BY <1>2 DEF TrainSeats
<1>14. TrainCounted(hands, <<>>)
  <2>1. SUFFICES ASSUME NEW c \in 1..N
                 PROVE  \E x : /\ TrainHeld(hands, <<>>, x) /\ TrainCard(hands, <<>>, x) = c
                               /\ \A y : TrainHeld(hands, <<>>, y) /\ TrainCard(hands, <<>>, y) = c
                                           => y = x
    BY <1>2 DEF TrainCounted
  <2>2. PICK a \in 1..N : deck[a] = c
    <3>1. \A a, b \in 1..N : deck[a] = deck[b] => a = b
      BY <1>1, <1>3
    <3>2. N \in Nat /\ deck \in [1..N -> 1..N] /\ c \in 1..N
      BY <1>2, <1>3
    <3>. QED
      BY ONLY <3>1, <3>2, TrainDeal, SMTT(30)
  <2> DEFINE j == (a - 1) \div SeatCount
             r == (a - 1) - j * SeatCount
  <2>3. j \in Nat /\ j * SeatCount <= a - 1 /\ a - 1 < j * SeatCount + SeatCount /\ a - 1 \in Nat
    <3>1. a - 1 \in Nat /\ SeatCount \in Nat \ {0}
      BY <1>2
    <3>. QED
      BY ONLY <3>1, Divided
  <2> HIDE DEF j
  <2>4. j * SeatCount \in Nat
    BY <1>2, <2>3
  <2>5. r \in TrainSeats /\ r # -1 /\ j * SeatCount + r + 1 = a /\ j * SeatCount + r = a - 1
    BY <1>2, <2>3, <2>4 DEF TrainSeats
  <2> HIDE DEF r
  <2>13. \A p \in TrainSeats : p \in TrainTurns /\ TrainPile(hands, <<>>, p) = hands[p]
    BY TrainSeated DEF TrainTurns, TrainPile
  <2>6. \A p \in TrainSeats, i \in Nat :
          TrainHeld(hands, <<>>, <<p, i>>) <=> i >= 1 /\ i <= q[p]
    <3>1. SUFFICES ASSUME NEW p \in TrainSeats, NEW i \in Nat
                   PROVE  TrainHeld(hands, <<>>, <<p, i>>) <=> i >= 1 /\ i <= q[p]
      OBVIOUS
    <3>2. /\ p \in TrainTurns /\ i \in Nat
          /\ Len(TrainPile(hands, <<>>, p)) = q[p]
      BY <1>10, <2>13, <3>1
    <3>. QED
      BY ONLY <3>2, TrainHeldIs
  <2>7. \A p \in TrainSeats, i \in Nat : i >= 1 /\ i <= q[p] =>
          TrainCard(hands, <<>>, <<p, i>>) = deck[(i - 1) * SeatCount + p + 1]
    <3>1. SUFFICES ASSUME NEW p \in TrainSeats, NEW i \in Nat, i >= 1 /\ i <= q[p]
                   PROVE  TrainCard(hands, <<>>, <<p, i>>) = deck[(i - 1) * SeatCount + p + 1]
      OBVIOUS
    <3>2. TrainCard(hands, <<>>, <<p, i>>) = hands[p][i]
      BY <2>13, TrainHeldIs
    <3>3. i \in 1..q[p]
      BY <1>8, <3>1
    <3>. QED
      BY <1>6, <3>2, <3>3, ZenonT(60)
  <2> DEFINE e == j + 1
  <2>8. e \in Nat /\ e >= 1 /\ e - 1 = j
    BY <2>3
  <2> HIDE DEF e
  <2>9. e <= q[r]
    <3>1. (e - 1) * SeatCount + r + 1 = a
      BY <2>5, <2>8
    <3>2. (e - 1) * SeatCount + r + 1 <= N
      BY <1>2, <3>1
    <3>. QED
      BY <1>5, <2>5, <2>8, <3>2
  <2>10. TrainHeld(hands, <<>>, <<r, e>>)
    BY <2>5, <2>6, <2>8, <2>9
  <2>11. TrainCard(hands, <<>>, <<r, e>>) = c
    <3>1. (e - 1) * SeatCount + r + 1 = a
      BY <2>5, <2>8
    <3>2. TrainCard(hands, <<>>, <<r, e>>) = deck[(e - 1) * SeatCount + r + 1]
      BY <2>5, <2>7, <2>8, <2>9
    <3>. QED
      BY <2>2, <3>1, <3>2
  <2>12. ASSUME NEW y, TrainHeld(hands, <<>>, y), TrainCard(hands, <<>>, y) = c
         PROVE  y = <<r, e>>
    <3>1. PICK p \in TrainTurns, i \in Nat : y = <<p, i>>
      BY <2>12, TrainHeldPair
    <3>2. p # -1
      BY <2>12, <3>1 DEF TrainHeld, TrainPile
    <3>3. p \in TrainSeats
      BY <3>1, <3>2 DEF TrainTurns
    <3>4. i >= 1 /\ i <= q[p]
      BY <2>6, <2>12, <3>1, <3>3
    <3>5. deck[(i - 1) * SeatCount + p + 1] = c /\ (i - 1) * SeatCount + p + 1 \in 1..N
      BY <1>9, <2>7, <2>12, <3>1, <3>3, <3>4
    <3>6. (i - 1) * SeatCount + p + 1 = a
      BY <1>1, <1>3, <2>2, <3>5
    <3>7. i - 1 \in Nat /\ (i - 1) * SeatCount \in Nat
      <4>1. i - 1 \in Nat /\ SeatCount \in Nat
        BY <1>2, <3>4
      <4>. QED
        BY <4>1
    <3>8. (i - 1) * SeatCount + p = j * SeatCount + r
      BY <2>4, <2>5, <3>3, <3>6, <3>7 DEF TrainSeats
    <3>9. SeatCount \in Nat \ {0} /\ p \in 0..(SeatCount - 1) /\ r \in 0..(SeatCount - 1) /\ j \in Nat
      BY <1>2, <2>3, <2>5, <3>3 DEF TrainSeats
    <3> DEFINE f == i - 1
    <3>10. f \in Nat /\ f * SeatCount + p = j * SeatCount + r
      BY <3>7, <3>8
    <3> HIDE DEF f
    <3>11. f = j /\ p = r
      BY ONLY <3>9, <3>10, DealtOnce
    <3>12. i = e
      BY <3>11, <2>3 DEF e, f
    <3>. QED
      BY <3>1, <3>11, <3>12
  <2>. QED
    BY <2>10, <2>11, <2>12
<1>15. g \in TrainStates
  <2>1. 0 \in TrainTurns /\ <<>> \in Seq(Train!Cards)
    BY <1>13 DEF TrainTurns
  <2>2. <<0, TrainSeats, <<>>, hands>> \in
          TrainTurns \X (SUBSET TrainSeats) \X Seq(Train!Cards) \X TrainPiles
    BY <1>11, <2>1
  <2>. QED
    BY <1>4, <1>11, <2>1, <2>2 DEF TrainStates
<1>16. /\ g.hands = hands /\ g.table = <<>> /\ g.active = TrainSeats /\ g.turn = 0
       /\ g.result = [over |-> FALSE]
  BY <1>4
<1>17. TrainOpen(g)
  BY <1>12, <1>13, <1>16 DEF TrainOpen
<1>18. TrainNoPair(g.table)
  BY <1>16 DEF TrainNoPair
<1>. QED
  BY <1>14, <1>15, <1>16, <1>17, <1>18 DEF TrainInv
=============================================================================
