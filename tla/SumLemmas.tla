----------------------------- MODULE SumLemmas -----------------------------
(***************************************************************************)
(* What a sum over a finite set (MapThenSumSet of FiniteSetsExt) depends   *)
(* on, for the theorems about chips.  The recursive function behind it is  *)
(* shown to exist, and each fact follows by induction on the number of     *)
(* elements, stated with sets of naturals.                                 *)
(***************************************************************************)
EXTENDS FiniteSetsExt, FiniteSetTheorems, TLAPS

Total(f, S) == MapThenSumSet(LAMBDA x : f[x], S)

Picked(s) == CHOOSE x \in s : TRUE

\* The equation of the recursive function over the subsets of one size.
Upto(S, n) == {s \in SUBSET S : Cardinality(s) <= n}
Sums(f, g, D) ==
  g = [s \in D |-> IF s = {} THEN 0 ELSE f[Picked(s)] + g[s \ {Picked(s)}]]

-----------------------------------------------------------------------------
\* A set of naturals has a least element.
THEOREM LeastNatural ==
  ASSUME NEW T \in SUBSET Nat, T # {}
  PROVE  \E x \in T : \A y \in T : x <= y
<1> DEFINE pre == {1..x : x \in T}
<1>1. pre \subseteq FiniteSubsetsOf(Nat)
  <2>1. \A x \in Nat : IsFiniteSet(1..x)
    BY FS_Interval
  <2>. QED
    BY <2>1 DEF FiniteSubsetsOf
<1>0. pre # {}
  OBVIOUS
<1>2. PICK s \in pre : \A t \in pre : ~(<<t, s>> \in StrictSubsetOrdering(Nat))
  <2> HIDE DEF pre
  <2>. QED
    BY <1>0, <1>1, FS_StrictSubsetOrderingWellFounded, WFMin
<1>3. PICK x \in T : s = 1..x
  BY <1>2
<1>4. ASSUME NEW y \in T, y < x PROVE FALSE
  <2>1. 1..y \in pre
    OBVIOUS
  <2>2. 1..y \subseteq 1..x /\ x \in 1..x /\ x \notin 1..y /\ 1..x \subseteq Nat
    BY <1>4
  <2>. QED
    BY <2>1, <2>2, <1>2, <1>3 DEF StrictSubsetOrdering
<1>5. \A y \in T : x <= y
  BY <1>4
<1>. QED
  BY <1>5

\* A set of naturals with 0 and every successor has all of them.
LEMMA SetInduction ==
  ASSUME NEW N \in SUBSET Nat, 0 \in N, \A n \in N : n + 1 \in N
  PROVE  N = Nat
<1> DEFINE bad == Nat \ N
<1>1. SUFFICES ASSUME bad # {} PROVE FALSE
  OBVIOUS
<1>2. PICK x \in bad : \A y \in bad : x <= y
  BY <1>1, LeastNatural
<1>3. x - 1 \in N
  BY <1>2
<1>4. (x - 1) + 1 \in N
  BY <1>3
<1>. QED
  BY <1>2, <1>4

\* A finite set of naturals has a greatest element.
THEOREM LargestNatural ==
  ASSUME NEW T \in SUBSET Nat, IsFiniteSet(T), T # {}
  PROVE  \E x \in T : \A y \in T : x >= y
<1> DEFINE Topped(s) == \E x \in s : \A y \in s : x >= y
           N == {n \in Nat : \A s \in SUBSET T : s # {} /\ Cardinality(s) <= n => Topped(s)}
<1>0. \A s \in SUBSET T : IsFiniteSet(s) /\ Cardinality(s) \in Nat
  BY FS_Subset, FS_CardinalityType
<1>1. 0 \in N
  <2>1. \A s \in SUBSET T : Cardinality(s) <= 0 => s = {}
    <3> HIDE DEF Topped
    <3>. QED
      BY <1>0, FS_EmptySet
  <2>. QED
    BY <2>1
<1>2. ASSUME NEW n \in N PROVE n + 1 \in N
  <2>1. ASSUME NEW s \in SUBSET T, s # {}, Cardinality(s) <= n + 1 PROVE Topped(s)
    <3>1. PICK a \in s : TRUE
      BY <2>1
    <3>2. s \ {a} \in SUBSET T /\ Cardinality(s \ {a}) <= n
      <4>1. Cardinality(s \ {a}) = Cardinality(s) - 1
        BY <1>0, FS_RemoveElement
      <4>. QED
        BY <1>0, <2>1, <4>1
    <3>3. CASE s \ {a} = {}
      BY <3>3
    <3>4. CASE s \ {a} # {}
      <4>1. Topped(s \ {a})
        <5> HIDE DEF Topped
        <5>. QED
          BY <3>2, <3>4
      <4>. QED
        BY <4>1
    <3>. QED
      BY <3>3, <3>4
  <2>2. n + 1 \in Nat
    OBVIOUS
  <2>. QED
    <3> HIDE DEF Topped
    <3>. QED
      BY <2>1, <2>2
<1>3. N \subseteq Nat
  OBVIOUS
<1>4. Cardinality(T) \in N
  <2>1. N = Nat
    <3> HIDE DEF N
    <3>. QED
      BY <1>1, <1>2, <1>3, SetInduction
  <2>. QED
    BY <2>1, FS_CardinalityType
<1>5. Topped(T)
  <2> HIDE DEF Topped
  <2>1. Cardinality(T) <= Cardinality(T)
    BY FS_CardinalityType
  <2>. QED
    BY <1>4, <2>1
<1>. QED
  BY <1>5

-----------------------------------------------------------------------------
LEMMA PickedLess ==
  ASSUME NEW S, IsFiniteSet(S), NEW s \in SUBSET S, s # {}
  PROVE  /\ Picked(s) \in s
         /\ s \ {Picked(s)} \in SUBSET S
         /\ Cardinality(s) \in Nat /\ Cardinality(s) # 0
         /\ Cardinality(s \ {Picked(s)}) = Cardinality(s) - 1
<1>1. Picked(s) \in s
  BY DEF Picked
<1>2. IsFiniteSet(s)
  BY FS_Subset
<1>. QED
  BY <1>1, <1>2, FS_CardinalityType, FS_RemoveElement, FS_EmptySet

\* The recursive function of a sum exists.
LEMMA SumsExist ==
  ASSUME NEW S, IsFiniteSet(S), NEW f, \A x \in S : f[x] \in Int
  PROVE  \E g \in [SUBSET S -> Int] : Sums(f, g, SUBSET S)
<1> DEFINE N == {n \in Nat : \E g \in [Upto(S, n) -> Int] : Sums(f, g, Upto(S, n))}
<1>1. 0 \in N
  <2> DEFINE g == [s \in Upto(S, 0) |-> 0]
  <2>1. \A s \in Upto(S, 0) : s = {}
    BY FS_Subset, FS_CardinalityType, FS_EmptySet DEF Upto
  <2>2. Sums(f, g, Upto(S, 0))
    BY <2>1 DEF Sums
  <2>. QED
    BY <2>2
<1>2. ASSUME NEW n \in N PROVE n + 1 \in N
  <2>1. PICK g \in [Upto(S, n) -> Int] : Sums(f, g, Upto(S, n))
    OBVIOUS
  <2> DEFINE h == [s \in Upto(S, n + 1) |->
                     IF s = {} THEN 0 ELSE f[Picked(s)] + g[s \ {Picked(s)}]]
  <2>2. ASSUME NEW s \in Upto(S, n + 1), s # {}
        PROVE  Picked(s) \in S /\ s \ {Picked(s)} \in Upto(S, n)
    BY <2>2, PickedLess DEF Upto
  <2>3. h \in [Upto(S, n + 1) -> Int]
    BY <2>2
  <2>4. ASSUME NEW s \in Upto(S, n) PROVE s \in Upto(S, n + 1) /\ h[s] = g[s]
    <3>1. s \in Upto(S, n + 1)
      BY FS_Subset, FS_CardinalityType DEF Upto
    <3>2. g[s] = IF s = {} THEN 0 ELSE f[Picked(s)] + g[s \ {Picked(s)}]
      BY <2>1 DEF Sums
    <3>. QED
      BY <3>1, <3>2
  <2>5. Sums(f, h, Upto(S, n + 1))
    <3>1. \A s \in Upto(S, n + 1) :
            h[s] = IF s = {} THEN 0 ELSE f[Picked(s)] + h[s \ {Picked(s)}]
      BY <2>2, <2>4
    <3>. QED
      BY <3>1 DEF Sums
  <2>6. \E d \in [Upto(S, n + 1) -> Int] : Sums(f, d, Upto(S, n + 1))
    <3> HIDE DEF h
    <3>. QED
      BY <2>3, <2>5
  <2>7. n + 1 \in Nat
    OBVIOUS
  <2>. QED
    BY <2>6, <2>7
<1>3. N = Nat
  BY <1>1, <1>2, SetInduction
<1>4. Cardinality(S) \in N /\ Upto(S, Cardinality(S)) = SUBSET S
  BY <1>3, FS_CardinalityType, FS_Subset DEF Upto
<1>. QED
  BY <1>4

\* Every solution of the equation has integer values.
LEMMA SumsTyped ==
  ASSUME NEW S, IsFiniteSet(S), NEW f, \A x \in S : f[x] \in Int, NEW g, Sums(f, g, SUBSET S)
  PROVE  g \in [SUBSET S -> Int]
<1> DEFINE N == {n \in Nat : \A s \in SUBSET S : Cardinality(s) <= n => g[s] \in Int}
<1>0. \A s \in SUBSET S :
        g[s] = IF s = {} THEN 0 ELSE f[Picked(s)] + g[s \ {Picked(s)}]
  BY Zenon DEF Sums
<1>1. g[{}] = 0
  BY <1>0, Zenon
<1>5. \A s \in SUBSET S : s # {} => g[s] = f[Picked(s)] + g[s \ {Picked(s)}]
  BY <1>0, Zenon
<1>2. 0 \in N
  <2>1. \A s \in SUBSET S : Cardinality(s) <= 0 => s = {}
    BY FS_Subset, FS_CardinalityType, FS_EmptySet
  <2>2. \A s \in SUBSET S : Cardinality(s) <= 0 => g[s] = 0
    BY <1>1, <2>1, Zenon
  <2>. QED
    BY <2>2
<1>3. ASSUME NEW n \in N PROVE n + 1 \in N
  <2>1. ASSUME NEW s \in SUBSET S, Cardinality(s) <= n + 1, s # {} PROVE g[s] \in Int
    <3>1. s \ {Picked(s)} \in SUBSET S /\ Cardinality(s \ {Picked(s)}) <= n
      BY <2>1, PickedLess
    <3>2. f[Picked(s)] \in Int
      BY <2>1, PickedLess
    <3>3. g[s \ {Picked(s)}] \in Int
      BY <3>1
    <3>4. g[s] = f[Picked(s)] + g[s \ {Picked(s)}]
      BY <1>5, <2>1, Zenon
    <3>5. f[Picked(s)] + g[s \ {Picked(s)}] \in Int
      BY <3>2, <3>3
    <3>. QED
      BY <3>4, <3>5, Zenon
  <2>2. g[{}] \in Int
    BY <1>1
  <2>3. \A s \in SUBSET S : Cardinality(s) <= n + 1 => g[s] \in Int
    BY <2>1, <2>2
  <2>4. n + 1 \in Nat
    OBVIOUS
  <2>. QED
    BY <2>3, <2>4
<1>4. Cardinality(S) \in N
  <2> N \subseteq Nat
    OBVIOUS
  <2> HIDE DEF N
  <2>1. N = Nat
    BY <1>2, <1>3, SetInduction
  <2>. QED
    BY <2>1, FS_CardinalityType
<1>6. \A s \in SUBSET S : g[s] \in Int
  BY <1>4, FS_Subset
<1>7. g = [s \in SUBSET S |-> g[s]]
  BY DEF Sums
<1>. QED
  BY <1>6, <1>7

\* The total is the value of such a function.
LEMMA TotalIs ==
  ASSUME NEW S, IsFiniteSet(S), NEW f, \A x \in S : f[x] \in Int
  PROVE  \E g \in [SUBSET S -> Int] : Sums(f, g, SUBSET S) /\ Total(f, S) = g[S]
<1> DEFINE Def(g) == g = [s \in SUBSET S |->
                            IF s = {} THEN 0
                            ELSE f[CHOOSE x \in s : TRUE] + g[s \ {CHOOSE x \in s : TRUE}]]
           it == CHOOSE g : Def(g)
<1>1. \A g : Def(g) <=> Sums(f, g, SUBSET S)
  BY Zenon DEF Sums, Picked
<1>2. \E g : Sums(f, g, SUBSET S)
  BY SumsExist
<1>3. \E g : Def(g)
  <2> HIDE DEF Def
  <2>. QED
    BY <1>1, <1>2
<1>4. Def(it)
  <2> HIDE DEF Def
  <2>. QED
    BY <1>3
<1>5. Total(f, S) = it[S]
  BY DEF Total, MapThenSumSet, MapThenFoldSet
<1>6. Sums(f, it, SUBSET S)
  <2> HIDE DEF Def
  <2>. QED
    BY <1>1, <1>4
<1>7. it \in [SUBSET S -> Int]
  <2> HIDE DEF it
  <2>. QED
    BY <1>6, SumsTyped
<1>. QED
  <2> HIDE DEF it
  <2>. QED
    BY <1>5, <1>6, <1>7

\* Two functions that agree have solutions that agree, whatever the set they
\* range over.
Solves(f, g, S) ==
  /\ IsFiniteSet(S)
  /\ \A x \in S : f[x] \in Int
  /\ g \in [SUBSET S -> Int]
  /\ Sums(f, g, SUBSET S)
Alike(f, e, U) == \A x \in U : f[x] = e[x]

LEMMA SumsAgree ==
  ASSUME NEW S, NEW T, NEW f, NEW g, NEW e, NEW h, NEW U,
         Solves(f, g, S), Solves(e, h, T), U \subseteq S, U \subseteq T, Alike(f, e, U)
  PROVE  g[U] = h[U]
<1> USE DEF Solves, Alike
<1> DEFINE N == {n \in Nat : \A s \in SUBSET U : Cardinality(s) <= n => g[s] = h[s]}
<1>1. \A s \in SUBSET U :
        /\ g[s] = IF s = {} THEN 0 ELSE f[Picked(s)] + g[s \ {Picked(s)}]
        /\ h[s] = IF s = {} THEN 0 ELSE e[Picked(s)] + h[s \ {Picked(s)}]
  <2>1. SUBSET U \subseteq SUBSET S /\ SUBSET U \subseteq SUBSET T
    OBVIOUS
  <2>. QED
    BY <2>1 DEF Sums
<1>2. IsFiniteSet(U)
  BY FS_Subset
<1>3. 0 \in N
  <2>1. \A s \in SUBSET U : Cardinality(s) <= 0 => s = {}
    BY <1>2, FS_Subset, FS_CardinalityType, FS_EmptySet
  <2>. QED
    BY <1>1, <2>1
<1>4. ASSUME NEW n \in N PROVE n + 1 \in N
  <2>1. ASSUME NEW s \in SUBSET U, Cardinality(s) <= n + 1, s # {} PROVE g[s] = h[s]
    <3>1. s \ {Picked(s)} \in SUBSET U /\ Cardinality(s \ {Picked(s)}) <= n /\ Picked(s) \in U
      BY <1>2, <2>1, PickedLess
    <3>2. g[s \ {Picked(s)}] = h[s \ {Picked(s)}]
      BY <3>1
    <3>. QED
      BY <1>1, <2>1, <3>1, <3>2
  <2>2. g[{}] = h[{}]
    BY <1>1
  <2>3. \A s \in SUBSET U : Cardinality(s) <= n + 1 => g[s] = h[s]
    BY <2>1, <2>2
  <2>4. n + 1 \in Nat
    OBVIOUS
  <2>. QED
    BY <2>3, <2>4
<1>5. Cardinality(U) \in N
  <2> N \subseteq Nat
    OBVIOUS
  <2> HIDE DEF N
  <2>1. N = Nat
    BY <1>3, <1>4, SetInduction
  <2>. QED
    BY <1>2, <2>1, FS_CardinalityType
<1>. QED
  BY <1>2, <1>5, FS_CardinalityType

-----------------------------------------------------------------------------
\* A sum of integers is an integer; the sum over no element is zero.
THEOREM TotalType ==
  ASSUME NEW S, IsFiniteSet(S), NEW f, \A x \in S : f[x] \in Int
  PROVE  Total(f, S) \in Int
<1>1. PICK g \in [SUBSET S -> Int] : Total(f, S) = g[S]
  BY TotalIs
<1>. QED
  BY <1>1

THEOREM TotalEmpty == ASSUME NEW f PROVE Total(f, {}) = 0
<1>1. IsFiniteSet({}) /\ \A x \in {} : f[x] \in Int
  BY FS_EmptySet
<1>2. PICK g \in [SUBSET {} -> Int] : Sums(f, g, SUBSET {}) /\ Total(f, {}) = g[{}]
  BY <1>1, TotalIs
<1>3. g[{}] = 0
  BY <1>2, Zenon DEF Sums
<1>. QED
  BY <1>2, <1>3

\* Only the values at the elements of the set matter.
THEOREM TotalSame ==
  ASSUME NEW S, IsFiniteSet(S), NEW f, NEW e,
         \A x \in S : f[x] \in Int /\ e[x] = f[x]
  PROVE  Total(e, S) = Total(f, S)
<1>1. PICK g \in [SUBSET S -> Int] : Sums(f, g, SUBSET S) /\ Total(f, S) = g[S]
  BY TotalIs
<1>2. PICK h \in [SUBSET S -> Int] : Sums(e, h, SUBSET S) /\ Total(e, S) = h[S]
  BY TotalIs
<1>3. Solves(f, g, S) /\ Solves(e, h, S) /\ Alike(f, e, S)
  BY <1>1, <1>2 DEF Solves, Alike
<1>4. g[S] = h[S]
  BY <1>3, SumsAgree
<1>. QED
  BY <1>1, <1>2, <1>4

\* A sum is taken in any order: one element, then the others.
THEOREM TotalRemove ==
  ASSUME NEW S, IsFiniteSet(S), NEW f, \A x \in S : f[x] \in Int, NEW a \in S
  PROVE  Total(f, S) = f[a] + Total(f, S \ {a})
<1>1. PICK g \in [SUBSET S -> Int] : Sums(f, g, SUBSET S) /\ Total(f, S) = g[S]
  BY TotalIs
<1> DEFINE N == {n \in Nat : \A s \in SUBSET S : Cardinality(s) <= n =>
                   \A x \in s : g[s] = f[x] + g[s \ {x}]}
<1>2. \A s \in SUBSET S : s # {} => g[s] = f[Picked(s)] + g[s \ {Picked(s)}]
  BY <1>1 DEF Sums
<1>3. 0 \in N
  <2>1. \A s \in SUBSET S : Cardinality(s) <= 0 => s = {}
    BY FS_Subset, FS_CardinalityType, FS_EmptySet
  <2>. QED
    BY <2>1
<1>4. ASSUME NEW n \in N PROVE n + 1 \in N
  <2>1. ASSUME NEW s \in SUBSET S, Cardinality(s) <= n + 1, NEW x \in s
        PROVE  g[s] = f[x] + g[s \ {x}]
    <3> DEFINE c == Picked(s)
    <3>1. /\ c \in s /\ s \ {c} \in SUBSET S /\ s \ {x} \in SUBSET S
          /\ Cardinality(s \ {c}) <= n
          /\ Cardinality(s \ {x}) <= n
      <4>1. s # {} /\ IsFiniteSet(s)
        BY FS_Subset
      <4>2. Cardinality(s \ {x}) = Cardinality(s) - 1
        BY <4>1, FS_RemoveElement
      <4>. QED
        BY <2>1, <4>1, <4>2, PickedLess
    <3>2. CASE x = c
      BY <1>2, <3>2
    <3>3. CASE x # c
      <4>1. x \in s \ {c} /\ c \in s \ {x}
        BY <3>1, <3>3
      <4>2. g[s \ {c}] = f[x] + g[(s \ {c}) \ {x}]
        BY <3>1, <4>1
      <4>3. g[s \ {x}] = f[c] + g[(s \ {x}) \ {c}]
        BY <3>1, <4>1
      <4>4. (s \ {c}) \ {x} = (s \ {x}) \ {c} /\ (s \ {c}) \ {x} \in SUBSET S
        OBVIOUS
      <4>5. g[s] = f[c] + g[s \ {c}]
        BY <1>2
      <4>6. f[c] \in Int /\ f[x] \in Int /\ g[(s \ {c}) \ {x}] \in Int
        BY <3>1, <4>4
      <4>7. g[s \ {c}] = f[x] + g[(s \ {x}) \ {c}]
        BY <4>2, <4>4
      <4>8. g[(s \ {x}) \ {c}] \in Int
        BY <4>4, <4>6
      <4> HIDE DEF c
      <4>. QED
        BY <4>3, <4>5, <4>6, <4>7, <4>8
    <3>. QED
      BY <3>2, <3>3
  <2>2. \A s \in SUBSET S : Cardinality(s) <= n + 1 =>
          \A x \in s : g[s] = f[x] + g[s \ {x}]
    BY <2>1
  <2>3. n + 1 \in Nat
    OBVIOUS
  <2>. QED
    BY <2>2, <2>3
<1>5. g[S] = f[a] + g[S \ {a}]
  <2>1. N \subseteq Nat
    OBVIOUS
  <2>2. N = Nat
    <3> HIDE DEF N
    <3>. QED
      BY <1>3, <1>4, <2>1, SetInduction
  <2>3. Cardinality(S) \in N
    BY <2>2, FS_CardinalityType
  <2>4. Cardinality(S) <= Cardinality(S)
    BY FS_CardinalityType
  <2>. QED
    BY <2>3, <2>4
<1>6. Total(f, S \ {a}) = g[S \ {a}]
  <2>1. IsFiniteSet(S \ {a}) /\ \A x \in S \ {a} : f[x] \in Int
    BY FS_RemoveElement
  <2>2. PICK h \in [SUBSET (S \ {a}) -> Int] :
          Sums(f, h, SUBSET (S \ {a})) /\ Total(f, S \ {a}) = h[S \ {a}]
    BY <2>1, TotalIs
  <2>3. Solves(f, g, S) /\ Solves(f, h, S \ {a}) /\ Alike(f, f, S \ {a})
    BY <1>1, <2>1, <2>2 DEF Solves, Alike
  <2>4. S \ {a} \subseteq S /\ S \ {a} \subseteq S \ {a}
    OBVIOUS
  <2>5. g[S \ {a}] = h[S \ {a}]
    <3> HIDE DEF N
    <3>. QED
      BY <2>3, <2>4, SumsAgree
  <2>. QED
    BY <2>2, <2>5
<1>. QED
  BY <1>1, <1>5, <1>6

\* One value changes, and the sum by as much.
THEOREM TotalUpdate ==
  ASSUME NEW S, IsFiniteSet(S), NEW f, NEW e, NEW a \in S,
         \A x \in S : f[x] \in Int, e[a] \in Int,
         \A x \in S \ {a} : e[x] = f[x]
  PROVE  Total(e, S) = Total(f, S) + e[a] - f[a]
<1>1. \A x \in S : e[x] \in Int
  OBVIOUS
<1>2. IsFiniteSet(S \ {a})
  BY FS_RemoveElement
<1>3. Total(e, S) = e[a] + Total(e, S \ {a}) /\ Total(f, S) = f[a] + Total(f, S \ {a})
  BY <1>1, TotalRemove
<1>4. Total(e, S \ {a}) = Total(f, S \ {a})
  BY <1>2, TotalSame
<1>5. Total(f, S \ {a}) \in Int
  BY <1>2, TotalType
<1>. QED
  BY <1>3, <1>4, <1>5

\* A value for each element of a set, and zero outside.
THEOREM TotalLevels ==
  ASSUME NEW S, IsFiniteSet(S), NEW f, NEW A \in SUBSET S, NEW c \in Int,
         \A x \in A : f[x] = c, \A x \in S \ A : f[x] \in Int
  PROVE  Total(f, S) = Cardinality(A) * c + Total(f, S \ A)
<1> DEFINE Level(s) == Total(f, S) = Cardinality(s) * c + Total(f, S \ s)
           N == {n \in Nat : \A s \in SUBSET A : Cardinality(s) <= n => Level(s)}
<1>0. /\ IsFiniteSet(A) /\ \A x \in S : f[x] \in Int
      /\ \A s \in SUBSET S : IsFiniteSet(s) /\ Cardinality(s) \in Nat
  BY FS_Subset, FS_CardinalityType
<1>1. 0 \in N
  <2>1. ASSUME NEW s \in SUBSET A, Cardinality(s) <= 0 PROVE Level(s)
    <3>1. s = {} /\ S \ s = S /\ Cardinality(s) = 0
      BY <1>0, <2>1, FS_EmptySet
    <3>2. Total(f, S) \in Int
      BY <1>0, TotalType
    <3>. QED
      BY <3>1, <3>2
  <2>. QED
    <3> HIDE DEF Level
    <3>. QED
      BY <2>1
<1>2. ASSUME NEW n \in N PROVE n + 1 \in N
  <2>1. ASSUME NEW s \in SUBSET A, Cardinality(s) <= n + 1 PROVE Level(s)
    <3>1. CASE s = {}
      <4>1. S \ s = S /\ Cardinality(s) = 0 /\ Total(f, S) \in Int
        BY <1>0, <3>1, FS_EmptySet, TotalType
      <4>. QED
        BY <4>1
    <3>2. CASE s # {}
      <4>1. PICK a \in s : TRUE
        BY <3>2
      <4> DEFINE u == s \ {a}
      <4>2. u \in SUBSET A /\ Cardinality(u) = Cardinality(s) - 1
        BY <1>0, FS_RemoveElement
      <4>3. Level(u)
        <5>1. Cardinality(u) <= n
          BY <1>0, <2>1, <4>2
        <5> HIDE DEF Level, u
        <5>. QED
          BY <4>2, <5>1
      <4>4. IsFiniteSet(S \ u) /\ a \in S \ u /\ (S \ u) \ {a} = S \ s
        BY <1>0
      <4>5. Total(f, S \ u) = c + Total(f, S \ s)
        <5>1. \A x \in S \ u : f[x] \in Int
          BY <1>0
        <5>2. Total(f, S \ u) = f[a] + Total(f, (S \ u) \ {a})
          BY <4>4, <5>1, TotalRemove
        <5>. QED
          BY <4>4, <5>2
      <4>6. Total(f, S \ s) \in Int
        BY <1>0, FS_Difference, TotalType
      <4>7. Total(f, S) = (Cardinality(s) - 1) * c + (c + Total(f, S \ s))
        BY <4>2, <4>3, <4>5
      <4>8. \A k \in Int, w \in Int : (k - 1) * c + (c + w) = k * c + w
        OBVIOUS
      <4>. QED
        BY <1>0, <4>6, <4>7, <4>8
    <3>. QED
      BY <3>1, <3>2
  <2>2. n + 1 \in Nat
    OBVIOUS
  <2>. QED
    <3> HIDE DEF Level
    <3>. QED
      BY <2>1, <2>2
<1>3. N \subseteq Nat
  OBVIOUS
<1>4. N = Nat
  <2> HIDE DEF N
  <2>. QED
    BY <1>1, <1>2, <1>3, SetInduction
<1>5. Level(A)
  <2> HIDE DEF Level
  <2>1. Cardinality(A) \in N /\ Cardinality(A) <= Cardinality(A)
    BY <1>0, <1>4
  <2>. QED
    BY <2>1
<1>. QED
  BY <1>5

THEOREM TotalZero ==
  ASSUME NEW S, IsFiniteSet(S), NEW f, \A x \in S : f[x] = 0
  PROVE  Total(f, S) = 0
<1>1. S \in SUBSET S /\ 0 \in Int /\ S \ S = {} /\ \A x \in S \ S : f[x] \in Int
  OBVIOUS
<1>2. Total(f, S) = Cardinality(S) * 0 + Total(f, S \ S)
  BY <1>1, TotalLevels
<1>3. Total(f, S \ S) = 0
  BY <1>1, TotalEmpty
<1>4. Cardinality(S) \in Nat /\ \A n \in Nat : n * 0 + 0 = 0
  BY FS_CardinalityType
<1>. QED
  BY <1>2, <1>3, <1>4

-----------------------------------------------------------------------------
\* A function that satisfies the equation of a sum gives that sum.
LEMMA SolutionTotal ==
  ASSUME NEW S, IsFiniteSet(S), NEW f, \A x \in S : f[x] \in Int,
         NEW g, Sums(f, g, SUBSET S)
  PROVE  g[S] = Total(f, S)
<1>1. PICK h \in [SUBSET S -> Int] : Sums(f, h, SUBSET S) /\ Total(f, S) = h[S]
  BY TotalIs
<1>2. g \in [SUBSET S -> Int]
  BY SumsTyped
<1>3. Solves(f, g, S) /\ Solves(f, h, S) /\ Alike(f, f, S)
  BY <1>1, <1>2 DEF Solves, Alike
<1>4. g[S] = h[S]
  BY <1>3, SumsAgree
<1>. QED
  BY <1>1, <1>4

\* A sum of a column, and a sum of two functions, are such sums too.
AmountOf(S) == [e \in S |-> e.amount]
TotalAmount(S) == MapThenSumSet(LAMBDA e : e.amount, S)
Both(b, r, S) == [x \in S |-> b[x] + r[x]]
TotalOfBoth(b, r, S) == MapThenSumSet(LAMBDA x : b[x] + r[x], S)

LEMMA AmountsAreTotal ==
  ASSUME NEW S, IsFiniteSet(S), \A e \in S : e.amount \in Int
  PROVE  TotalAmount(S) = Total(AmountOf(S), S)
<1> DEFINE f == AmountOf(S)
           Def(g) == g = [s \in SUBSET S |->
                            IF s = {} THEN 0
                            ELSE (CHOOSE x \in s : TRUE).amount + g[s \ {CHOOSE x \in s : TRUE}]]
           it == CHOOSE g : Def(g)
<1>1. \A x \in S : f[x] \in Int /\ f[x] = x.amount
  BY DEF AmountOf
<1>2. \A s \in SUBSET S : s # {} => Picked(s) \in S
  BY DEF Picked
<1>3. ASSUME NEW g PROVE Def(g) <=> Sums(f, g, SUBSET S)
  <2> HIDE DEF f
  <2>1. \A s \in SUBSET S : s # {} => f[Picked(s)] = (CHOOSE x \in s : TRUE).amount
    BY <1>1, <1>2 DEF Picked
  <2>2. ASSUME NEW s \in SUBSET S
        PROVE  (IF s = {} THEN 0
                ELSE (CHOOSE x \in s : TRUE).amount + g[s \ {CHOOSE x \in s : TRUE}])
               = (IF s = {} THEN 0 ELSE f[Picked(s)] + g[s \ {Picked(s)}])
    <3>1. CASE s = {}
      BY <3>1
    <3>2. CASE s # {}
      <4> DEFINE c == CHOOSE x \in s : TRUE
      <4>1. Picked(s) = c
        BY Zenon DEF Picked
      <4>2. f[c] = c.amount
        BY <2>1, <3>2, <4>1
      <4> HIDE DEF c
      <4>3. (IF s = {} THEN 0 ELSE c.amount + g[s \ {c}])
            = (IF s = {} THEN 0 ELSE f[Picked(s)] + g[s \ {Picked(s)}])
        BY <3>2, <4>1, <4>2
      <4>. QED
        BY <4>3 DEF c
    <3>. QED
      BY <3>1, <3>2
  <2>. QED
    BY <2>2, Zenon DEF Sums
<1> HIDE DEF f
<1>4. \E g : Sums(f, g, SUBSET S)
  BY <1>1, SumsExist
<1>5. Sums(f, it, SUBSET S)
  <2> HIDE DEF Def
  <2>. QED
    BY <1>3, <1>4
<1>6. TotalAmount(S) = it[S]
  BY DEF TotalAmount, MapThenSumSet, MapThenFoldSet
<1>7. it[S] = Total(f, S)
  <2> HIDE DEF it
  <2>. QED
    BY <1>1, <1>5, SolutionTotal
<1>. QED
  BY <1>6, <1>7 DEF f

LEMMA BothAreTotal ==
  ASSUME NEW S, IsFiniteSet(S), NEW b, NEW r, \A x \in S : b[x] + r[x] \in Int
  PROVE  TotalOfBoth(b, r, S) = Total(Both(b, r, S), S)
<1> DEFINE f == Both(b, r, S)
           Def(g) == g = [s \in SUBSET S |->
                            IF s = {} THEN 0
                            ELSE (b[CHOOSE x \in s : TRUE] + r[CHOOSE x \in s : TRUE])
                                   + g[s \ {CHOOSE x \in s : TRUE}]]
           it == CHOOSE g : Def(g)
<1>1. \A x \in S : f[x] \in Int /\ f[x] = b[x] + r[x]
  BY DEF Both
<1>2. \A s \in SUBSET S : s # {} => Picked(s) \in S
  BY DEF Picked
<1>3. ASSUME NEW g PROVE Def(g) <=> Sums(f, g, SUBSET S)
  <2> HIDE DEF f
  <2>1. \A s \in SUBSET S : s # {} =>
          f[Picked(s)] = b[CHOOSE x \in s : TRUE] + r[CHOOSE x \in s : TRUE]
    BY <1>1, <1>2, Zenon DEF Picked
  <2>2. ASSUME NEW s \in SUBSET S
        PROVE  (IF s = {} THEN 0
                ELSE (b[CHOOSE x \in s : TRUE] + r[CHOOSE x \in s : TRUE]) + g[s \ {CHOOSE x \in s : TRUE}])
               = (IF s = {} THEN 0 ELSE f[Picked(s)] + g[s \ {Picked(s)}])
    <3>1. CASE s = {}
      BY <3>1
    <3>2. CASE s # {}
      <4> DEFINE c == CHOOSE x \in s : TRUE
      <4>1. Picked(s) = c
        BY Zenon DEF Picked
      <4>2. f[c] = b[c] + r[c]
        BY <2>1, <3>2, <4>1
      <4> HIDE DEF c
      <4>3. (IF s = {} THEN 0 ELSE (b[c] + r[c]) + g[s \ {c}])
            = (IF s = {} THEN 0 ELSE f[Picked(s)] + g[s \ {Picked(s)}])
        BY <3>2, <4>1, <4>2
      <4>. QED
        BY <4>3 DEF c
    <3>. QED
      BY <3>1, <3>2
  <2>. QED
    BY <2>2, Zenon DEF Sums
<1> HIDE DEF f
<1>4. \E g : Sums(f, g, SUBSET S)
  BY <1>1, SumsExist
<1>5. Sums(f, it, SUBSET S)
  <2> HIDE DEF Def
  <2>. QED
    BY <1>3, <1>4
<1>6. TotalOfBoth(b, r, S) = it[S]
  BY DEF TotalOfBoth, MapThenSumSet, MapThenFoldSet
<1>7. it[S] = Total(f, S)
  <2> HIDE DEF it
  <2>. QED
    BY <1>1, <1>5, SolutionTotal
<1>. QED
  BY <1>6, <1>7 DEF f

\* A row booked once more adds its amount.
THEOREM AmountsGrow ==
  ASSUME NEW S, IsFiniteSet(S), NEW e, e \notin S, \A x \in S \cup {e} : x.amount \in Int
  PROVE  TotalAmount(S \cup {e}) = TotalAmount(S) + e.amount
<1> DEFINE T == S \cup {e}
<1>1. IsFiniteSet(T) /\ e \in T /\ T \ {e} = S
  BY FS_AddElement
<1> HIDE DEF T
<1>2. \A x \in T : x.amount \in Int /\ AmountOf(T)[x] = x.amount
  BY DEF T, AmountOf
<1>3. \A x \in S : AmountOf(T)[x] = AmountOf(S)[x] /\ AmountOf(S)[x] \in Int
  BY <1>1, <1>2 DEF AmountOf
<1>4. TotalAmount(T) = Total(AmountOf(T), T)
  BY <1>1, <1>2, AmountsAreTotal
<1>5. TotalAmount(S) = Total(AmountOf(S), S)
  BY <1>1, <1>2, AmountsAreTotal
<1>6. Total(AmountOf(T), T) = AmountOf(T)[e] + Total(AmountOf(T), S)
  <2>1. \A x \in T : AmountOf(T)[x] \in Int
    BY <1>2
  <2>. QED
    BY <1>1, <2>1, TotalRemove
<1>7. Total(AmountOf(T), S) = Total(AmountOf(S), S)
  BY <1>3, TotalSame
<1>8. Total(AmountOf(S), S) \in Int
  BY <1>3, TotalType
<1>9. e.amount \in Int /\ AmountOf(T)[e] = e.amount
  BY <1>1, <1>2
<1>. QED
  BY <1>4, <1>5, <1>6, <1>7, <1>8, <1>9 DEF T

THEOREM NoAmounts == TotalAmount({}) = 0
<1>1. IsFiniteSet({}) /\ \A e \in {} : e.amount \in Int
  BY FS_EmptySet
<1>2. TotalAmount({}) = Total(AmountOf({}), {})
  BY <1>1, AmountsAreTotal
<1>. QED
  BY <1>2, TotalEmpty

-----------------------------------------------------------------------------
\* Induction over the subsets of a finite set, one element less at a time.
THEOREM SubsetsInduction ==
  ASSUME NEW S, IsFiniteSet(S), NEW D, {} \in D,
         \A s \in SUBSET S : s # {} /\ (\A x \in s : s \ {x} \in D) => s \in D
  PROVE  S \in D
<1> DEFINE N == {n \in Nat : \A s \in SUBSET S : Cardinality(s) <= n => s \in D}
<1>1. 0 \in N
  <2>1. \A s \in SUBSET S : Cardinality(s) <= 0 => s = {}
    BY FS_Subset, FS_CardinalityType, FS_EmptySet
  <2>. QED
    BY <2>1
<1>2. ASSUME NEW n \in N PROVE n + 1 \in N
  <2>1. ASSUME NEW s \in SUBSET S, Cardinality(s) <= n + 1 PROVE s \in D
    <3>1. ASSUME NEW x \in s PROVE s \ {x} \in D
      <4>1. IsFiniteSet(s) /\ s \ {x} \in SUBSET S
        BY FS_Subset
      <4>2. Cardinality(s \ {x}) = Cardinality(s) - 1 /\ Cardinality(s) \in Nat
        BY <4>1, FS_RemoveElement, FS_CardinalityType
      <4>. QED
        BY <2>1, <4>1, <4>2
    <3>. QED
      BY <3>1
  <2>2. n + 1 \in Nat
    OBVIOUS
  <2>. QED
    BY <2>1, <2>2
<1>3. N \subseteq Nat
  OBVIOUS
<1>4. N = Nat
  <2> HIDE DEF N
  <2>. QED
    BY <1>1, <1>2, <1>3, SetInduction
<1>5. Cardinality(S) \in N /\ Cardinality(S) <= Cardinality(S)
  BY <1>4, FS_CardinalityType
<1>. QED
  BY <1>5

\* The sum of two functions is the sum of their sums.
THEOREM TotalSum ==
  ASSUME NEW S, IsFiniteSet(S), NEW b, NEW r, NEW f,
         \A x \in S : b[x] \in Int /\ r[x] \in Int /\ f[x] = b[x] + r[x]
  PROVE  Total(f, S) = Total(b, S) + Total(r, S)
<1> DEFINE Sum(s) == Total(f, s) = Total(b, s) + Total(r, s)
           D == {s \in SUBSET S : Sum(s)}
<1>1. {} \in D
  BY TotalEmpty
<1>2. ASSUME NEW s \in SUBSET S, s # {}, \A x \in s : s \ {x} \in D
      PROVE  s \in D
  <2>1. PICK x \in s : TRUE
    BY <1>2
  <2>2. IsFiniteSet(s) /\ IsFiniteSet(s \ {x})
    BY FS_Subset, FS_RemoveElement
  <2>3. \A y \in s : f[y] \in Int /\ b[y] \in Int /\ r[y] \in Int
    OBVIOUS
  <2>4. Total(f, s) = f[x] + Total(f, s \ {x})
    BY <2>2, <2>3, TotalRemove
  <2>5. Total(b, s) = b[x] + Total(b, s \ {x})
    BY <2>2, <2>3, TotalRemove
  <2>6. Total(r, s) = r[x] + Total(r, s \ {x})
    BY <2>2, <2>3, TotalRemove
  <2>7. Total(b, s \ {x}) \in Int
    BY <2>2, <2>3, TotalType
  <2>8. Total(r, s \ {x}) \in Int
    BY <2>2, <2>3, TotalType
  <2>9. Sum(s \ {x})
    BY <1>2
  <2>. QED
    BY <2>3, <2>4, <2>5, <2>6, <2>7, <2>8, <2>9
<1> HIDE DEF D
<1>3. S \in D
  BY <1>1, <1>2, SubsetsInduction
<1>. QED
  BY <1>3 DEF D

\* A sum over one part, and over the others.
THEOREM TotalSplit ==
  ASSUME NEW S, IsFiniteSet(S), NEW f, \A x \in S : f[x] \in Int, NEW A \in SUBSET S
  PROVE  Total(f, S) = Total(f, A) + Total(f, S \ A)
<1> DEFINE Sum(s) == Total(f, S) = Total(f, s) + Total(f, S \ s)
           D == {s \in SUBSET S : Sum(s)}
<1>1. {} \in D
  <2>1. S \ {} = S /\ Total(f, S) \in Int
    BY TotalType
  <2>2. Sum({})
    BY <2>1, TotalEmpty
  <2>. QED
    BY <2>2
<1>2. ASSUME NEW s \in SUBSET S, s # {}, \A x \in s : s \ {x} \in D
      PROVE  s \in D
  <2>1. PICK x \in s : TRUE
    BY <1>2
  <2> DEFINE u == S \ (s \ {x})
  <2>2. IsFiniteSet(s) /\ IsFiniteSet(s \ {x}) /\ IsFiniteSet(u) /\ x \in u
        /\ u \ {x} = S \ s /\ IsFiniteSet(S \ s) /\ u \subseteq S
    BY FS_Subset, FS_Difference
  <2>3. Total(f, S) = Total(f, s \ {x}) + Total(f, u)
    BY <1>2
  <2> HIDE DEF u
  <2>4. Total(f, s) = f[x] + Total(f, s \ {x})
    <3>1. \A y \in s : f[y] \in Int
      OBVIOUS
    <3>. QED
      BY <2>2, <3>1, TotalRemove
  <2>5. Total(f, u) = f[x] + Total(f, S \ s)
    <3>1. \A y \in u : f[y] \in Int
      BY <2>2
    <3>2. Total(f, u) = f[x] + Total(f, u \ {x})
      BY <2>2, <3>1, TotalRemove
    <3>. QED
      BY <2>2, <3>2
  <2>6. Total(f, S \ s) \in Int
    BY <2>2, TotalType
  <2>7. Total(f, s \ {x}) \in Int
    BY <2>2, TotalType
  <2>8. f[x] \in Int
    BY <2>1
  <2>9. Sum(s)
    BY <2>3, <2>4, <2>5, <2>6, <2>7, <2>8
  <2>. QED
    BY <2>9
<1> HIDE DEF D
<1>3. A \in D
  <2>1. IsFiniteSet(A) /\ \A s \in SUBSET A : s \in SUBSET S
    BY FS_Subset
  <2>2. \A s \in SUBSET A : s # {} /\ (\A x \in s : s \ {x} \in D) => s \in D
    BY <1>2, <2>1
  <2>. QED
    BY <1>1, <2>1, <2>2, SubsetsInduction
<1>. QED
  BY <1>3 DEF D

\* A sum of numbers below zero is below zero.
THEOREM TotalNonPositive ==
  ASSUME NEW S, IsFiniteSet(S), NEW f, \A x \in S : f[x] \in Int /\ f[x] <= 0
  PROVE  Total(f, S) \in Int /\ Total(f, S) <= 0
<1> DEFINE Low(s) == Total(f, s) <= 0
           D == {s \in SUBSET S : Low(s)}
<1>1. {} \in D
  BY TotalEmpty
<1>2. ASSUME NEW s \in SUBSET S, s # {}, \A x \in s : s \ {x} \in D
      PROVE  s \in D
  <2>1. PICK x \in s : TRUE
    BY <1>2
  <2>2. IsFiniteSet(s) /\ IsFiniteSet(s \ {x}) /\ \A y \in s : f[y] \in Int
    BY FS_Subset, FS_RemoveElement
  <2>3. Total(f, s) = f[x] + Total(f, s \ {x})
    BY <2>2, TotalRemove
  <2>4. Total(f, s \ {x}) \in Int
    BY <2>2, TotalType
  <2>5. Low(s \ {x}) /\ f[x] \in Int /\ f[x] <= 0
    BY <1>2
  <2>. QED
    BY <2>3, <2>4, <2>5
<1> HIDE DEF D
<1>3. S \in D
  BY <1>1, <1>2, SubsetsInduction
<1>. QED
  BY <1>3, TotalType DEF D

THEOREM TotalNatural ==
  ASSUME NEW S, IsFiniteSet(S), NEW f, \A x \in S : f[x] \in Nat
  PROVE  Total(f, S) \in Nat
<1> DEFINE D == {s \in SUBSET S : Total(f, s) \in Nat}
<1>1. {} \in D
  BY TotalEmpty
<1>2. ASSUME NEW s \in SUBSET S, s # {}, \A x \in s : s \ {x} \in D
      PROVE  s \in D
  <2>1. PICK x \in s : TRUE
    BY <1>2
  <2>2. IsFiniteSet(s) /\ \A y \in s : f[y] \in Int
    BY FS_Subset
  <2>3. Total(f, s) = f[x] + Total(f, s \ {x})
    BY <2>2, TotalRemove
  <2>4. Total(f, s \ {x}) \in Nat /\ f[x] \in Nat
    BY <1>2
  <2>. QED
    BY <2>3, <2>4
<1> HIDE DEF D
<1>3. S \in D
  BY <1>1, <1>2, SubsetsInduction
<1>. QED
  BY <1>3 DEF D

\* A pool shared in proportion and rounded down: less than one is missing for
\* each share.
THEOREM TotalShares ==
  ASSUME NEW S, IsFiniteSet(S), NEW a, NEW q, NEW pool \in Nat, NEW w \in Nat \ {0},
         \A x \in S : a[x] \in Nat /\ q[x] = (pool * a[x]) \div w
  PROVE  /\ Total(q, S) \in Int /\ Total(a, S) \in Int
         /\ w * Total(q, S) <= pool * Total(a, S)
         /\ pool * Total(a, S) <= w * Total(q, S) + Cardinality(S) * (w - 1)
<1>1. ASSUME NEW x \in S
      PROVE  /\ q[x] \in Int /\ a[x] \in Int
             /\ w * q[x] <= pool * a[x] /\ pool * a[x] <= w * q[x] + (w - 1)
  <2>1. pool * a[x] \in Int
    OBVIOUS
  <2>2. \A n \in Int : n \div w \in Int /\ w * (n \div w) <= n /\ n <= w * (n \div w) + (w - 1)
    OBVIOUS
  <2> DEFINE n == pool * a[x]
  <2>3. n \in Int /\ q[x] = n \div w /\ a[x] \in Int
    BY <2>1
  <2> HIDE DEF n
  <2>4. q[x] \in Int /\ w * q[x] <= n /\ n <= w * q[x] + (w - 1)
    BY <2>2, <2>3
  <2>. QED
    BY <2>3, <2>4 DEF n
<1> DEFINE Near(s) == /\ w * Total(q, s) <= pool * Total(a, s)
                      /\ pool * Total(a, s) <= w * Total(q, s) + Cardinality(s) * (w - 1)
           D == {s \in SUBSET S : Near(s)}
<1>2. {} \in D
  <2>1. Total(q, {}) = 0 /\ Total(a, {}) = 0 /\ Cardinality({}) = 0
    BY TotalEmpty, FS_EmptySet
  <2>2. Near({})
    BY <2>1
  <2>. QED
    BY <2>2
<1>3. ASSUME NEW s \in SUBSET S, s # {}, \A x \in s : s \ {x} \in D
      PROVE  s \in D
  <2>1. PICK x \in s : TRUE
    BY <1>3
  <2>2. IsFiniteSet(s) /\ IsFiniteSet(s \ {x})
        /\ \A y \in s : q[y] \in Int /\ a[y] \in Int
    BY <1>1, FS_Subset, FS_RemoveElement
  <2>3. Total(q, s) = q[x] + Total(q, s \ {x})
    BY <2>2, TotalRemove
  <2>4. Total(a, s) = a[x] + Total(a, s \ {x})
    BY <2>2, TotalRemove
  <2>5. Total(q, s \ {x}) \in Int
    BY <2>2, TotalType
  <2>6. Total(a, s \ {x}) \in Int
    BY <2>2, TotalType
  <2>7. Cardinality(s) = Cardinality(s \ {x}) + 1 /\ Cardinality(s \ {x}) \in Int
    BY <2>2, FS_RemoveElement, FS_CardinalityType
  <2>8. Near(s \ {x})
    BY <1>3
  <2>9. \A c, m, n \in Int : c * (m + n) = c * m + c * n
    OBVIOUS
  <2>10. /\ w * Total(q, s) = w * q[x] + w * Total(q, s \ {x})
         /\ pool * Total(a, s) = pool * a[x] + pool * Total(a, s \ {x})
         /\ Cardinality(s) * (w - 1) = (w - 1) + Cardinality(s \ {x}) * (w - 1)
    BY <1>1, <2>3, <2>4, <2>5, <2>6, <2>7, <2>9
  <2>11. /\ w * q[x] \in Int /\ w * Total(q, s \ {x}) \in Int
         /\ pool * a[x] \in Int /\ pool * Total(a, s \ {x}) \in Int
         /\ Cardinality(s \ {x}) * (w - 1) \in Int /\ w - 1 \in Int
    BY <1>1, <2>5, <2>6, <2>7
  <2>12. w * q[x] <= pool * a[x] /\ pool * a[x] <= w * q[x] + (w - 1)
    BY <1>1
  <2>13. Near(s)
    BY <2>8, <2>10, <2>11, <2>12
  <2>. QED
    BY <2>13
<1> HIDE DEF D
<1>4. S \in D
  BY <1>2, <1>3, SubsetsInduction
<1>5. Total(q, S) \in Int
  BY <1>1, TotalType
<1>6. Total(a, S) \in Int
  BY <1>1, TotalType
<1>. QED
  BY <1>4, <1>5, <1>6 DEF D

\* One element of a finite set is the last in an order.
LEMMA LastOne ==
  ASSUME NEW S, IsFiniteSet(S), S # {}, NEW seat, \A x \in S : seat[x] \in Nat
  PROVE  \E m \in S : \A y \in S : seat[y] <= seat[m]
<1> DEFINE D == {s \in SUBSET S : s # {} => \E m \in s : \A y \in s : seat[y] <= seat[m]}
<1>1. {} \in D
  OBVIOUS
<1>2. ASSUME NEW s \in SUBSET S, s # {}, \A x \in s : s \ {x} \in D
      PROVE  s \in D
  <2>1. PICK x \in s : TRUE
    BY <1>2
  <2> DEFINE u == s \ {x}
  <2>2. CASE u = {}
    <3>1. \A y \in s : seat[y] <= seat[x]
      BY <2>2
    <3>. QED
      BY <3>1
  <2>3. CASE u # {}
    <3>1. PICK m \in u : \A y \in u : seat[y] <= seat[m]
      BY <1>2, <2>3
    <3>2. CASE seat[x] <= seat[m]
      <4>1. m \in s /\ \A y \in s : seat[y] <= seat[m]
        BY <3>1, <3>2
      <4>. QED
        BY <4>1
    <3>3. CASE ~(seat[x] <= seat[m])
      <4>1. \A y \in s : seat[y] <= seat[x]
        BY <3>1, <3>3
      <4>. QED
        BY <4>1
    <3>. QED
      BY <3>2, <3>3
  <2>. QED
    BY <2>2, <2>3
<1> HIDE DEF D
<1>3. S \in D
  BY <1>1, <1>2, SubsetsInduction
<1>. QED
  BY <1>3 DEF D

\* Of the elements of a finite set in an order, the first k are k.
THEOREM FirstOnes ==
  ASSUME NEW S, IsFiniteSet(S), NEW seat, \A x \in S : seat[x] \in Nat,
         \A x, y \in S : seat[x] = seat[y] => x = y,
         NEW k \in Nat, k <= Cardinality(S)
  PROVE  Cardinality({x \in S : Cardinality({y \in S : seat[y] < seat[x]}) < k}) = k
<1> DEFINE Ahead(s, x) == {y \in s : seat[y] < seat[x]}
           First(s, n) == {x \in s : Cardinality(Ahead(s, x)) < n}
           Counted(s) == \A n \in Nat : n <= Cardinality(s) => Cardinality(First(s, n)) = n
           D == {s \in SUBSET S : Counted(s)}
<1>1. {} \in D
  <2>1. ASSUME NEW n \in Nat, n <= Cardinality({}) PROVE Cardinality(First({}, n)) = n
    BY <2>1, FS_EmptySet
  <2>. QED
    BY <2>1
<1>2. ASSUME NEW s \in SUBSET S, s # {}, \A x \in s : s \ {x} \in D
      PROVE  s \in D
  <2>1. IsFiniteSet(s)
    BY FS_Subset
  <2>2. PICK m \in s : \A y \in s : seat[y] <= seat[m]
    BY <1>2, <2>1, LastOne
  <2> DEFINE u == s \ {m}
  <2>3. /\ IsFiniteSet(u) /\ Cardinality(s) \in Nat /\ Cardinality(u) \in Nat
        /\ Cardinality(s) = Cardinality(u) + 1
    <3>1. IsFiniteSet(u) /\ Cardinality(u) = Cardinality(s) - 1
      BY <2>1, <2>2, FS_RemoveElement
    <3>2. Cardinality(s) \in Nat /\ Cardinality(u) \in Nat
      BY <2>1, <3>1, FS_CardinalityType
    <3>. QED
      BY <3>1, <3>2
  <2>4. \A x \in u : Ahead(s, x) = Ahead(u, x)
    BY <2>2
  <2>5. Ahead(s, m) = u
    BY <2>2
  <2>6. Counted(u)
    BY <1>2
  <2>7. \A x \in s : Ahead(s, x) \subseteq s \ {x}
    BY <2>2
  <2>8. ASSUME NEW n \in Nat, n <= Cardinality(s) PROVE Cardinality(First(s, n)) = n
    <3>1. CASE n = Cardinality(s)
      <4>1. ASSUME NEW x \in s PROVE Cardinality(Ahead(s, x)) < n
        <5>1. IsFiniteSet(s \ {x}) /\ Cardinality(s \ {x}) = Cardinality(s) - 1
          BY <2>1, FS_RemoveElement
        <5>2. Cardinality(Ahead(s, x)) <= Cardinality(s \ {x}) /\ Cardinality(Ahead(s, x)) \in Nat
          <6> HIDE DEF Ahead
          <6>. QED
            BY <2>7, <5>1, FS_Subset, FS_CardinalityType
        <5> HIDE DEF Ahead
        <5>. QED
          BY <2>3, <3>1, <5>1, <5>2
      <4>2. First(s, n) = s
        <5> HIDE DEF Ahead
        <5>. QED
          BY <4>1
      <4>. QED
        BY <3>1, <4>2
    <3>2. CASE n # Cardinality(s)
      <4> HIDE DEF Ahead, u
      <4>1. n <= Cardinality(u)
        BY <2>3, <2>8, <3>2
      <4>2. ~(Cardinality(Ahead(s, m)) < n)
        BY <2>3, <2>5, <4>1
      <4>3. First(s, n) = First(u, n)
        BY <2>2, <2>4, <4>2 DEF u
      <4>. QED
        BY <2>6, <4>1, <4>3
    <3>. QED
      BY <3>1, <3>2
  <2>. QED
    BY <2>8
<1> HIDE DEF D
<1>3. S \in D
  BY <1>1, <1>2, SubsetsInduction
<1>. QED
  BY <1>3 DEF D
=============================================================================
