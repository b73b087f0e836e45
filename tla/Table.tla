-------------------------------- MODULE Table --------------------------------
(***************************************************************************)
(* What the game plugins of src/app/games share: seats numbered 0..n-1 in  *)
(* the order of the participants, and a turn that goes round them.         *)
(***************************************************************************)
EXTENDS Integers, Sequences, FiniteSetsExt

\* The first seat of S met going round from p (p itself comes last).
NextSeat(n, p, S) ==
  (p + CHOOSE k \in 1..n : /\ (p + k) % n \in S
                           /\ \A j \in 1..(k - 1) : (p + j) % n \notin S) % n

\* The seats of S in the order in which the turn reaches them, p's own first.
Round(n, p, S) == SelectSeq([i \in 1..n |-> (p + i - 1) % n], LAMBDA q : q \in S)

\* The sum of f over the seats S.
Total(f, S) == MapThenSumSet(LAMBDA p : f[p], S)

\* The members of S for which f is largest.
Best(f, S) == {p \in S : \A q \in S : f[q] <= f[p]}

\* f with its values at the points of S replaced by v.
SetAll(f, S, v) == [p \in DOMAIN f |-> IF p \in S THEN v ELSE f[p]]

\* How far apart two numbers, and two squares of a board, are.
Apart(x, y) == IF x < y THEN y - x ELSE x - y
Distance(a, b) == Apart(a[1], b[1]) + Apart(a[2], b[2])

\* A result nobody has reached yet.
NoResult == [over |-> FALSE]
=============================================================================
