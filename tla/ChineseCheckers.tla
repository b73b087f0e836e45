---------------------------- MODULE ChineseCheckers ----------------------------
(***************************************************************************)
(* app/games/chinese_checkers.py: marbles cross a star of six camps, by    *)
(* one step or by a chain of symmetric jumps.  A chain is its landing: the *)
(* paths of the code only choose which chain to show.                      *)
(***************************************************************************)
EXTENDS Table

CONSTANTS Radius,   \* of the hexagon of holes between the camps
          Corner,   \* the holes of camp 0
          Starts,   \* _SEAT_CAMPS: the camp of each seat
          Wallets,  \* the seats that are not system NPCs
          Stake

VARIABLE g

-----------------------------------------------------------------------------
(* The board: a hexagon of holes and six camps around it, in axial         *)
(* coordinates.                                                            *)

Size(n) == IF n < 0 THEN -n ELSE n
Plus(a, d, k) == <<a[1] + k * d[1], a[2] + k * d[2]>>
Directions == {<<1, 0>>, <<0, 1>>, <<-1, 1>>, <<-1, 0>>, <<0, -1>>, <<1, -1>>}

Rotated(a) == <<-a[2], a[1] + a[2]>>

Center == {a \in (-Radius..Radius) \X (-Radius..Radius) : Size(a[1] + a[2]) <= Radius}

\* Camp 0, turned six times.
Camps ==
  LET camp[i \in 0..5] == IF i = 0 THEN Corner ELSE {Rotated(a) : a \in camp[i - 1]}
  IN [i \in 0..5 |-> camp[i]]

-----------------------------------------------------------------------------
Seats == Len(Starts)
Players == 0..(Seats - 1)
None == -1
Holes == Center \cup UNION Range(Camps)

Start(p) == Camps[Starts[p + 1]]
TargetOwners(p) == {q \in Players : Starts[q + 1] = (Starts[p + 1] + 3) % 6}
Target(p) == Camps[(Starts[p + 1] + 3) % 6]

Active(s) == Players \ s.left
Over == g.result.over

\* Any seat may open.
Init == \E first \in Players :
  g = [at |-> [h \in Holes |-> IF \E p \in Players : h \in Start(p)
                               THEN CHOOSE p \in Players : h \in Start(p) ELSE None],
       turn |-> first, left |-> {}, result |-> NoResult]

-----------------------------------------------------------------------------
Empty(s, h) == h \in DOMAIN s.at /\ s.at[h] = None

\* A hole may end a move unless it is in a camp that is not the mover's.
MayStop(p, h) == h \in Center \cup Start(p) \cup Target(p)

\* A marble in its target stays there.
Keeps(p, a, b) == a \in Target(p) => b \in Target(p)

Steps(s, p, a) == {b \in {Plus(a, d, 1) : d \in Directions} : Empty(s, b) /\ Keeps(p, a, b)}

\* One jump: over the first marble of a line, to the hole that mirrors it, with
\* nothing in between on either side.
Hops(s, p, a) ==
  {b \in {Plus(a, d, 2 * k) : d \in Directions, k \in 1..(2 * Radius)} :
     LET over == <<(a[1] + b[1]) \div 2, (a[2] + b[2]) \div 2>>
         k == Max({Size(b[1] - a[1]), Size(b[2] - a[2])})
         d == <<(b[1] - a[1]) \div k, (b[2] - a[2]) \div k>>
     IN /\ Empty(s, b) /\ Keeps(p, a, b)
        /\ over \in DOMAIN s.at /\ s.at[over] # None
        /\ \A i \in 1..(k - 1) : Plus(a, d, i) = over \/ Empty(s, Plus(a, d, i))}

\* _jump_paths: where a chain of jumps of the marble at a may land; a breadth-first
\* search, which visits a hole once.
Landings(s, p, a) ==
  LET t == [s EXCEPT !.at[a] = None]
      found[n \in 0..Cardinality(Holes)] ==
        IF n = 0 THEN [seen |-> {a}, newest |-> {a}]
        ELSE LET last == found[n - 1]
                 next == UNION {Hops(t, p, b) : b \in last.newest} \ last.seen
             IN [seen |-> last.seen \cup next, newest |-> next]
  IN found[Cardinality(Holes)].seen \ {a}

\* legal_actions
Legal(s, p) ==
  UNION {{a} \X {b \in Steps(s, p, a) \cup Landings(s, p, a) : MayStop(p, b)} :
           a \in {h \in DOMAIN s.at : s.at[h] = p}}

\* _winning_reason: the target is full of the player's marbles, or of his and of
\* those its owner, still at the table, has left there.
Complete(s, p) == \A h \in Target(p) : s.at[h] = p
AntiSpoiling(s, p) ==
  LET owners == TargetOwners(p) \cap Active(s)
  IN /\ owners # {} /\ \E h \in Target(p) : s.at[h] = p
     /\ \A h \in Target(p) : s.at[h] \in {p} \cup owners

Won(s, winners) == [s EXCEPT !.turn = None, !.result = [over |-> TRUE, winners |-> winners]]

\* _apply_for_player
Move(p) ==
  /\ ~Over /\ g.turn = p
  /\ \E m \in Legal(g, p) :
       LET s == [g EXCEPT !.at[m[1]] = None, !.at[m[2]] = p,
                          !.turn = NextSeat(Seats, p, Active(g))]
       IN g' = IF Complete(s, p) \/ AntiSpoiling(s, p) THEN Won(s, {p}) ELSE s

\* The marbles of who leaves are taken off; the game goes on while two are left
\* and one of them has a wallet.
Resign(p) ==
  /\ ~Over /\ p \in Active(g) \cap Wallets
  /\ LET stay == Active(g) \ {p}
         s == [g EXCEPT !.left = @ \cup {p},
                        !.at = [h \in Holes |-> IF @[h] = p THEN None ELSE @[h]],
                        !.turn = IF @ = p THEN NextSeat(Seats, p, stay) ELSE @]
     IN g' = IF Cardinality(stay) < 2 \/ stay \cap Wallets = {} THEN Won(s, stay) ELSE s

Next == \E p \in Players : Move(p) \/ Resign(p)

\* settlement_deltas: between wallets; a winner without a wallet is not paid.
Deltas(winners) ==
  LET paid == winners \cap Wallets
      losers == Wallets \ winners
  IN [p \in Players |->
        CASE p \in paid -> Stake * Cardinality(losers)
          [] p \in losers -> -Stake * Max({1, Cardinality(paid)})
          [] OTHER -> 0]

-----------------------------------------------------------------------------
\* The rules between the marbles: each at the table has all of them, none rests
\* in a strange camp, and no goal stands complete while the game goes on.
BoardHonest ==
  /\ \A p \in Players :
       Cardinality({h \in Holes : g.at[h] = p}) = IF p \in g.left THEN 0 ELSE Cardinality(Start(p))
  /\ \A h \in Holes : g.at[h] # None => MayStop(g.at[h], h)
  /\ ~Over => \A p \in Active(g) : ~Complete(g, p)

\* Whoever is asked is at the table and, when only two began, has a move: a goal
\* that its owner blocks is won before it can lock anybody in.  A table of three or
\* more is only asked for the seat: on a board of a few holes the marbles of the
\* others may lock a player in, who can then only resign; no rule excludes it.
AskedMayAct ==
  ~Over => /\ g.turn \in Active(g)
           /\ Seats = 2 => Legal(g, g.turn) # {}

\* Wallets only pay wallets, nobody who left gains, and without a winner among
\* them each loses one stake to nobody (allows_non_zero_sum_settlement): the sum
\* is zero when a wallet wins and one stake a wallet below it otherwise.
Settled ==
  Over => LET d == Deltas(g.result.winners)
              sum == Total(d, Players)
          IN /\ g.result.winners \subseteq Active(g) /\ g.result.winners # {}
             /\ \A p \in Players : /\ p \notin Wallets => d[p] = 0
                                   /\ p \in g.left => d[p] < 0
             /\ sum = IF g.result.winners \cap Wallets = {} THEN -Stake * Cardinality(Wallets) ELSE 0
=============================================================================
