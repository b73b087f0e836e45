------------------------------ MODULE DotsBoxes ------------------------------
(***************************************************************************)
(* app/games/dots_boxes.py: who draws the fourth edge of a box owns it and *)
(* goes on.                                                                *)
(***************************************************************************)
EXTENDS Table

CONSTANTS Seats, Rows, Columns, Stake

VARIABLE g

Players == 0..(Seats - 1)
None == -1
Boxes == (1..Rows) \X (1..Columns)

\* An edge lies above (h) or left (v) of the box at its place.
Sides(b) == {<<"h", b[1], b[2]>>, <<"h", b[1] + 1, b[2]>>,
             <<"v", b[1], b[2]>>, <<"v", b[1], b[2] + 1>>}
Edges == UNION {Sides(b) : b \in Boxes}

Active(s) == Players \ s.left
Over == g.result.over
Won(winners) == [over |-> TRUE, winners |-> winners]

Init == \E first \in Players :
  g = [drawn |-> {}, owner |-> [b \in Boxes |-> None], score |-> [p \in Players |-> 0],
       turn |-> first, left |-> {}, result |-> NoResult]

-----------------------------------------------------------------------------
\* The boxes without an owner that an edge completes: none, one or two.
Completed(s, e) ==
  {b \in Boxes : s.owner[b] = None /\ e \in Sides(b) /\ Sides(b) \subseteq s.drawn \cup {e}}

\* result_for, on a full board: the best of those who stayed, alone or together.
Leaders(s) == Best(s.score, Active(s))
Full(s) == \A b \in Boxes : s.owner[b] # None

\* _apply_owner
Draw(p) ==
  /\ ~Over /\ g.turn = p
  /\ \E e \in Edges \ g.drawn :
       LET done == Completed(g, e)
           s == [g EXCEPT !.drawn = @ \cup {e}, !.owner = SetAll(@, done, p),
                          !.score[p] = @ + Cardinality(done),
                          !.turn = IF done # {} THEN p ELSE NextSeat(Seats, p, Active(g))]
       IN g' = IF Full(s) THEN [s EXCEPT !.result = Won(Leaders(s))] ELSE s

\* The boxes of who leaves stay his; the last one has won.
Resign(p) ==
  /\ ~Over /\ p \in Active(g)
  /\ LET stay == Active(g) \ {p}
         s == [g EXCEPT !.left = @ \cup {p},
                        !.turn = IF @ = p THEN NextSeat(Seats, p, stay) ELSE @]
     IN g' = IF Cardinality(stay) = 1 THEN [s EXCEPT !.result = Won(stay)] ELSE s

Next == \E p \in Players : Draw(p) \/ Resign(p)

\* settlement_deltas: several leaders are a draw, and nobody pays.
Deltas(winners) ==
  [p \in Players |-> IF Cardinality(winners) > 1 THEN 0
                     ELSE IF p \in winners THEN Stake * (Seats - 1) ELSE -Stake]

-----------------------------------------------------------------------------
\* Every box with four edges has an owner, and is in his score once.
ScoresHonest ==
  /\ \A b \in Boxes : g.owner[b] # None <=> Sides(b) \subseteq g.drawn
  /\ \A p \in Players : g.score[p] = Cardinality({b \in Boxes : g.owner[b] = p})

\* Whoever is asked is at the table and an edge is left.
AskedMayAct == ~Over => g.turn \in Active(g) /\ Edges \ g.drawn # {}

\* A winner stayed, and nobody who stayed has more boxes; chips only move.
Settled ==
  Over => LET w == g.result.winners
          IN /\ w # {} /\ w \subseteq Active(g)
             /\ \A p \in w, q \in Active(g) : g.score[p] >= g.score[q]
             /\ Total(Deltas(w), Players) = 0
=============================================================================
