------------------------------- MODULE BombPlane -------------------------------
(***************************************************************************)
(* app/games/bomb_plane.py: each seat deploys its planes in secret, both   *)
(* at a time, then they fire at cells in turn until all heads are hit.     *)
(***************************************************************************)
EXTENDS Table

CONSTANTS Cells,      \* the squares of the board
          Body,       \* the cells of each plane that fits, by head and direction
          FleetSize   \* three planes

VARIABLE g

Players == 0..1
None == -1
Planes == DOMAIN Body
Over == g.result.over

\* validate_layout: bodies may overlap, heads may not.
Layouts == {l \in UNION {[1..n -> Planes] : n \in 0..FleetSize} :
              \A i, j \in DOMAIN l : l[i].head = l[j].head => i = j}
Fleets == {l \in Layouts : Len(l) = FleetSize}

Init == \E first \in Players :
  g = [phase |-> "setup", first |-> first, active |-> first,
       planes |-> [p \in Players |-> <<>>], ready |-> [p \in Players |-> FALSE],
       shots |-> [p \in Players |-> [c \in Cells |-> "none"]], result |-> NoResult]

-----------------------------------------------------------------------------
Editing(p) == ~Over /\ g.phase = "setup" /\ ~g.ready[p]

\* A plane more, one less, none, a shuffle or a whole layout.
Edit(p) ==
  /\ Editing(p)
  /\ \E l \in Layouts : g' = [g EXCEPT !.planes[p] = l]

\* Who is waited for in the setup: the same seat until its owner is ready.
Cursor(ready, p) == IF ready[g.active] THEN 1 - p ELSE g.active

Locked(p, l) ==
  LET ready == [g.ready EXCEPT ![p] = TRUE]
      s == [g EXCEPT !.planes[p] = l, !.ready = ready]
  IN g' = IF ready[1 - p] THEN [s EXCEPT !.phase = "play", !.active = g.first]
          ELSE [s EXCEPT !.active = Cursor(ready, p)]

Ready(p) == Editing(p) /\ Len(g.planes[p]) = FleetSize /\ Locked(p, g.planes[p])
AutoSetup(p) == Editing(p) /\ \E l \in Fleets : Locked(p, l)

Heads(l) == {l[i].head : i \in DOMAIN l}
Hulls(l) == UNION {Body[l[i]] : i \in DOMAIN l}
Answer(l, c) == IF c \in Heads(l) THEN "head" ELSE IF c \in Hulls(l) THEN "hit" ELSE "miss"
Downed(s, p) == {c \in Cells : s.shots[p][c] = "head"}

Attack(p) ==
  /\ ~Over /\ g.phase = "play" /\ g.active = p
  /\ \E c \in Cells :
       /\ g.shots[p][c] = "none"
       /\ LET s == [g EXCEPT !.shots[p][c] = Answer(g.planes[1 - p], c)]
          IN g' = IF Cardinality(Downed(s, p)) = FleetSize
                  THEN [s EXCEPT !.phase = "finished", !.active = None,
                                 !.result = [over |-> TRUE, winner |-> p]]
                  ELSE [s EXCEPT !.active = 1 - p]

Resign(p) ==
  /\ ~Over
  /\ g' = [g EXCEPT !.active = None, !.result = [over |-> TRUE, winner |-> 1 - p]]

Next == \E p \in Players : Edit(p) \/ Ready(p) \/ AutoSetup(p) \/ Attack(p) \/ Resign(p)

-----------------------------------------------------------------------------
\* Whom the room waits for can act: in the setup his planes are not locked, in
\* play a head he has not hit is left.
AskedMayAct ==
  ~Over => IF g.phase = "setup" THEN ~g.ready[g.active]
           ELSE Heads(g.planes[1 - g.active]) \ Downed(g, g.active) # {}

\* The fleets that fight are whole, the seats have fired in turn, and every answer
\* still tells the truth.
FleetsHonest ==
  /\ g.phase # "setup" =>
       /\ \A p \in Players :
            /\ g.planes[p] \in Fleets
            /\ \A c \in Cells : g.shots[p][c] \in {"none", Answer(g.planes[1 - p], c)}
       /\ LET fired == [p \in Players |-> Cardinality({c \in Cells : g.shots[p][c] # "none"})]
          IN fired[g.first] - fired[1 - g.first] \in {0, 1}
  /\ g.phase = "setup" => \A p \in Players, c \in Cells : g.shots[p][c] = "none"
=============================================================================
