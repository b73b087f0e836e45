------------------------------ MODULE Aeroplane ------------------------------
(***************************************************************************)
(* app/games/aeroplane_chess.py: planes take off with a six, fly round a   *)
(* shared ring with jumps and a shortcut, send home whom they land on, and *)
(* return to the hangar when a third six follows two.  A route step is     *)
(* relative to the player: -1 the hangar, 0 the launch area, then the      *)
(* ring, the private lane and home.                                        *)
(***************************************************************************)
EXTENDS Table

CONSTANTS Start,            \* where on the ring each player's route starts
          RingLength, LaneLength,
          Planes,           \* of each player
          Sides,            \* of the die; the highest is the six
          JumpSteps, JumpLength, ShortcutFrom, ShortcutCross, ShortcutTo

VARIABLE g

Seats == Len(Start)
Players == 0..(Seats - 1)
Over == g.result.over
HomeStep == RingLength + LaneLength + 1
Hangar == -1
OnRing(step) == step \in 1..RingLength
RingCell(p, step) == (Start[p + 1] + step - 1) % RingLength

Init == g = [step |-> [p \in Players |-> [i \in Planes |-> Hangar]], order |-> Players,
             seat |-> 0, die |-> 0, sixes |-> 0, moved |-> {}, result |-> NoResult]

-----------------------------------------------------------------------------
\* The step the die leads to, bouncing off home, and those a landing passes on.
DiceStep(step, die) ==
  IF step = Hangar THEN 0
  ELSE IF step + die > HomeStep THEN 2 * HomeStep - step - die ELSE step + die
Jumped(step) == IF step \in JumpSteps THEN step + JumpLength ELSE step
Landed(step) == IF step = ShortcutFrom THEN ShortcutTo ELSE step
Crossed(step) == IF step = ShortcutFrom THEN {ShortcutCross, ShortcutTo} ELSE {}

CanMove(s, p, i, die) ==
  s.step[p][i] # HomeStep /\ (s.step[p][i] = Hangar => die = Sides)

\* _movement_for_plane: where the plane ends.
Target(step, die) == Landed(Jumped(DiceStep(step, die)))

\* Mutant: only the cell the die leads to is swept, not where a jump ends.
SweptBeforeJump(p, step, die) ==
  {RingCell(p, x) : x \in {y \in {DiceStep(step, die)} : OnRing(y)}}

\* The cells a plane sweeps: where it lands, where it jumps, and across.
Swept(p, step, die) ==
  LET first == DiceStep(step, die)
      second == Jumped(first)
  IN {RingCell(p, x) : x \in {y \in {first, second} \union Crossed(second) : OnRing(y)}}

Moves(s, p, die) == {i \in Planes : CanMove(s, p, i, die)}
Winner(s) == {p \in s.order : \A i \in Planes : s.step[p][i] = HomeStep}

\* _finish_turn: the room passes the turn on.
FinishTurn(s, p) ==
  [s EXCEPT !.die = 0, !.sixes = 0, !.moved = {}, !.seat = NextSeat(Seats, p, s.order)]

\* A third six grounds the planes the first two moved; with no plane to move a
\* six rolls again.
Roll(p) ==
  /\ ~Over /\ g.seat = p /\ g.die = 0
  /\ \E die \in 1..Sides :
       LET six == die = Sides
           s == [g EXCEPT !.sixes = IF six THEN @ + 1 ELSE 0]
       IN g' = IF s.sixes >= 3
               THEN FinishTurn([s EXCEPT !.step[p] = SetAll(@, s.moved, Hangar)], p)
               ELSE IF Moves(s, p, die) # {} THEN [s EXCEPT !.die = die]
               ELSE IF six THEN s ELSE FinishTurn(s, p)

\* Every other player's plane on a swept cell goes back; a six rolls again.
Move(p) ==
  /\ ~Over /\ g.seat = p /\ g.die > 0
  /\ \E i \in Moves(g, p, g.die) :
       LET swept == Swept(p, g.step[p][i], g.die)
           hit(q, j) == /\ q \in g.order \ {p} /\ OnRing(g.step[q][j])
                        /\ RingCell(q, g.step[q][j]) \in swept
           step == [q \in Players |-> [j \in Planes |->
                      IF q = p /\ j = i THEN Target(g.step[p][i], g.die)
                      ELSE IF hit(q, j) THEN Hangar ELSE g.step[q][j]]]
           six == g.die = Sides
           s == [g EXCEPT !.step = step, !.moved = IF six THEN @ \union {i} ELSE @]
       IN g' = IF Winner(s) # {}
               THEN [s EXCEPT !.result = [over |-> TRUE, winner |-> CHOOSE q \in Winner(s) : TRUE]]
               ELSE IF six THEN [s EXCEPT !.die = 0] ELSE FinishTurn(s, p)

\* The leaver's planes are taken off the board.
Resign(p) ==
  /\ ~Over /\ p \in g.order
  /\ LET s1 == [g EXCEPT !.order = @ \ {p}, !.step[p] = SetAll(@, Planes, Hangar)]
         s == IF g.seat = p THEN FinishTurn(s1, p) ELSE s1
     IN g' = IF Cardinality(s.order) = 1
             THEN [s EXCEPT !.result = [over |-> TRUE, winner |-> CHOOSE q \in s.order : TRUE]]
             ELSE s

Next == \E p \in Players : Roll(p) \/ Move(p) \/ Resign(p)

-----------------------------------------------------------------------------
\* Planes of two players never share a cell of the ring: however one gets there,
\* by the die, a jump, the shortcut or a bounce, it sends the other back.
CellsExclusive ==
  \A p, q \in g.order : p # q =>
    \A i, j \in Planes : OnRing(g.step[p][i]) /\ OnRing(g.step[q][j])
                           => RingCell(p, g.step[p][i]) # RingCell(q, g.step[q][j])

\* Who is to choose a plane has one that can move, even after others have left or
\* been sent back since the roll; sixes in a row stay below three.
AskedMayAct ==
  ~Over => /\ g.seat \in g.order
           /\ g.die > 0 => Moves(g, g.seat, g.die) # {}
           /\ g.sixes < 3
           /\ \A i \in g.moved : g.step[g.seat][i] # Hangar

\* The game ends as soon as one player's planes are home, or one player is left.
Settled ==
  /\ ~Over => Winner(g) = {}
  /\ Over => Winner(g) = {g.result.winner} \/ g.order = {g.result.winner}
=============================================================================
