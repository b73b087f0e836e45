-------------------------------- MODULE Banqi --------------------------------
(***************************************************************************)
(* app/games/banqi.py: dark chess on a board of face-down pieces; the      *)
(* first piece turned up decides who plays which colour.  The shuffle is   *)
(* drawn piece by piece as cells are turned up.                            *)
(***************************************************************************)
EXTENDS Table

CONSTANTS Rows, Columns,
          Count,            \* pieces of each kind, of either colour
          QuietLimit        \* moves without a flip or a capture

VARIABLE g

Players == 0..1
Colors == {"r", "b"}
Squares == (1..Rows) \X (1..Columns)
Over == g.result.over

Empty == [color |-> "none", kind |-> "none"]
Hidden == [color |-> "none", kind |-> "hidden"]
Rank(kind) == CASE kind = "k" -> 7 [] kind = "a" -> 6 [] kind = "b" -> 5
                [] kind = "r" -> 4 [] kind = "n" -> 3 [] kind = "c" -> 2 [] kind = "p" -> 1

Init == g = [board |-> [q \in Squares |-> Hidden],
             pool |-> [x \in Colors \X DOMAIN Count |-> Count[x[2]]],
             color |-> [p \in Players |-> "none"], turn |-> 0, quiet |-> 0,
             result |-> NoResult]

-----------------------------------------------------------------------------
Screens(board, a, b) ==
  Cardinality({q \in Squares \ {a, b} : /\ board[q] # Empty
                                        /\ Distance(a, q) + Distance(q, b) = Distance(a, b)})

\* _can_rank_capture: the pawn takes the king, who does not take the pawn.
RankTakes(mine, other) ==
  CASE mine = "p" /\ other = "k" -> TRUE
    [] mine = "k" /\ other = "p" -> FALSE
    [] OTHER -> Rank(mine) >= Rank(other)

\* _piece_moves: a step to an empty cell or onto a weaker enemy; the cannon takes
\* any enemy in its line over exactly one piece, and only so.
CanMove(board, a, b) ==
  LET enemy == board[b].color \notin {"none", board[a].color}
  IN \/ Distance(a, b) = 1 /\ board[b] = Empty
     \/ /\ enemy
        /\ IF board[a].kind = "c"
           THEN (a[1] = b[1] \/ a[2] = b[2]) /\ Screens(board, a, b) = 1
           ELSE Distance(a, b) = 1 /\ RankTakes(board[a].kind, board[b].kind)

PieceMoves(s, p) ==
  {m \in Squares \X Squares : /\ s.board[m[1]].color = s.color[p]
                              /\ s.color[p] # "none"
                              /\ CanMove(s.board, m[1], m[2])}
Flips(s) == {q \in Squares : s.board[q] = Hidden}
HasAction(s, p) == Flips(s) # {} \/ PieceMoves(s, p) # {}

\* Pieces of a colour, turned up or not.
Remaining(s, color) ==
  Cardinality({q \in Squares : s.board[q].color = color})
  + Total([k \in DOMAIN Count |-> s.pool[<<color, k>>]], DOMAIN Count)

\* _finish_if_needed, for the one who moved and the one to move.
Finish(s, p, q) ==
  LET won(w, reason) == [s EXCEPT !.result = [over |-> TRUE, winner |-> w, reason |-> reason]]
  IN IF s.color[p] = "none" THEN s
     ELSE IF Remaining(s, s.color[p]) = 0 THEN won(q, "all_captured")
     ELSE IF Remaining(s, s.color[q]) = 0 THEN won(p, "all_captured")
     ELSE IF ~HasAction(s, q) THEN won(p, "immobilized")
     ELSE IF s.quiet >= QuietLimit THEN won(-1, "quiet_turn_limit")
     ELSE s

Flip(p) ==
  /\ ~Over /\ g.turn = p
  /\ \E q \in Flips(g), c \in Colors, k \in DOMAIN Count :
       /\ g.pool[<<c, k>>] > 0
       /\ LET other == CHOOSE d \in Colors \ {c} : TRUE
              s == [g EXCEPT !.board[q] = [color |-> c, kind |-> k], !.pool[<<c, k>>] = @ - 1,
                             !.quiet = 0, !.turn = 1 - p,
                             !.color = IF @[p] # "none" THEN @
                                       ELSE [r \in Players |-> IF r = p THEN c ELSE other]]
          IN g' = Finish(s, p, 1 - p)

\* Mutant: a quiet turn is noted, not counted.
QuietOnce(s, at) == IF s.board[at] = Empty THEN 1 ELSE 0

\* How many turns nothing was captured or turned up.
Quiet(s, at) == IF s.board[at] = Empty THEN s.quiet + 1 ELSE 0

Move(p) ==
  /\ ~Over /\ g.turn = p
  /\ \E m \in PieceMoves(g, p) :
       LET s == [g EXCEPT !.board[m[2]] = g.board[m[1]], !.board[m[1]] = Empty,
                          !.quiet = Quiet(g, m[2]),
                          !.turn = 1 - p]
       IN g' = Finish(s, p, 1 - p)

Next == \E p \in Players : Flip(p) \/ Move(p)

-----------------------------------------------------------------------------
\* The face-down cells are those of the pieces not yet turned up.
PoolMatchesBoard ==
  Cardinality(Flips(g)) = Total(g.pool, Colors \X DOMAIN Count)

\* Whose turn it is has a cell to turn up or a piece to move.
AskedMayAct == ~Over => HasAction(g, g.turn)

\* Neither side loses its last piece, or its last move, without losing the game;
\* the players hold the two colours.
Settled ==
  /\ g.color[0] = g.color[1] <=> g.color[0] = "none"
  /\ ~Over => \A c \in Colors : Remaining(g, c) > 0
  /\ Over => IF g.result.winner = -1 THEN \A p \in Players : Remaining(g, g.color[p]) > 0
             ELSE Remaining(g, g.color[g.result.winner]) > 0
=============================================================================
