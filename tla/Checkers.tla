------------------------------- MODULE Checkers ------------------------------
(***************************************************************************)
(* app/games/checkers.py: English draughts.  Captures are obligatory and   *)
(* go on with the same man; what a chain has captured is off the board at  *)
(* once, but its square stays closed until the chain ends.                 *)
(***************************************************************************)
EXTENDS Table, TLC

CONSTANTS Rows,           \* of the square board
          MenRows,        \* rows of men on either side
          Repetitions, IdleTurns

VARIABLE g

Sides == {"X", "O"}
Opponent(side) == CHOOSE s \in Sides : s # side
Squares == {q \in (1..Rows) \X (1..Rows) : (q[1] + q[2]) % 2 = 1}
Over == g.result.over

Empty == [side |-> "none", king |-> FALSE]
Man(side) == [side |-> side, king |-> FALSE]
Nowhere == <<0, 0>>

Position(s) == <<s.board, s.turn>>

Init ==
  LET board == [q \in Squares |-> IF q[1] <= MenRows THEN Man("O")
                                  ELSE IF q[1] > Rows - MenRows THEN Man("X") ELSE Empty]
      s == [board |-> board, turn |-> "X", forced |-> Nowhere, taken |-> {},
            idle |-> [side \in Sides |-> 0], result |-> NoResult]
  IN g = s @@ [seen |-> (Position(s) :> 1)]

-----------------------------------------------------------------------------
Directions(piece) ==
  LET ahead == IF piece.side = "X" THEN -1 ELSE 1
  IN (IF piece.king THEN {-1, 1} ELSE {ahead}) \X {-1, 1}

Target(q, d, n) == <<q[1] + n * d[1], q[2] + n * d[2]>>

\* Legal moves of the man on q: from, the square jumped (or none), to.
Captures(s, q) ==
  {[from |-> q, over |-> Target(q, d, 1), to |-> Target(q, d, 2)] :
     d \in {d \in Directions(s.board[q]) :
              /\ Target(q, d, 2) \in Squares \ s.taken
              /\ s.board[Target(q, d, 1)].side = Opponent(s.turn)
              /\ s.board[Target(q, d, 2)] = Empty}}

Steps(s, q) ==
  {[from |-> q, over |-> Nowhere, to |-> Target(q, d, 1)] :
     d \in {d \in Directions(s.board[q]) : /\ Target(q, d, 1) \in Squares
                                           /\ s.board[Target(q, d, 1)] = Empty}}

Men(s, side) == {q \in Squares : s.board[q].side = side}

Moves(s) ==
  LET captures == UNION {Captures(s, q) : q \in Men(s, s.turn)}
  IN IF s.forced # Nowhere THEN Captures(s, s.forced)
     ELSE IF captures # {} THEN captures
     ELSE UNION {Steps(s, q) : q \in Men(s, s.turn)}

-----------------------------------------------------------------------------
Finish(s, winner, reason) ==
  [s EXCEPT !.result = [over |-> TRUE, winner |-> winner, reason |-> reason]]

\* A turn is over: wins first, then the draws, counted once for a whole turn.
EndTurn(s, side, progress) ==
  LET t == [s EXCEPT !.forced = Nowhere, !.taken = {}, !.turn = Opponent(side),
                     !.idle[side] = IF progress THEN 0 ELSE @ + 1]
      times == IF Position(t) \in DOMAIN t.seen THEN t.seen[Position(t)] + 1 ELSE 1
      u == [t EXCEPT !.seen = (Position(t) :> times) @@ @]
  IN IF Men(t, t.turn) = {} THEN Finish(u, side, "no_pieces")
     ELSE IF Moves(t) = {} THEN Finish(u, side, "no_legal_moves")
     ELSE IF times >= Repetitions THEN Finish(u, "none", "threefold_repetition")
     ELSE IF \A x \in Sides : u.idle[x] >= IdleTurns THEN Finish(u, "none", "forty_move_rule")
     ELSE u

Move ==
  /\ ~Over
  /\ \E m \in Moves(g) :
       LET piece == g.board[m.from]
           crowned == ~piece.king /\ m.to[1] = (IF g.turn = "X" THEN 1 ELSE Rows)
           capture == m.over # Nowhere
           board == [q \in Squares |->
                       IF q = m.to THEN [piece EXCEPT !.king = @ \/ crowned]
                       ELSE IF q \in {m.from, m.over} THEN Empty ELSE g.board[q]]
           s == [g EXCEPT !.board = board]
           chain == [s EXCEPT !.forced = m.to, !.taken = @ \union {m.over}]
       IN g' = IF capture /\ ~crowned /\ Captures(chain, m.to) # {} THEN chain
               ELSE EndTurn(s, g.turn, capture \/ ~piece.king)

Next == Move

-----------------------------------------------------------------------------
\* Whose turn it is has a move, and in a chain that move is the same man's capture.
AskedMayAct ==
  ~Over => /\ Moves(g) # {}
           /\ g.forced # Nowhere => g.board[g.forced].side = g.turn /\ g.taken # {}

\* A man that reaches the last row is a king, and nobody moves twice in a row:
\* what a chain has taken is gone from the board.
BoardHonest ==
  /\ \A q \in g.taken : g.board[q] = Empty
  /\ \A c \in 1..Rows : /\ <<1, c>> \in Squares => g.board[<<1, c>>] # Man("X")
                        /\ <<Rows, c>> \in Squares => g.board[<<Rows, c>>] # Man("O")

\* A draw is drawn by a repeated position or by both sides' idleness, never while a
\* side could not go on.
Settled ==
  Over => IF g.result.winner = "none"
          THEN /\ \A side \in Sides : Men(g, side) # {}
               /\ \/ g.seen[Position(g)] >= Repetitions
                  \/ \A side \in Sides : g.idle[side] >= IdleTurns
          ELSE g.turn # g.result.winner /\ Moves(g) = {}
=============================================================================
