--------------------------------- MODULE Uno ---------------------------------
(***************************************************************************)
(* app/games/uno.py: matching the top card by colour or kind, penalties    *)
(* that draw, the catch of who kept quiet with one card left, and the      *)
(* challenge of a wild draw four.  Order in the deck is a choice made when *)
(* a card is drawn.                                                        *)
(***************************************************************************)
EXTENDS Table

CONSTANTS Seats, HandSize, Stake,
          Cards     \* records [color, kind], the wild ones of colour "none"

VARIABLE g

Players == 0..(Seats - 1)
Over == g.result.over
Wild == {"wild", "wild_draw_four"}
Colors == {c.color : c \in Cards} \ {"none"}
NoSeat == -1
NoPending == [offender |-> NoSeat, challenger |-> NoSeat, legal |-> TRUE, winner |-> NoSeat]
NoWindow == [offender |-> NoSeat, catcher |-> NoSeat]

\* Seven cards each and a number to start from.
Init ==
  \E top \in {c \in Cards : c.kind \notin Wild \union {"skip", "reverse", "draw_two"}} :
    \E hands \in [Players -> kSubset(HandSize, Cards \ {top})] :
      /\ \A p, q \in Players : p # q => hands[p] \cap hands[q] = {}
      /\ g = [hands |-> hands, top |-> top, discard |-> {}, color |-> top.color,
              deck |-> Cards \ ({top} \union UNION {hands[p] : p \in Players}),
              order |-> Players, turn |-> 0, step |-> 1, drawn |-> {},
              pending |-> NoPending, window |-> NoWindow, result |-> NoResult]

CanPlay(s, card) == card.kind \in Wild \/ card.color = s.color \/ card.kind = s.top.kind

\* Mutant: the turn goes to the next chair, whoever has left it.
NextChair(s, p) == (p + s.step) % Seats

\* The first seat at the table after p, in the direction of play.
Next1(s, p) ==
  LET Met(k) == (p + s.step * k) % Seats \in s.order
  IN (p + s.step * CHOOSE k \in 1..Seats : Met(k) /\ \A j \in 1..(k - 1) : ~Met(j)) % Seats

\* _draw_many: n cards for p from the deck, then from the reshuffled discards; as
\* many as there are.
DrawMany(s, p, n) ==
  LET short == n - Cardinality(s.deck)
      taken == IF short <= 0
               THEN {[cards |-> c, deck |-> s.deck \ c, discard |-> s.discard] :
                       c \in kSubset(n, s.deck)}
               ELSE {[cards |-> s.deck \union c, deck |-> s.discard \ c, discard |-> {}] :
                       c \in kSubset(Min({short, Cardinality(s.discard)}), s.discard)}
  IN {[s EXCEPT !.hands[p] = @ \union t.cards, !.deck = t.deck, !.discard = t.discard] :
        t \in taken}

\* Whoever might have caught the last player acts on something else.
CloseWindow(s, p) == [s EXCEPT !.window = IF @.catcher = p THEN NoWindow ELSE @]

Finish(s, p) ==
  [s EXCEPT !.turn = NoSeat, !.pending = NoPending, !.window = NoWindow, !.drawn = {},
            !.result = [over |-> TRUE, winner |-> p]]

-----------------------------------------------------------------------------
CatchUno(p) ==
  /\ g.turn = p /\ g.window.catcher = p
  /\ g' \in DrawMany([g EXCEPT !.window = NoWindow], g.window.offender, 2)

Free(p) == ~Over /\ g.turn = p /\ g.pending = NoPending

\* A drawn card may be played at once; else the turn passes.
Draw(p) ==
  /\ Free(p) /\ g.drawn = {}
  /\ \E s \in DrawMany(CloseWindow(g, p), p, 1) :
       LET fit == {c \in s.hands[p] \ g.hands[p] : CanPlay(s, c)}
       IN g' = IF fit # {} THEN [s EXCEPT !.drawn = fit] ELSE [s EXCEPT !.turn = Next1(s, p)]

Pass(p) ==
  /\ Free(p) /\ g.drawn # {}
  /\ g' = [CloseWindow(g, p) EXCEPT !.drawn = {}, !.turn = Next1(g, p)]

\* The card's effect, then the turn; a wild draw four waits for the answer of who
\* is next, even when it was the last card.
Play(p) ==
  /\ Free(p)
  /\ \E card \in IF g.drawn = {} THEN g.hands[p] ELSE g.drawn :
     \E color \in IF card.kind \in Wild THEN Colors ELSE {card.color} : \E uno \in BOOLEAN :
       LET rest == g.hands[p] \ {card}
           two == Cardinality(g.order) = 2
           s == [CloseWindow(g, p) EXCEPT
                   !.hands[p] = rest, !.discard = @ \union {g.top}, !.top = card,
                   !.color = color, !.drawn = {},
                   !.step = IF card.kind = "reverse" /\ ~two THEN -@ ELSE @]
           next == Next1(s, p)
           turn == IF card.kind \in {"skip", "draw_two"} \/ (card.kind = "reverse" /\ two)
                   THEN Next1(s, next) ELSE next
           honest == ~\E c \in rest : c.color = g.color
           told == [s EXCEPT
             !.turn = turn,
             !.window = IF Cardinality(rest) = 1 /\ ~uno /\ turn # p
                        THEN [offender |-> p, catcher |-> turn]
                        ELSE IF rest = {} \/ uno THEN NoWindow ELSE @]
       IN /\ CanPlay(g, card)
          /\ uno => Cardinality(rest) = 1
          /\ IF card.kind = "wild_draw_four"
             THEN g' = [told EXCEPT
                          !.pending = [offender |-> p, challenger |-> next, legal |-> honest,
                                       winner |-> IF rest = {} THEN p ELSE NoSeat]]
             ELSE \E d \in DrawMany(told, next, IF card.kind = "draw_two" THEN 2 ELSE 0) :
                    g' = IF rest = {} THEN Finish(d, p) ELSE d

\* Challenge a wild draw four or accept it: a caught offender draws four and the
\* challenger plays on; else the challenger draws, six for a wrong challenge, and
\* the offender wins if that was the last card.
Answer(p) ==
  /\ ~Over /\ g.turn = p /\ g.pending.challenger = p
  /\ LET s == [CloseWindow(g, p) EXCEPT !.pending = NoPending]
         winner == g.pending.winner
     IN \/ /\ ~g.pending.legal
           /\ g' \in DrawMany(s, g.pending.offender, 4)
        \/ \E n \in {4} \union (IF g.pending.legal THEN {6} ELSE {}) :
           \E d \in DrawMany(s, p, n) :
             g' = IF winner # NoSeat THEN Finish(d, winner)
                  ELSE [d EXCEPT !.turn = Next1(d, p)]

\* What the leaver was part of is called off; the last at the table wins.
Resign(p) ==
  /\ ~Over /\ p \in g.order
  /\ LET rest == g.order \ {p}
         s == [g EXCEPT
           !.order = rest,
           !.turn = IF @ = p THEN Next1(g, p) ELSE @,
           !.drawn = IF g.turn = p THEN {} ELSE @,
           !.pending = IF p \in {@.offender, @.challenger} THEN NoPending ELSE @,
           !.window = IF p \in {@.offender, @.catcher} THEN NoWindow ELSE @]
     IN g' = IF Cardinality(rest) = 1 THEN Finish(s, CHOOSE q \in rest : TRUE) ELSE s

Next == \E p \in Players : CatchUno(p) \/ Draw(p) \/ Pass(p) \/ Play(p) \/ Answer(p) \/ Resign(p)

-----------------------------------------------------------------------------
\* Each card is in one hand, in the deck, on top or below it.
CardsConserved ==
  LET piles == <<{g.top}, g.discard, g.deck>> \o [i \in 1..Seats |-> g.hands[i - 1]]
  IN /\ UNION {piles[i] : i \in DOMAIN piles} = Cards
     /\ \A i, j \in DOMAIN piles : i # j => piles[i] \cap piles[j] = {}

\* Who is to act is at the table; a challenge, a drawn card and the chance to
\* catch are theirs, and whoever can be caught holds one card.
AskedMayAct ==
  ~Over => /\ g.turn \in g.order
           /\ g.drawn \subseteq g.hands[g.turn]
           /\ g.pending # NoPending =>
                g.pending.challenger = g.turn /\ g.pending.offender \in g.order \ {g.turn}
           /\ g.window # NoWindow =>
                /\ g.window.catcher = g.turn
                /\ g.window.offender \in g.order
                /\ Cardinality(g.hands[g.window.offender]) = 1

\* A player without cards has won, or wins once the last card is accepted.
EmptyHandWins ==
  \A p \in g.order : g.hands[p] = {} => (IF Over THEN g.result.winner = p
                                         ELSE g.pending.winner = p)

\* Who wins is still at the table, without a card or alone; and as long as nobody
\* resigns, who empties a hand wins, or is about to.  After a resignation only the
\* first is asked: a last wild draw four is not answered any more when one of the
\* two leaves, and the win that uno.py:105 promises after it is dropped (uno.py:729).
Settled ==
  /\ Over => /\ g.result.winner \in g.order
             /\ g.hands[g.result.winner] = {} \/ g.order = {g.result.winner}
  /\ g.order = Players => EmptyHandWins
=============================================================================
