------------------------------ MODULE TrainCards -----------------------------
(***************************************************************************)
(* app/games/train_cards.py: every player turns the first card of the own  *)
(* pile onto the train; a card that meets its rank takes all cards from    *)
(* there on to the end of the pile.  Who has no card left is out.          *)
(***************************************************************************)
EXTENDS Table

CONSTANTS Seats,
          Deck,          \* the rank of each card, by card
          MaxActions

VARIABLE g

Players == 0..(Seats - 1)
Cards == DOMAIN Deck
Over == g.result.over

\* _position_hash: what two equal positions agree on.
Position(s) == <<s.turn, s.active, s.table, s.hands>>

\* The deck is dealt out card by card, the opener first.
Init ==
  \E deck \in {d \in [Cards -> Cards] : IsInjective(d)} :
    LET hand(p) == [i \in 1..((Len(deck) + Seats - 1 - p) \div Seats) |->
                      deck[(i - 1) * Seats + p + 1]]
        hands == [p \in Players |-> hand(p)]
    IN g = [hands |-> hands, table |-> <<>>, active |-> Players, turn |-> 0, actions |-> 0,
            seen |-> {<<0, Players, <<>>, hands>>}, result |-> NoResult]

After(s, p) == NextSeat(Seats, p, s.active)

\* _finish, with the stakes of settlement_deltas.
Finish(s, winner, reason) ==
  [s EXCEPT !.turn = -1,
     !.result = [over |-> TRUE, winner |-> winner, reason |-> reason,
                 deltas |-> [p \in Players |-> IF winner = -1 THEN 0
                               ELSE IF p = winner THEN Seats - 1 ELSE -1]]]

\* The newest card of the train the turned card meets, 0 when there is none.
Match(table, card) ==
  LET same == {i \in DOMAIN table : Deck[table[i]] = Deck[card]}
  IN IF same = {} THEN 0 ELSE Max(same)

\* One card: the collection, the elimination, and then the end of the game: the
\* last one with cards, a position met before, or too many actions.
Flip(p) ==
  /\ ~Over /\ g.turn = p /\ g.hands[p] # <<>>
  /\ LET card == Head(g.hands[p])
         at == Match(g.table, card)
         train == Append(g.table, card)
         taken == IF at = 0 THEN <<>> ELSE SubSeq(train, at, Len(train))
         hand == Tail(g.hands[p]) \o taken
         s == [g EXCEPT !.hands[p] = hand,
                        !.table = SubSeq(train, 1, Len(train) - Len(taken)),
                        !.active = IF hand = <<>> THEN @ \ {p} ELSE @,
                        !.actions = @ + 1]
         t == [s EXCEPT !.turn = After(s, p)]
     IN g' = IF Cardinality(s.active) = 1
             THEN Finish(s, CHOOSE q \in s.active : TRUE, "last_player_with_cards")
             ELSE IF Position(t) \in t.seen THEN Finish(t, -1, "repeated_position")
             ELSE IF t.actions >= MaxActions THEN Finish(t, -1, "action_limit")
             ELSE [t EXCEPT !.seen = @ \union {Position(t)}]

\* Who leaves keeps the cards out of the game.
Resign(p) ==
  /\ ~Over /\ p \in g.active
  /\ LET s == [g EXCEPT !.active = @ \ {p}]
     IN g' = IF Cardinality(s.active) = 1
             THEN Finish(s, CHOOSE q \in s.active : TRUE, "last_player_with_cards")
             ELSE IF g.turn = p THEN [s EXCEPT !.turn = After(s, p)] ELSE s

Next == \E p \in Players : Flip(p) \/ Resign(p)

-----------------------------------------------------------------------------
\* Every card is in one pile or on the train, once.
Pile(s, p) == IF p = -1 THEN s.table ELSE s.hands[p]
Places(s) == UNION {{p} \X DOMAIN Pile(s, p) : p \in Players \union {-1}}
CardAt(s, x) == Pile(s, x[1])[x[2]]
CardsConserved ==
  /\ \A x \in Places(g) : CardAt(g, x) \in Cards
  /\ \A c \in Cards : \E x \in Places(g) : {y \in Places(g) : CardAt(g, y) = c} = {x}

\* Whose turn it is is in the game with a card to turn.
AskedMayAct == ~Over => g.turn \in g.active /\ g.hands[g.turn] # <<>>

\* The train never holds two cards of one rank.
NoPairOnTrain == \A i, j \in DOMAIN g.table : i # j => Deck[g.table[i]] # Deck[g.table[j]]

\* A winner is the last one in the game; a draw leaves at least two.
Settled ==
  Over => /\ Total(g.result.deltas, Players) = 0
          /\ IF g.result.winner = -1 THEN Cardinality(g.active) > 1
             ELSE g.active = {g.result.winner}
=============================================================================
