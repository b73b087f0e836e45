------------------------------ MODULE Blackjack ------------------------------
(***************************************************************************)
(* app/games/blackjack.py: every player against a dealer without a wallet. *)
(* A hand is its hard total, whether it holds an ace, and its number of    *)
(* cards, three standing for more; a draw takes any card of Ranks (the     *)
(* six-deck shoe outlasts a round).                                        *)
(***************************************************************************)
EXTENDS Table

CONSTANTS Seats,
          Ranks,   \* the card values dealt: 1 is an ace, 10 a ten or a face
          Stake

VARIABLE g

Players == 0..(Seats - 1)
Over == g.result.over

Empty == [hard |-> 0, ace |-> FALSE, cards |-> 0]
Add(hand, r) == [hard |-> hand.hard + r, ace |-> hand.ace \/ r = 1,
                 cards |-> IF hand.cards < 3 THEN hand.cards + 1 ELSE 3]

\* hand_value: one ace counts eleven as long as the hand does not bust.
Value(hand) == IF hand.ace /\ hand.hard + 10 <= 21 THEN hand.hard + 10 ELSE hand.hard
Bust(hand) == hand.hard > 21
Natural(hand) == hand.cards = 2 /\ Value(hand) = 21

Pairs == {Add(Add(Empty, a), b) : a, b \in Ranks}

Playing(s) == {p \in Players : s.status[p] = "playing"}

\* The opener is the first seat with something to decide; at a table of
\* naturals the proposed seat acknowledges.
Init ==
  \E hand \in [Players -> Pairs], dealer \in Pairs :
    LET status == [p \in Players |-> IF Natural(hand[p]) THEN "blackjack" ELSE "playing"]
        playing == {p \in Players : status[p] = "playing"}
    IN g = [hand |-> hand, dealer |-> dealer, status |-> status,
            turn |-> IF playing = {} THEN 0 ELSE NextSeat(Seats, Seats - 1, playing),
            result |-> NoResult]

-----------------------------------------------------------------------------
Outcome(s, dealer, p) ==
  LET hand == s.hand[p]
  IN CASE s.status[p] = "resigned" -> "loss"
       [] s.status[p] # "resigned" /\ Bust(hand) -> "loss"
       [] s.status[p] # "resigned" /\ Natural(hand) ->
            IF Natural(dealer) THEN "push" ELSE "win"
       [] OTHER -> IF Natural(dealer) THEN "loss"
                   ELSE IF Bust(dealer) \/ Value(hand) > Value(dealer) THEN "win"
                   ELSE IF Value(hand) < Value(dealer) THEN "loss" ELSE "push"

\* _dealer_play: the hands the dealer may end with, drawing below 17.
MustDraw(hand) == Value(hand) < 17
DealerHands(hand) ==
  LET more(S) == S \union {Add(h, r) : h \in {k \in S : MustDraw(k)}, r \in Ranks}
      grow[n \in 0..15] == IF n = 0 THEN {hand} ELSE more(grow[n - 1])
  IN {h \in grow[15] : ~MustDraw(h)}

Settle(s) ==
  {[s EXCEPT !.dealer = dealer,
             !.result = [over |-> TRUE,
                         outcome |-> [p \in Players |-> Outcome(s, dealer, p)]]]
     : dealer \in DealerHands(s.dealer)}

\* settlement_deltas: not zero-sum, the dealer's side has no wallet.
Delta(outcome) == CASE outcome = "win" -> Stake
                    [] outcome = "loss" -> -Stake
                    [] outcome = "push" -> 0

-----------------------------------------------------------------------------
MayAct(p) == ~Over /\ g.turn = p

\* What follows an action of p: p again, the next seat still playing, the dealer.
PassOn(s, p) ==
  IF s.status[p] = "playing" THEN {s}
  ELSE IF Playing(s) # {} THEN {[s EXCEPT !.turn = NextSeat(Seats, p, Playing(s))]}
  ELSE Settle(s)

Hit(p) ==
  /\ MayAct(p) /\ g.status[p] = "playing" /\ Value(g.hand[p]) < 21
  /\ \E r \in Ranks :
       LET hand == Add(g.hand[p], r)
       IN g' \in PassOn([g EXCEPT !.hand[p] = hand,
                                  !.status[p] = IF Bust(hand) THEN "bust" ELSE @], p)

\* A natural only acknowledges, at a table where nobody has to decide.
Stand(p) ==
  /\ MayAct(p) /\ g.status[p] \in {"playing", "blackjack"}
  /\ g' \in PassOn([g EXCEPT !.status[p] = IF @ = "playing" THEN "stood" ELSE @], p)

\* apply_resignation: the leaver loses; without a seat left to decide the
\* dealer plays, otherwise the turn moves if it was the leaver's.
Resign(p) ==
  /\ ~Over /\ g.status[p] # "resigned"
  /\ LET s == [g EXCEPT !.status[p] = "resigned"]
     IN IF Playing(s) = {} THEN g' \in Settle(s)
        ELSE g' = [s EXCEPT !.turn = IF @ = p THEN NextSeat(Seats, p, Playing(s)) ELSE @]

Next == \E p \in Players : Hit(p) \/ Stand(p) \/ Resign(p)

-----------------------------------------------------------------------------
\* The turn is never left with a seat that has nothing to decide while
\* another has.
AskedMayAct ==
  ~Over => \/ g.status[g.turn] = "playing"
           \/ Playing(g) = {} /\ g.status[g.turn] = "blackjack"

\* The dealer's hand is drawn to the end exactly once and decides every seat:
\* who left or bust lost, a natural never loses, and the better hand is not paid
\* less.  The house pays and collects, so nothing is said of the sum.
Settled ==
  IF ~Over THEN g.dealer.cards = 2 
  ELSE /\ Playing(g) = {}
       /\ ~MustDraw(g.dealer)
       /\ \A p \in Players :
            /\ g.status[p] \in {"resigned", "bust"} => Delta(g.result.outcome[p]) < 0
            /\ g.status[p] = "blackjack" => Delta(g.result.outcome[p]) >= 0
       /\ \A p, q \in Players :
            /\ {g.status[p], g.status[q]} \subseteq {"stood", "blackjack"}
            /\ Value(g.hand[p]) >= Value(g.hand[q])
            /\ ~Natural(g.hand[q])
            => Delta(g.result.outcome[p]) >= Delta(g.result.outcome[q])
=============================================================================
