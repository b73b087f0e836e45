------------------------------ MODULE LiarsDice ------------------------------
(***************************************************************************)
(* app/games/liars_dice.py, the classic table: rising bids on all dice, a  *)
(* challenge that costs the loser a die, a pause until the next round is   *)
(* acknowledged, and departures in the middle of it.                       *)
(* A cup is the number of its dice showing each face.                      *)
(***************************************************************************)
EXTENDS Table

CONSTANTS Seats, StartDice, \* the players; the dice of a full cup
          Faces,            \* faces are 1..Faces
          Stake

VARIABLE g

Players == 0..(Seats - 1)
Over == g.result.over

Size(cup) == Total(cup, 1..Faces)
Roll(n) == {cup \in [1..Faces -> 0..n] : Size(cup) = n}
Rolls(counts) == {d \in [Players -> UNION {Roll(n) : n \in 0..StartDice}] :
                    \A p \in Players : Size(d[p]) = counts[p]}

NoBid == [quantity |-> 0, face |-> 0, bidder |-> -1]

Active(s) == {p \in Players : s.counts[p] > 0}
TotalDice(s) == Total(s.counts, Players)

Init ==
  LET counts == [p \in Players |-> StartDice]
  IN \E dice \in Rolls(counts) :
       g = [counts |-> counts, dice |-> dice, bid |-> NoBid, phase |-> "bidding",
            turn |-> 0, starter |-> -1, revealed |-> 0, result |-> NoResult]

-----------------------------------------------------------------------------
\* settlement_deltas: every other seat pays the winner the stake.
Win(s, p) ==
  [s EXCEPT !.phase = "finished", !.bid = NoBid, !.starter = -1,
            !.result = [over |-> TRUE, winner |-> p,
                        deltas |-> [q \in Players |-> IF q = p THEN Stake * (Seats - 1)
                                                      ELSE -Stake]]]

BidIsHigher(old, quantity, face) ==
  \/ old = NoBid
  \/ quantity > old.quantity
  \/ quantity = old.quantity /\ face > old.face

MayAct(p) == g.phase = "bidding" /\ g.turn = p /\ g.counts[p] > 0

\* The framework passes the turn on after a bid.
Bid(p) ==
  \E quantity \in 1..TotalDice(g), face \in 1..Faces :
    /\ MayAct(p)
    /\ BidIsHigher(g.bid, quantity, face)
    /\ g' = [g EXCEPT !.bid = [quantity |-> quantity, face |-> face, bidder |-> p],
                      !.turn = NextSeat(Seats, p, Active(g))]

\* Every cup on the table is counted, then the loser gives a die away: the
\* dice of the others stay in their cups until the acknowledgement.
Challenge(p) ==
  /\ MayAct(p)
  /\ g.bid # NoBid /\ g.bid.bidder # p
  /\ LET actual == Total([q \in Players |-> g.dice[q][g.bid.face]], Players)
         loser == IF actual >= g.bid.quantity THEN p ELSE g.bid.bidder
         s == [g EXCEPT !.counts[loser] = @ - 1, !.revealed = actual]
         left == s.counts[loser]
         t == [s EXCEPT !.bid = NoBid,
                        !.dice[loser] = IF left = 0 THEN [f \in 1..Faces |-> 0] ELSE @]
     IN g' = IF Cardinality(Active(t)) = 1 THEN Win(t, CHOOSE q \in Active(t) : TRUE)
             ELSE [t EXCEPT !.phase = "awaiting_acknowledgement",
                            !.starter = IF left > 0 THEN loser
                                        ELSE NextSeat(Seats, loser, Active(t))]

\* acknowledge_round refuses a starter without dice.
Acknowledge ==
  /\ g.phase = "awaiting_acknowledgement"
  /\ g.starter \in Active(g)
  /\ \E dice \in Rolls(g.counts) :
       g' = [g EXCEPT !.dice = dice, !.bid = NoBid, !.starter = -1,
                      !.phase = "bidding", !.turn = g.starter]

\* apply_resignation: a live bid is dropped, a pending round is kept.
Resign(p) ==
  /\ ~Over /\ g.counts[p] > 0
  /\ LET s == [g EXCEPT !.counts[p] = 0]
         starter == NextSeat(Seats, p, Active(s))
     IN g' = IF Cardinality(Active(s)) = 1 THEN Win(s, starter)
             ELSE IF s.phase = "awaiting_acknowledgement"
             THEN [s EXCEPT !.turn = starter,
                            !.starter = IF @ = p THEN starter ELSE @]
             ELSE [s EXCEPT !.bid = NoBid, !.turn = starter]

Next == Acknowledge \/ \E p \in Players : Bid(p) \/ Challenge(p) \/ Resign(p)

-----------------------------------------------------------------------------
\* Whoever is to act is still in and has something to do: open, raise or
\* challenge somebody else's bid that can still be met.
AskedMayAct ==
  /\ g.phase = "bidding" =>
       /\ g.turn \in Active(g)
       /\ g.bid # NoBid => /\ g.bid.bidder \in Active(g) \ {g.turn}
                            /\ g.bid.quantity <= TotalDice(g)
  /\ g.phase = "awaiting_acknowledgement" => g.starter \in Active(g)

\* A player still in bids on the dice in the cup: as many as the count says.
CupsMatchCounts ==
  g.phase = "bidding" => \A p \in Active(g) : Size(g.dice[p]) = g.counts[p]

\* Only the dice of the players still in are on the table.
OnlySurvivorsCounted ==
  g.phase = "bidding" => \A p \in Players : Size(g.dice[p]) = g.counts[p]

\* The one who is left wins what the others staked.
Settled == Over => /\ Active(g) = {g.result.winner}
                   /\ Total(g.result.deltas, Players) = 0
=============================================================================
