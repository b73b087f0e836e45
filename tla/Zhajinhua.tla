------------------------------ MODULE Zhajinhua ------------------------------
(***************************************************************************)
(* app/games/zhajinhua.py: three hidden cards, a rising blind unit, paid   *)
(* comparisons that knock one of two players out, and a forced showdown    *)
(* after the last round.  Cards are abstracted to the rank of each hand.   *)
(***************************************************************************)
EXTENDS Table

CONSTANTS Seats, HandRanks,  \* the players; how good a hand can be (a set of numbers)
          Tiers,             \* RAISE_TIERS, a set of units that holds 1
          VirtualBudget, MaxRounds, Stake

VARIABLE g

Ante == 1
Players == 0..(Seats - 1)
Over == g.result.over
Active(s) == {p \in Players : s.status[p] = "active"}

Init ==
  \E strength \in [Players -> HandRanks] :
    g = [strength |-> strength, turn |-> 0,
         status |-> [p \in Players |-> "active"],
         seen |-> [p \in Players |-> FALSE],
         contribution |-> [p \in Players |-> Ante], pot |-> Ante * Seats,
         unit |-> 1, round |-> 1, acted |-> {}, result |-> NoResult]

Cost(s, p, unit) == unit * (IF s.seen[p] THEN 2 ELSE 1)
Affords(s, p, cost) == s.contribution[p] + cost <= VirtualBudget

Charge(s, p, cost) == [s EXCEPT !.contribution[p] = @ + cost, !.pot = @ + cost]

-----------------------------------------------------------------------------
(* The end of the hand. *)

\* settlement_deltas: a drawn showdown returns every wager, otherwise the
\* winner takes what the others put in.
Deltas(s, winners) ==
  [p \in Players |->
     IF Cardinality(winners) > 1 THEN 0
     ELSE IF p \in winners THEN (s.pot - s.contribution[p]) * Stake
     ELSE -(s.contribution[p] * Stake)]

Finish(s, winners, reason) ==
  [s EXCEPT !.result = [over |-> TRUE, winners |-> winners, reason |-> reason,
                        deltas |-> Deltas(s, winners)]]

\* _complete_counted_turn, and the next seat when the hand goes on.
CompleteTurn(s, p) ==
  LET active == Active(s)
      acted == (s.acted \union {p}) \intersect active
      passOn(t) == [t EXCEPT !.turn = NextSeat(Seats, p, active)]
  IN IF Cardinality(active) = 1 THEN Finish(s, active, "last_player_standing")
     ELSE IF ~(active \subseteq acted) THEN passOn([s EXCEPT !.acted = acted])
     ELSE IF s.round >= MaxRounds
     THEN Finish([s EXCEPT !.acted = acted], Best(s.strength, active), "showdown")
     ELSE passOn([s EXCEPT !.acted = {}, !.round = @ + 1])

-----------------------------------------------------------------------------
(* The actions of the player whose turn it is. *)

MayAct(p) == ~Over /\ g.turn = p /\ g.status[p] = "active"

Peek(p) == MayAct(p) /\ ~g.seen[p] /\ g' = [g EXCEPT !.seen[p] = TRUE]

Call(p) ==
  /\ MayAct(p)
  /\ Affords(g, p, Cost(g, p, g.unit))
  /\ g' = CompleteTurn(Charge(g, p, Cost(g, p, g.unit)), p)

Raise(p) ==
  \E unit \in Tiers :
    /\ MayAct(p)
    /\ unit > g.unit
    /\ Affords(g, p, Cost(g, p, unit))
    /\ g' = CompleteTurn([Charge(g, p, Cost(g, p, unit)) EXCEPT !.unit = unit], p)

\* A tie is lost by the player who asked to compare.
Compare(p) ==
  \E q \in Active(g) \ {p} :
    /\ MayAct(p)
    /\ g.seen[p] /\ g.round >= 2
    /\ Affords(g, p, Cost(g, p, g.unit))
    /\ LET loser == IF g.strength[p] <= g.strength[q] THEN p ELSE q
           s == Charge(g, p, Cost(g, p, g.unit))
       IN g' = CompleteTurn([s EXCEPT !.status[loser] = "compare_lost"], p)

Fold(p) ==
  /\ MayAct(p)
  /\ g' = CompleteTurn([g EXCEPT !.status[p] = "folded"], p)

\* apply_resignation does not close the round the leaver was the last to act in.
Resign(p) ==
  /\ ~Over
  /\ g.status[p] = "active"
  /\ LET s == [g EXCEPT !.status[p] = "folded", !.acted = @ \ {p}]
     IN g' = IF Cardinality(Active(s)) = 1 THEN Finish(s, Active(s), "resignation")
             ELSE IF g.turn = p THEN [s EXCEPT !.turn = NextSeat(Seats, p, Active(s))]
             ELSE s

Next == \E p \in Players : \/ Peek(p) \/ Call(p) \/ Raise(p)
                           \/ Compare(p) \/ Fold(p) \/ Resign(p)

-----------------------------------------------------------------------------
\* The pot is what the players put in, and nobody puts in more than the budget
\* that bounds the real loss.
PotBacked ==
  /\ g.pot = Total(g.contribution, Players)
  /\ \A p \in Players : g.contribution[p] \in Ante..VirtualBudget

\* A player still in the hand holds the turn, and no round outlives the cap.
AskedMayAct == ~Over => g.turn \in Active(g) /\ g.round <= MaxRounds

\* The winner never left the hand and no hand still in beats the winner; the
\* settlement moves chips between players and stays within the budget.
Settled ==
  Over => /\ g.result.winners # {}
          /\ \A p \in g.result.winners : g.status[p] = "active"
          /\ \A p \in g.result.winners, q \in Active(g) : g.strength[q] <= g.strength[p]
          /\ Total(g.result.deltas, Players) = 0
          /\ \A p \in Players : g.result.deltas[p] >= -(VirtualBudget * Stake)
=============================================================================
