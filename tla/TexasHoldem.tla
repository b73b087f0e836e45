----------------------------- MODULE TexasHoldem -----------------------------
(***************************************************************************)
(* One hand of no-limit hold'em: app/games/texas_holdem.py over the        *)
(* vendored hand engine (third_party/pypokerengine).  The plugin decides   *)
(* which actions are legal from its own betting record; the engine checks  *)
(* the action again with its own record of raises and silently turns what  *)
(* it refuses into a fold.  Cards are abstracted to the strength each hand *)
(* turns out to have at the showdown.                                      *)
(***************************************************************************)
EXTENDS Table

CONSTANTS Seats,        \* the number of players
          InitialStack, SmallBlind, \* INITIAL_STACK, SMALL_BLIND
          Stake,        \* the stake of the room, one per player
          Openers       \* the seats first_player_id may name

VARIABLE g

BigBlind == 2 * SmallBlind
Players == 0..(Seats - 1)
Over == g.result.over

Active(s) == {p \in Players : s.status[p] # "folded"}
Waiting(s) == {p \in Players : s.status[p] = "wait"}
CurrentBet(s) == Max({s.bet[p] : p \in Players})

\* Where a street starts asking: heads-up the button opens after the flop.
FirstAsked(s) ==
  NextSeat(Seats, IF Seats = 2 THEN s.dealer ELSE (s.sb + Seats - 1) % Seats,
           Waiting(s))

NewBetting(s) ==
  [s EXCEPT !.lastFull = BigBlind,
            !.actedAt = [p \in Players |-> -1],
            !.faced = [p \in Players |-> TRUE]]

Init ==
  \E opener \in Openers :
    LET dealer == IF Seats = 2 THEN opener ELSE (opener - 3) % Seats
        sb == IF Seats = 2 THEN dealer ELSE (dealer + 1) % Seats
        bb == (sb + 1) % Seats
        blind == [p \in Players |-> IF p = sb THEN SmallBlind
                                    ELSE IF p = bb THEN BigBlind ELSE 0]
    IN g = [street |-> 0, dealer |-> dealer, sb |-> sb, turn |-> opener,
            stack |-> [p \in Players |-> InitialStack - blind[p]],
            paid |-> blind, bet |-> blind,
            status |-> [p \in Players |-> "wait"],
            acted |-> [p \in Players |-> FALSE],
            engineTop |-> BigBlind, engineAdd |-> SmallBlind,
            lastFull |-> BigBlind,
            actedAt |-> [p \in Players |-> -1],
            faced |-> [p \in Players |-> TRUE],
            result |-> NoResult]

-----------------------------------------------------------------------------
(* What the plugin allows, and what the engine accepts. *)

MaxTo(s, p) == s.bet[p] + s.stack[p]

MinimumTo(s) ==
  IF CurrentBet(s) < BigBlind THEN BigBlind ELSE CurrentBet(s) + s.lastFull

RaiseReopened(s, p) ==
  \/ s.actedAt[p] = -1
  \/ ~s.faced[p]
  \/ CurrentBet(s) - s.actedAt[p] >= s.lastFull

\* The amounts a bet, a raise or an all-in of p may reach.
RaiseAmounts(s, p) ==
  IF MaxTo(s, p) > CurrentBet(s) /\ RaiseReopened(s, p)
  THEN (MinimumTo(s)..MaxTo(s, p)) \union {MaxTo(s, p)}
  ELSE {}

EngineMinimum(s) ==
  IF s.engineTop = 0 THEN BigBlind ELSE s.engineTop + s.engineAdd

EngineAccepts(s, p, kind, to) ==
  CASE kind = "call" -> \/ to >= MaxTo(s, p)
                        \/ to = s.engineTop /\ s.stack[p] >= to - s.bet[p]
    [] kind = "raise" -> to = MaxTo(s, p) \/ to >= EngineMinimum(s)
    [] OTHER -> TRUE

-----------------------------------------------------------------------------
(* The showdown: pots by the caps of the players who are all in. *)

Caps(s) == {s.paid[p] : p \in {q \in Players : s.status[q] = "allin"}}
UpTo(s, cap) ==
  MapThenSumSet(LAMBDA p : IF s.paid[p] < cap THEN s.paid[p] ELSE cap, Players)
TopPaid(s) == Max({s.paid[p] : p \in Players})

\* Each side pot reaches from the cap below it to its own; the main pot is
\* what exceeds the highest cap.
Pots(s) ==
  LET below(c) == {d \in Caps(s) : d < c}
      floor(c) == IF below(c) = {} THEN 0 ELSE UpTo(s, Max(below(c)))
      top == IF Caps(s) = {} THEN 0 ELSE UpTo(s, Max(Caps(s)))
      side == {[cap |-> c, amount |-> UpTo(s, c) - floor(c)] : c \in Caps(s)}
      main == [cap |-> TopPaid(s), amount |-> Total(s.paid, Players) - top]
  IN {pot \in side \union {main} : pot.amount > 0}

Eligible(s, pot) == {p \in Active(s) : s.paid[p] >= pot.cap}

\* Mutant: the chips that cannot be divided stay in the pot.
PrizeRoundedDown(s, strength, pot, p) ==
  LET winners == Best(strength, Eligible(s, pot))
  IN IF p \in winners THEN pot.amount \div Cardinality(winners) ELSE 0

\* The share of p: the odd chips go to the winners left of the button.
Prize(s, strength, pot, p) ==
  LET winners == Best(strength, Eligible(s, pot))
      left(q) == (q - s.dealer - 1) % Seats
      earlier == {q \in winners : left(q) < left(p)}
  IN IF p \notin winners THEN 0
     ELSE pot.amount \div Cardinality(winners)
          + (IF Cardinality(earlier) < pot.amount % Cardinality(winners) THEN 1 ELSE 0)

\* The wallet pays stack * stake / InitialStack by largest remainder.
Apportion(final) ==
  LET due(p) == (final[p] * Stake) \div InitialStack
      rest(p) == (final[p] * Stake) % InitialStack
      remaining == Seats * Stake - MapThenSumSet(due, Players)
      before(p) == {q \in Players : \/ rest(q) > rest(p)
                                    \/ rest(q) = rest(p) /\ q < p}
  IN [p \in Players |-> due(p) + IF Cardinality(before(p)) < remaining THEN 1 ELSE 0]

Finish(s, payout) ==
  LET final == [p \in Players |-> s.stack[p] + payout[p]]
  IN [s EXCEPT !.street = 5, !.stack = final,
               !.result = [over |-> TRUE, payout |-> payout,
                           deltas |-> [p \in Players |-> Apportion(final)[p] - Stake]]]

Showdown(s, strength) ==
  Finish(s, [p \in Players |->
               MapThenSumSet(LAMBDA pot : Prize(s, strength, pot, p), Pots(s))])

-----------------------------------------------------------------------------
(* The engine: one action, then the next seat, street or the showdown. *)

Agreed(s) ==
  LET next == NextSeat(Seats, s.turn, Waiting(s))
  IN \/ \A p \in Waiting(s) : s.acted[p] /\ s.bet[p] = CurrentBet(s)
     \/ Cardinality(Active(s)) = 1
     \/ Cardinality(Waiting(s)) = 1 /\ s.bet[next] = CurrentBet(s)

NextStreet(s) ==
  NewBetting([s EXCEPT !.street = @ + 1, !.turn = FirstAsked(s),
                       !.bet = [p \in Players |-> 0],
                       !.acted = [p \in Players |-> FALSE],
                       !.engineTop = 0, !.engineAdd = 0])

\* A pot nobody may win makes the engine take the best of no hands: it raises
\* and the request is refused.
PotWithoutWinner(s) == \E pot \in Pots(s) : Eligible(s, pot) = {}

ToShowdown(s) == Agreed(s) /\ (s.street = 3 \/ Cardinality(Waiting(s)) <= 1)

\* The states the table may be left in (the strengths are the cards').
Continue(s) ==
  IF ~Agreed(s) THEN {[s EXCEPT !.turn = NextSeat(Seats, @, Waiting(s))]}
  ELSE IF ~ToShowdown(s) THEN {NextStreet(s)}
  ELSE {Showdown(s, strength) : strength \in {f \in [Players -> 1..2] : ~PotWithoutWinner(s)}}

PayUpTo(s, p, to) ==
  LET need == to - s.bet[p]
  IN [s EXCEPT !.stack[p] = @ - need, !.paid[p] = @ + need, !.bet[p] = to,
               !.acted[p] = TRUE,
               !.status[p] = IF need = s.stack[p] THEN "allin" ELSE @]

FoldSeat(s, p) == [s EXCEPT !.status[p] = "folded", !.acted[p] = TRUE]

EngineStep(s, p, kind, to) ==
  CASE kind = "fold" \/ ~EngineAccepts(s, p, kind, to) -> FoldSeat(s, p)
    [] kind = "call" -> PayUpTo(s, p, IF to < MaxTo(s, p) THEN to ELSE MaxTo(s, p))
    [] kind = "raise" -> [PayUpTo(s, p, to) EXCEPT !.engineTop = to,
                                                   !.engineAdd = to - s.engineTop]

\* The plugin's betting record, kept while the street lasts.
Record(s, p, kind, t) ==
  LET increment == CurrentBet(t) - CurrentBet(s)
  IN [t EXCEPT !.lastFull = IF increment >= @ THEN increment ELSE @,
               !.actedAt[p] = CurrentBet(t),
               !.faced[p] = CurrentBet(s) > 0 \/ kind # "check"]

Act(p, kind, engineKind, to) ==
  /\ ~Over /\ g.turn = p
  /\ g' \in Continue(Record(g, p, kind, EngineStep(g, p, engineKind, to)))

Check(p) == CurrentBet(g) = g.bet[p] /\ Act(p, "check", "call", CurrentBet(g))
Call(p) == CurrentBet(g) > g.bet[p] /\ Act(p, "call", "call", CurrentBet(g))
Fold(p) == Act(p, "fold", "fold", 0)
BetOrRaise(p) == \E to \in RaiseAmounts(g, p) : Act(p, "raise", "raise", to)

\* apply_resignation: the only opponent wins at once, otherwise the seat is
\* folded out of turn and the turn returns to the seat that was asked.
Resign(p) ==
  /\ ~Over /\ g.status[p] # "folded"
  /\ LET s == FoldSeat(g, p)
         cleared == [s EXCEPT !.actedAt[p] = -1, !.faced[p] = TRUE]
         pot == Total(g.paid, Players)
     IN IF Cardinality(Active(g)) = 2
        THEN g' = Finish(cleared, [q \in Players |->
                                     IF q \in Active(s) THEN pot ELSE 0])
        ELSE g' \in {IF t.street = g.street /\ g.turn \in Waiting(t)
                     THEN [t EXCEPT !.turn = g.turn] ELSE t :
                       t \in Continue([cleared EXCEPT !.turn = p])}

Next == \E p \in Players : Check(p) \/ Call(p) \/ Fold(p) \/ BetOrRaise(p) \/ Resign(p)

-----------------------------------------------------------------------------
\* The stacks and the pots hold the chips the players sat down with.
ChipsConserved ==
  Total(g.stack, Players) + (IF Over THEN 0 ELSE Total(g.paid, Players))
    = Seats * InitialStack

\* The seat that is asked may still act, and has a reason to be asked.
AskedMayAct ==
  ~Over => /\ g.turn \in Waiting(g)
           /\ ~(g.acted[g.turn] /\ g.bet[g.turn] = CurrentBet(g))
           /\ g.stack[g.turn] > 0

\* Nothing the plugin lets through is turned into a fold by the engine.
NeverFoldedByEngine ==
  ~Over => /\ EngineAccepts(g, g.turn, "call", CurrentBet(g))
           /\ \A to \in RaiseAmounts(g, g.turn) : EngineAccepts(g, g.turn, "raise", to)

\* Whoever is asked may leave the hand: no fold is refused.
FoldNeverRefused ==
  ~Over => ~(ToShowdown(FoldSeat(g, g.turn)) /\ PotWithoutWinner(FoldSeat(g, g.turn)))

\* The wallets pay each other no more than the stake, in the order of the
\* stacks, and who folded wins no pot.
Settled ==
  Over => /\ Total(g.result.deltas, Players) = 0
          /\ \A p \in Players : g.result.deltas[p] >= -Stake
          /\ \A p \in Players : g.status[p] = "folded" => g.result.payout[p] = 0
          /\ \A p, q \in Players : g.stack[p] > g.stack[q]
                                     => g.result.deltas[p] >= g.result.deltas[q]
=============================================================================
