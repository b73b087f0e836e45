------------------------------ MODULE PartyDice ------------------------------
(***************************************************************************)
(* The party table of liar's dice: app/games/liars_dice.py with            *)
(* liars_dice_party.py and liars_dice_rush.py.  Nobody is knocked out;     *)
(* points are kept in half units, a bid opens a window in which anybody    *)
(* may challenge, and any player may end the session at any time.          *)
(***************************************************************************)
EXTENDS Table

CONSTANTS Seats, CupSize, Faces, \* face 1 is wild
          Options,    \* the rule sets a room may be opened with
          MaxRounds,  \* bound on the rounds of a session
          Stake

VARIABLE g

Players == 0..(Seats - 1)
Over == g.result.over
Host == 0

Size(cup) == Total(cup, 1..Faces)
Cups == {cup \in [1..Faces -> 0..CupSize] : Size(cup) = CupSize}

NoBid == [quantity |-> 0, face |-> 0, exact |-> FALSE, bidder |-> -1]
Zero == [p \in Players |-> 0]

Init ==
  \E options \in Options, dice \in [Players -> Cups] :
    g = [options |-> options, dice |-> dice, rerolled |-> {}, bid |-> NoBid,
         phase |-> "bidding", turn |-> 0, starter |-> -1, keep |-> FALSE,
         window |-> FALSE, half |-> Zero, wins |-> Zero, losses |-> Zero,
         result |-> NoResult]

-----------------------------------------------------------------------------
(* Counting a bid. *)

FullCup(cup) == \E f \in 1..Faces : cup[f] = CupSize
WildCup(cup) == cup[1] > 0 /\ Cardinality({f \in 2..Faces : cup[f] > 0}) = 1
AllDifferent(cup) == \A f \in 1..Faces : cup[f] <= 1

CountCup(cup, face, exact, bonuses) ==
  LET wild == ~exact /\ face # 1
      count == cup[face] + IF wild THEN cup[1] ELSE 0
  IN count + (IF ~bonuses THEN 0
              ELSE IF cup[face] = CupSize THEN 2
              ELSE IF wild /\ cup[face] > 0 /\ count = CupSize THEN 1 ELSE 0)

CountBid(s) ==
  MapThenSumSet(LAMBDA p : CountCup(s.dice[p], s.bid.face, s.bid.exact,
                                    ~s.options.literal), Players)

\* total_dice is a public bound: five to a cup, or seven with the bonuses.
TotalDice(s) == Seats * (IF s.options.literal THEN CupSize ELSE CupSize + 2)

IsExact(s, face, exact) == exact \/ face = 1 \/ s.bid.exact

ValidBid(s, quantity, face, exact) ==
  /\ quantity \in 1..TotalDice(s)
  /\ IF s.bid = NoBid
     THEN quantity >= (IF IsExact(s, face, exact) THEN Seats ELSE (3 * Seats + 1) \div 2)
     ELSE quantity > s.bid.quantity \/ (quantity = s.bid.quantity /\ face > s.bid.face)

-----------------------------------------------------------------------------
(* Settling a round, and the session. *)

AtMost(n, cap) == IF n < cap THEN n ELSE cap

Hits(s, loser, challenger) ==
  LET actual == CountBid(s)
      cup == s.dice[s.bid.bidder]
  IN {h \in {"cup_loser", "under_half", "over_double"} :
        CASE h = "cup_loser" -> /\ s.options.cupPenalty /\ loser = s.bid.bidder
                                /\ FullCup(cup) \/ WildCup(cup)
          [] h = "under_half" -> /\ s.options.extreme /\ loser = s.bid.bidder
                                 /\ actual * 2 < s.bid.quantity
          [] h = "over_double" -> /\ s.options.extreme /\ loser = challenger
                                  /\ actual > s.bid.quantity * 2}

\* What the loser, the winner and the companion of the round get, in half
\* units: charges are capped at four times the base, the net is applied once.
RoundDeltas(loser, winner, hits, companion, surrender) ==
  LET multiplier == <<1, 2, 4, 8>>[Cardinality(hits) + 1]
      raw(p) == IF p = loser THEN multiplier * (IF companion = loser THEN 2 ELSE 1)
                ELSE IF p = companion THEN multiplier ELSE 0
      base == IF surrender THEN 1 ELSE 2
      reward(p) == IF p = winner /\ ~surrender THEN 2 ELSE 0
  IN [p \in Players |-> reward(p) - AtMost(base * AtMost(raw(p), 4), 8)]

Companions(s, surrender) ==
  IF ~surrender /\ s.options.companion THEN Players ELSE {-1}

CloseRound(s, loser, winner, hits, surrender) ==
  {[s EXCEPT !.half = [p \in Players |->
                         @[p] + RoundDeltas(loser, winner, hits, c, surrender)[p]],
             !.losses[loser] = @ + 1, !.wins[winner] = @ + 1,
             !.bid = NoBid, !.window = FALSE, !.starter = loser,
             !.keep = surrender /\ s.options.keepDice,
             !.phase = "awaiting_acknowledgement", !.turn = Host]
     : c \in Companions(s, surrender)}

Rounds(s) == Total(s.losses, Players)

\* platform_deltas: those behind pay the stake, those in front share it.
PlatformDeltas(half) ==
  LET winners == Best(half, Players)
      losers == Players \ winners
      pool == Stake * Cardinality(losers)
      extra(p) == Cardinality({q \in winners : q < p}) < pool % Cardinality(winners)
  IN [p \in Players |->
        IF losers = {} THEN 0
        ELSE IF p \in losers THEN -Stake
        ELSE pool \div Cardinality(winners) + IF extra(p) THEN 1 ELSE 0]

Finish(s, reason) ==
  [s EXCEPT !.phase = "finished", !.bid = NoBid, !.window = FALSE, !.starter = -1,
            !.result = [over |-> TRUE, reason |-> reason,
                        deltas |-> IF Rounds(s) = 0 THEN Zero ELSE PlatformDeltas(s.half)]]

-----------------------------------------------------------------------------
Bidding(p) == g.phase = "bidding" /\ g.turn = p

\* A bid opens the rush window, during which bids and surrenders are refused.
Bid(p) ==
  \E quantity \in 1..TotalDice(g), face \in 1..Faces, exact \in BOOLEAN :
    /\ Bidding(p) /\ ~g.window
    /\ ValidBid(g, quantity, face, exact)
    /\ g' = [g EXCEPT !.bid = [quantity |-> quantity, face |-> face, bidder |-> p,
                               exact |-> IsExact(g, face, exact)],
                      !.window = g.options.rush,
                      !.turn = NextSeat(Seats, p, Players)]

Reveal(p) ==
  /\ g.bid # NoBid /\ g.bid.bidder # p
  /\ LET holds == CountBid(g) >= g.bid.quantity
         dark == g.options.dark /\ \A q \in Players : g.dice[q][g.bid.face] = 0
         loser == IF holds # dark THEN p ELSE g.bid.bidder
         winner == IF loser = p THEN g.bid.bidder ELSE p
     IN g' \in CloseRound(g, loser, winner, Hits(g, loser, p), FALSE)

Challenge(p) == Bidding(p) /\ Reveal(p)

\* Out of turn, while the window of the last bid is open.
RushOpen(p) == g.phase = "bidding" /\ g.window /\ Reveal(p)

\* The window runs out (the scheduler bumps the revision of the room).
WindowExpires == g.window /\ g' = [g EXCEPT !.window = FALSE]

Reroll(p) ==
  /\ Bidding(p) /\ ~g.options.literal /\ g.bid = NoBid
  /\ p \notin g.rerolled /\ AllDifferent(g.dice[p])
  /\ \E cup \in Cups : g' = [g EXCEPT !.dice[p] = cup, !.rerolled = @ \union {p}]

Surrender(p) ==
  /\ Bidding(p) /\ ~g.window
  /\ g.options.surrender /\ g.bid # NoBid /\ g.bid.bidder # p
  /\ g' \in CloseRound(g, p, g.bid.bidder, {}, TRUE)

\* The host confirms the round; the loser opens the next one.
Acknowledge ==
  /\ g.phase = "awaiting_acknowledgement"
  /\ Rounds(g) < MaxRounds
  /\ \E dice \in IF g.keep THEN {g.dice} ELSE [Players -> Cups] :
       g' = [g EXCEPT !.dice = dice, !.rerolled = {}, !.bid = NoBid, !.keep = FALSE,
                      !.phase = "bidding", !.turn = g.starter, !.starter = -1]

EndSession(p) == ~Over /\ g' = Finish(g, "session_ended")
Resign(p) == ~Over /\ g' = Finish(g, "participant_departed")

Next == \/ Acknowledge \/ WindowExpires
        \/ \E p \in Players : \/ Bid(p) \/ Challenge(p) \/ RushOpen(p) \/ Reroll(p)
                              \/ Surrender(p) \/ EndSession(p) \/ Resign(p)

-----------------------------------------------------------------------------
\* The ledger of a session: as many wins as losses, and no round costs a
\* player more than four points or brings more than one.
LedgerBounded ==
  /\ Total(g.wins, Players) = Total(g.losses, Players)
  /\ \A p \in Players : g.half[p] <= 2 * g.wins[p]
  /\ \A p \in Players : g.half[p] >= -(8 * Rounds(g))

\* Never the bidder is asked about the own bid, and a window belongs to a bid.
AskedMayAct ==
  g.phase = "bidding" => /\ g.bid # NoBid => g.bid.bidder # g.turn
                         /\ g.window => g.bid # NoBid

\* The stakes move from those behind somebody to the others, who pay nothing.
Settled ==
  Over => /\ Total(g.result.deltas, Players) = 0
          /\ Rounds(g) = 0 => g.result.deltas = Zero
          /\ Rounds(g) > 0 =>
               \A p \in Players : IF \E q \in Players : g.half[q] > g.half[p]
                                 THEN g.result.deltas[p] = -Stake
                                 ELSE g.result.deltas[p] >= 0
=============================================================================
