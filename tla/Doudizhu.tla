------------------------------- MODULE Doudizhu ------------------------------
(***************************************************************************)
(* app/games/doudizhu.py: bidding for the landlord's seat, then one side   *)
(* of two farmers against it.  A hand is the number of its cards of each   *)
(* rank; of the thirty-seven patterns singles, pairs and bombs are kept,   *)
(* which is what the comparison rule tells apart.                          *)
(***************************************************************************)
EXTENDS Table

CONSTANTS RankCount, Copies,  \* the ranks of the deck; cards of a rank, which make a bomb
          HandSize,           \* cards dealt to each of the three players
          MaxMultiplier, Stake

VARIABLE g

Players == 0..2
Ranks == 1..RankCount
Over == g.result.over

Empty == [r \in Ranks |-> 0]
Full == [r \in Ranks |-> Copies]
Size(hand) == Total(hand, Ranks)
Plus(a, b) == [r \in Ranks |-> a[r] + b[r]]
Minus(a, b) == [r \in Ranks |-> a[r] - b[r]]
Within(a, b) == \A r \in Ranks : a[r] <= b[r]
Hands == {h \in [Ranks -> 0..Copies] : Size(h) = HandSize}

\* What may be dealt: three hands, the rest is the bottom.
Deals ==
  {d \in [Players -> Hands] :
     Within(Plus(Plus(d[0], d[1]), d[2]), Full)}
Bottom(d) == Minus(Full, Plus(Plus(d[0], d[1]), d[2]))

NoPlay == [kind |-> "none", rank |-> 0, by |-> -1]

Dealt(hands, opener) ==
  [phase |-> "bidding", hands |-> hands, bottom |-> Bottom(hands),
   discard |-> Empty, bids |-> [p \in Players |-> -1], landlord |-> -1,
   base |-> 0, multiplier |-> 1, bombs |-> 0, last |-> NoPlay, passed |-> {},
   turn |-> opener, result |-> NoResult]

Init == \E d \in Deals : g = Dealt(d, 0)

Seat(p) == (p + 1) % 3
Highest(s) == Max({s.bids[p] : p \in Players} \union {0})

-----------------------------------------------------------------------------
(* Bidding. *)

\* The landlord takes the bottom and leads.
FinalizeLandlord(s, p, score) ==
  [s EXCEPT !.hands[p] = Plus(@, s.bottom), !.bottom = Empty, !.landlord = p,
            !.base = score, !.multiplier = score, !.phase = "playing", !.turn = p]

Bid(p) ==
  \E score \in {0} \union (Highest(g) + 1)..3 :
    /\ g.phase = "bidding" /\ g.turn = p /\ g.bids[p] = -1
    /\ LET s == [g EXCEPT !.bids[p] = score]
           complete == score = 3 \/ \A q \in Players : s.bids[q] >= 0
           top == CHOOSE q \in Players : s.bids[q] = Highest(s)
       IN IF complete /\ Highest(s) > 0
          THEN g' = FinalizeLandlord(s, top, Highest(s))
          ELSE IF complete
          THEN \E d \in Deals : g' = Dealt(d, p)
          ELSE g' = [s EXCEPT !.turn = Seat(p)]

-----------------------------------------------------------------------------
(* Playing. *)

Need(kind) == CASE kind = "solo" -> 1 [] kind = "pair" -> 2 [] kind = "bomb" -> Copies

Beats(play, last) ==
  \/ last.kind = "none"
  \/ play.kind = last.kind /\ play.rank > last.rank
  \/ play.kind = "bomb" /\ last.kind # "bomb"

Plays(s, p) ==
  {play \in [kind : {"solo", "pair", "bomb"}, rank : Ranks, by : {p}] :
     /\ s.hands[p][play.rank] >= Need(play.kind)
     /\ Beats(play, s.last)}

Side(s, p) == IF p = s.landlord THEN {p} ELSE Players \ {s.landlord}

\* Mutant: the landlord is paid and pays like one farmer.
SingleDeltas(s, winners) ==
  [p \in Players |-> IF p \in winners THEN Stake * s.multiplier ELSE -(Stake * s.multiplier)]

\* settlement_deltas: the landlord plays for two units, each farmer for one.
Deltas(s, winners) ==
  LET unit == Stake * s.multiplier
      share(p) == IF p = s.landlord THEN 2 * unit ELSE unit
  IN [p \in Players |-> IF p \in winners THEN share(p) ELSE -share(p)]

Finish(s, winners, deltas) ==
  [s EXCEPT !.phase = "finished",
            !.result = [over |-> TRUE, winners |-> winners, deltas |-> deltas]]

Play(p) ==
  /\ g.phase = "playing" /\ g.turn = p
  /\ \E play \in Plays(g, p) :
       LET cards == [Empty EXCEPT ![play.rank] = Need(play.kind)]
           bomb == play.kind = "bomb"
           double == IF 2 * g.multiplier < MaxMultiplier THEN 2 * g.multiplier
                     ELSE MaxMultiplier
           s == [g EXCEPT !.hands[p] = Minus(@, cards), !.discard = Plus(@, cards),
                          !.last = play, !.passed = {},
                          !.bombs = IF bomb THEN @ + 1 ELSE @,
                          !.multiplier = IF bomb THEN double ELSE @]
       IN g' = IF Size(s.hands[p]) = 0
               THEN Finish(s, Side(s, p), Deltas(s, Side(s, p)))
               ELSE [s EXCEPT !.turn = Seat(p)]

\* When both others passed, the player of the last cards leads again.
Pass(p) ==
  /\ g.phase = "playing" /\ g.turn = p /\ g.last # NoPlay
  /\ LET passed == g.passed \union {p}
     IN g' = IF Players \ {g.last.by} \subseteq passed
             THEN [g EXCEPT !.last = NoPlay, !.passed = {}, !.turn = g.last.by]
             ELSE [g EXCEPT !.passed = passed, !.turn = Seat(p)]

\* result_for_resignation: the leaver's side loses; before there is a landlord
\* the leaver pays one stake to each of the others.
Resign(p) ==
  /\ ~Over
  /\ g' = IF g.landlord = -1
          THEN Finish(g, Players \ {p},
                      [q \in Players |-> IF q = p THEN -(2 * Stake) ELSE Stake])
          ELSE Finish(g, Players \ Side(g, p), Deltas(g, Players \ Side(g, p)))

Next == \E p \in Players : Bid(p) \/ Play(p) \/ Pass(p) \/ Resign(p)

-----------------------------------------------------------------------------
\* Every card of the deck is in a hand, in the bottom or played.
CardsConserved ==
  Plus(Plus(Plus(g.hands[0], g.hands[1]), g.hands[2]), Plus(g.bottom, g.discard)) = Full

\* Who is to act can: a bidder has not bid, a player holds cards, nobody who
\* passed or played last is asked to beat those cards.
AskedMayAct ==
  /\ g.phase = "bidding" => g.bids[g.turn] = -1
  /\ g.phase = "playing" => /\ Size(g.hands[g.turn]) > 0
                            /\ g.last # NoPlay => g.turn \notin g.passed \union {g.last.by}

Doubled(base, times) ==
  LET due[k \in 0..times] == IF k = 0 THEN base ELSE 2 * due[k - 1] IN due[times]

\* The three settle to zero by sides, within the cap; the multiplier is the
\* bid doubled once a bomb.
Settled ==
  /\ g.landlord # -1 =>
       LET due == Doubled(g.base, g.bombs)
       IN g.multiplier = (IF due < MaxMultiplier THEN due ELSE MaxMultiplier)
  /\ Over => /\ Total(g.result.deltas, Players) = 0
             /\ \A p \in Players : /\ g.result.deltas[p] <= 2 * Stake * MaxMultiplier
                                   /\ p \in g.result.winners <=> g.result.deltas[p] > 0
             /\ g.landlord # -1 => \E p \in Players : g.result.winners = Side(g, p)
=============================================================================
