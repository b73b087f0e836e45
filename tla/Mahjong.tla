-------------------------------- MODULE Mahjong ------------------------------
(***************************************************************************)
(* app/games/mahjong.py: draw and discard, with a window after a discard   *)
(* or an added kong in which the others answer one after the other: wins   *)
(* first, then triplets and kongs, then runs.  Tiles are counted by code;  *)
(* what a hand is worth is the MahjongGB calculator's, and stands here as  *)
(* the set of hands it finds worth eight points.                           *)
(***************************************************************************)
EXTENDS Table, TLC

CONSTANTS Seats, HandSize, Stake,
          Copies,        \* how many there are of each tile code
          Runs,          \* the runs, as sets of codes
          Winning        \* by source of the last tile, the winning hands

VARIABLE g

Players == 0..(Seats - 1)
Codes == DOMAIN Copies
Over == g.result.over

Size(b) == Total(b, Codes)
One(c) == [d \in Codes |-> IF d = c THEN 1 ELSE 0]
Of(c, n) == [d \in Codes |-> IF d = c THEN n ELSE 0]
Plus(a, b) == [c \in Codes |-> a[c] + b[c]]
Minus(a, b) == [c \in Codes |-> a[c] - b[c]]
Within(a, b) == \A c \in Codes : a[c] <= b[c]
None == [c \in Codes |-> 0]
Sum3(bags) == FoldFunction(Plus, None, bags)

NoWindow == [source |-> "none"]
NoTile == "none"

Hands(n) == {b \in [Codes -> 0..4] : Size(b) = n /\ Within(b, Copies)}

Init ==
  \E hands \in [Players -> Hands(HandSize) \union Hands(HandSize + 1)] :
    /\ \A p \in Players : Size(hands[p]) = IF p = 0 THEN HandSize + 1 ELSE HandSize
    /\ Within(Sum3(hands), Copies)
    /\ \E drawn \in {c \in Codes : hands[0][c] > 0} :
         g = [hands |-> hands, wall |-> Minus(Copies, Sum3(hands)), river |-> None,
              melds |-> [p \in Players |-> <<>>], phase |-> "discard", turn |-> 0,
              drawn |-> drawn, window |-> NoWindow, robbed |-> None, result |-> NoResult]

-----------------------------------------------------------------------------
(* Draws and endings. *)

Ended(s, result) ==
  [s EXCEPT !.phase = "finished", !.turn = -1, !.window = NoWindow,
            !.result = [over |-> TRUE] @@ result]

\* _draw, the ordinary draw and the replacement after a kong alike.
Drawn(s, p) ==
  IF Size(s.wall) = 0 THEN {Ended(s, [type |-> "draw", winner |-> -1, source |-> -1])}
  ELSE {[s EXCEPT !.wall = Minus(@, One(c)), !.hands[p] = Plus(@, One(c)), !.drawn = c,
                  !.phase = "discard", !.turn = p, !.window = NoWindow] :
          c \in {c \in Codes : s.wall[c] > 0}}

NextPlayer(p) == (p + 1) % Seats
Others(p) == [i \in 1..(Seats - 1) |-> (p + i) % Seats]

Wins(s, p, c, source) ==
  (IF source = "self_draw" THEN s.hands[p] ELSE Plus(s.hands[p], One(c))) \in Winning[source]

-----------------------------------------------------------------------------
(* The response window. *)

Ask(p, priority) == [player |-> p, priority |-> priority]

\* _discard_response_queue: with the wall empty only a win is asked for.
Responders(s, p, c) ==
  LET asked(priority, Can(_)) ==
        LET able == SelectSeq(Others(p), Can)
        IN [i \in DOMAIN able |-> Ask(able[i], priority)]
      chi == \E run \in Runs : c \in run /\ \A d \in run \ {c} : s.hands[NextPlayer(p)][d] > 0
      wins == asked("hu", LAMBDA q : Wins(s, q, c, "discard"))
  IN IF Size(s.wall) = 0 THEN wins
     ELSE wins \o asked("peng_gang", LAMBDA q : s.hands[q][c] >= 2)
               \o IF chi THEN <<Ask(NextPlayer(p), "chi")>> ELSE <<>>

Robbers(s, p, c) ==
  LET able == SelectSeq(Others(p), LAMBDA q : Wins(s, q, c, "rob_kong"))
  IN [i \in DOMAIN able |-> Ask(able[i], "hu")]

Window(s, source, p, c, queue) ==
  [s EXCEPT !.phase = "response", !.turn = queue[1].player,
            !.window = [source |-> source, from |-> p, tile |-> c, queue |-> queue]]

Triplet(s, p, c) ==
  {i \in DOMAIN s.melds[p] : s.melds[p][i] = [kind |-> "peng", tiles |-> Of(c, 3)]}

\* The triplet becomes a kong once nobody has robbed it.
AddedKong(s, p, c) ==
  LET i == CHOOSE i \in Triplet(s, p, c) : TRUE
  IN Drawn([s EXCEPT !.hands[p] = Minus(@, One(c)),
                     !.melds[p][i] = [kind |-> "added_gang", tiles |-> Of(c, 4)]], p)

-----------------------------------------------------------------------------
MayDiscard(p) == ~Over /\ g.turn = p /\ g.phase = "discard"
Responding(p) == ~Over /\ g.turn = p /\ g.phase = "response"
Asked == Head(g.window.queue)

Discard(p) ==
  /\ MayDiscard(p)
  /\ \E c \in Codes :
       /\ g.hands[p][c] > 0
       /\ LET s == [g EXCEPT !.hands[p] = Minus(@, One(c)), !.river = Plus(@, One(c)),
                             !.drawn = NoTile]
              queue == Responders(s, p, c)
          IN IF queue # <<>> THEN g' = Window(s, "discard", p, c, queue)
             ELSE \E t \in Drawn(s, NextPlayer(p)) : g' = t

\* After the last pass the next player draws, or the kong is completed.
Pass(p) ==
  /\ Responding(p)
  /\ LET rest == Tail(g.window.queue)
         from == g.window.from
     IN IF rest # <<>>
        THEN g' = [g EXCEPT !.window.queue = rest, !.turn = rest[1].player]
        ELSE \E t \in IF g.window.source = "discard" THEN Drawn(g, NextPlayer(from))
                      ELSE AddedKong(g, from, g.window.tile) : g' = t

\* The tile of a robbed kong leaves the hand it was to join.
Hu(p) ==
  \/ /\ MayDiscard(p) /\ g.drawn # NoTile /\ Wins(g, p, g.drawn, "self_draw")
     /\ g' = Ended(g, [type |-> "self_draw", winner |-> p, source |-> -1])
  \/ /\ Responding(p) /\ Asked.priority = "hu"
     /\ LET w == g.window
            s == IF w.source = "discard" THEN g
                 ELSE [g EXCEPT !.hands[w.from] = Minus(@, One(w.tile)),
                                !.robbed = Plus(@, One(w.tile))]
        IN g' = Ended(s, [type |-> w.source, winner |-> p, source |-> w.from])

\* _apply_claim: the last discard becomes part of a meld; a kong draws again.
Claim(p, kind, used) ==
  LET c == g.window.tile
      s == [g EXCEPT !.hands[p] = Minus(@, used), !.river = Minus(@, One(c)),
                     !.melds[p] = Append(@, [kind |-> kind, tiles |-> Plus(used, One(c))]),
                     !.window = NoWindow, !.drawn = NoTile, !.phase = "discard", !.turn = p]
  IN IF kind = "ming_gang" THEN \E t \in Drawn(s, p) : g' = t ELSE g' = s

Peng(p) ==
  /\ Responding(p) /\ Asked.priority = "peng_gang"
  /\ Claim(p, "peng", Of(g.window.tile, 2))

MingGang(p) ==
  /\ Responding(p) /\ Asked.priority = "peng_gang" /\ g.hands[p][g.window.tile] >= 3
  /\ Claim(p, "ming_gang", Of(g.window.tile, 3))

Chi(p) ==
  /\ Responding(p) /\ Asked.priority = "chi"
  /\ \E run \in Runs :
       LET used == [c \in Codes |-> IF c \in run \ {g.window.tile} THEN 1 ELSE 0]
       IN g.window.tile \in run /\ Within(used, g.hands[p]) /\ Claim(p, "chi", used)

\* Kongs of one's own need a tile just drawn and one left to draw.
ConcealedGang(p) ==
  /\ MayDiscard(p) /\ g.drawn # NoTile /\ Size(g.wall) > 0
  /\ \E c \in Codes :
       /\ g.hands[p][c] = 4
       /\ \E t \in Drawn([g EXCEPT !.hands[p] = Minus(@, Of(c, 4)),
                            !.melds[p] = Append(@, [kind |-> "concealed_gang",
                                                          tiles |-> Of(c, 4)])], p) : g' = t

AddedGang(p) ==
  /\ MayDiscard(p) /\ g.drawn # NoTile /\ Size(g.wall) > 0
  /\ \E c \in Codes :
       /\ Triplet(g, p, c) # {} /\ g.hands[p][c] > 0
       /\ IF Robbers(g, p, c) # <<>>
          THEN g' = Window(g, "rob_kong", p, c, Robbers(g, p, c))
          ELSE \E t \in AddedKong(g, p, c) : g' = t

\* Who leaves pays everyone.
Resign(p) == ~Over /\ g' = Ended(g, [type |-> "resignation", winner |-> -1, source |-> p])

Next ==
  \E p \in Players :
    \/ Discard(p) \/ Pass(p) \/ Hu(p) \/ Peng(p) \/ MingGang(p) \/ Chi(p)
    \/ ConcealedGang(p) \/ AddedGang(p) \/ Resign(p)

-----------------------------------------------------------------------------
Deltas ==
  LET r == g.result
  IN [p \in Players |->
        CASE r.type = "draw" -> 0
          [] r.type = "resignation" -> IF p = r.source THEN -(Seats - 1) * Stake ELSE Stake
          [] r.type = "self_draw" -> IF p = r.winner THEN (Seats - 1) * Stake ELSE -Stake
          [] OTHER -> IF p = r.winner THEN (Seats - 1) * Stake
                      ELSE IF p = r.source THEN -(Seats - 1) * Stake ELSE 0]

\* No tile is lost or doubled between hands, melds, river and wall.
TilesConserved ==
  LET melded(p) == [c \in Codes |-> MapThenSumSet(LAMBDA i : g.melds[p][i].tiles[c], DOMAIN g.melds[p])]
      all == Plus(Sum3(g.hands), Sum3([p \in Players |-> melded(p)]))
  IN Plus(Plus(all, g.wall), Plus(g.river, g.robbed)) = Copies

\* Every hand with its melds counts HandSize tiles, and one more for whoever is to
\* discard or is adding to a kong: a claim never leaves a hand short or long.
HandsCount ==
  \A p \in Players :
    LET extra == \/ g.phase = "discard" /\ g.turn = p
                 \/ g.phase = "response" /\ g.window.source = "rob_kong" /\ g.window.from = p
    IN ~Over => Size(g.hands[p]) + 3 * Len(g.melds[p])
                  = HandSize + (IF extra THEN 1 ELSE 0)

\* Who is asked has an answer, and the players who could win are asked first.
AskedMayAct ==
  ~Over => /\ g.phase = "discard" => Size(g.hands[g.turn]) > 0
           /\ g.phase = "response" =>
                /\ Asked.player = g.turn /\ g.turn # g.window.from
                /\ Asked.priority # "hu" => \A q \in Players \ {g.window.from} :
                     \A i \in DOMAIN g.window.queue : g.window.queue[i].priority # "hu"

\* The stakes balance, and a win on another's tile is paid by that player.
Settled ==
  Over => /\ Total(Deltas, Players) = 0
          /\ g.result.winner # -1 => g.result.winner # g.result.source
          /\ g.result.type = "draw" => Size(g.wall) = 0
=============================================================================
