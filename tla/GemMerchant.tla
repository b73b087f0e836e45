----------------------------- MODULE GemMerchant -----------------------------
(***************************************************************************)
(* app/games/gem_merchant.py: two merchants take gems off a board, reserve *)
(* and buy cards.  A turn has optional actions, one mandatory action and   *)
(* whatever that leaves to resolve.  The three rows of cards are one here. *)
(***************************************************************************)
EXTENDS Table, TLC

CONSTANTS Rows, Columns,    \* of the board
          Spiral,           \* its cells in the order in which they are filled
          Gems,             \* the colours of gems; pearls and gold come besides
          Supply,           \* how many tokens of each colour there are
          Cards,            \* records [color, joker, bonus, points, crowns, ability, cost]
          ShownCount,       \* cards laid open
          Royals,           \* records [name, points, ability]
          Thresholds,       \* numbers of crowns that earn a royal
          TokenLimit, MaxReserved, PrivilegeCount, WinPoints, WinCrowns, WinColorPoints

VARIABLE g

Players == 0..1
Other(p) == 1 - p
Over == g.result.over
Tokens == Gems \union {"pearl", "gold"}
Cells == (1..Rows) \X (1..Columns)
NoTokens == [c \in Tokens |-> 0]

On(s, S) == {x \in Cells : s.board[x] \in S}
Takeable(s) == On(s, Tokens \ {"gold"})
Count(s, c) == Cardinality(On(s, {c}))
Held(s, p) == Total(s.tokens[p], Tokens)
Sum(S, f(_)) == MapThenSumSet(f, S)

\* What a merchant's cards and royals are worth; a joker counts in the colour it
\* was laid to.
Bonus(s, p, c) == Sum({x \in s.cards[p] : x.as = c}, LAMBDA x : x.card.bonus)
ColorPoints(s, p, c) == Sum({x \in s.cards[p] : x.as = c}, LAMBDA x : x.card.points)
Prestige(s, p) == Sum(s.cards[p], LAMBDA x : x.card.points) + Sum(s.titles[p], LAMBDA r : r.points)
Crowns(s, p) == Sum(s.cards[p], LAMBDA x : x.card.crowns)

Won(s, p) == \/ Prestige(s, p) >= WinPoints \/ Crowns(s, p) >= WinCrowns
             \/ \E c \in Gems : ColorPoints(s, p, c) >= WinColorPoints

\* The price after bonuses, what of it gems pay, and the gold for the rest.
Due(s, p, card) == [c \in Tokens |-> Max({0, card.cost[c] - Bonus(s, p, c)})]
Paid(s, p, card) ==
  LET due == Due(s, p, card)
      own == [c \in Tokens |-> Min({due[c], s.tokens[p][c]})]
  IN [own EXCEPT !["gold"] = Total(due, Tokens) - Total(own, Tokens)]
Shades(s, p, card) == IF card.joker THEN {c \in Gems : Bonus(s, p, c) > 0} ELSE {card.color}
CanAfford(s, p, card) ==
  Shades(s, p, card) # {} /\ Paid(s, p, card)["gold"] <= s.tokens[p]["gold"]

\* One to three tokens in an unbroken line.
Lines(s) ==
  {L \in {{<<x[1] + d[1] * k, x[2] + d[2] * k>> : k \in 0..n} :
            x \in Cells, d \in {<<0, 1>>, <<1, 0>>, <<1, 1>>, <<1, -1>>}, n \in 0..2} :
     L \subseteq Takeable(s)}

-----------------------------------------------------------------------------
(* Init: the board is filled, the second merchant starts with a privilege. *)

Init ==
  \E board \in [Cells -> Tokens] : \E shown \in kSubset(ShownCount, Cards) :
    /\ \A c \in Tokens : Cardinality({x \in Cells : board[x] = c}) = Supply[c]
    /\ g = [board |-> board, bag |-> NoTokens, table |-> PrivilegeCount - 1,
            deck |-> Cards \ shown, shown |-> shown, royals |-> Royals,
            tokens |-> [p \in Players |-> NoTokens], cards |-> [p \in Players |-> {}],
            reserved |-> [p \in Players |-> {}], titles |-> [p \in Players |-> {}],
            privileges |-> [p \in Players |-> p], turn |-> 0, refilled |-> FALSE,
            pending |-> <<>>, extra |-> FALSE, passes |-> 0, result |-> NoResult]

Choosing(p) == ~Over /\ g.turn = p /\ g.pending = <<>>

GainPrivilege(s, p) ==
  IF s.table > 0 THEN [s EXCEPT !.table = @ - 1, !.privileges[p] = @ + 1]
  ELSE IF s.privileges[Other(p)] > 0
  THEN [s EXCEPT !.privileges = [q \in Players |-> IF q = p THEN @[q] + 1 ELSE @[q] - 1]]
  ELSE s

TakeCell(s, p, x) == [s EXCEPT !.tokens[p][s.board[x]] = @ + 1, !.board[x] = "none"]

-----------------------------------------------------------------------------
(* Resolving what a move leaves to do. *)

Options(s, p, item) ==
  CASE item.kind = "take_gem" -> On(s, {item.color})
    [] item.kind = "steal" -> {c \in Tokens \ {"gold"} : s.tokens[Other(p)][c] > 0}
    [] item.kind = "royal" -> s.royals
    [] item.kind = "discard" -> {c \in Tokens : s.tokens[p][c] > 0}

Resolve(s, p, choice) ==
  LET item == Head(s.pending)
      done == [s EXCEPT !.pending = Tail(@)]
  IN CASE item.kind = "take_gem" -> TakeCell(done, p, choice)
       [] item.kind = "steal" ->
            [done EXCEPT !.tokens[Other(p)][choice] = @ - 1, !.tokens[p][choice] = @ + 1]
       [] item.kind = "royal" ->
            LET s1 == [done EXCEPT !.royals = @ \ {choice}, !.titles[p] = @ \union {choice}]
            IN CASE choice.ability = "steal" ->
                      [s1 EXCEPT !.pending = <<[kind |-> "steal"]>> \o @]
                 [] choice.ability = "extra_turn" -> [s1 EXCEPT !.extra = TRUE]
                 [] choice.ability = "privilege" -> GainPrivilege(s1, p)
                 [] OTHER -> s1
       [] item.kind = "discard" ->
            LET s1 == [s EXCEPT !.tokens[p][choice] = @ - 1, !.bag[choice] = @ + 1]
            IN IF Held(s1, p) <= TokenLimit THEN [s1 EXCEPT !.pending = Tail(@)] ELSE s1

\* One step of what resolves itself: choices with no option are dropped and those
\* with one are made, then who holds too many tokens discards.
Settle(s, p) ==
  IF s.pending = <<>>
  THEN IF Held(s, p) > TokenLimit THEN [s EXCEPT !.pending = <<[kind |-> "discard"]>>] ELSE s
  ELSE LET item == Head(s.pending)
           options == Options(s, p, item)
       IN IF options = {} \/ (item.kind = "discard" /\ Held(s, p) <= TokenLimit)
          THEN [s EXCEPT !.pending = Tail(@)]
          ELSE IF Cardinality(options) = 1 THEN Resolve(s, p, CHOOSE o \in options : TRUE)
          ELSE s

\* _advance: until the merchant must choose.  Every step drops an item, lays out a
\* royal, which may add one, or discards a token.
Advance(s, p) ==
  LET steps == Len(s.pending) + 2 * Cardinality(Royals) + Held(s, p) + 3
      after[n \in 0..steps] == IF n = 0 THEN s ELSE Settle(after[n - 1], p)
  IN after[steps]

Finish(s, winner) ==
  [s EXCEPT !.turn = -1, !.pending = <<>>, !.refilled = FALSE, !.extra = FALSE,
            !.result = [over |-> TRUE, winner |-> winner]]

\* The end of a turn with nothing left to resolve.
EndTurn(s, p) ==
  IF s.pending # <<>> THEN s
  ELSE IF Won(s, p) THEN Finish(s, p)
  ELSE [s EXCEPT !.refilled = FALSE, !.extra = FALSE, !.turn = IF s.extra THEN p ELSE Other(p)]

-----------------------------------------------------------------------------
UsePrivilege(p) ==
  /\ Choosing(p) /\ ~g.refilled /\ g.privileges[p] > 0
  /\ \E x \in Takeable(g) :
       g' = [TakeCell(g, p, x) EXCEPT !.privileges[p] = @ - 1, !.table = @ + 1]

\* The bag, shuffled, refills the empty cells along the spiral, and the other one
\* is paid for it.
Refill(p) ==
  /\ Choosing(p) /\ ~g.refilled /\ Total(g.bag, Tokens) > 0
  /\ LET empty == SelectSeq(Spiral, LAMBDA x : g.board[x] = "none")
         cells == Range(SubSeq(empty, 1, Min({Len(empty), Total(g.bag, Tokens)})))
     IN \E fill \in [cells -> Tokens] :
          /\ \A c \in Tokens : Cardinality({x \in cells : fill[x] = c}) = g.bag[c]
          /\ g' = GainPrivilege([g EXCEPT !.board = fill @@ @, !.bag = NoTokens,
                                          !.refilled = TRUE], Other(p))

Take(p) ==
  /\ Choosing(p)
  /\ \E L \in Lines(g) :
       LET s == [g EXCEPT !.board = SetAll(@, L, "none"), !.passes = 0,
                          !.tokens[p] = [c \in Tokens |-> @[c] + Cardinality(L \cap On(g, {c}))]]
           rich == \/ Cardinality(L) = 3 /\ \E c \in Tokens : L \subseteq On(g, {c})
                   \/ Cardinality(L \cap On(g, {"pearl"})) = 2
       IN g' = EndTurn(Advance(IF rich THEN GainPrivilege(s, Other(p)) ELSE s, p), p)

\* An open card that goes is replaced by one of the deck.
Replaced(s, card) ==
  IF card \notin s.shown THEN {s}
  ELSE IF s.deck = {} THEN {[s EXCEPT !.shown = @ \ {card}]}
  ELSE {[s EXCEPT !.shown = (@ \ {card}) \union {new}, !.deck = @ \ {new}] : new \in s.deck}

CanReserve(s, p) ==
  Cardinality(s.reserved[p]) < MaxReserved /\ On(s, {"gold"}) # {} /\ s.shown \union s.deck # {}

\* A card of the row, or blindly the top one of the deck, and a gold with it.
Reserve(p) ==
  /\ Choosing(p) /\ CanReserve(g, p)
  /\ \E x \in On(g, {"gold"}), card \in g.shown \union g.deck :
     \E s \in Replaced(TakeCell(g, p, x), card) :
       g' = EndTurn(Advance([s EXCEPT !.reserved[p] = @ \union {card}, !.deck = @ \ {card},
                                      !.passes = 0], p), p)

\* Pay, lay the card down, then its ability and the royals its crowns earn.
Buy(p) ==
  /\ Choosing(p)
  /\ \E card \in {c \in g.shown \union g.reserved[p] : CanAfford(g, p, c)} :
     \E as \in Shades(g, p, card), r \in Replaced(g, card) :
       LET paid == Paid(g, p, card)
           s == [r EXCEPT !.reserved[p] = @ \ {card}, !.passes = 0,
                          !.tokens[p] = [c \in Tokens |-> @[c] - paid[c]],
                          !.bag = [c \in Tokens |-> @[c] + paid[c]],
                          !.cards[p] = @ \union {[card |-> card, as |-> as]}]
           earned == {t \in Thresholds : Crowns(g, p) < t /\ t <= Crowns(s, p)}
           royals == [i \in 1..Cardinality(earned) |-> [kind |-> "royal"]]
           s1 == CASE card.ability = "extra_turn" -> [s EXCEPT !.extra = TRUE]
                   [] card.ability = "take_gem" ->
                        [s EXCEPT !.pending = <<[kind |-> "take_gem", color |-> card.color]>>]
                   [] card.ability = "steal" -> [s EXCEPT !.pending = <<[kind |-> "steal"]>>]
                   [] card.ability = "privilege" -> GainPrivilege(s, p)
                   [] OTHER -> s
       IN g' = EndTurn(Advance([s1 EXCEPT !.pending = @ \o royals], p), p)

NothingToDo(s, p) ==
  /\ Takeable(s) = {} /\ ~CanReserve(s, p)
  /\ ~\E card \in s.shown \union s.reserved[p] : CanAfford(s, p, card)

\* Two passes in a row end the game by prestige.
Pass(p) ==
  /\ Choosing(p) /\ NothingToDo(g, p) /\ (g.refilled \/ Total(g.bag, Tokens) = 0)
  /\ LET s == [g EXCEPT !.passes = @ + 1]
         ahead == {q \in Players : Prestige(s, q) > Prestige(s, Other(q))}
     IN g' = IF s.passes >= 2
             THEN Finish(s, IF ahead = {} THEN -1 ELSE CHOOSE q \in ahead : TRUE)
             ELSE EndTurn(Advance(s, p), p)

Choose(p) ==
  /\ ~Over /\ g.turn = p /\ g.pending # <<>>
  /\ \E choice \in Options(g, p, Head(g.pending)) :
       g' = EndTurn(Advance(Resolve(g, p, choice), p), p)

Next ==
  \E p \in Players : \/ UsePrivilege(p) \/ Refill(p) \/ Take(p) \/ Reserve(p)
                     \/ Buy(p) \/ Pass(p) \/ Choose(p)

-----------------------------------------------------------------------------
\* No token, card, royal or privilege is lost or made, whoever is paid, robbed or
\* made to discard.
TokensConserved ==
  /\ \A c \in Tokens : Count(g, c) + g.bag[c] + g.tokens[0][c] + g.tokens[1][c] = Supply[c]
  /\ g.table + g.privileges[0] + g.privileges[1] = PrivilegeCount
  /\ \A c \in Tokens, p \in Players : g.tokens[p][c] >= 0
  /\ LET piles == <<g.deck, g.shown, g.reserved[0], g.reserved[1],
                    {x.card : x \in g.cards[0]}, {x.card : x \in g.cards[1]}>>
     IN /\ UNION {piles[i] : i \in DOMAIN piles} = Cards
        /\ \A i, j \in DOMAIN piles : i # j => piles[i] \cap piles[j] = {}

\* Who waits for the turn never holds more than the limit, and a merchant to move
\* either must choose between several options or has a move.
AskedMayAct ==
  ~Over => /\ Held(g, Other(g.turn)) <= TokenLimit
           /\ g.pending # <<>> => Cardinality(Options(g, g.turn, Head(g.pending))) > 1

\* A win is claimed at the end of the winner's own turn and never by the other.
Settled ==
  /\ ~Over => ~Won(g, Other(g.turn))
  /\ Over => \/ g.passes < 2 /\ Won(g, g.result.winner)
             \/ g.passes = 2 /\ (g.result.winner # -1 =>
                  Prestige(g, g.result.winner) > Prestige(g, Other(g.result.winner)))
=============================================================================
