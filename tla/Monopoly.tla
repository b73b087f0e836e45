------------------------------- MODULE Monopoly ------------------------------
(***************************************************************************)
(* app/games/monopoly.py: estates, rents, events, auctions, trades and     *)
(* debts.  What a player owes is queued and taken charge by charge; a      *)
(* payer without the money stops the game in a debt phase, and what was to *)
(* follow is kept until the queue is empty.  Offers made under the older   *)
(* rules of saved games, and the cool-down that only NPC proposals know,   *)
(* are left out.                                                           *)
(***************************************************************************)
EXTENDS Table, TLC

CONSTANTS Seats, StartCash, Salary, Bail,
          Tiles,             \* the board: records of kind, price, group, rents, cost, tax
          Events,            \* by deck, the cards: records of kind and value; the first
                             \* card of a deck gets its holder out of jail
          Sides,             \* of a die
          DoublesToJail, JailTries,
          Hotel, Houses, Hotels,
          Terms,             \* the trades tried: what is given and what is asked for
          OffersPerTurn,
          MaxTurns           \* bound: no turn ends after this many

VARIABLE g

Players == 0..(Seats - 1)
Squares == 1..Len(Tiles)
Estates == {t \in Squares : Tiles[t].price > 0}
Bank == -1
Over == g.phase = "finished"

NoOffer == [from |-> -1]
NoAuction == [tile |-> 0]
NoReturn == [phase |-> "none", player |-> -1]
NoResume == [kind |-> "none"]

Init ==
  \E decks \in [DOMAIN Events -> UNION {[DOMAIN Events[d] -> DOMAIN Events[d]] : d \in DOMAIN Events}] :
    /\ \A d \in DOMAIN Events : DOMAIN decks[d] = DOMAIN Events[d] /\ IsInjective(decks[d])
    /\ g = [cash |-> [p \in Players |-> StartCash], pos |-> [p \in Players |-> 1],
            alive |-> Players, jailed |-> {}, tries |-> [p \in Players |-> 0],
            cards |-> [p \in Players |-> <<>>], decks |-> decks,
            owner |-> [t \in Estates |-> Bank], level |-> [t \in Estates |-> 0],
            mortgaged |-> {}, phase |-> "roll", current |-> 0, turn |-> 0, turns |-> 1,
            dice |-> 0, doubles |-> 0, extra |-> FALSE, charges |-> <<>>,
            resume |-> NoResume, auction |-> NoAuction, queue |-> <<>>, back |-> NoReturn,
            trades |-> [p \in Players |-> NoOffer], offers |-> 0]

-----------------------------------------------------------------------------
(* Estates. *)

Group(t) == IF Tiles[t].group = 0 THEN {t} ELSE {u \in Estates : Tiles[u].group = Tiles[t].group}
Levels(s, t) == {s.level[u] : u \in Group(t)}
Monopolised(s, t) == s.owner[t] # Bank /\ \A u \in Group(t) : s.owner[u] = s.owner[t]
MortgageValue(t) == Tiles[t].price \div 2
RedemptionCost(t) == (Tiles[t].price * 55 + 99) \div 100

FreeHouses(s) == Houses - Total(s.level, {t \in Estates : s.level[t] < Hotel})
FreeHotels(s) == Hotels - Cardinality({t \in Estates : s.level[t] = Hotel})

Rent(s, t) ==
  LET owned == Cardinality({u \in Group(t) : s.owner[u] = s.owner[t]})
      tile == Tiles[t]
  IN CASE tile.kind = "railroad" -> tile.rents[1] * 2 ^ (owned - 1)
       [] tile.kind = "utility" -> s.dice * (IF owned = 2 THEN 10 ELSE 4)
       [] OTHER -> tile.rents[s.level[t] + 1]
                     * (IF s.level[t] = 0 /\ Monopolised(s, t) THEN 2 ELSE 1)

-----------------------------------------------------------------------------
(* Offers. *)

\* _validate_trade: both sides still have what they promised, as it was promised.
Valid(s, o) ==
  /\ o.from # o.to /\ {o.from, o.to} \subseteq s.alive
  /\ o.giveCash <= s.cash[o.from] /\ o.takeCash <= s.cash[o.to]
  /\ \A t \in o.give : s.owner[t] = o.from /\ Levels(s, t) = {0}
  /\ \A t \in o.take : s.owner[t] = o.to /\ Levels(s, t) = {0}
  /\ (o.give \union o.take) \intersect s.mortgaged = o.mortgaged
  /\ o.giveCash + o.takeCash > 0 \/ o.give \union o.take # {}

Cancel(s) ==
  [s EXCEPT !.trades = [p \in Players |-> IF @[p] # NoOffer /\ Valid(s, @[p])
                                          THEN @[p] ELSE NoOffer]]

\* _trade_gate: an offer of an earlier turn is answered before all else.
Gate(s, p) ==
  /\ s.trades[p] # NoOffer /\ p = s.turn /\ p = s.current
  /\ s.phase \in {"roll", "purchase", "manage"} /\ s.turns > s.trades[p].turn

-----------------------------------------------------------------------------
(* Turns, auctions, charges. *)

NextTurn(s) ==
  LET p == NextSeat(Seats, s.current, s.alive)
  IN Cancel([s EXCEPT !.current = p, !.turn = p, !.phase = "roll", !.dice = 0,
                      !.doubles = 0, !.extra = FALSE, !.turns = @ + 1, !.offers = 0])

StartAuction(s) ==
  [s EXCEPT !.back = IF @ = NoReturn THEN [phase |-> s.phase, player |-> s.turn] ELSE @,
            !.queue = Tail(@), !.phase = "auction",
            !.turn = IF @ \in s.alive THEN @ ELSE Min(s.alive),
            !.auction = [tile |-> Head(s.queue), bid |-> 0, best |-> Bank,
                         eligible |-> s.alive]]

FinishAuction(s) ==
  LET a == s.auction
      sold == IF a.best = Bank THEN s
              ELSE [s EXCEPT !.cash[a.best] = @ - a.bid, !.owner[a.tile] = a.best]
      t == [sold EXCEPT !.auction = NoAuction]
      u == [t EXCEPT !.phase = t.back.phase, !.turn = t.back.player, !.back = NoReturn]
  IN IF t.queue # <<>> THEN StartAuction(t)
     ELSE IF u.current \in u.alive THEN u ELSE NextTurn(u)

Owed(payer, amount, creditor) == [payer |-> payer, amount |-> amount, creditor |-> creditor]
ChargeAll(s, charges) ==
  [s EXCEPT !.charges = @ \o SelectSeq(charges, LAMBDA c : c.amount > 0 /\ c.payer # c.creditor)]
Charge(s, payer, amount, creditor) == ChargeAll(s, <<Owed(payer, amount, creditor)>>)

Jail(s, p) ==
  [s EXCEPT !.pos[p] = CHOOSE t \in Squares : Tiles[t].kind = "jail", !.jailed = @ \union {p},
            !.tries[p] = 0, !.extra = FALSE, !.doubles = 0, !.phase = "manage"]

Release(s, p) == [s EXCEPT !.jailed = @ \ {p}, !.tries[p] = 0]

Ahead(from, steps) == ((from - 1 + steps) % Len(Tiles)) + 1

\* A move under way: where the player goes next, 0 when he stays.
Going(s, to, salary, special) == [state |-> s, to |-> to, salary |-> salary, special |-> special]
Staying(s) == Going(s, 0, FALSE, "none")

\* An event is drawn, and may move the player on.
Event(s, p, deck) ==
  LET card == Head(s.decks[deck])
      event == Events[deck][card]
      others == SelectSeq([i \in 1..Seats |-> i - 1], LAMBDA q : q \in s.alive /\ q # p)
      t == [s EXCEPT !.decks[deck] = Append(Tail(@), card)]
      nearest == Ahead(s.pos[p], CHOOSE n \in Squares :
                   /\ Tiles[Ahead(s.pos[p], n)].kind = event.kind
                   /\ \A m \in 1..(n - 1) : Tiles[Ahead(s.pos[p], m)].kind # event.kind)
      repair(q) == IF s.level[q] = Hotel THEN event.value[2] ELSE event.value[1] * s.level[q]
  IN CASE event.kind = "jail_card" ->
            Staying([s EXCEPT !.decks[deck] = Tail(@), !.cards[p] = Append(@, deck)])
       [] event.kind = "gain" -> Staying([t EXCEPT !.cash[p] = @ + event.value])
       [] event.kind = "pay" -> Staying(Charge(t, p, event.value, Bank))
       [] event.kind = "pay_each" ->
            Staying(ChargeAll(t, [i \in DOMAIN others |-> Owed(p, event.value, others[i])]))
       [] event.kind = "collect_each" ->
            Staying(ChargeAll(t, [i \in DOMAIN others |-> Owed(others[i], event.value, p)]))
       [] event.kind = "repairs" ->
            Staying(Charge(t, p, MapThenSumSet(repair, {q \in Estates : s.owner[q] = p}), Bank))
       [] event.kind = "jail" -> Staying(Jail(t, p))
       [] event.kind = "advance" -> Going(t, event.value, TRUE, "none")
       [] event.kind = "back" -> Going(t, Ahead(s.pos[p], Len(Tiles) - event.value), FALSE, "none")
       [] OTHER -> Going(t, nearest, TRUE, event.kind)

\* Landing; luck is what the dice of a utility event show.
Land(s, p, special, luck) ==
  LET at == s.pos[p]
      tile == Tiles[at]
      t == [s EXCEPT !.phase = "manage"]
      due == CASE special = "railroad" -> 2 * Rent(t, at)
               [] special = "utility" -> 10 * luck
               [] OTHER -> Rent(t, at)
  IN IF at \in Estates
     THEN Staying(IF s.owner[at] = Bank THEN [s EXCEPT !.phase = "purchase"]
                  ELSE IF at \in s.mortgaged THEN t ELSE Charge(t, p, due, s.owner[at]))
     ELSE CASE tile.kind = "tax" -> Staying(Charge(t, p, tile.tax, Bank))
            [] tile.kind = "go_to_jail" -> Staying(Jail(t, p))
            [] tile.kind \in DOMAIN Events -> Event(t, p, tile.kind)
            [] OTHER -> Staying(t)

\* A move goes from landing to landing while events move it on, at most once for
\* every card.
CardCount == Total([d \in DOMAIN Events |-> Len(Events[d])], DOMAIN Events)
MoveTo(s, p, dest, luck) ==
  LET after[n \in 0..(CardCount + 1)] ==
        IF n = 0 THEN Going(s, dest, TRUE, "none")
        ELSE LET m == after[n - 1]
                 passed == m.salary /\ m.to < m.state.pos[p]
                 there == [m.state EXCEPT !.cash[p] = IF passed THEN @ + Salary ELSE @,
                                          !.pos[p] = m.to]
             IN IF m.to = 0 THEN m ELSE Land(there, p, m.special, luck)
  IN after[CardCount + 1].state

\* The first charge, taken when the payer has the money and dropped when payer or
\* creditor is gone.
Dropped(s, c) == c.payer \notin s.alive \/ c.creditor \notin s.alive \union {Bank}
Stuck(s) == s.charges = <<>> \/ LET c == Head(s.charges)
                                IN ~Dropped(s, c) /\ s.cash[c.payer] < c.amount
Take(s) ==
  LET c == Head(s.charges)
      rest == [s EXCEPT !.charges = Tail(@)]
      paid == [rest EXCEPT !.cash[c.payer] = @ - c.amount]
  IN IF Dropped(s, c) THEN rest
     ELSE IF c.creditor = Bank THEN paid
     ELSE [paid EXCEPT !.cash[c.creditor] = @ + c.amount]

\* What can be paid, in order; what is to follow is kept.
Pay(s) ==
  LET kept == IF s.charges # <<>> /\ s.resume = NoResume
              THEN [s EXCEPT !.resume = [kind |-> "phase", phase |-> s.phase]] ELSE s
      after[n \in 0..Len(s.charges)] ==
        IF n = 0 THEN kept
        ELSE IF Stuck(after[n - 1]) THEN after[n - 1] ELSE Take(after[n - 1])
  IN after[Len(s.charges)]

Indebted(s) == [s EXCEPT !.phase = "debt", !.turn = Head(s.charges).payer]
Auctioned(s) ==
  IF s.phase # "debt" /\ s.queue # <<>> /\ s.auction = NoAuction THEN StartAuction(s) ELSE s

Resume(s) ==
  LET t == [s EXCEPT !.resume = NoResume, !.turn = s.current]
  IN Auctioned(IF s.resume = NoResume THEN s
               ELSE IF s.current \notin s.alive THEN NextTurn(t)
               ELSE [t EXCEPT !.phase = s.resume.phase])

\* _drain_charges: stop in a debt, or go on with what was to follow, and then with
\* the auctions that waited.  The move out of jail is drained once more.
Drain(s, luck) ==
  LET t == Pay(s)
      p == t.resume.player
      freed == Release([t EXCEPT !.resume = NoResume, !.turn = t.current], p)
      u == Pay(MoveTo(freed, p, Ahead(t.pos[p], t.resume.steps), luck))
  IN IF t.charges # <<>> THEN Indebted(t)
     ELSE IF t.resume.kind # "jail_move" \/ t.current \notin t.alive THEN Resume(t)
     ELSE IF u.charges # <<>> THEN Indebted(u) ELSE Resume(u)

\* _eliminate: the buildings are sold, the rest goes to a creditor who is still
\* in the game or to the bank, which will auction the estates.
Eliminate(s, p, creditor) ==
  LET heir == IF creditor \in s.alive \ {p} THEN creditor ELSE Bank
      estates == {t \in Estates : s.owner[t] = p}
      worth == s.cash[p] + MapThenSumSet(LAMBDA t : (s.level[t] * Tiles[t].cost) \div 2, estates)
      t == [s EXCEPT
             !.level = SetAll(@, estates, 0), !.owner = SetAll(@, estates, heir),
             !.mortgaged = IF heir = Bank THEN @ \ estates ELSE @,
             !.queue = IF heir = Bank THEN @ \o SelectSeq([i \in Squares |-> i], LAMBDA t : t \in estates) ELSE @,
             !.cash = [q \in Players |-> IF q = p THEN 0
                                         ELSE IF q = heir THEN @[q] + worth ELSE @[q]],
             !.alive = @ \ {p}, !.jailed = @ \ {p}, !.tries[p] = 0,
             !.decks = [d \in DOMAIN Events |->
                          @[d] \o [i \in 1..Len(SelectSeq(s.cards[p], LAMBDA c : c = d)) |-> 1]],
             !.cards[p] = <<>>]
  IN Cancel(t)

Finished(s) ==
  [s EXCEPT !.phase = "finished", !.turn = Bank, !.auction = NoAuction, !.charges = <<>>,
            !.queue = <<>>, !.resume = NoResume, !.back = NoReturn,
            !.trades = [p \in Players |-> NoOffer]]

Lonely(s) == Cardinality(s.alive) <= 1

\* What apply_action does after every move.
Close(s) == IF Lonely(s) THEN Finished(s) ELSE Cancel(s)

-----------------------------------------------------------------------------
Asked(p) == ~Over /\ g.turn = p /\ p \in g.alive
Acting(p, phases) == Asked(p) /\ g.phase \in phases /\ ~Gate(g, p)
Managing == {"roll", "purchase", "manage", "debt"}
Luck == 2..(2 * Sides)

\* One roll: in jail only a double, or the bail after the last try, gets out.
Roll(p) ==
  /\ Acting(p, {"roll", "manage"}) /\ (g.phase = "manage" => g.extra)
  /\ \E a, b \in 1..Sides, luck \in Luck :
       LET s == [g EXCEPT !.dice = a + b, !.extra = FALSE]
           tried == [s EXCEPT !.tries[p] = @ + 1, !.phase = "manage"]
           row == IF a = b THEN g.doubles + 1 ELSE 0
           move(t) == MoveTo(t, p, Ahead(t.pos[p], a + b), luck)
           rolled ==
             IF p \in g.jailed
             THEN IF a = b THEN move(Release(s, p))
                  ELSE IF tried.tries[p] < JailTries THEN tried
                  ELSE Charge([tried EXCEPT !.resume = [kind |-> "jail_move", player |-> p,
                                                        steps |-> a + b]], p, Bail, Bank)
             ELSE IF row = DoublesToJail THEN Jail([s EXCEPT !.doubles = row], p)
                  ELSE move([s EXCEPT !.doubles = row, !.extra = (a = b)])
       IN g' = Close(Drain(rolled, luck))

EndTurn(p) ==
  /\ Acting(p, {"manage"}) /\ ~g.extra /\ g.turns < MaxTurns
  /\ g' = Close(NextTurn(g))

Buy(p) ==
  /\ Acting(p, {"purchase"})
  /\ LET t == g.pos[p]
     IN /\ g.cash[p] >= Tiles[t].price
        /\ g' = Close([g EXCEPT !.cash[p] = @ - Tiles[t].price, !.owner[t] = p,
                                !.phase = "manage"])

Decline(p) ==
  /\ Acting(p, {"purchase"})
  /\ g' = Close(StartAuction([g EXCEPT !.phase = "manage", !.queue = Append(@, g.pos[p])]))

\* _auction_step, after a bid or a pass.
AuctionStep(s, p) ==
  LET left == s.auction.eligible \ {s.auction.best}
  IN Close(IF left = {} THEN FinishAuction(s) ELSE [s EXCEPT !.turn = NextSeat(Seats, p, left)])

Bid(p) ==
  /\ Acting(p, {"auction"})
  /\ \E amount \in (g.auction.bid + 1)..g.cash[p] :
       g' = AuctionStep([g EXCEPT !.auction.bid = amount, !.auction.best = p], p)

PassBid(p) ==
  /\ Acting(p, {"auction"})
  /\ g' = AuctionStep([g EXCEPT !.auction.eligible = @ \ {p}], p)

Propose(p) ==
  /\ Acting(p, Managing) /\ g.offers < OffersPerTurn
  /\ \E to \in g.alive \ {p}, terms \in Terms :
       LET offer == terms @@ [from |-> p, to |-> to, turn |-> g.turns,
                              mortgaged |-> (terms.give \union terms.take) \intersect g.mortgaged]
       IN /\ g.trades[to] = NoOffer /\ Valid(g, offer)
          /\ g' = Close([g EXCEPT !.trades[to] = offer, !.offers = @ + 1])

Respond(p) ==
  /\ Asked(p) /\ Gate(g, p)
  /\ \E accept \in BOOLEAN, luck \in Luck :
       LET o == g.trades[p]
           net == o.giveCash - o.takeCash
           s == IF accept
                THEN [g EXCEPT !.cash[o.from] = @ - net, !.cash[p] = @ + net,
                               !.owner = SetAll(SetAll(@, o.give, p), o.take, o.from)]
                ELSE g
       IN /\ accept => Valid(g, o)
          /\ g' = Close(Drain([s EXCEPT !.trades[p] = NoOffer], luck))

\* Selling a building, or mortgaging, also serves to pay a debt.
Raised(s, luck) == Close(IF s.phase = "debt" THEN Drain(s, luck) ELSE s)

Build(p) ==
  /\ Acting(p, Managing \ {"debt"})
  /\ \E t \in Estates :
       /\ Tiles[t].kind = "property" /\ g.owner[t] = p /\ Monopolised(g, t)
       /\ Group(t) \intersect g.mortgaged = {}
       /\ g.level[t] < Hotel /\ g.level[t] = Min(Levels(g, t)) /\ g.cash[p] >= Tiles[t].cost
       /\ IF g.level[t] = Hotel - 1 THEN FreeHotels(g) > 0 ELSE FreeHouses(g) > 0
       /\ g' = Close([g EXCEPT !.level[t] = @ + 1, !.cash[p] = @ - Tiles[t].cost])

SellBuilding(p) ==
  /\ Acting(p, Managing)
  /\ \E t \in Estates, luck \in Luck :
       /\ g.owner[t] = p /\ g.level[t] > 0 /\ g.level[t] = Max(Levels(g, t))
       /\ g.level[t] = Hotel => FreeHouses(g) >= Hotel - 1
       /\ g' = Raised([g EXCEPT !.level[t] = @ - 1, !.cash[p] = @ + Tiles[t].cost \div 2], luck)

Mortgage(p) ==
  /\ Acting(p, Managing)
  /\ \E t \in Estates \ g.mortgaged, luck \in Luck :
       /\ g.owner[t] = p /\ Levels(g, t) = {0}
       /\ g' = Raised([g EXCEPT !.mortgaged = @ \union {t}, !.cash[p] = @ + MortgageValue(t)],
                      luck)

Redeem(p) ==
  /\ Acting(p, Managing \ {"debt"})
  /\ \E t \in g.mortgaged :
       /\ g.owner[t] = p /\ g.cash[p] >= RedemptionCost(t)
       /\ g' = Close([g EXCEPT !.mortgaged = @ \ {t}, !.cash[p] = @ - RedemptionCost(t)])

LeaveJail(p) ==
  /\ Acting(p, {"roll"}) /\ p \in g.jailed
  /\ \/ /\ g.cash[p] >= Bail
        /\ g' = Close(Release([g EXCEPT !.cash[p] = @ - Bail], p))
     \/ /\ g.cards[p] # <<>>
        /\ g' = Close(Release([g EXCEPT !.cards[p] = Tail(@),
                                        !.decks[Head(g.cards[p])] = Append(@, 1)], p))

GoBankrupt(p) ==
  /\ Acting(p, {"debt"})
  /\ \E luck \in Luck :
       LET s == Eliminate(g, p, Head(g.charges).creditor)
       IN g' = Close(IF Lonely(s) THEN s ELSE Drain(s, luck))

\* Leaving counts as bankruptcy, at any moment.
Resign(p) ==
  /\ ~Over /\ p \in g.alive
  /\ \E luck \in Luck :
       LET s == Eliminate(g, p, IF g.phase = "debt" /\ Head(g.charges).payer = p
                                THEN Head(g.charges).creditor ELSE Bank)
           a == IF s.auction.best = p
                THEN [s.auction EXCEPT !.best = Bank, !.bid = 0, !.eligible = s.alive]
                ELSE [s.auction EXCEPT !.eligible = @ \ {p}]
           t == IF g.current = p
                THEN LET n == NextTurn([s EXCEPT !.auction = a])
                     IN [n EXCEPT !.phase = "auction",
                                  !.back = [phase |-> "roll", player |-> n.current]]
                ELSE [s EXCEPT !.auction = a]
           left == a.eligible \ {a.best}
       IN g' = IF Lonely(s) THEN Finished(s)
               ELSE IF g.phase = "auction"
               THEN IF left = {} THEN FinishAuction(t)
                    ELSE IF t.turn \in left THEN t ELSE [t EXCEPT !.turn = Min(left)]
               ELSE Drain(IF g.current = p /\ g.phase # "debt" THEN NextTurn(s) ELSE s, luck)

Next ==
  \E p \in Players :
    \/ Roll(p) \/ EndTurn(p) \/ Buy(p) \/ Decline(p) \/ Bid(p) \/ PassBid(p)
    \/ Propose(p) \/ Respond(p) \/ Build(p) \/ SellBuilding(p) \/ Mortgage(p) \/ Redeem(p)
    \/ LeaveJail(p) \/ GoBankrupt(p) \/ Resign(p)

Spec == Init /\ [][Next]_g

-----------------------------------------------------------------------------
\* Nobody owes the bank silently: no cash below zero, no building out of thin
\* air, and every estate belongs to someone still playing.
LedgerBounded ==
  /\ \A p \in Players : g.cash[p] >= 0
  /\ FreeHouses(g) >= 0 /\ FreeHotels(g) >= 0
  /\ ~Over => \A t \in Estates : g.owner[t] \in g.alive \union {Bank}

\* Buildings grow evenly, on whole groups that are free of mortgages.
BuiltEvenly ==
  \A t \in Estates :
    g.level[t] > 0 => /\ Monopolised(g, t) /\ Group(t) \intersect g.mortgaged = {}
                      /\ \A u \in Group(t) : Apart(g.level[t], g.level[u]) <= 1

\* Who is asked can act: an auction asks a bidder who does not lead, a debt its
\* payer, everything else the player whose turn it is.
AskedMayAct ==
  ~Over => /\ g.turn \in g.alive
           /\ g.phase = "auction" <=> g.auction # NoAuction
           /\ g.phase = "auction" => g.turn \in g.auction.eligible \ {g.auction.best}
           /\ g.phase = "debt" => g.charges # <<>> /\ g.turn = Head(g.charges).payer
           /\ g.phase \in {"roll", "purchase", "manage"} =>
                g.turn = g.current /\ g.charges = <<>> /\ g.queue = <<>>

\* An auction sells an estate of the bank to someone who can pay the bid.
AuctionCovered ==
  g.phase = "auction" => /\ g.owner[g.auction.tile] = Bank
                         /\ g.auction.best # Bank => /\ g.auction.best \in g.alive
                                                     /\ g.auction.bid <= g.cash[g.auction.best]

\* What is offered for purchase belongs to nobody (the rules the plugin states,
\* monopoly.py:73: an estate without an owner may be bought at its price).
OffersFreeEstate == g.phase = "purchase" => g.owner[g.pos[g.turn]] = Bank
=============================================================================
