------------------------------ MODULE Gandengyan -----------------------------
(***************************************************************************)
(* app/games/gandengyan.py: shedding cards one exact step above the last   *)
(* play, with jokers as wild cards.  Cards are counted by kind: the ranks  *)
(* 1..RankCount, the last of which (the two) runs in no sequence, and the  *)
(* kind 0 for the jokers.                                                  *)
(***************************************************************************)
EXTENDS Table, TLC

CONSTANTS Seats, RankCount, Copies, Jokers,
          HandSize,             \* cards dealt to each, one more to the opener
          MaxMultiplier, Stake

VARIABLE g

Players == 0..(Seats - 1)
Two == RankCount
Kinds == 0..RankCount
Over == g.result.over

Size(c) == Total(c, Kinds)
Plus(a, b) == [k \in Kinds |-> a[k] + b[k]]
Minus(a, b) == [k \in Kinds |-> a[k] - b[k]]
Within(a, b) == \A k \in Kinds : a[k] <= b[k]
Empty == [k \in Kinds |-> 0]
Full == [k \in Kinds |-> IF k = 0 THEN Jokers ELSE Copies]
Dealt(hands) == FoldFunction(Plus, Empty, hands)

NoPlay == [type |-> "none", value |-> 0, count |-> 0, by |-> -1]

-----------------------------------------------------------------------------
(* The patterns. *)

\* Every legal reading of the cards c; jokers complete a group, a run or a run
\* of pairs, and are a bomb only together.
Meanings(c) ==
  LET n == Size(c)
      ranks == {r \in 1..RankCount : c[r] > 0}
      windows(len) == {a \in 1..(RankCount - len) : ranks \subseteq a..(a + len - 1)}
      meaning(type, value) == [type |-> type, value |-> value, count |-> n]
      group == CASE n = 1 -> "single" [] n = 2 -> "pair"
                 [] n = 3 -> "three_bomb" [] OTHER -> "four_bomb"
  IN IF n = 2 /\ c[0] = 2 THEN {meaning("joker_bomb", RankCount + 1)}
     ELSE IF ranks = {} THEN {}
     ELSE {meaning(group, r) : r \in {r \in ranks : ranks = {r} /\ n <= 4}}
     \union {meaning("straight", a + n - 1) :
               a \in {a \in windows(n) : n >= 3 /\ \A r \in ranks : c[r] = 1}}
     \union {meaning("pairs", a + (n \div 2) - 1) :
               a \in {a \in windows(n \div 2) : /\ n >= 4 /\ n % 2 = 0
                                                /\ \A r \in ranks : c[r] <= 2}}

Strength(m) ==
  CASE m.type = "three_bomb" -> 1 [] m.type = "four_bomb" -> 2
    [] m.type = "joker_bomb" -> 3 [] OTHER -> 0

\* can_beat: bombs beat by strength, all else by exactly one step, but a two
\* beats any lower single and a pair of them any lower pair.
Beats(m, last) ==
  \/ last.type = "none"
  \/ Strength(m) > Strength(last)
  \/ Strength(m) > 0 /\ Strength(m) = Strength(last) /\ m.value > last.value
  \/ /\ Strength(m) = 0 /\ m.type = last.type /\ m.count = last.count
     /\ IF m.type \in {"single", "pair"} /\ m.value = Two THEN last.value # Two
        ELSE m.value = last.value + 1

\* _resolve_pattern: of the readings that beat the last play those of its own
\* type, else the first: groups, then runs, then pairs, the lowest of each.
Resolved(c, last) ==
  LET fit == {m \in Meanings(c) : Beats(m, last)}
      same == {m \in fit : m.type = last.type /\ m.count = last.count}
      pool == IF same # {} THEN same ELSE fit
      weight(m) == m.value + (CASE m.type = "straight" -> 100
                                [] m.type = "pairs" -> 200 [] OTHER -> 0)
  IN {m \in pool : \A o \in pool : weight(m) <= weight(o)}

\* _all_combinations: the cards a hand may be offered, made pattern by pattern:
\* groups, the joker bomb, runs with jokers in their gaps, runs of pairs short
\* of cards.
Combinations ==
  LET cards(on, count, jokers) ==
        [k \in Kinds |-> IF k = 0 THEN jokers ELSE IF k \in on THEN count[k] ELSE 0]
      runs(len) == {run \in {a..b : a \in 1..(Two - 1), b \in 1..(Two - 1)} :
                      Cardinality(run) >= len}
      groups == {[Empty EXCEPT ![r] = t - j, ![0] = j] :
                   r \in 1..RankCount, t \in 1..4, j \in 0..Jokers}
      straights == {cards(run, [r \in run |-> 1 - missing[r]], Total(missing, run)) :
                      run \in runs(3), missing \in [1..(Two - 1) -> 0..1]}
      pairs == {cards(run, [r \in run |-> 2 - missing[r]], Total(missing, run)) :
                  run \in runs(2), missing \in [1..(Two - 1) -> 0..2]}
      playable == {c \in groups : \E r \in 1..RankCount : c[r] > 0} \union straights
                  \union pairs \union {[Empty EXCEPT ![0] = 2]}
  IN {c \in playable : Within(c, Full)}

Plays(s, p) == {c \in Combinations : Within(c, s.hands[p]) /\ Resolved(c, s.last) # {}}

-----------------------------------------------------------------------------
Hands(n) == {c \in [Kinds -> 0..(IF Copies > Jokers THEN Copies ELSE Jokers)] :
               Size(c) = n /\ Within(c, Full)}

Init ==
  \E hands \in [Players -> Hands(HandSize) \union Hands(HandSize + 1)] :
    /\ \A p \in Players : Size(hands[p]) = IF p = 0 THEN HandSize + 1 ELSE HandSize
    /\ Within(Dealt(hands), Full)
    /\ g = [hands |-> hands, deck |-> Minus(Full, Dealt(hands)), used |-> Empty,
            order |-> Players, last |-> NoPlay, passed |-> {}, turn |-> 0,
            multiplier |-> 1, bombs |-> 0, result |-> NoResult]

After(s, p) == NextSeat(Seats, p, s.order)

Finish(s, winner, deltas) ==
  [s EXCEPT !.turn = -1,
            !.result = [over |-> TRUE, winner |-> winner, deltas |-> deltas]]

\* settlement_deltas: who went out collects for every card left in a hand.
Deltas(s, winner) ==
  LET owed == [p \in Players |-> Stake * Size(s.hands[p]) * s.multiplier]
  IN [p \in Players |-> IF p = winner THEN Total(owed, Players \ {p}) ELSE -owed[p]]

Play(p) ==
  /\ g.turn = p
  /\ \E c \in Plays(g, p) : \E m \in Resolved(c, g.last) :
       LET bomb == Strength(m) > 0
           double == IF 2 * g.multiplier < MaxMultiplier THEN 2 * g.multiplier
                     ELSE MaxMultiplier
           s == [g EXCEPT !.hands[p] = Minus(@, c), !.used = Plus(@, c),
                          !.last = m @@ [by |-> p], !.passed = {},
                          !.bombs = IF bomb THEN @ + 1 ELSE @,
                          !.multiplier = IF bomb THEN double ELSE @]
       IN g' = IF Size(s.hands[p]) = 0 THEN Finish(s, p, Deltas(s, p))
               ELSE [s EXCEPT !.turn = After(s, p)]

\* A trick ends: from its winner round, each takes a card while there are any.
Drawn(s, winner) ==
  LET takers == Round(Seats, winner, s.order)
      dealt == Min({Size(s.deck), Len(takers)})
      cards(d) == [k \in Kinds |-> Cardinality({i \in 1..dealt : d[i] = k})]
      hand(p, d) == [k \in Kinds |-> s.hands[p][k]
                       + Cardinality({i \in 1..dealt : takers[i] = p /\ d[i] = k})]
  IN {[s EXCEPT !.deck = Minus(@, cards(d)), !.hands = [p \in Players |-> hand(p, d)]] :
        d \in {d \in [1..dealt -> Kinds] : Within(cards(d), s.deck)}}

\* With the deck empty who has nothing to lead is passed over; when nobody has,
\* the game is drawn.
Lead(s, winner) ==
  LET fresh == [s EXCEPT !.last = NoPlay, !.passed = {}]
      able == {p \in s.order : Plays(fresh, p) # {}}
  IN IF Size(s.deck) > 0 THEN [fresh EXCEPT !.turn = winner]
     ELSE IF able = {} THEN Finish(fresh, -1, [p \in Players |-> 0])
     ELSE [fresh EXCEPT !.turn = Round(Seats, winner, able)[1]]

Pass(p) ==
  /\ g.turn = p /\ g.last # NoPlay /\ p \notin g.passed
  /\ LET s == [g EXCEPT !.passed = @ \union {p}]
     IN IF g.order \ {g.last.by} \subseteq s.passed
        THEN \E d \in Drawn(s, g.last.by) : g' = Lead(d, g.last.by)
        ELSE g' = [s EXCEPT !.turn = After(s, p)]

\* Who leaves takes the hand along; a trick led by the leaver is given up and
\* whose turn it is, or would be, leads the next.  The last one at the table wins.
Resign(p) ==
  /\ ~Over /\ p \in g.order
  /\ LET rest == g.order \ {p}
         next == NextSeat(Seats, p, rest)
         leader == IF g.turn = p THEN next ELSE g.turn
         s == [g EXCEPT !.order = rest, !.passed = @ \ {p}, !.turn = leader,
                        !.last = IF @.by = p THEN NoPlay ELSE @]
     IN g' = IF Cardinality(rest) > 1
             THEN IF g.last.by = p THEN [s EXCEPT !.passed = {}] ELSE s
             ELSE Finish(s, next, Deltas(s, next))

Next == \E p \in Players : Play(p) \/ Pass(p) \/ Resign(p)

-----------------------------------------------------------------------------
\* Every card is in a hand, in the stock or played.
CardsConserved == Plus(Plus(Dealt(g.hands), g.deck), g.used) = Full

\* Cards of a hand that have a reading are among those it is offered, and only
\* those.
PlaysOffered ==
  LET offered == Combinations
      selections == [Kinds -> 0..(IF Copies > Jokers THEN Copies ELSE Jokers)]
  IN \A p \in Players : \A c \in selections :
       Within(c, g.hands[p]) => (c \in offered <=> Meanings(c) # {})

MayAct == g.last # NoPlay \/ Plays(g, g.turn) # {}

\* Whose turn it is stayed in the game and, as long as nobody resigned, has something
\* to do: cards to lead, or a trick to pass on.  After a resignation only the first is
\* asked: apply_resignation (gandengyan.py:857) gives the lead to the next seat
\* without the look for cards to lead that rules_text (gandengyan.py:360) promises
\* and the end of a trick makes, and such a leader can only resign.
AskedMayAct ==
  ~Over => /\ g.turn \in g.order
           /\ g.order = Players => MayAct

\* The winner takes what the others lose, each by the cards in hand or nothing,
\* and only an empty stock leaves a hand without a winner.
Settled ==
  /\ g.multiplier = Min({MaxMultiplier, 2 ^ g.bombs})
  /\ Over => /\ Total(g.result.deltas, Players) = 0
             /\ g.result.winner = -1 => Size(g.deck) = 0
             /\ \A p \in Players \ {g.result.winner} :
                  g.result.deltas[p] \in {0, -(Stake * g.multiplier * Size(g.hands[p]))}
=============================================================================
