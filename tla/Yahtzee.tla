------------------------------- MODULE Yahtzee -------------------------------
(***************************************************************************)
(* app/games/yahtzee.py: up to three rolls of five dice, then a score in   *)
(* an open category of the card.  The dice are the number of each face.    *)
(***************************************************************************)
EXTENDS Table

CONSTANTS Seats,
          Faces,            \* the faces the dice of an instance may show, of 1..6
          Categories,       \* the categories of its cards
          MaxRolls, UpperThreshold

VARIABLE g

Players == 0..(Seats - 1)
Over == g.result.over
Dice == 5
Numbers == <<"ones", "twos", "threes", "fours", "fives", "sixes">>
Upper == Categories \intersect Range(Numbers)
Lower == Categories \ Upper
Bags == {d \in [Faces -> 0..Dice] : Total(d, Faces) = Dice}
NoDice == [f \in Faces |-> 0]
Open == -1

Pips(d) == MapThenSumSet(LAMBDA f : f * d[f], Faces)
Most(d) == Max({d[f] : f \in Faces})
Run(d, n) == \E a \in 1..(7 - n) : \A f \in a..(a + n - 1) : f \in Faces /\ d[f] > 0

\* score_category.
Score(c, d) ==
  CASE c \in Range(Numbers) ->
         MapThenSumSet(LAMBDA f : f * d[f], {f \in Faces : Numbers[f] = c})
    [] c = "three_of_a_kind" -> IF Most(d) >= 3 THEN Pips(d) ELSE 0
    [] c = "four_of_a_kind" -> IF Most(d) >= 4 THEN Pips(d) ELSE 0
    [] c = "full_house" -> IF {d[f] : f \in Faces} \ {0} = {2, 3} THEN 25 ELSE 0
    [] c = "small_straight" -> IF Run(d, 4) THEN 30 ELSE 0
    [] c = "large_straight" -> IF Run(d, 5) THEN 40 ELSE 0
    [] c = "yahtzee" -> IF Most(d) = 5 THEN 50 ELSE 0
    [] c = "chance" -> Pips(d)

\* A further yahtzee fills a lower category at its full value.
JokerScore(c, d) ==
  CASE c = "full_house" -> 25 [] c = "small_straight" -> 30 [] c = "large_straight" -> 40
    [] OTHER -> Pips(d)

OpenIn(s, p) == {c \in Categories : s.card[p][c] = Open}
JokerActive(s, p) == Most(s.dice) = Dice /\ "yahtzee" \in Categories \ OpenIn(s, p)
BonusDue(s, p) == JokerActive(s, p) /\ s.card[p]["yahtzee"] = 50

\* _legal_score_options: the categories open to the dice and what each scores; a
\* joker goes to its own number, else below, else scores nothing above.
Options(s, p) ==
  LET open == OpenIn(s, p)
      number == Numbers[CHOOSE f \in Faces : s.dice[f] = Most(s.dice)]
  IN IF ~JokerActive(s, p) THEN {<<c, Score(c, s.dice)>> : c \in open}
     ELSE IF number \in open THEN {<<number, Pips(s.dice)>>}
     ELSE IF open \cap Lower # {} THEN {<<c, JokerScore(c, s.dice)>> : c \in open \cap Lower}
     ELSE {<<c, 0>> : c \in open}

\* _card_totals: the upper bonus and the yahtzee bonuses on top of the scores.
Points(s, p) ==
  LET scored(S) == MapThenSumSet(LAMBDA c : IF s.card[p][c] = Open THEN 0 ELSE s.card[p][c], S)
  IN scored(Categories) + 100 * s.bonus[p]
       + (IF scored(Upper) >= UpperThreshold THEN 35 ELSE 0)

-----------------------------------------------------------------------------
Init == g = [card |-> [p \in Players |-> [c \in Categories |-> Open]],
             bonus |-> [p \in Players |-> 0], left |-> {}, seat |-> 0, dice |-> NoDice,
             rolls |-> 0, result |-> NoResult]

Active(s) == Players \ s.left
Fresh(s) == [s EXCEPT !.dice = NoDice, !.rolls = 0]

\* Held dice stay, the others fall anyhow; the first roll holds none.
Roll(p) ==
  /\ ~Over /\ g.seat = p /\ g.rolls < MaxRolls
  /\ \E held \in {h \in [Faces -> 0..Dice] : \A f \in Faces : h[f] <= g.dice[f]} :
     \E dice \in Bags :
       /\ \A f \in Faces : held[f] <= dice[f]
       /\ g' = [g EXCEPT !.dice = dice, !.rolls = @ + 1]

\* _terminal_result: the best total among those who stayed, or a draw.
Final(s) ==
  LET best == Best([p \in Players |-> Points(s, p)], Active(s))
  IN [s EXCEPT !.result = [over |-> TRUE, leaders |-> best]]

\* Score a category, or scratch it; a joker is not scratched while it scores.
ScoreIt(p) ==
  /\ ~Over /\ g.seat = p /\ g.rolls > 0
  /\ \E option \in Options(g, p) : \E scratched \in BOOLEAN :
       LET s == Fresh([g EXCEPT
                  !.card[p][option[1]] = IF scratched THEN 0 ELSE option[2],
                  !.bonus[p] = IF BonusDue(g, p) THEN @ + 1 ELSE @,
                  !.seat = NextSeat(Seats, p, Active(g))])
       IN /\ scratched /\ JokerActive(g, p) => option[2] = 0
          /\ g' = IF \A q \in Active(s) : OpenIn(s, q) = {} THEN Final(s) ELSE s

\* The leaver's dice are cleared; the last one wins, and if all who stay have
\* filled their cards the game is counted.
Resign(p) ==
  /\ ~Over /\ p \in Active(g)
  /\ LET s1 == [g EXCEPT !.left = @ \union {p}]
         s == IF g.seat = p THEN [Fresh(s1) EXCEPT !.seat = NextSeat(Seats, p, Active(s1))]
              ELSE s1
     IN g' = IF Cardinality(Active(s)) = 1
             THEN [s EXCEPT !.result = [over |-> TRUE, leaders |-> Active(s)]]
             ELSE IF \A q \in Active(s) : OpenIn(s, q) = {} THEN Final(s) ELSE s

Next == \E p \in Players : Roll(p) \/ ScoreIt(p) \/ Resign(p)

-----------------------------------------------------------------------------
Filled(p) == Cardinality(Categories \ OpenIn(g, p))

\* Whose turn it is has a category open and, with dice on the table, one that the
\* joker rule allows; nobody who stays is more than a turn ahead.
AskedMayAct ==
  ~Over => /\ g.seat \in Active(g)
           /\ OpenIn(g, g.seat) # {}
           /\ g.rolls > 0 => Options(g, g.seat) # {}
           /\ \A p \in Active(g) : Filled(p) \in {Filled(g.seat), Filled(g.seat) + 1}

\* A bonus is paid only on top of a yahtzee scored before it, once for each turn
\* after that one; a counted game goes to the best totals.
Settled ==
  /\ \A p \in Players :
       /\ g.bonus[p] > 0 => g.card[p]["yahtzee"] = 50
       /\ g.bonus[p] < Max({1, Filled(p)})
  /\ Over /\ Cardinality(Active(g)) > 1 =>
       \A p \in g.result.leaders, q \in Active(g) : Points(g, q) <= Points(g, p)
=============================================================================
