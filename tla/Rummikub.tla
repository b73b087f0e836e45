------------------------------- MODULE Rummikub -------------------------------
(***************************************************************************)
(* app/games/rummikub.py: a turn hands in the whole table, rearranged and  *)
(* grown from the hand.  The pool is shuffled: a draw takes any tile.      *)
(* Groups are sets, runs are ordered; what a joker stands for is inferred, *)
(* and in a group with colours to spare it is not decided.                 *)
(***************************************************************************)
EXTENDS Table

CONSTANTS Colors, Numbers,     \* faces of the tiles: Numbers is 1..n
          Copies, Jokers,      \* of each face, and how many jokers
          MeldSize,            \* tiles of the smallest meld
          Melds,               \* Runs and Groups
          Seats, Wallets,      \* the seats, and those that are not system NPCs
          Openers, HandSize,
          OpenPoints           \* the first play of a seat is worth this much

VARIABLE g

Players == 0..(Seats - 1)
None == -1

-----------------------------------------------------------------------------
(* The tiles and the melds they make.                                         *)

Tiles == [color : Colors, number : Numbers, copy : 1..Copies]
           \cup [color : {"joker"}, number : {0}, copy : 1..Jokers]
IsJoker(t) == t.color = "joker"
Real(S) == {t \in S : ~IsJoker(t)}
Value == [t \in Tiles |-> IF IsJoker(t) THEN 30 ELSE t.number]

Group(S) == [kind |-> "group", tiles |-> S, order |-> <<>>]
Run(order) == [kind |-> "run", tiles |-> Range(order), order |-> order]

IsGroup(S) ==
  /\ Cardinality(S) \in MeldSize..Cardinality(Colors) /\ Real(S) # {}
  /\ \A t, u \in Real(S) : t.number = u.number /\ (t.color = u.color => t = u)

Fits(t, color, number) == IsJoker(t) \/ (t.color = color /\ t.number = number)
Runs == {Run(order) : order \in
           UNION {{o \in [1..n -> Tiles] :
                     /\ IsInjective(o) /\ Real(Range(o)) # {}
                     /\ \E color \in Colors, first \in Numbers :
                          /\ first + n - 1 \in Numbers
                          /\ \A i \in 1..n : Fits(o[i], color, first + i - 1)} :
                  n \in MeldSize..Cardinality(Numbers)}}
Groups == {Group(S) : S \in {S \in UNION {kSubset(n, Tiles) : n \in MeldSize..Cardinality(Colors)} : IsGroup(S)}}

\* The number a run starts with, or that of a group.
First(m) ==
  IF m.kind = "group" THEN (CHOOSE t \in Real(m.tiles) : TRUE).number
  ELSE LET i == CHOOSE i \in DOMAIN m.order : ~IsJoker(m.order[i]) IN m.order[i].number - i + 1
Points(m) == LET n == Cardinality(m.tiles)
             IN IF m.kind = "group" THEN n * First(m) ELSE n * First(m) + (n * (n - 1)) \div 2

\* What a joker of a meld may stand for.
Roles(m, t) ==
  IF m.kind = "group"
  THEN {<<"group", First(m), c>> : c \in Colors \ {u.color : u \in Real(m.tiles)}}
  ELSE LET i == CHOOSE i \in DOMAIN m.order : m.order[i] = t
       IN {<<"run", First(m) + i - 1, u.color>> : u \in Real(m.tiles)}

\* joker_assignments: the roles of all jokers at once, two of a group distinct.
TilesOf(table) == UNION {m.tiles : m \in table}
JokersOf(table) == {t \in TilesOf(table) : IsJoker(t)}
MeldOf(table, t) == CHOOSE m \in table : t \in m.tiles
Assignments(table) ==
  {a \in [JokersOf(table) -> UNION {Roles(MeldOf(table, t), t) : t \in JokersOf(table)}] :
     /\ \A t \in JokersOf(table) : a[t] \in Roles(MeldOf(table, t), t)
     /\ \A m \in table, t, u \in JokersOf(table) :
          m.kind = "group" /\ {t, u} \subseteq m.tiles /\ a[t] = a[u] => t = u}

-----------------------------------------------------------------------------
(* validate_action: what may be handed in.                                   *)

\* The ways to lay out some tiles.
Layouts(S) ==
  {table \in SUBSET {m \in Melds : m.tiles \subseteq S} :
     \A m, n \in table : m.tiles \cap n.tiles # {} => m = n}

\* The first play adds melds of the hand and leaves the table alone.
Opening(s, p, table) ==
  LET new == table \ s.table
  IN /\ s.table \subseteq table /\ TilesOf(new) \subseteq s.hand[p]
     /\ MapThenSumSet(Points, new) >= OpenPoints

\* A joker that is not in a meld with a tile of the hand keeps company and role.
JokersKept(s, p, table) ==
  LET still == {t \in JokersOf(s.table) : MeldOf(table, t).tiles \cap s.hand[p] = {}}
  IN /\ \A t \in still :
          Real(MeldOf(s.table, t).tiles) \cap MeldOf(table, t).tiles # {}
     /\ still # {} =>
          \E a \in Assignments(s.table), b \in Assignments(table) :
            \A t \in still : a[t] = b[t]

Legal(s, p) ==
  {table \in Layouts(TilesOf(s.table) \cup s.hand[p]) :
     LET added == TilesOf(table) \ TilesOf(s.table)
     IN /\ TilesOf(s.table) \subseteq TilesOf(table) /\ added # {}
        /\ IF s.opened[p] THEN JokersKept(s, p, table) ELSE Opening(s, p, table)}

-----------------------------------------------------------------------------
Active(s) == Players \ s.left
Over == g.result.over

Deals == {h \in [Players -> kSubset(HandSize, Tiles)] :
            \A p, q \in Players : h[p] \cap h[q] # {} => p = q}

Init == \E hand \in Deals, first \in Openers :
  g = [hand |-> hand, pool |-> Tiles \ UNION Range(hand), table |-> {},
       opened |-> [p \in Players |-> FALSE], blocked |-> {}, turn |-> first,
       left |-> {}, result |-> NoResult]

Held(s, p) == Total(Value, s.hand[p])
Lowest(s) == {p \in Active(s) : \A q \in Active(s) : Held(s, p) <= Held(s, q)}

\* _finish; the winners share what the others of a whole table pay.
Finish(s, reason, winners) ==
  LET base == IF reason = "empty_rack" THEN 0 ELSE Min({Held(s, p) : p \in Active(s)})
      scored == s.left = {} /\ reason \in {"empty_rack", "blocked"}
  IN [s EXCEPT !.turn = None,
               !.result = [over |-> TRUE, reason |-> reason, winners |-> winners,
                           paid |-> [p \in Players |-> IF scored /\ p \notin winners
                                                       THEN Held(s, p) - base ELSE 0]]]
Passed(s, p) == [s EXCEPT !.turn = NextSeat(Seats, p, Active(s))]

Meld(p) ==
  /\ ~Over /\ g.turn = p
  /\ \E table \in Legal(g, p) :
       LET s == [g EXCEPT !.hand[p] = @ \ TilesOf(table), !.table = table,
                          !.opened[p] = TRUE, !.blocked = {}]
       IN g' = IF s.hand[p] = {} THEN Finish(s, "empty_rack", {p}) ELSE Passed(s, p)

DrawTile(p) ==
  /\ ~Over /\ g.turn = p
  /\ \E t \in g.pool :
       g' = Passed([g EXCEPT !.hand[p] = @ \cup {t}, !.pool = @ \ {t}, !.blocked = {}], p)

\* With no tile to draw, a seat says that it cannot go on; all of them end it.
Pass(p) ==
  /\ ~Over /\ g.turn = p /\ g.pool = {}
  /\ LET s == [g EXCEPT !.blocked = @ \cup {p}]
     IN g' = IF Active(s) \subseteq s.blocked THEN Finish(s, "blocked", Lowest(s)) ELSE Passed(s, p)

\* apply_resignation; NPCs are not left to play alone.
Resign(p) ==
  /\ ~Over /\ p \in Active(g) \cap Wallets
  /\ LET s == [g EXCEPT !.left = @ \cup {p}, !.blocked = {}]
     IN g' = IF Cardinality(Active(s)) = 1 THEN Finish(s, "resignation", Active(s))
             ELSE IF Active(s) \cap Wallets = {} THEN Finish(s, "only_system_npcs_remaining", {})
             ELSE IF g.turn = p THEN Passed(s, p) ELSE s

Next == \E p \in Players : Meld(p) \/ DrawTile(p) \/ Pass(p) \/ Resign(p)

-----------------------------------------------------------------------------
\* Every tile is in one place: a hand, the pool, or one meld of the table.
TilesConserved ==
  /\ \A p, q \in Players : g.hand[p] \cap g.hand[q] # {} => p = q
  /\ (UNION Range(g.hand)) \cup g.pool \cup TilesOf(g.table) = Tiles
  /\ \A p \in Players : g.hand[p] \cap (g.pool \cup TilesOf(g.table)) = {}
  /\ g.pool \cap TilesOf(g.table) = {}
  /\ \A m, n \in g.table : m.tiles \cap n.tiles # {} => m = n

\* Whoever is asked stayed, has tiles and has not just said that he cannot go on;
\* so the round of such words never comes back to its first speaker.
AskedMayAct == ~Over => /\ g.turn \in Active(g) \ g.blocked
                        /\ g.hand[g.turn] # {}
                        /\ g.blocked # {} => g.pool = {}

\* Nobody has tiles on the table before his opening was worth it, nobody wins
\* with more in hand than a loser who stayed, and no penalty is negative or left
\* after a leave.
Settled ==
  /\ \A p \in Players : ~g.opened[p] => Cardinality(g.hand[p]) >= HandSize
  /\ Over =>
       LET w == g.result.winners
       IN /\ w \subseteq Active(g)
          /\ w = {} => Active(g) \cap Wallets = {}
          /\ g.result.reason \in {"empty_rack", "blocked"} =>
               \A p \in w, q \in Active(g) : Held(g, p) <= Held(g, q)
          /\ \A p \in Players : g.result.paid[p] >= 0
          /\ g.left # {} => \A p \in Players : g.result.paid[p] = 0
=============================================================================
