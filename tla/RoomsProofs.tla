---------------------------- MODULE RoomsProofs ----------------------------
(***************************************************************************)
(* The life of a room for every hall: types, seats, consent to stakes, the *)
(* books, revisions and final results.                                     *)
(***************************************************************************)
EXTENDS Rooms, SumLemmas

\* Before the game every member is at the table or asked to it and one of
\* them opens; the seats of an invite room are the first ones and its size is
\* one the game admits.
Lobby(t) ==
  t.status \in {"pending", "waiting"} =>
    /\ \A p \in Members(t) : t.active[p] /\ t.join[p] # "left"
    /\ t.kind = "table" => t.current \in Members(t)
    /\ t.kind = "invite" =>
         /\ t.target \in AllowedCounts
         /\ \A p \in Members(t) : t.seat[p] <= Cardinality(Members(t))

\* Who left the table does not play.
LeftOut(t) == \A p \in Players : t.join[p] = "left" => ~t.active[p]

Good(t) == t \in Row /\ SeatsDistinct(t) /\ Playable(t) /\ Lobby(t) /\ LeftOut(t)

\* While a stake is open, whoever has answered for himself has agreed.
Consents(t, a) ==
  t.status \in OpenStatus /\ t.stake > 0 =>
    \A p \in Real \cap Members(t) : t.join[p] = "invited" \/ p \in a

\* Whoever is out of a game that could not go on pays whoever is seated.
Forfeited(t, d) ==
  /\ Cardinality(Seated(t)) \notin MayContinue \/ Seated(t) \subseteq Npcs
  /\ t.stake > 0 =>
       \A p \in Members(t) : IF p \in Seated(t) THEN d[p] > 0 ELSE d[p] < 0

\* An ended game moved chips for a stake, among its members.
Justified(t, d) ==
  /\ \A p \in Players : d[p] # 0 => t.stake > 0 /\ p \in Members(t)
  /\ t.result = "only_npcs" => d = Nothing /\ Seated(t) \subseteq Npcs
  /\ t.result = "forfeit" => Forfeited(t, d)

\* What is booked is booked at the end, among those who agreed, and sums to
\* zero unless the game has a bank.
Booked(t, d, a) ==
  /\ d \in [Players -> Int]
  /\ t.status \notin {"finished", "deleted"} => d = Nothing
  /\ \A p \in Real : d[p] # 0 => p \in a
  /\ t.status = "finished" => Justified(t, d)
  /\ NonZeroSum \/ Total(d, Players) = 0

RoomInv(t, d, a) == Good(t) /\ Consents(t, a) /\ Booked(t, d, a) /\ a \in SUBSET Real

\* What the game, the loans and the shop leave in a wallet.
PaidTo(p) == [r \in RoomIds |-> paid[r][p]]
Balanced ==
  \A p \in Real : balance[p] = InitialBalance + external[p] + Total(PaidTo(p), RoomIds)

Shape ==
  /\ room = [r \in RoomIds |-> room[r]]
  /\ paid = [r \in RoomIds |-> paid[r]]
  /\ agreed = [r \in RoomIds |-> agreed[r]]
  /\ balance \in [Real -> Int]
  /\ external \in [Real -> Int]

Inv ==
  /\ Shape
  /\ Balanced
  /\ \A r \in RoomIds : RoomInv(room[r], paid[r], agreed[r])

\* What one step may do to one room.
Covers(t, u) ==
  t.status # "free" /\ u.status # "deleted" /\ Seen(u) # Seen(t)
    => u.revision > t.revision

Final(r) ==
  room[r].status \in Terminal =>
    /\ paid'[r] = paid[r]
    /\ \/ Seen(room'[r]) = Seen(room[r])
       \/ /\ room'[r].status = "deleted"
          /\ \/ ~room[r].preserved /\ room[r].age >= Retention
             \/ \E p \in Real : DeleteTerminal(r, p)

StepOK(r) ==
  /\ RoomInv(room'[r], paid'[r], agreed'[r])
  /\ Covers(room[r], room'[r])
  /\ Final(r)

Step == Inv' /\ \A r \in RoomIds : Covers(room[r], room'[r]) /\ Final(r)

-----------------------------------------------------------------------------
(* Constants.                                                              *)

LEMMA Sizes ==
  /\ LargestCount \in AllowedCounts /\ LargestCount \in Nat
  /\ \A n \in AllowedCounts : n <= LargestCount
  /\ AgeCap \in Nat /\ InviteLife <= AgeCap /\ StaleAge + 1 <= AgeCap /\ Retention <= AgeCap
<1>1. \E x \in AllowedCounts : \A y \in AllowedCounts : x >= y
  BY RoomAssumption, LargestNatural
<1>2. LargestCount \in AllowedCounts /\ \A y \in AllowedCounts : LargestCount >= y
  BY <1>1 DEF LargestCount, Max
<1> DEFINE ages == {InviteLife, StaleAge + 1, Retention}
<1>3. \E x \in ages : \A y \in ages : x >= y
  BY RoomAssumption
<1>4. AgeCap \in ages /\ \A y \in ages : AgeCap >= y
  <2> HIDE DEF ages
  <2>1. AgeCap = CHOOSE x \in ages : \A y \in ages : x >= y
    BY DEF AgeCap, Max, ages
  <2>. QED
    BY <1>3, <2>1
<1>. QED
  BY <1>2, <1>4, RoomAssumption

LEMMA People ==
  /\ IsFiniteSet(Players) /\ Cardinality(Players) \in Nat
  /\ \A s \in SUBSET Players :
       IsFiniteSet(s) /\ Cardinality(s) \in Nat /\ Cardinality(s) <= Cardinality(Players)
  /\ Players = Real \cup Npcs /\ Nobody \notin Players /\ Real \cap Npcs = {}
BY RoomAssumption, FS_Subset, FS_CardinalityType DEF Players, Real

LEMMA RoundCap == NpcRounds * Cardinality(Players) \in Nat
<1>1. \A m, n \in Nat : m * n \in Nat
  OBVIOUS
<1>. QED
  BY <1>1, People, RoomAssumption

\* The largest values of the counters, kept folded.
RoundLimit == NpcRounds * Cardinality(Players)
Turns == 0..RoundLimit
Revisions == 0..MaxRevision
Ages == 0..AgeCap
Actions == 0..MaxNpcActions
Joins == [Players -> {"absent", "invited", "joined", "left"}]
Seats == [Players -> Nat]
Flags == [Players -> BOOLEAN]
Someone == Players \cup {Nobody}
Results == {"none", "game", "only_npcs", "forfeit"}

LEMMA RowIs ==
  Row = [status : Statuses, kind : {"table", "invite"}, stake : Nat,
         owner : Someone, target : Nat, household : Nat, seat : Seats, join : Joins,
         active : Flags, current : Someone, review : BOOLEAN, result : Results,
         revision : Revisions,
         age : Ages, preserved : BOOLEAN, npcTurns : Turns, npcActions : Actions]
BY DEF Row, RoundLimit, Turns, Revisions, Ages, Actions, Joins, Seats, Flags, Someone, Results

LEMMA EmptyGood == Good(Empty) /\ Good(Gone) /\ Members(Empty) = {} /\ Members(Gone) = {}
<1>1. Empty \in Row
  BY RoomAssumption, Sizes, RoundCap DEF Empty, Row, Statuses
<1>2. Gone \in Row
  BY <1>1 DEF Gone, Row, Statuses
<1>3. Members(Empty) = {} /\ Members(Gone) = {}
  BY DEF Members, Empty, Gone
<1>4. /\ Empty.seat = [p \in Players |-> 0] /\ Gone.seat = Empty.seat
      /\ Empty.join = [p \in Players |-> "absent"] /\ Gone.join = Empty.join
      /\ Empty.status = "free" /\ Gone.status = "deleted"
  BY DEF Empty, Gone
<1>5. SeatsDistinct(Empty) /\ SeatsDistinct(Gone)
  BY <1>3, <1>4, Sizes DEF SeatsDistinct
<1>. QED
  BY <1>1, <1>2, <1>3, <1>4, <1>5 DEF Good, Playable, Lobby, LeftOut

-----------------------------------------------------------------------------
(* Rows that keep their roster.                                            *)

LEMMA SameRoster ==
  ASSUME NEW t, NEW u, u.join = t.join, u.seat = t.seat
  PROVE  /\ Members(u) = Members(t) /\ Invited(u) = Invited(t)
         /\ SeatsDistinct(t) => SeatsDistinct(u)
         /\ u.active = t.active => Seated(u) = Seated(t)
<1>1. Members(u) = Members(t)
  BY DEF Members
<1>. QED
  BY <1>1 DEF SeatsDistinct, Invited, Seated

\* A row whose play is over, or that only grew older or was marked.
LEMMA Quiet ==
  ASSUME NEW t, NEW u \in Row, Good(t),
         u.join = t.join, u.seat = t.seat, u.active = t.active,
         u.kind = t.kind, u.target = t.target,
         \/ u.status \in Terminal
         \/ u.status = t.status /\ u.current = t.current /\ u.review = t.review
  PROVE  Good(u) /\ Members(u) = Members(t) /\ Seated(u) = Seated(t)
<1>1. Members(u) = Members(t) /\ Invited(u) = Invited(t) /\ Seated(u) = Seated(t)
      /\ SeatsDistinct(u)
  BY SameRoster DEF Good
<1>2. Playable(u)
  BY <1>1 DEF Good, Playable, Terminal
<1>3. Lobby(u)
  BY <1>1 DEF Good, Lobby, Terminal
<1>. QED
  BY <1>1, <1>2, <1>3 DEF Good, LeftOut

LEMMA MaintainedGood ==
  ASSUME NEW t, Good(t), CanArchive(t)
  PROVE  /\ Good(Maintained(t))
         /\ \/ Maintained(t) = t
            \/ Maintained(t) = Gone /\ (Expired(t) \/ Retired(t))
            \/ Maintained(t) = Archived(t) /\ t.status \in {"waiting", "playing"}
               /\ Seated(Archived(t)) = Seated(t) /\ Members(Archived(t)) = Members(t)
<1>1. CASE Expired(t) \/ Retired(t)
  BY <1>1, EmptyGood DEF Maintained
<1>2. CASE ~(Expired(t) \/ Retired(t)) /\ Stale(t)
  <2>1. t \in Row /\ t.status \in {"waiting", "playing"} /\ t.revision < MaxRevision
    BY <1>2 DEF CanArchive, Stale, Good
  <2>2. Archived(t) \in Row
    <3>1. "archived" \in Statuses /\ Nobody \in Someone /\ 0 \in Ages
      BY Sizes DEF Statuses, Terminal, Someone, Ages
    <3>2. t.revision + 1 \in Revisions
      BY <2>1, RowIs, RoomAssumption DEF Revisions
    <3>. QED
      BY <2>1, <3>1, <3>2, RowIs DEF Archived
  <2>3. /\ Archived(t).join = t.join /\ Archived(t).seat = t.seat
        /\ Archived(t).active = t.active /\ Archived(t).kind = t.kind
        /\ Archived(t).target = t.target /\ Archived(t).status \in Terminal
    BY <2>1 DEF Archived, Row, Terminal
  <2>4. Good(Archived(t)) /\ Members(Archived(t)) = Members(t) /\ Seated(Archived(t)) = Seated(t)
    BY <2>2, <2>3, Quiet
  <2>. QED
    BY <1>2, <2>1, <2>4 DEF Maintained
<1>3. CASE ~(Expired(t) \/ Retired(t)) /\ ~Stale(t)
  BY <1>3 DEF Maintained
<1>. QED
  BY <1>1, <1>2, <1>3

\* Maintenance of one room.
LEMMA MaintainedStep ==
  ASSUME NEW r \in RoomIds, RoomInv(room[r], paid[r], agreed[r]), CanArchive(room[r]),
         room'[r] = Maintained(room[r]), paid'[r] = paid[r], agreed'[r] = agreed[r]
  PROVE  StepOK(r)
<1> DEFINE t == room[r]
<1>0. Good(t) /\ t \in Row /\ Good(room'[r])
  BY MaintainedGood DEF RoomInv, Good
<1>1. CASE room'[r] = t
  BY <1>0, <1>1 DEF StepOK, RoomInv, Covers, Final, Consents, Booked, Seen, Members, Seated
<1>2. CASE room'[r] = Gone /\ (Expired(t) \/ Retired(t))
  <2>1. room'[r].status = "deleted"
    BY <1>2 DEF Gone, Empty
  <2>2. RoomInv(room'[r], paid'[r], agreed'[r])
    BY <1>0, <2>1 DEF RoomInv, Consents, Booked, OpenStatus
  <2>3. Final(r)
    BY <1>2, <2>1 DEF Final, Expired, Retired, Terminal
  <2>. QED
    BY <2>1, <2>2, <2>3 DEF StepOK, Covers
<1>3. CASE room'[r] = Archived(t) /\ t.status \in {"waiting", "playing"}
  <2>1. room'[r].status = "archived" /\ room'[r].revision = t.revision + 1
    BY <1>0, <1>3 DEF Archived, Row
  <2>2. RoomInv(room'[r], paid'[r], agreed'[r])
    BY <1>0, <1>3, <2>1 DEF RoomInv, Consents, Booked, OpenStatus
  <2>. QED
    BY <1>0, <1>3, <2>1, <2>2 DEF StepOK, Covers, Final, Terminal, Row
<1>. QED
  BY <1>0, <1>1, <1>2, <1>3, MaintainedGood

-----------------------------------------------------------------------------
(* Opening a room.                                                         *)

LEMMA OpeningIs ==
  ASSUME NEW t
  PROVE  /\ Opening(t) \in {"pending", "playing", "waiting"} /\ Opening(t) \in Statuses
         /\ Opening(t) = "playing" => Invited(t) = {} /\ Seated(t) = Members(t)
BY DEF Opening, CanStart, Statuses, OpenStatus

\* Whoever stands in a roster has a seat of his own there.
Position(roster, q) == CHOOSE i \in DOMAIN roster : roster[i] = q

LEMMA RosterSeats ==
  ASSUME NEW roster \in Rosters, Len(roster) <= LargestCount,
         NEW ms, ms = {roster[i] : i \in DOMAIN roster}
  PROVE  /\ ms \subseteq Players
         /\ \A q \in ms : \E i \in DOMAIN roster : roster[i] = q
         /\ \A q \in ms : LET i == Position(roster, q)
                          IN i \in 1..LargestCount /\ i \in Nat /\ i # 0 /\ roster[i] = q
<1>1. roster \in Seq(Players) /\ DOMAIN roster = 1..Len(roster) /\ Len(roster) \in Nat
  BY RoomAssumption
<1>2. \A q \in ms : \E i \in DOMAIN roster : roster[i] = q
  OBVIOUS
<1>3. \A q \in ms : Position(roster, q) \in DOMAIN roster /\ roster[Position(roster, q)] = q
  BY <1>2 DEF Position
<1>4. \A i \in DOMAIN roster : i \in 1..LargestCount /\ i \in Nat /\ i # 0 /\ roster[i] \in Players
  BY <1>1, Sizes
<1>. QED
  BY <1>2, <1>3, <1>4

Staff(roster) == {roster[i] : i \in DOMAIN roster}
Opened(roster, p, stake, confirm, first) ==
  [NewTable(roster, p, stake, confirm) EXCEPT !.current = first]
WellOpened(u, p, stake, confirm) ==
  /\ Good(u) /\ u.stake = stake /\ u.status \in OpenStatus
  /\ confirm => \A q \in Real \cap Members(u) : u.join[q] = "invited" \/ q = p

LEMMA NewTableGood ==
  ASSUME NEW roster \in Rosters, Len(roster) <= LargestCount,
         NEW p \in Real, p \in Staff(roster),
         NEW stake \in Stakes, NEW confirm \in BOOLEAN, NEW first \in Staff(roster)
  PROVE  WellOpened(Opened(roster, p, stake, confirm, first), p, stake, confirm)
<1> USE DEF Staff
<1> DEFINE ms == {roster[i] : i \in DOMAIN roster}
           seat == [q \in Players |->
                      IF q \in ms THEN CHOOSE i \in DOMAIN roster : roster[i] = q ELSE 0]
           join == [q \in Players |->
                      IF q \notin ms THEN "absent"
                      ELSE IF confirm /\ q # p /\ q \notin Npcs THEN "invited"
                      ELSE "joined"]
           active == [q \in Players |-> q \in ms]
           t == [Empty EXCEPT !.stake = stake, !.owner = p, !.seat = seat,
                              !.join = join, !.active = active]
           u == [NewTable(roster, p, stake, confirm) EXCEPT !.current = first]
<1>1. u = [t EXCEPT !.status = Opening(t), !.current = first]
  BY Zenon DEF NewTable
<1>2. /\ ms \subseteq Players
      /\ \A q \in ms : seat[q] \in 1..LargestCount /\ seat[q] # 0 /\ seat[q] \in Nat
                       /\ roster[seat[q]] = q
      /\ \A q \in Players \ ms : seat[q] = 0
  <2>1. /\ ms \subseteq Players
        /\ \A q \in ms : LET i == Position(roster, q)
                         IN i \in 1..LargestCount /\ i \in Nat /\ i # 0 /\ roster[i] = q
    BY RosterSeats
  <2>2. \A q \in ms : seat[q] = Position(roster, q)
    BY <2>1, Zenon DEF Position
  <2>3. \A q \in Players \ ms : seat[q] = 0
    BY Zenon
  <2> HIDE DEF seat, ms
  <2>. QED
    BY <2>1, <2>2, <2>3, Zenon
<1>3. seat \in Seats /\ join \in Joins /\ active \in Flags
  BY <1>2 DEF Seats, Joins, Flags
<1>4. p \in Someone /\ first \in Someone /\ stake \in Nat /\ p \in Players
  BY <1>2, RoomAssumption DEF Someone
<1> HIDE DEF ms, seat, join, active
<1>5. t \in Row
  BY EmptyGood, <1>3, <1>4, RowIs DEF Good
<1>6. u \in Row
  <2>1. Opening(t) \in Statuses
    BY OpeningIs
  <2> HIDE DEF t, u
  <2>. QED
    BY <1>1, <1>4, <1>5, <2>1, RowIs
<1>7. /\ u.seat = seat /\ u.join = join /\ u.active = active /\ u.stake = stake
      /\ u.kind = "table" /\ u.current = first /\ u.status = Opening(t)
      /\ t.join = join /\ t.active = active
  BY <1>1, <1>5 DEF Empty
<1> HIDE DEF t, u
<1>8. /\ Members(u) = ms /\ Members(t) = ms /\ Seated(u) = Seated(t) /\ Invited(u) = Invited(t)
  BY <1>2, <1>7 DEF Members, Seated, Invited, join
<1>9. SeatsDistinct(u)
  <2>1. \A q \in Players : (q \in ms) = (seat[q] \in 1..LargestCount)
    BY <1>2, Sizes
  <2>2. \A q, x \in ms : seat[q] = seat[x] => q = x
    BY <1>2
  <2>. QED
    BY <1>7, <1>8, <2>1, <2>2 DEF SeatsDistinct
<1>10. p \in ms /\ first \in ms
  BY DEF ms
<1>11. Playable(u)
  BY <1>7, <1>8, <1>10, OpeningIs DEF Playable
<1>12. Lobby(u) /\ LeftOut(u)
  <2>1. \A q \in Players : join[q] # "left" /\ active[q] = (q \in ms)
    BY DEF join, active
  <2>. QED
    BY <1>2, <1>7, <1>8, <1>10, <2>1 DEF Lobby, LeftOut
<1>13. confirm => \A q \in Real \cap Members(u) : u.join[q] = "invited" \/ q = p
  BY <1>2, <1>7, <1>8, People DEF join
<1>14. u.status \in OpenStatus
  BY <1>7, OpeningIs DEF OpenStatus
<1>15. Good(u) /\ u.stake = stake
  BY <1>6, <1>7, <1>9, <1>11, <1>12 DEF Good
<1>. QED
  BY <1>13, <1>14, <1>15 DEF u, Opened, WellOpened

-----------------------------------------------------------------------------
(* From one room to the hall.                                              *)

LEMMA Untouched ==
  ASSUME NEW r \in RoomIds, RoomInv(room[r], paid[r], agreed[r]),
         room'[r] = room[r], paid'[r] = paid[r], agreed'[r] = agreed[r]
  PROVE  StepOK(r)
BY DEF StepOK, Covers, Final, Seen

\* A step that moves no chip.
LEMMA NoMoney ==
  ASSUME Inv, money' = money, external' = external,
         room' = [x \in RoomIds |-> room'[x]], agreed' = [x \in RoomIds |-> agreed'[x]],
         \A x \in RoomIds : StepOK(x)
  PROVE  Step
<1>1. paid' = paid /\ balance' = balance
  BY DEF money
<1>2. Shape'
  BY <1>1 DEF Inv, Shape
<1>3. Balanced'
  BY <1>1 DEF Inv, Balanced, PaidTo
<1>. QED
  BY <1>2, <1>3 DEF Step, Inv, StepOK

\* A step of one room that moves no chip.
LEMMA OneRoom ==
  ASSUME Inv, NEW r \in RoomIds, NEW u, NEW a,
         room' = [room EXCEPT ![r] = u], agreed' = [agreed EXCEPT ![r] = a],
         money' = money, external' = external,
         room'[r] = u /\ agreed'[r] = a /\ paid'[r] = paid[r] => StepOK(r)
  PROVE  Step
<1>1. paid' = paid
  BY DEF money
<1>2. room' = [x \in RoomIds |-> room'[x]] /\ agreed' = [x \in RoomIds |-> agreed'[x]]
  BY DEF Inv, Shape
<1>3. room'[r] = u /\ agreed'[r] = a
  BY DEF Inv, Shape
<1>4. \A x \in RoomIds \ {r} : room'[x] = room[x] /\ agreed'[x] = agreed[x]
  BY DEF Inv, Shape
<1>5. \A x \in RoomIds : StepOK(x)
  BY <1>1, <1>3, <1>4, Untouched DEF Inv
<1>. QED
  BY <1>2, <1>5, NoMoney

\* Two members who agreed are all a new stake concerns.
LEMMA CreateRoomStep ==
  ASSUME Inv, NEW r \in RoomIds, NEW roster \in Rosters, NEW p \in Real,
         NEW stake \in Stakes, NEW confirm \in BOOLEAN, CreateRoom(r, roster, p, stake, confirm)
  PROVE  Step
<1> DEFINE kept == [x \in RoomIds |-> Maintained(room[x])]
<1>1. PICK first \in Staff(roster) :
        room' = [kept EXCEPT ![r] = Opened(roster, p, stake, confirm, first)]
  BY DEF CreateRoom, Staff, Opened
<1> DEFINE u == Opened(roster, p, stake, confirm, first)
<1>2. /\ p \in Staff(roster) /\ Len(roster) <= LargestCount
      /\ stake > 0 => confirm
      /\ \A x \in RoomIds : CanArchive(room[x])
      /\ room[r].status = "free"
      /\ agreed' = [agreed EXCEPT ![r] = {p}]
      /\ money' = money /\ external' = external
  BY DEF CreateRoom, money, Staff
<1>3. /\ Good(u) /\ u.stake = stake /\ u.status \in OpenStatus
      /\ confirm => \A q \in Real \cap Members(u) : u.join[q] = "invited" \/ q = p
  <2>1. WellOpened(u, p, stake, confirm)
    BY <1>2, NewTableGood
  <2>. QED
    BY <2>1 DEF WellOpened
<1> HIDE DEF u
<1>4. room'[r] = u /\ agreed'[r] = {p} /\ paid' = paid
  BY <1>1, <1>2 DEF Inv, Shape, money, u
<1>5. StepOK(r)
  <2>1. Consents(u, {p})
    BY <1>2, <1>3, RoomAssumption DEF Consents
  <2>2. Booked(u, paid[r], {p})
    <3>1. paid[r] = Nothing /\ Booked(room[r], paid[r], agreed[r])
      BY <1>2 DEF Inv, RoomInv, Booked
    <3>2. \A q \in Real : Nothing[q] = 0
      BY People DEF Nothing
    <3>. QED
      BY <1>3, <3>1, <3>2 DEF Booked, OpenStatus
  <2>3. u.status # "deleted"
    BY <1>3 DEF OpenStatus
  <2>. QED
    BY <1>2, <1>3, <1>4, <2>1, <2>2 DEF StepOK, RoomInv, Covers, Final, Terminal
<1>6. ASSUME NEW x \in RoomIds \ {r} PROVE StepOK(x)
  <2>1. room'[x] = Maintained(room[x]) /\ agreed'[x] = agreed[x] /\ paid'[x] = paid[x]
    BY <1>1, <1>2, <1>4 DEF Inv, Shape
  <2>. QED
    BY <1>2, <2>1, MaintainedStep DEF Inv
<1>7. room' = [x \in RoomIds |-> room'[x]] /\ agreed' = [x \in RoomIds |-> agreed'[x]]
  BY <1>1, <1>2 DEF Inv, Shape
<1>. QED
  BY <1>2, <1>5, <1>6, <1>7, NoMoney

\* The owner, his machines in the seats after his, and room for outsiders.
LEMMA CreateInviteStep ==
  ASSUME Inv, NEW r \in RoomIds, NEW p \in Real, NEW own \in Households,
         NEW target \in AllowedCounts, NEW stake \in Stakes, NEW ask \in BOOLEAN,
         CreateInvite(r, p, own, target, stake, ask)
  PROVE  Step
<1> DEFINE ms == {p} \cup own
           asked == IF ask THEN own ELSE {}
           n == Cardinality(ms)
           status == IF asked # {} THEN "pending" ELSE "waiting"
           join == [q \in Players |->
                      IF q \in asked THEN "invited" ELSE IF q \in ms THEN "joined" ELSE "absent"]
           active == [q \in Players |-> q \in ms]
           seat(order) == [q \in Players |->
                             IF q = p THEN 1 ELSE IF q \in own THEN order[q] ELSE 0]
           u(order) == [Empty EXCEPT
                          !.status = status, !.kind = "invite", !.stake = stake, !.owner = p,
                          !.target = target, !.household = n, !.seat = seat(order),
                          !.join = join, !.active = active]
<1>1. PICK order \in Bijection(own, 2..n) : room' = [room EXCEPT ![r] = u(order)]
  BY DEF CreateInvite
<1>2. /\ p \notin own /\ n < target /\ room[r].status = "free"
      /\ agreed' = [agreed EXCEPT ![r] = ms \ asked]
      /\ money' = money /\ external' = external
  BY DEF CreateInvite, money
<1>3. own \subseteq Machines /\ own \subseteq Real /\ ms \subseteq Real /\ ms \subseteq Players
  BY RoomAssumption, People DEF Real
<1>4. n \in Nat /\ n >= 1 /\ n <= LargestCount /\ stake \in Nat
  <2>1. IsFiniteSet(ms) /\ n \in Nat /\ ms # {}
    BY <1>3, People
  <2>2. n # 0
    BY <2>1, FS_EmptySet
  <2>. QED
    BY <1>2, <2>1, <2>2, Sizes, RoomAssumption
<1>5. /\ \A q \in own : order[q] \in 2..n
      /\ \A q, x \in own : order[q] = order[x] => q = x
  BY DEF Bijection, Injection, IsInjective
<1> DEFINE places == seat(order)
           v == u(order)
<1>6. places \in Seats /\ join \in Joins /\ active \in Flags /\ p \in Someone
      /\ status \in Statuses /\ status \in OpenStatus /\ target \in Nat
  BY <1>3, <1>4, <1>5, RoomAssumption DEF Seats, Joins, Flags, Someone, Statuses, OpenStatus
<1>7. /\ \A q \in ms : places[q] \in 1..n
      /\ \A q, x \in ms : places[q] = places[x] => q = x
      /\ \A q \in Players \ ms : places[q] = 0
  <2>1. places[p] = 1 /\ (\A q \in own : places[q] = order[q]) /\ p \in Players
        /\ \A q \in Players \ ms : places[q] = 0
    BY <1>2, <1>3
  <2>2. 1 \in 1..n /\ \A q \in own : order[q] \in 1..n /\ order[q] # 1
    <3> HIDE DEF n
    <3>. QED
      BY <1>4, <1>5
  <2> HIDE DEF places, n, seat
  <2>. QED
    BY <1>5, <2>1, <2>2
<1>8. /\ \A q \in Players : (q \in ms) = (join[q] # "absent") /\ join[q] # "left"
                            /\ active[q] = (q \in ms)
      /\ \A q \in Real : q \in ms => join[q] = "invited" \/ q \in ms \ asked
      /\ status \in {"pending", "waiting"}
  BY <1>3
<1>9. v = [Empty EXCEPT !.status = status, !.kind = "invite", !.stake = stake, !.owner = p,
                        !.target = target, !.household = n, !.seat = places,
                        !.join = join, !.active = active]
  OBVIOUS
<1>10. room'[r] = v /\ agreed'[r] = ms \ asked /\ paid' = paid
  BY <1>1, <1>2 DEF Inv, Shape, money
<1>11. ms \ asked \in SUBSET Real
  BY <1>3
<1> HIDE DEF v, places, seat, join, active, status
<1>12. v \in Row
  BY <1>4, <1>6, <1>9, EmptyGood, RowIs DEF Good
<1>13. /\ v.status = status /\ v.kind = "invite" /\ v.seat = places /\ v.join = join
       /\ v.active = active /\ v.stake = stake /\ v.target = target
  BY <1>9, EmptyGood, RowIs DEF Good
<1>14. Members(v) = ms
  BY <1>3, <1>8, <1>13 DEF Members
<1>15. SeatsDistinct(v)
  <2>1. \A q \in Players : (q \in ms) = (places[q] \in 1..LargestCount)
    <3> HIDE DEF n, ms
    <3>. QED
      BY <1>4, <1>7, Sizes
  <2>. QED
    BY <1>7, <1>13, <1>14, <2>1 DEF SeatsDistinct
<1>16. Playable(v) /\ LeftOut(v)
  BY <1>8, <1>13 DEF Playable, LeftOut
<1>17. Lobby(v)
  <2>1. Cardinality(Members(v)) = n
    BY <1>14
  <2>2. \A q \in ms : places[q] <= n /\ active[q] /\ join[q] # "left"
    <3> HIDE DEF n, ms
    <3>1. \A q \in ms : q \in Players
      BY <1>3
    <3>2. \A q \in ms : places[q] <= n
      BY <1>4, <1>7
    <3>3. \A q \in ms : active[q] /\ join[q] # "left"
      BY <1>8, <3>1
    <3>. QED
      BY <3>2, <3>3
  <2> HIDE DEF n, ms
  <2>. QED
    BY <1>13, <1>14, <2>1, <2>2 DEF Lobby
<1>18. StepOK(r)
  <2>1. Consents(v, ms \ asked)
    BY <1>8, <1>13, <1>14 DEF Consents
  <2>2. Booked(v, paid[r], ms \ asked)
    <3>1. paid[r] = Nothing /\ Booked(room[r], paid[r], agreed[r])
      BY <1>2 DEF Inv, RoomInv, Booked
    <3>2. \A q \in Real : Nothing[q] = 0
      BY People DEF Nothing
    <3>. QED
      BY <1>8, <1>13, <3>1, <3>2 DEF Booked
  <2>. QED
    BY <1>2, <1>10, <1>11, <1>12, <1>15, <1>16, <1>17, <2>1, <2>2
    DEF StepOK, RoomInv, Good, Covers, Final, Terminal
<1> HIDE DEF ms, asked
<1>. QED
  BY <1>1, <1>2, <1>18, OneRoom DEF v

-----------------------------------------------------------------------------
(* Before the game.                                                        *)

\* What a lobby room keeps when it closes.
LEMMA ClosedStep ==
  ASSUME Inv, NEW r \in RoomIds, room[r].status \notin Terminal,
         room' = [room EXCEPT ![r] = Gone], UNCHANGED <<money, external, agreed>>
  PROVE  Step
<1>1. Gone.status = "deleted"
  BY DEF Gone, Empty
<1>2. agreed' = [agreed EXCEPT ![r] = agreed[r]]
  BY DEF Inv, Shape
<1>3. ASSUME room'[r] = Gone, agreed'[r] = agreed[r], paid'[r] = paid[r] PROVE StepOK(r)
  <2>1. Consents(Gone, agreed[r])
    BY <1>1 DEF Consents, OpenStatus
  <2>2. Booked(Gone, paid[r], agreed[r])
    BY <1>1 DEF Inv, RoomInv, Booked
  <2>. QED
    BY <1>1, <1>3, <2>1, <2>2, EmptyGood DEF Inv, RoomInv, StepOK, Covers, Final
<1>. QED
  BY <1>2, <1>3, OneRoom

\* A step of a room that is not over yet and books nothing: its row stays good
\* and takes a new revision, and whoever answered agreed.
LEMMA LiveStep ==
  ASSUME Inv, NEW r \in RoomIds, NEW u, NEW a \in SUBSET Real,
         room[r].status \in OpenStatus,
         room' = [room EXCEPT ![r] = u], agreed' = [agreed EXCEPT ![r] = a],
         money' = money, external' = external, agreed[r] \subseteq a,
         Good(u), u.status \in OpenStatus, Consents(u, a), u.revision > room[r].revision
  PROVE  Step
<1>1. ASSUME room'[r] = u, agreed'[r] = a, paid'[r] = paid[r] PROVE StepOK(r)
  <2>1. paid[r] = Nothing /\ Booked(room[r], paid[r], agreed[r])
    BY DEF Inv, RoomInv, Booked, OpenStatus
  <2>2. \A q \in Players : Nothing[q] = 0
    BY DEF Nothing
  <2>3. Booked(u, Nothing, a)
    BY <2>1, <2>2, People DEF Booked, OpenStatus
  <2>. QED
    BY <1>1, <2>1, <2>3 DEF StepOK, RoomInv, Covers, Final, OpenStatus, Terminal
<1>. QED
  BY <1>1, OneRoom

\* The guard on revisions keeps their type.
LEMMA NextRevision ==
  ASSUME NEW t \in Row, t.revision < MaxRevision
  PROVE  /\ Revised(t) = [t EXCEPT !.revision = t.revision + 1]
         /\ t.revision \in Nat /\ t.revision + 1 \in Revisions /\ t.revision + 1 > t.revision
BY RowIs, RoomAssumption DEF Revised, Revisions

LEMMA AcceptStep ==
  ASSUME Inv, NEW r \in RoomIds, NEW p \in Real, AcceptInvitation(r, p)
  PROVE  Step
<1> DEFINE t == room[r]
           in == [t EXCEPT !.join[p] = "joined"]
           mid == [in EXCEPT !.status = Opening(in)]
           u == Revised(mid)
           a == agreed[r] \cup {p}
<1>1. /\ t.status = "pending" /\ p \in Invited(t) /\ t.revision < MaxRevision
      /\ room' = [room EXCEPT ![r] = u]
      /\ agreed' = [agreed EXCEPT ![r] = a]
      /\ money' = money /\ external' = external
  BY DEF AcceptInvitation, money
<1>2. /\ t \in Row /\ SeatsDistinct(t) /\ Lobby(t) /\ LeftOut(t) /\ Consents(t, agreed[r])
      /\ a \in SUBSET Real /\ agreed[r] \subseteq a /\ p \in Players
  BY <1>1, People DEF Inv, RoomInv, Good
<1> HIDE DEF t
<1>3. in.join \in Joins /\ in = [t EXCEPT !.join = in.join]
      /\ \A q \in Players : in.join[q] = IF q = p THEN "joined" ELSE t.join[q]
  BY <1>2, RowIs DEF Joins
<1>4. in \in Row
  <2> HIDE DEF in
  <2>. QED
    BY <1>2, <1>3, RowIs
<1>5. /\ in.seat = t.seat /\ in.active = t.active /\ in.kind = t.kind /\ in.stake = t.stake
      /\ in.target = t.target /\ in.current = t.current /\ in.revision = t.revision
  BY <1>2, RowIs
<1> HIDE DEF in
<1>6. mid \in Row /\ mid.revision = t.revision /\ mid.status = Opening(in)
      /\ mid.seat = in.seat /\ mid.active = in.active /\ mid.kind = in.kind
      /\ mid.stake = in.stake /\ mid.target = in.target /\ mid.current = in.current
      /\ mid.join = in.join
  BY <1>4, <1>5, OpeningIs, RowIs
<1> HIDE DEF mid
<1>7. u \in Row /\ u.revision > t.revision /\ u.status = Opening(in)
      /\ u.seat = t.seat /\ u.active = t.active /\ u.kind = t.kind
      /\ u.stake = t.stake /\ u.target = t.target /\ u.current = t.current
      /\ u.join = in.join
  BY <1>1, <1>5, <1>6, NextRevision, RowIs
<1> HIDE DEF u
<1>8. /\ Members(u) = Members(t) /\ Members(in) = Members(t)
      /\ Seated(u) = Seated(in) /\ Invited(u) = Invited(in)
      /\ p \in Members(t)
  BY <1>1, <1>3, <1>5, <1>7 DEF Members, Seated, Invited
<1>9. SeatsDistinct(u)
  BY <1>2, <1>7, <1>8 DEF SeatsDistinct
<1>10. Playable(u)
  <2>1. SUFFICES ASSUME u.status = "playing" PROVE Playable(u)
    BY DEF Playable
  <2>2. Invited(u) = {} /\ Seated(u) = Members(u) /\ t.kind = "table"
    BY <1>5, <1>7, <1>8, <2>1, OpeningIs DEF Opening, CanStart
  <2>. QED
    BY <1>1, <1>2, <1>7, <1>8, <2>2 DEF Playable, Lobby
<1>11. Lobby(u) /\ LeftOut(u)
  <2>1. \A q \in Members(t) : t.active[q] /\ in.join[q] # "left"
    BY <1>1, <1>2, <1>3 DEF Lobby, Members
  <2>2. \A q \in Players : in.join[q] = "left" => t.join[q] = "left"
    BY <1>3
  <2>3. /\ t.kind = "table" => t.current \in Members(t)
        /\ t.kind = "invite" =>
             /\ t.target \in AllowedCounts
             /\ \A q \in Members(t) : t.seat[q] <= Cardinality(Members(t))
    BY <1>1, <1>2 DEF Lobby
  <2>4. Lobby(u)
    BY <1>7, <1>8, <2>1, <2>3 DEF Lobby
  <2>5. LeftOut(u)
    BY <1>2, <1>7, <2>2 DEF LeftOut
  <2>. QED
    BY <2>4, <2>5
<1>12. Consents(u, a)
  BY <1>1, <1>2, <1>3, <1>7, <1>8, People DEF Consents, OpenStatus
<1>13. t.status \in OpenStatus /\ u.status \in OpenStatus /\ Good(u)
  BY <1>1, <1>7, <1>9, <1>10, <1>11, OpeningIs DEF OpenStatus, Good
<1>. QED
  BY <1>1, <1>2, <1>7, <1>12, <1>13, LiveStep DEF t

LEMMA RejectStep ==
  ASSUME Inv, NEW r \in RoomIds, NEW p \in Real, RejectInvitation(r, p)
  PROVE  Step
BY ClosedStep DEF RejectInvitation, Terminal

\* A table below its largest size has a lowest free seat.
LEMMA FreeSeatIs ==
  ASSUME NEW t, t \in Row, SeatsDistinct(t), Cardinality(Members(t)) < LargestCount
  PROVE  /\ FreeSeat(t) \in 1..LargestCount
         /\ \A p \in Members(t) : t.seat[p] # FreeSeat(t)
<1> DEFINE free == {s \in 1..LargestCount : \A p \in Members(t) : t.seat[p] # s}
           holder == [s \in 1..LargestCount |-> CHOOSE p \in Members(t) : t.seat[p] = s]
<1>1. free # {}
  <2>1. SUFFICES ASSUME free = {} PROVE FALSE
    OBVIOUS
  <2>2. \A s \in 1..LargestCount : \E p \in Members(t) : t.seat[p] = s
    BY <2>1
  <2>3. \A s \in 1..LargestCount : holder[s] \in Members(t) /\ t.seat[holder[s]] = s
    BY <2>2
  <2>4. holder \in [1..LargestCount -> Members(t)]
    BY <2>3
  <2>5. IsFiniteSet(Members(t)) /\ IsFiniteSet(1..LargestCount)
        /\ Cardinality(1..LargestCount) = LargestCount
    <3>1. LargestCount \in Int /\ 1 \in Int /\ ~(1 > LargestCount)
      BY Sizes, RoomAssumption
    <3>2. IsFiniteSet(Members(t))
      BY People DEF Members
    <3>. QED
      BY <3>1, <3>2, FS_Interval
  <2>6. \E x, y \in 1..LargestCount : x # y /\ holder[x] = holder[y]
    <3> HIDE DEF holder
    <3>. QED
      BY <2>4, <2>5, FS_PigeonHole
  <2> HIDE DEF holder
  <2>. QED
    BY <2>3, <2>6
<1>2. free \subseteq Nat
  BY Sizes
<1>3. \E s \in free : \A x \in free : s <= x
  <2> HIDE DEF free
  <2>. QED
    BY <1>1, <1>2, LeastNatural
<1>4. FreeSeat(t) = CHOOSE s \in free : \A x \in free : s <= x
  BY DEF FreeSeat, Min
<1>5. FreeSeat(t) \in free
  <2> HIDE DEF free
  <2>. QED
    BY <1>3, <1>4
<1>. QED
  BY <1>5

\* A newcomer takes a seat nobody has.
Vacant(t, s) == \A q \in Members(t) : t.seat[q] # s
Seating(t, u, p, s) ==
  /\ u.seat = [t.seat EXCEPT ![p] = s]
  /\ u.join = [t.join EXCEPT ![p] = "joined"]
  /\ u.active = [t.active EXCEPT ![p] = TRUE]

Settled(t, u, p, s) ==
  /\ Members(u) = Members(t) \cup {p} /\ p \in Seated(u)
  /\ SeatsDistinct(u) /\ LeftOut(u)
  /\ u.seat \in Seats /\ u.join \in Joins /\ u.active \in Flags
  /\ Cardinality(Members(u)) = Cardinality(Members(t)) + 1
  /\ \A q \in Players \ {p} :
       u.seat[q] = t.seat[q] /\ u.join[q] = t.join[q] /\ u.active[q] = t.active[q]
  /\ u.seat[p] = s /\ u.join[p] = "joined" /\ u.active[p] = TRUE

LEMMA NewcomerSeated ==
  ASSUME NEW t \in Row, NEW u, NEW p \in Players, p \notin Members(t),
         NEW s \in 1..LargestCount, SeatsDistinct(t), LeftOut(t),
         Vacant(t, s), Seating(t, u, p, s)
  PROVE  Settled(t, u, p, s)
<1>0. s \in Nat
  BY Sizes
<1>1. u.seat \in Seats /\ u.join \in Joins /\ u.active \in Flags
  BY <1>0, RowIs DEF Seating, Seats, Joins, Flags
<1>2. /\ \A q \in Players \ {p} :
           u.seat[q] = t.seat[q] /\ u.join[q] = t.join[q] /\ u.active[q] = t.active[q]
      /\ u.seat[p] = s /\ u.join[p] = "joined" /\ u.active[p] = TRUE
  BY RowIs DEF Seating, Seats, Joins, Flags
<1>3. Members(u) = Members(t) \cup {p} /\ p \in Seated(u)
  BY <1>2 DEF Members, Seated
<1>4. SeatsDistinct(u)
  <2>1. \A q \in Players : (q \in Members(u)) = (u.seat[q] \in 1..LargestCount)
    BY <1>2, <1>3 DEF SeatsDistinct
  <2>2. \A q, x \in Members(u) : u.seat[q] = u.seat[x] => q = x
    BY <1>2, <1>3 DEF SeatsDistinct, Members, Vacant
  <2>. QED
    BY <2>1, <2>2 DEF SeatsDistinct
<1>5. LeftOut(u)
  BY <1>2 DEF LeftOut
<1>6. Cardinality(Members(u)) = Cardinality(Members(t)) + 1
  <2>1. Members(t) \in SUBSET Players
    BY DEF Members
  <2>. QED
    BY <1>3, <2>1, People, FS_AddElement
<1>. QED
  BY <1>1, <1>2, <1>3, <1>4, <1>5, <1>6 DEF Settled

LEMMA JoinRoomStep ==
  ASSUME Inv, NEW r \in RoomIds, NEW p \in Real, JoinRoom(r, p)
  PROVE  Step
<1> DEFINE t == room[r]
           s == FreeSeat(t)
           in == [t EXCEPT !.seat[p] = s, !.join[p] = "joined", !.active[p] = TRUE]
           a == agreed[r] \cup {p}
<1>1. /\ t.kind = "table" /\ t.status \in {"waiting", "pending"} /\ t.revision < MaxRevision
      /\ p \notin Members(t) /\ Cardinality(Members(t)) < LargestCount
      /\ agreed' = [agreed EXCEPT ![r] = a]
      /\ money' = money /\ external' = external
  BY DEF JoinRoom, money
<1>2. PICK first \in Members(in) :
        room' = [room EXCEPT ![r] =
                   Revised([in EXCEPT !.status = Opening(in), !.current = first])]
  BY DEF JoinRoom
<1> DEFINE mid == [in EXCEPT !.status = Opening(in), !.current = first]
           u == Revised(mid)
<1>3. /\ t \in Row /\ SeatsDistinct(t) /\ Lobby(t) /\ LeftOut(t) /\ Consents(t, agreed[r])
      /\ a \in SUBSET Real /\ agreed[r] \subseteq a /\ p \in Players
  BY <1>1, People DEF Inv, RoomInv, Good
<1>4. s \in 1..LargestCount /\ s \in Nat /\ \A q \in Members(t) : t.seat[q] # s
  BY <1>1, <1>3, FreeSeatIs, Sizes
<1> HIDE DEF t, s
<1>5. Seating(t, in, p, s) /\ Vacant(t, s)
  BY <1>3, <1>4, RowIs DEF Seating, Vacant
<1>6. /\ in.kind = t.kind /\ in.stake = t.stake
      /\ in.target = t.target /\ in.revision = t.revision
      /\ in = [t EXCEPT !.seat = in.seat, !.join = in.join, !.active = in.active]
  BY <1>3, RowIs
<1> HIDE DEF in
<1>7. /\ Members(in) = Members(t) \cup {p} /\ p \in Seated(in)
      /\ SeatsDistinct(in) /\ LeftOut(in)
      /\ in.seat \in Seats /\ in.join \in Joins /\ in.active \in Flags
      /\ \A q \in Players \ {p} :
              in.seat[q] = t.seat[q] /\ in.join[q] = t.join[q] /\ in.active[q] = t.active[q]
      /\ in.seat[p] = s /\ in.join[p] = "joined" /\ in.active[p] = TRUE
  <2>1. Settled(t, in, p, s)
    BY <1>1, <1>3, <1>4, <1>5, NewcomerSeated
  <2>. QED
    BY <2>1 DEF Settled
<1>8. in \in Row
  BY <1>3, <1>6, <1>7, RowIs
<1>9. first \in Someone /\ first \in Players
  BY DEF Members, Someone
<1>10. /\ mid \in Row /\ mid.revision = t.revision /\ mid.status = Opening(in)
       /\ mid.seat = in.seat /\ mid.active = in.active /\ mid.kind = in.kind
       /\ mid.stake = in.stake /\ mid.current = first /\ mid.join = in.join
  <2>1. Opening(in) \in Statuses
    BY OpeningIs
  <2>. QED
    BY <1>6, <1>8, <1>9, <2>1, RowIs
<1> HIDE DEF mid
<1>11. /\ u \in Row /\ u.revision > t.revision /\ u.status = Opening(in)
       /\ u.seat = in.seat /\ u.active = in.active /\ u.kind = "table"
       /\ u.stake = t.stake /\ u.current = first /\ u.join = in.join
  BY <1>1, <1>6, <1>10, NextRevision, RowIs
<1> HIDE DEF u
<1>12. /\ Members(u) = Members(in) /\ Seated(u) = Seated(in) /\ Invited(u) = Invited(in)
       /\ SeatsDistinct(u) /\ LeftOut(u)
  BY <1>7, <1>11 DEF Members, Seated, Invited, SeatsDistinct, LeftOut
<1>13. Playable(u)
  BY <1>7, <1>11, <1>12, OpeningIs DEF Playable
<1>14. Lobby(u)
  <2>1. \A q \in Members(t) : t.active[q] /\ t.join[q] # "left" /\ q # p /\ q \in Players
    BY <1>1, <1>3 DEF Lobby, Members
  <2>2. \A q \in Members(in) : in.active[q] /\ in.join[q] # "left"
    BY <1>7, <2>1
  <2>. QED
    BY <1>11, <1>12, <2>2 DEF Lobby
<1>15. Consents(u, a)
  BY <1>1, <1>3, <1>7, <1>11, <1>12, People DEF Consents, OpenStatus, Members
<1>16. t.status \in OpenStatus /\ u.status \in OpenStatus /\ Good(u)
  BY <1>1, <1>11, <1>12, <1>13, <1>14, OpeningIs DEF OpenStatus, Good
<1>. QED
  BY <1>1, <1>2, <1>3, <1>11, <1>15, <1>16, LiveStep DEF t, u, mid

LEMMA JoinInviteStep ==
  ASSUME Inv, NEW r \in RoomIds, NEW p \in Real, JoinInvite(r, p)
  PROVE  Step
<1> DEFINE t == room[r]
           n == Cardinality(Members(t))
           in == [t EXCEPT !.seat[p] = n + 1, !.join[p] = "joined", !.active[p] = TRUE]
           u == Revised(in)
           a == agreed[r] \cup {p}
<1>1. /\ t.kind = "invite" /\ t.status = "waiting" /\ t.revision < MaxRevision
      /\ p \notin Members(t) /\ n < t.target
      /\ room' = [room EXCEPT ![r] = u]
      /\ agreed' = [agreed EXCEPT ![r] = a]
      /\ money' = money /\ external' = external
  BY DEF JoinInvite, money
<1>2. /\ t \in Row /\ SeatsDistinct(t) /\ Lobby(t) /\ LeftOut(t) /\ Consents(t, agreed[r])
      /\ a \in SUBSET Real /\ agreed[r] \subseteq a /\ p \in Players
  BY <1>1, People DEF Inv, RoomInv, Good
<1>3. n \in Nat
  BY People DEF Members
<1>4. /\ t.target \in AllowedCounts
      /\ \A q \in Members(t) : t.seat[q] <= n /\ t.active[q] /\ t.join[q] # "left"
  BY <1>1, <1>2 DEF Lobby
<1>5. n + 1 \in 1..LargestCount /\ \A q \in Members(t) : t.seat[q] # n + 1 /\ t.seat[q] \in Nat
  <2>1. t.target <= LargestCount /\ t.target \in Nat
    BY <1>4, Sizes, RoomAssumption
  <2>2. \A q \in Members(t) : t.seat[q] \in Nat
    BY <1>2, RowIs DEF Members, Seats
  <2> HIDE DEF n
  <2>. QED
    BY <1>1, <1>3, <1>4, <2>1, <2>2, Sizes
<1>0. n = Cardinality(Members(t))
  OBVIOUS
<1> HIDE DEF t, n
<1>6. Seating(t, in, p, n + 1) /\ Vacant(t, n + 1)
  BY <1>2, <1>5, RowIs DEF Seating, Vacant
<1>7. /\ in.kind = t.kind /\ in.stake = t.stake /\ in.status = t.status
      /\ in.target = t.target /\ in.revision = t.revision
      /\ in = [t EXCEPT !.seat = in.seat, !.join = in.join, !.active = in.active]
  BY <1>2, RowIs
<1> HIDE DEF in
<1>8. /\ Members(in) = Members(t) \cup {p}
      /\ SeatsDistinct(in) /\ LeftOut(in)
      /\ in.seat \in Seats /\ in.join \in Joins /\ in.active \in Flags
      /\ Cardinality(Members(in)) = n + 1
      /\ \A q \in Players \ {p} :
              in.seat[q] = t.seat[q] /\ in.join[q] = t.join[q] /\ in.active[q] = t.active[q]
      /\ in.seat[p] = n + 1 /\ in.join[p] = "joined" /\ in.active[p] = TRUE
  <2>1. Settled(t, in, p, n + 1)
    BY <1>1, <1>2, <1>5, <1>6, NewcomerSeated
  <2>. QED
    BY <1>0, <2>1 DEF Settled
<1>9. in \in Row
  BY <1>2, <1>7, <1>8, RowIs
<1>10. /\ u \in Row /\ u.revision > t.revision /\ u.status = "waiting"
       /\ u.seat = in.seat /\ u.active = in.active /\ u.kind = "invite"
       /\ u.stake = t.stake /\ u.target = t.target /\ u.join = in.join
  BY <1>1, <1>7, <1>9, NextRevision, RowIs
<1> HIDE DEF u
<1>11. /\ Members(u) = Members(in) /\ SeatsDistinct(u) /\ LeftOut(u)
  BY <1>8, <1>10 DEF Members, SeatsDistinct, LeftOut
<1>12. Playable(u)
  BY <1>10 DEF Playable
<1>13. Lobby(u)
  <2>1. \A q \in Members(t) : q # p /\ q \in Players
    BY <1>1 DEF Members
  <2>2. \A q \in Members(in) : in.active[q] /\ in.join[q] # "left" /\ in.seat[q] <= n + 1
    BY <1>3, <1>4, <1>5, <1>8, <2>1
  <2>. QED
    BY <1>4, <1>8, <1>10, <1>11, <2>2 DEF Lobby
<1>14. Consents(u, a)
  BY <1>1, <1>2, <1>8, <1>10, <1>11, People DEF Consents, OpenStatus, Members
<1>15. t.status \in OpenStatus /\ Good(u)
  BY <1>1, <1>10, <1>11, <1>12, <1>13 DEF OpenStatus, Good
<1>. QED
  BY <1>1, <1>2, <1>10, <1>14, <1>15, LiveStep DEF t

\* The history of consent is left as it is.
LEMMA SameAgreed ==
  ASSUME Inv, NEW r \in RoomIds, UNCHANGED agreed
  PROVE  agreed' = [agreed EXCEPT ![r] = agreed[r]] /\ agreed[r] \in SUBSET Real
BY DEF Inv, Shape, RoomInv

LEMMA StartInviteStep ==
  ASSUME Inv, NEW r \in RoomIds, NEW npcs \in SUBSET Npcs, StartInvite(r, npcs)
  PROVE  Step
<1> DEFINE t == room[r]
           ms == Members(t) \cup npcs
           seat(order) == [p \in Players |-> IF p \in ms THEN order[p] ELSE 0]
           join == [p \in Players |-> IF p \in npcs THEN "joined" ELSE t.join[p]]
           active == [p \in Players |-> p \in npcs \/ t.active[p]]
           mid(order, first) == [t EXCEPT !.status = "playing", !.current = first, !.age = 0,
                                          !.seat = seat(order), !.join = join, !.active = active]
<1>1. /\ t.kind = "invite" /\ t.status = "waiting" /\ Invited(t) = {}
      /\ t.revision < MaxRevision
      /\ Cardinality(Members(t) \ Npcs) > t.household
      /\ Members(t) \cap npcs = {}
      /\ money' = money /\ external' = external /\ UNCHANGED agreed
  BY DEF StartInvite, money
<1>2. PICK order \in Bijection(ms, 1..t.target) : \E first \in ms :
        room' = [room EXCEPT ![r] = Revised(mid(order, first))]
  BY DEF StartInvite
<1>3. PICK first \in ms : room' = [room EXCEPT ![r] = Revised(mid(order, first))]
  BY <1>2
<1> DEFINE places == seat(order)
           v == mid(order, first)
           u == Revised(v)
<1>4. /\ t \in Row /\ SeatsDistinct(t) /\ Lobby(t) /\ LeftOut(t) /\ Consents(t, agreed[r])
  BY <1>1 DEF Inv, RoomInv, Good
<1>5. t.target \in AllowedCounts /\ t.target <= LargestCount /\ t.target \in Nat
  BY <1>1, <1>4, Sizes, RoomAssumption DEF Lobby
<1>6. ms \subseteq Players /\ first \in Someone /\ npcs \subseteq Players
  BY People DEF Members, Someone
<1>7. /\ \A p \in ms : order[p] \in 1..t.target /\ order[p] \in 1..LargestCount
                       /\ order[p] \in Nat
      /\ \A p, q \in ms : order[p] = order[q] => p = q
  <2>1. order \in [ms -> 1..t.target] /\ \A p, q \in ms : order[p] = order[q] => p = q
    BY DEF Bijection, Injection, IsInjective
  <2>. QED
    BY <1>5, <2>1, Sizes
<1> HIDE DEF t
<1>8. places \in Seats /\ join \in Joins /\ active \in Flags
  BY <1>4, <1>7, RowIs DEF Seats, Joins, Flags
<1>9. /\ \A p \in ms : places[p] = order[p]
      /\ \A p \in Players \ ms : places[p] = 0
      /\ \A p \in Players : join[p] = IF p \in npcs THEN "joined" ELSE t.join[p]
      /\ \A p \in Players : active[p] <=> p \in npcs \/ t.active[p]
  BY <1>6
<1>10. v = [t EXCEPT !.status = "playing", !.current = first, !.age = 0,
                     !.seat = places, !.join = join, !.active = active]
  OBVIOUS
<1>11. ms = Members(t) \cup npcs
  OBVIOUS
<1>12. UNCHANGED agreed /\ room' = [room EXCEPT ![r] = u]
  BY <1>1, <1>3
<1> HIDE DEF ms, places, seat, join, active, v
<1>13. /\ v \in Row /\ v.revision = t.revision /\ v.status = "playing"
       /\ v.seat = places /\ v.join = join /\ v.active = active /\ v.current = first
       /\ v.stake = t.stake /\ v.kind = t.kind
  <2>1. "playing" \in Statuses /\ 0 \in Ages
    BY Sizes DEF Statuses, OpenStatus, Ages
  <2>. QED
    BY <1>4, <1>6, <1>8, <1>10, <2>1, RowIs
<1>14. /\ u \in Row /\ u.revision > t.revision /\ u.status = "playing"
       /\ u.seat = places /\ u.join = join /\ u.active = active /\ u.current = first
       /\ u.stake = t.stake /\ u.kind = t.kind
  BY <1>1, <1>13, NextRevision, RowIs
<1> HIDE DEF u
<1>15. Members(u) = ms
  BY <1>6, <1>9, <1>11, <1>14 DEF Members
<1>16. \A p \in Members(t) : t.join[p] = "joined" /\ t.active[p] /\ p \in Players
  BY <1>1, <1>4, RowIs DEF Lobby, Members, Invited, Joins
<1>17. \A p \in ms : p \in Seated(u)
  <2>1. \A p \in ms : p \in Players /\ join[p] = "joined" /\ active[p]
    BY <1>6, <1>9, <1>11, <1>16
  <2>. QED
    BY <1>14, <2>1 DEF Seated
<1>18. SeatsDistinct(u)
  <2>1. \A p \in Players : (p \in ms) = (places[p] \in 1..LargestCount)
    BY <1>7, <1>9, Sizes
  <2>. QED
    BY <1>7, <1>9, <1>14, <1>15, <2>1 DEF SeatsDistinct
<1>19. Playable(u)
  <2>1. PICK p \in Members(t) \ Npcs : TRUE
    <3>1. t.household \in Nat
      BY <1>4, RowIs
    <3>2. Cardinality({}) = 0
      BY FS_EmptySet
    <3>4. 0 > t.household => FALSE
      BY <3>1
    <3>3. Members(t) \ Npcs # {}
      BY <1>1, <3>2, <3>4, Zenon
    <3>. QED
      BY <3>3
  <2>2. p \in Real /\ p \in Seated(u)
    BY <1>11, <1>16, <1>17, People
  <2>3. Invited(u) = {}
    BY <1>14, <1>15, <1>17 DEF Invited, Seated, Members
  <2>. QED
    BY <1>14, <1>17, <2>2, <2>3 DEF Playable
<1>20. Lobby(u) /\ LeftOut(u)
  <2>1. Lobby(u)
    BY <1>14 DEF Lobby
  <2>2. \A p \in Players : join[p] = "left" => p \notin npcs /\ t.join[p] = "left"
    BY <1>9
  <2>3. \A p \in Players : join[p] = "left" => ~active[p]
    BY <1>4, <1>9, <2>2 DEF LeftOut
  <2>. QED
    BY <1>14, <2>1, <2>3 DEF LeftOut
<1>21. Consents(u, agreed[r])
  <2>1. ASSUME NEW p \in Real \cap ms PROVE p \in Members(t) /\ t.join[p] # "invited"
    BY <1>1, <1>11, People DEF Invited, Members
  <2>. QED
    BY <1>1, <1>4, <1>14, <1>15, <2>1 DEF Consents, OpenStatus
<1>22. t.status \in OpenStatus /\ u.status \in OpenStatus /\ Good(u)
  BY <1>1, <1>14, <1>18, <1>19, <1>20 DEF OpenStatus, Good
<1>. QED
  BY <1>1, <1>12, <1>14, <1>21, <1>22, SameAgreed, LiveStep DEF t

\* Some member of a table has the lowest seat.
LEMMA LowestIs ==
  ASSUME NEW t, NEW ms, ms # {}, \A q \in ms : t.seat[q] \in Nat
  PROVE  Lowest(t, ms) \in ms
<1> DEFINE taken == {t.seat[q] : q \in ms}
<1>1. PICK s \in taken : \A x \in taken : s <= x
  <2>1. taken # {} /\ taken \in SUBSET Nat
    OBVIOUS
  <2> HIDE DEF taken
  <2>. QED
    BY <2>1, LeastNatural
<1>2. \E p \in ms : \A q \in ms : t.seat[p] <= t.seat[q]
  BY <1>1
<1>. QED
  BY <1>2 DEF Lowest

LEMMA LeaveLobbyStep ==
  ASSUME Inv, NEW r \in RoomIds, NEW p \in Real, LeaveLobby(r, p)
  PROVE  Step
<1> DEFINE t == room[r]
           out == Without(t, p)
           own == IF out.owner = p THEN Lowest(out, Members(out)) ELSE out.owner
           mid(first) == [out EXCEPT !.current = first, !.owner = own]
<1>1. /\ t.status \in {"pending", "waiting"} /\ p \in Real \cap Members(t)
      /\ money' = money /\ external' = external /\ UNCHANGED agreed
  BY DEF LeaveLobby, money
<1>2. CASE room' = [room EXCEPT ![r] = Gone]
  <2>1. UNCHANGED <<money, external, agreed>> /\ t.status \notin Terminal
    BY <1>1 DEF Terminal
  <2>. QED
    BY <1>2, <2>1, ClosedStep
<1>3. CASE /\ t.status = "waiting" /\ t.kind # "invite" /\ Members(out) # {}
           /\ t.revision < MaxRevision
           /\ \E first \in Members(out) : room' = [room EXCEPT ![r] = Revised(mid(first))]
  <2>1. PICK first \in Members(out) : room' = [room EXCEPT ![r] = Revised(mid(first))]
    BY <1>3
  <2> DEFINE v == mid(first)
             u == Revised(v)
  <2>2. /\ t \in Row /\ SeatsDistinct(t) /\ Lobby(t) /\ LeftOut(t) /\ Consents(t, agreed[r])
        /\ p \in Players
    BY <1>1 DEF Inv, RoomInv, Good, Members
  <2>3. t.status = "waiting" /\ t.kind = "table" /\ t.revision < MaxRevision
        /\ Members(out) # {}
    BY <1>3, <2>2, RowIs
  <2>4. room' = [room EXCEPT ![r] = u]
    BY <2>1
  <2> HIDE DEF t
  <2>5. /\ out.seat = [t.seat EXCEPT ![p] = 0] /\ out.join = [t.join EXCEPT ![p] = "absent"]
        /\ out.active = [t.active EXCEPT ![p] = FALSE]
        /\ out.kind = t.kind /\ out.stake = t.stake /\ out.status = t.status
        /\ out.revision = t.revision /\ out.owner = t.owner
        /\ out = [t EXCEPT !.seat = out.seat, !.join = out.join, !.active = out.active]
    BY <2>2, RowIs DEF Without
  <2> HIDE DEF out
  <2>6. /\ out.seat \in Seats /\ out.join \in Joins /\ out.active \in Flags
        /\ out.seat[p] = 0 /\ out.join[p] = "absent" /\ out.active[p] = FALSE
        /\ \A q \in Players \ {p} :
             out.seat[q] = t.seat[q] /\ out.join[q] = t.join[q] /\ out.active[q] = t.active[q]
    BY <2>2, <2>5, RowIs DEF Seats, Joins, Flags
  <2>7. out \in Row
    BY <2>2, <2>5, <2>6, RowIs
  <2>8. Members(out) = Members(t) \ {p}
    BY <2>6 DEF Members
  <2>9. own \in Someone /\ first \in Someone
    <3>1. Lowest(out, Members(out)) \in Members(out)
      <4>1. \A q \in Members(out) : out.seat[q] \in Nat
        BY <2>6 DEF Members, Seats
      <4>. QED
        BY <2>3, <4>1, LowestIs
    <3>. QED
      BY <2>7, <3>1, RowIs DEF Members, Someone
  <2> HIDE DEF own
  <2>10. /\ v \in Row /\ v.revision = t.revision /\ v.seat = out.seat /\ v.join = out.join
         /\ v.active = out.active /\ v.kind = t.kind /\ v.stake = t.stake
         /\ v.status = t.status /\ v.current = first
    BY <2>5, <2>7, <2>9, RowIs
  <2> HIDE DEF v
  <2>11. /\ u \in Row /\ u.revision > t.revision /\ u.seat = out.seat /\ u.join = out.join
         /\ u.active = out.active /\ u.kind = "table" /\ u.stake = t.stake
         /\ u.status = "waiting" /\ u.current = first
    BY <2>3, <2>10, NextRevision, RowIs
  <2> HIDE DEF u
  <2>12. Members(u) = Members(t) \ {p} /\ first \in Members(u)
    BY <2>8, <2>11 DEF Members
  <2>13. SeatsDistinct(u)
    <3>1. \A q, x \in Members(t) \ {p} : out.seat[q] = out.seat[x] => q = x
      BY <2>2, <2>6 DEF SeatsDistinct, Members
    <3>2. \A q \in Players :
            (q \in Members(t) \ {p}) = (out.seat[q] \in 1..LargestCount)
      BY <2>2, <2>6, Sizes DEF SeatsDistinct
    <3>. QED
      BY <2>11, <2>12, <3>1, <3>2 DEF SeatsDistinct
  <2>14. Playable(u) /\ LeftOut(u)
    <3>1. \A q \in Players : out.join[q] = "left" => ~out.active[q]
      BY <2>2, <2>6 DEF LeftOut
    <3>. QED
      BY <2>11, <3>1 DEF Playable, LeftOut
  <2>15. Lobby(u)
    <3>1. \A q \in Members(t) \ {p} : out.active[q] /\ out.join[q] # "left"
      BY <2>2, <2>3, <2>6 DEF Lobby, Members
    <3>. QED
      BY <2>11, <2>12, <3>1 DEF Lobby
  <2>16. Consents(u, agreed[r])
    BY <2>2, <2>3, <2>6, <2>11, <2>12 DEF Consents, OpenStatus, Members
  <2>17. t.status \in OpenStatus /\ u.status \in OpenStatus /\ Good(u)
    BY <2>3, <2>11, <2>13, <2>14, <2>15 DEF OpenStatus, Good
  <2>. QED
    BY <1>1, <2>4, <2>11, <2>16, <2>17, SameAgreed, LiveStep DEF t
<1>4. \/ room' = [room EXCEPT ![r] = Gone]
      \/ /\ t.status = "waiting" /\ t.kind # "invite" /\ Members(out) # {}
         /\ t.revision < MaxRevision
         /\ \E first \in Members(out) : room' = [room EXCEPT ![r] = Revised(mid(first))]
  BY <1>1 DEF LeaveLobby
<1>. QED
  BY <1>2, <1>3, <1>4

-----------------------------------------------------------------------------
(* What the end of a game books.                                           *)

LEMMA Products ==
  /\ \A a, b \in Nat : a * b \in Int /\ a * b >= 0 /\ -(a * b) \in Int /\ -(a * b) <= 0
  /\ \A a \in Nat : a * 0 = 0
  /\ \A a, b \in Nat : a * (-b) = -(a * b)
  /\ \A a, b \in Nat : a > 0 /\ b > 0 => a * b > 0 /\ -(a * b) < 0
OBVIOUS

LEMMA WinnerBooks ==
  ASSUME NEW t \in Row, NEW w \in Members(t), Cardinality(Members(t)) = 2
  PROVE  LET d == WinnerTakes(t, w)
         IN /\ d \in [Players -> Int]
            /\ \A q \in Players : d[q] # 0 => q \in Members(t) /\ t.stake > 0
            /\ Total(d, Players) = 0
<1> DEFINE M == Members(t)
           s == t.stake
           d == WinnerTakes(t, w)
           A == M \ {w}
<1>1. s \in Nat /\ M \in SUBSET Players /\ IsFiniteSet(M) /\ w \in M /\ Cardinality(M) = 2
  BY RowIs, People DEF Members
<1>2. Cardinality(A) = 1 /\ IsFiniteSet(A) /\ A \in SUBSET Players
  BY <1>1, FS_RemoveElement
<1>3. d = [q \in Players |-> IF q = w THEN s ELSE IF q \in M THEN -s ELSE 0]
  BY DEF WinnerTakes
<1> HIDE DEF M, s, A, d
<1>4. /\ d[w] = s /\ w \in Players
      /\ \A q \in A : d[q] = -s
      /\ \A q \in (Players \ A) \ {w} : d[q] = 0
      /\ d \in [Players -> Int]
      /\ \A q \in Players : d[q] # 0 => q \in M /\ s > 0
  BY <1>1, <1>3 DEF A
<1>5. IsFiniteSet(Players \ A) /\ IsFiniteSet((Players \ A) \ {w}) /\ w \in Players \ A
  BY <1>4, People, FS_Difference, FS_RemoveElement DEF A
<1>6. Total(d, Players) = 1 * (-s) + Total(d, Players \ A)
  <2>1. \A q \in Players \ A : d[q] \in Int
    BY <1>4
  <2>2. -s \in Int
    BY <1>1
  <2>. QED
    BY <1>2, <1>4, <2>1, <2>2, People, TotalLevels
<1>7. Total(d, Players \ A) = d[w] + Total(d, (Players \ A) \ {w})
  <2>1. \A q \in Players \ A : d[q] \in Int
    BY <1>4
  <2>. QED
    BY <1>5, <2>1, TotalRemove
<1>8. Total(d, (Players \ A) \ {w}) = 0
  BY <1>4, <1>5, TotalZero
<1>9. Total(d, Players) = 0
  BY <1>1, <1>4, <1>6, <1>7, <1>8
<1>. QED
  BY <1>4, <1>9 DEF d, M, s

\* Every payout is among the members, for a stake, and sums as it must.
Pays(t, d) ==
  /\ d \in [Players -> Int]
  /\ \A q \in Players : d[q] # 0 => q \in Members(t) /\ t.stake > 0
  /\ NonZeroSum \/ Total(d, Players) = 0

LEMMA PayoutBooks ==
  ASSUME NEW t \in Row, NEW d \in Payouts(t)
  PROVE  Pays(t, d)
<1>1. t.stake \in Nat
  BY RowIs
<1>2. Pays(t, Nothing)
  <2>1. Nothing \in [Players -> Int] /\ \A q \in Players : Nothing[q] = 0
    BY DEF Nothing
  <2>. QED
    BY <2>1, People, TotalZero DEF Pays
<1>3. CASE d \in Settlements(t)
  <2>1. CASE t.stake = 0
    BY <1>2, <1>3, <2>1 DEF Settlements
  <2>2. CASE t.stake # 0
    <3>1. /\ d \in [Players -> GameDeltas \cup {0}]
          /\ \A q \in Players \ Members(t) : d[q] = 0
          /\ NonZeroSum \/ Sum(d) = 0
      BY <1>3, <2>2 DEF Settlements
    <3>2. Sum(d) = Total(d, Players)
      BY Zenon DEF Sum, Total
    <3>3. GameDeltas \cup {0} \subseteq Int
      BY RoomAssumption
    <3>4. d \in [Players -> Int]
      BY <3>1, <3>3
    <3>5. \A q \in Players : d[q] # 0 => q \in Members(t) /\ t.stake > 0
      BY <1>1, <2>2, <3>1
    <3>. QED
      BY <3>1, <3>2, <3>4, <3>5 DEF Pays
  <2>. QED
    BY <2>1, <2>2
<1>4. CASE d = Nothing
  BY <1>2, <1>4
<1>5. CASE Cardinality(Members(t)) = 2 /\ \E w \in Members(t) : d = WinnerTakes(t, w)
  BY <1>5, WinnerBooks DEF Pays
<1>. QED
  BY <1>3, <1>4, <1>5 DEF Payouts

LEMMA ForfeitBooks ==
  ASSUME NEW t \in Row, LeftOut(t), Invited(t) = {}, Seated(t) # {},
         NEW p \in Members(t), ~t.active[p]
  PROVE  LET d == ForfeitDeltas(t)
         IN /\ Pays(t, d)
            /\ t.stake > 0 =>
                 \A q \in Members(t) : IF q \in Seated(t) THEN d[q] > 0 ELSE d[q] < 0
<1> DEFINE M == Members(t)
           A == Seated(t)
           B == {q \in Members(t) : ~t.active[q]}
           a == Cardinality(A)
           b == Cardinality(B)
           s == t.stake
           d == ForfeitDeltas(t)
<1>1. /\ s \in Nat /\ A \in SUBSET Players /\ B \in SUBSET Players
      /\ a \in Nat /\ b \in Nat /\ IsFiniteSet(A) /\ IsFiniteSet(B)
  BY RowIs, People DEF Members, Seated
<1>2. A \cup B = M /\ A \cap B = {}
  BY RowIs DEF Members, Seated, Invited, LeftOut, Joins
<1>3. d = IF A = {} \/ B = {} THEN Nothing
          ELSE [q \in Players |-> IF q \in A THEN b * s
                                  ELSE IF q \in M THEN -(a * s) ELSE 0]
  BY DEF ForfeitDeltas
<1>4. b * s \in Int /\ -(a * s) \in Int
  BY <1>1, Products
<1>5. A # {} /\ B # {} /\ a > 0 /\ b > 0
  <2>1. A # {} /\ B # {}
    OBVIOUS
  <2>. QED
    BY <1>1, <2>1, FS_EmptySet
<1> HIDE DEF M, A, B, a, b, s, d
<1>6. d \in [Players -> Int] /\ Total(d, Players) = 0
      /\ (\A q \in Players : d[q] # 0 => q \in M /\ s > 0)
      /\ (s > 0 => \A q \in M : IF q \in A THEN d[q] > 0 ELSE d[q] < 0)
  <2>1. /\ \A q \in A : d[q] = b * s
        /\ \A q \in B : d[q] = -(a * s)
        /\ \A q \in (Players \ A) \ B : d[q] = 0
        /\ d \in [Players -> Int]
    BY <1>1, <1>2, <1>3, <1>4, <1>5
  <2>2. /\ IsFiniteSet(Players \ A) /\ IsFiniteSet((Players \ A) \ B)
        /\ B \in SUBSET (Players \ A)
    BY <1>1, <1>2, People, FS_Difference
  <2>3. Total(d, Players) = a * (b * s) + Total(d, Players \ A)
    <3>1. \A q \in Players \ A : d[q] \in Int
      BY <2>1
    <3>. QED
      BY <1>1, <1>4, <2>1, <3>1, People, TotalLevels DEF a
  <2>4. Total(d, Players \ A) = b * (-(a * s)) + Total(d, (Players \ A) \ B)
    <3>1. \A q \in (Players \ A) \ B : d[q] \in Int
      BY <2>1
    <3>. QED
      BY <1>4, <2>1, <2>2, <3>1, TotalLevels DEF b
  <2>5. Total(d, (Players \ A) \ B) = 0
    BY <2>1, <2>2, TotalZero
  <2>6. a * (b * s) + (b * (-(a * s)) + 0) = 0
    BY <1>1
  <2>7. Total(d, Players) = 0
    BY <2>3, <2>4, <2>5, <2>6
  <2>8. \A q \in Players : d[q] # 0 => q \in M /\ s > 0
    <3>1. s = 0 => b * s = 0 /\ -(a * s) = 0
      BY <1>1, Products
    <3>. QED
      BY <1>1, <1>2, <2>1, <3>1
  <2>9. s > 0 => \A q \in M : IF q \in A THEN d[q] > 0 ELSE d[q] < 0
    <3>1. s > 0 => b * s > 0 /\ -(a * s) < 0
      BY <1>1, <1>5, Products
    <3>. QED
      BY <1>2, <2>1, <3>1
  <2>. QED
    BY <2>1, <2>7, <2>8, <2>9
<1>. QED
  BY <1>6 DEF d, M, A, s, Pays

-----------------------------------------------------------------------------
(* Steps of a game.                                                        *)

\* A step of a playing table that books deltas and ends it.
LEMMA BookedStep ==
  ASSUME Inv, NEW r \in RoomIds, NEW u, NEW d,
         room[r].status = "playing", room' = [room EXCEPT ![r] = u],
         Good(u), u.status = "finished", u.revision > room[r].revision,
         UNCHANGED <<external, agreed>>,
         paid' = [paid EXCEPT ![r] = d],
         balance' = [p \in Real |-> balance[p] + d[p]],
         Booked(u, d, agreed[r])
  PROVE  Step
<1>1. /\ room'[r] = u /\ paid'[r] = d /\ agreed'[r] = agreed[r]
      /\ \A x \in RoomIds \ {r} :
           room'[x] = room[x] /\ paid'[x] = paid[x] /\ agreed'[x] = agreed[x]
  BY DEF Inv, Shape
<1>2. StepOK(r)
  BY <1>1 DEF StepOK, Inv, RoomInv, Consents, OpenStatus, Covers, Final, Terminal
<1>3. \A x \in RoomIds : StepOK(x)
  BY <1>1, <1>2, Untouched DEF Inv
<1>4. d \in [Players -> Int] /\ paid[r] = Nothing
  BY DEF Booked, Inv, RoomInv
<1>5. \A p \in Real : d[p] \in Int /\ balance[p] \in Int /\ p \in Players
  BY <1>4, People DEF Inv, Shape
<1>6. Shape'
  <2>1. balance' \in [Real -> Int]
    BY <1>5
  <2>2. /\ room' = [x \in RoomIds |-> room'[x]] /\ paid' = [x \in RoomIds |-> paid'[x]]
        /\ agreed' = [x \in RoomIds |-> agreed'[x]] /\ external' \in [Real -> Int]
    BY DEF Inv, Shape
  <2>. QED
    BY <2>1, <2>2 DEF Shape
<1>7. Balanced'
  <2>1. SUFFICES ASSUME NEW p \in Real
                 PROVE  balance'[p] = InitialBalance + external'[p] + Total(PaidTo(p)', RoomIds)
    BY DEF Balanced
  <2> DEFINE f == PaidTo(p)
             e == PaidTo(p)'
  <2>2. /\ \A x \in RoomIds : f[x] = paid[x][p] /\ f[x] \in Int
        /\ f[r] = 0
        /\ \A x \in RoomIds : e[x] = paid'[x][p]
        /\ e[r] = d[p] /\ e[r] \in Int
        /\ \A x \in RoomIds \ {r} : e[x] = f[x]
    BY <1>1, <1>4, <1>5 DEF PaidTo, Inv, RoomInv, Booked, Nothing
  <2>3. Total(f, RoomIds) \in Int
    BY <2>2, RoomAssumption, TotalType
  <2>4. Total(e, RoomIds) = Total(f, RoomIds) + e[r] - f[r]
    <3> HIDE DEF e, f
    <3>1. IsFiniteSet(RoomIds) /\ r \in RoomIds
      BY RoomAssumption
    <3>2. /\ \A x \in RoomIds : f[x] \in Int
          /\ e[r] \in Int
          /\ \A x \in RoomIds \ {r} : e[x] = f[x]
      BY <2>2
    <3>. QED
      BY ONLY <3>1, <3>2, TotalUpdate
  <2>5. balance[p] = InitialBalance + external[p] + Total(f, RoomIds)
    BY DEF Inv, Balanced
  <2>6. balance'[p] = balance[p] + d[p] /\ external'[p] = external[p] /\ external[p] \in Int
        /\ InitialBalance \in Int
    BY RoomAssumption DEF Inv, Shape
  <2> HIDE DEF e, f
  <2>7. balance'[p] = InitialBalance + external'[p] + Total(e, RoomIds)
    BY <1>5, <2>2, <2>3, <2>4, <2>5, <2>6
  <2>. QED
    BY <2>7 DEF e
<1>. QED
  BY <1>3, <1>6, <1>7 DEF Step, Inv, StepOK

\* Who is left in a row from which the players of out are put out.
LEMMA OutKeeps ==
  ASSUME NEW t, Good(t), NEW out
  PROVE  /\ Out(t, out) \in Row /\ LeftOut(Out(t, out))
         /\ Out(t, out).join = t.join /\ Out(t, out).seat = t.seat
         /\ Out(t, out).kind = t.kind /\ Out(t, out).stake = t.stake
         /\ Out(t, out).status = t.status /\ Out(t, out).revision = t.revision
         /\ Out(t, out).npcTurns = t.npcTurns /\ Out(t, out).npcActions = t.npcActions
         /\ Seated(Out(t, out)) = Seated(t) \ out
<1>1. Out(t, out).active = [q \in Players |-> t.active[q] /\ q \notin out]
  BY RowIs DEF Out, Good, Flags
<1>2. Out(t, out).active \in Flags
  BY <1>1, RowIs DEF Good, Flags
<1>3. Out(t, out) = [t EXCEPT !.active = Out(t, out).active]
  BY RowIs DEF Out, Good
<1> DEFINE left == Out(t, out)
<1> HIDE DEF left
<1>. QED
  BY <1>1, <1>2, <1>3, RowIs DEF Good, LeftOut, Seated

\* An NPC's turn is counted below the cap.
LEMMA CountedRow ==
  ASSUME NEW t, Good(t), NEW out, NEW p \in Players, NEW completed \in BOOLEAN,
         p \in Npcs => NpcBudget(t), t.revision < MaxRevision
  PROVE  LET left == Out(t, out)
             moved == Revised(Counted([left EXCEPT !.age = 0], p, completed))
         IN /\ moved \in Row /\ moved.revision > t.revision
            /\ moved.join = t.join /\ moved.seat = t.seat /\ moved.active = left.active
            /\ moved.kind = t.kind /\ moved.stake = t.stake /\ moved.status = t.status
            /\ moved.target = left.target
<1> DEFINE left == Out(t, out)
           young == [left EXCEPT !.age = 0]
           mid == Counted(young, p, completed)
           moved == Revised(mid)
<1>1. /\ t \in Row /\ left \in Row /\ left.join = t.join /\ left.seat = t.seat
      /\ left.kind = t.kind /\ left.stake = t.stake /\ left.status = t.status
      /\ left.revision = t.revision /\ left.npcTurns = t.npcTurns
      /\ left.npcActions = t.npcActions
  BY OutKeeps DEF Good
<1> HIDE DEF left
<1>2. /\ young \in Row /\ young.join = t.join /\ young.seat = t.seat
      /\ young.kind = t.kind /\ young.stake = t.stake /\ young.status = t.status
      /\ young.revision = t.revision /\ young.npcTurns = t.npcTurns
      /\ young.npcActions = t.npcActions /\ young.active = left.active
      /\ young.target = left.target
  <2>1. 0 \in Ages
    BY Sizes DEF Ages
  <2>. QED
    BY <1>1, <2>1, RowIs
<1> HIDE DEF young
<1>3. p \in Npcs => t.npcTurns + 1 \in Turns /\ t.npcActions + 1 \in Actions
  <2>1. SUFFICES ASSUME p \in Npcs PROVE t.npcTurns + 1 \in Turns /\ t.npcActions + 1 \in Actions
    OBVIOUS
  <2>2. t.npcTurns < NpcRounds * Cardinality(Seated(t)) /\ t.npcActions < MaxNpcActions
    BY <2>1 DEF NpcBudget
  <2>3. NpcRounds * Cardinality(Seated(t)) <= RoundLimit
    <3>1. Cardinality(Seated(t)) \in Nat /\ Cardinality(Seated(t)) <= Cardinality(Players)
      BY People DEF Seated
    <3>2. \A k, m, n \in Nat : m <= n => k * m <= k * n
      OBVIOUS
    <3>. QED
      BY <3>1, <3>2, People, RoomAssumption DEF RoundLimit
  <2>4. /\ t.npcTurns \in Nat /\ t.npcActions \in Nat /\ RoundLimit \in Nat
        /\ MaxNpcActions \in Nat /\ NpcRounds * Cardinality(Seated(t)) \in Nat
    <3>1. \A m, n \in Nat : m * n \in Nat
      OBVIOUS
    <3>2. Cardinality(Seated(t)) \in Nat
      BY People DEF Seated
    <3>. QED
      BY <1>1, <3>1, <3>2, RowIs, RoundCap, RoomAssumption DEF Turns, Actions, RoundLimit
  <2>. QED
    BY <2>2, <2>3, <2>4 DEF Turns, Actions
<1>4. /\ mid \in Row /\ mid.join = t.join /\ mid.seat = t.seat
      /\ mid.kind = t.kind /\ mid.stake = t.stake /\ mid.status = t.status
      /\ mid.revision = t.revision /\ mid.active = left.active /\ mid.target = left.target
  <2>1. 0 \in Turns /\ 0 \in Actions
    BY RoundCap, RoomAssumption DEF Turns, Actions, RoundLimit
  <2>2. CASE p \notin Npcs
    <3>1. mid = [young EXCEPT !.npcTurns = 0, !.npcActions = 0]
      BY <2>2 DEF Counted, Rested
    <3>. QED
      BY <1>2, <2>1, <3>1, RowIs
  <2>3. CASE p \in Npcs /\ completed
    <3>1. mid = [young EXCEPT !.npcTurns = t.npcTurns + 1, !.npcActions = 0]
      BY <1>2, <2>3 DEF Counted
    <3>. QED
      BY <1>2, <1>3, <2>1, <2>3, <3>1, RowIs
  <2>4. CASE p \in Npcs /\ ~completed
    <3>1. mid = [young EXCEPT !.npcActions = t.npcActions + 1]
      BY <1>2, <2>4 DEF Counted
    <3>. QED
      BY <1>2, <1>3, <2>4, <3>1, RowIs
  <2>. QED
    BY <2>2, <2>3, <2>4
<1> HIDE DEF mid
<1>5. /\ moved \in Row /\ moved.revision > t.revision
      /\ moved.join = t.join /\ moved.seat = t.seat /\ moved.active = left.active
      /\ moved.kind = t.kind /\ moved.stake = t.stake /\ moved.status = t.status
      /\ moved.target = left.target
  BY <1>4, NextRevision, RowIs
<1>. QED
  BY <1>5 DEF moved, mid, young, left

\* A row that a game ends with.
LEMMA EndedGood ==
  ASSUME NEW v \in Row, SeatsDistinct(v), LeftOut(v), NEW res \in Results
  PROVE  /\ Good(Ended(v, res)) /\ Ended(v, res).status = "finished"
         /\ Ended(v, res).revision = v.revision /\ Ended(v, res).stake = v.stake
         /\ Ended(v, res).result = res
         /\ Members(Ended(v, res)) = Members(v) /\ Seated(Ended(v, res)) = Seated(v)
<1> DEFINE u == Ended(v, res)
<1>1. /\ u \in Row /\ u.status = "finished" /\ u.revision = v.revision
      /\ u.join = v.join /\ u.seat = v.seat /\ u.active = v.active
      /\ u.stake = v.stake /\ u.result = res
  <2>1. "finished" \in Statuses /\ Nobody \in Someone /\ 0 \in Ages
    BY Sizes DEF Statuses, Terminal, Someone, Ages
  <2>. QED
    BY <2>1, RowIs DEF Ended
<1> HIDE DEF u
<1>2. Members(u) = Members(v) /\ Seated(u) = Seated(v) /\ SeatsDistinct(u)
  BY <1>1, SameRoster
<1>3. Playable(u) /\ Lobby(u) /\ LeftOut(u)
  BY <1>1 DEF Playable, Lobby, LeftOut
<1>. QED
  BY <1>1, <1>2, <1>3 DEF u, Good

\* The row after a step of a game: the seats and the stake stay, and nobody
\* becomes a member or ceases to be one.
Plays(t, v) ==
  /\ v \in Row /\ v.seat = t.seat /\ v.stake = t.stake /\ v.revision > t.revision
  /\ Members(v) = Members(t) /\ Invited(v) = {} /\ LeftOut(v)

\* In a game everybody who pays has agreed.
LEMMA PlayersAgreed ==
  ASSUME Inv, NEW r \in RoomIds, room[r].status = "playing"
  PROVE  /\ Good(room[r]) /\ room[r] \in Row /\ Invited(room[r]) = {} /\ LeftOut(room[r])
         /\ room[r].stake > 0 => \A p \in Real \cap Members(room[r]) : p \in agreed[r]
<1>1. Good(room[r]) /\ Consents(room[r], agreed[r]) /\ Invited(room[r]) = {}
  BY DEF Inv, RoomInv, Good, Playable
<1>. QED
  BY <1>1, People DEF Good, Consents, OpenStatus, Invited, Members

LEMMA PlaysSeated ==
  ASSUME NEW t, NEW v, Good(t), Plays(t, v)
  PROVE  SeatsDistinct(v)
BY DEF Good, Plays, SeatsDistinct

\* The game goes on.
LEMMA GoesOnStep ==
  ASSUME Inv, NEW r \in RoomIds, NEW u, room[r].status = "playing", Plays(room[r], u),
         room' = [room EXCEPT ![r] = u], UNCHANGED <<money, external, agreed>>,
         u.status = "playing", Seated(u) \cap Real # {},
         u.current \in Seated(u) \/ (u.current = Nobody /\ u.review)
  PROVE  Step
<1>1. Good(u)
  <2>1. Playable(u)
    BY DEF Playable, Plays
  <2>2. Lobby(u)
    BY DEF Lobby
  <2>. QED
    BY <2>1, <2>2, PlaysSeated, PlayersAgreed DEF Good, Plays
<1>2. Consents(u, agreed[r])
  BY PlayersAgreed DEF Consents, Plays
<1>. QED
  BY <1>1, <1>2, SameAgreed, LiveStep DEF Plays, OpenStatus

\* An elimination left only NPCs, the game ends and nobody pays.
LEMMA DrawnStep ==
  ASSUME Inv, NEW r \in RoomIds, NEW v, room[r].status = "playing", Plays(room[r], v),
         Seated(v) \subseteq Npcs, room' = [room EXCEPT ![r] = Ended(v, "only_npcs")],
         UNCHANGED <<money, external, agreed>>
  PROVE  Step
<1> DEFINE u == Ended(v, "only_npcs")
<1>1. /\ Good(u) /\ u.status = "finished" /\ u.revision > room[r].revision
      /\ u.result = "only_npcs" /\ Seated(u) = Seated(v)
  BY PlayersAgreed, PlaysSeated, EndedGood DEF Plays, Results
<1>2. room' = [room EXCEPT ![r] = u]
  OBVIOUS
<1> HIDE DEF u
<1>3. paid[r] = Nothing /\ Booked(room[r], paid[r], agreed[r])
  BY DEF Inv, RoomInv, Booked
<1>4. \A p \in Players : Nothing[p] = 0
  BY DEF Nothing
<1>5. Booked(u, Nothing, agreed[r])
  BY <1>1, <1>3, <1>4 DEF Booked, Justified
<1>6. /\ paid' = [paid EXCEPT ![r] = Nothing]
      /\ balance' = [p \in Real |-> balance[p] + Nothing[p]]
  <2>1. paid' = [paid EXCEPT ![r] = Nothing]
    BY <1>3 DEF money, Inv, Shape
  <2>2. \A p \in Real : balance[p] + Nothing[p] = balance[p]
    BY <1>4, People DEF Inv, Shape
  <2>3. balance' = [p \in Real |-> balance[p]]
    BY DEF money, Inv, Shape
  <2>. QED
    BY <2>1, <2>2, <2>3
<1>. QED
  BY <1>1, <1>2, <1>5, <1>6, BookedStep

\* The game ends and its members pay one another, or the bank.
LEMMA PaidStep ==
  ASSUME Inv, NEW r \in RoomIds, NEW v, NEW d, room[r].status = "playing", Plays(room[r], v),
         NEW res \in {"game", "forfeit"}, room' = [room EXCEPT ![r] = Ended(v, res)],
         Book(r, d), UNCHANGED <<external, agreed>>,
         Pays(room[r], d), res = "forfeit" => Forfeited(v, d)
  PROVE  Step
<1> DEFINE u == Ended(v, res)
<1>1. /\ Good(u) /\ u.status = "finished" /\ u.revision > room[r].revision
      /\ Members(u) = Members(v) /\ Seated(u) = Seated(v) /\ u.stake = v.stake /\ u.result = res
  BY PlayersAgreed, PlaysSeated, EndedGood DEF Plays, Results
<1> HIDE DEF u
<1>2. Members(v) = Members(room[r]) /\ v.stake = room[r].stake
  BY DEF Plays
<1>3. Justified(u, d)
  BY <1>1, <1>2 DEF Justified, Pays, Forfeited
<1>4. Booked(u, d, agreed[r])
  <2>1. \A p \in Real : d[p] # 0 => p \in agreed[r]
    BY People, PlayersAgreed DEF Pays
  <2>. QED
    BY <1>1, <1>3, <2>1 DEF Booked, Pays
<1>5. room' = [room EXCEPT ![r] = u]
  BY DEF u
<1>. QED
  BY <1>1, <1>4, <1>5, BookedStep DEF Book

LEMMA PlayMoveStep ==
  ASSUME Inv, NEW r \in RoomIds, NEW p \in Players, PlayMove(r, p)
  PROVE  Step
<1> DEFINE t == room[r]
<1>1. /\ t.status = "playing" /\ t.current = p
      /\ p \in Npcs => NpcBudget(t)
      /\ t.revision < MaxRevision
      /\ external' = external /\ agreed' = agreed
  BY DEF PlayMove
<1> DEFINE left(o) == Out(t, o.out)
           moved(o, c) == Revised(Counted([left(o) EXCEPT !.age = 0], p, c))
<1>2. PICK o \in Outcomes(t), completed \in BOOLEAN :
        /\ Seated(left(o)) # {}
        /\ \/ /\ o.does = "end"
              /\ \E d \in Payouts(t) : Book(r, d)
              /\ room' = [room EXCEPT ![r] = Ended(moved(o, completed), "game")]
           \/ /\ o.does \in {"next", "pause"} /\ OnlyNpcs(left(o))
              /\ room' = [room EXCEPT ![r] = Ended(moved(o, completed), "only_npcs")]
              /\ UNCHANGED money
           \/ /\ o.does = "next" /\ ~OnlyNpcs(left(o))
              /\ \E next \in Seated(left(o)) :
                   room' = [room EXCEPT ![r] = [moved(o, completed) EXCEPT !.current = next]]
              /\ UNCHANGED money
           \/ /\ o.does = "pause" /\ t.kind = "table" /\ ~OnlyNpcs(left(o))
              /\ room' = [room EXCEPT ![r] =
                            [moved(o, completed) EXCEPT !.current = Nobody, !.review = TRUE]]
              /\ UNCHANGED money
  BY DEF PlayMove
<1> DEFINE lf == left(o)
           v == moved(o, completed)
<1>3. Good(t) /\ t \in Row /\ Invited(t) = {}
  BY <1>1, PlayersAgreed
<1>4. /\ v \in Row /\ v.revision > t.revision
      /\ v.join = t.join /\ v.seat = t.seat /\ v.active = lf.active
      /\ v.stake = t.stake /\ v.status = t.status
  BY <1>1, <1>3, CountedRow
<1>5. LeftOut(lf) /\ lf.join = t.join
  BY <1>3, OutKeeps
<1> HIDE DEF v, lf
<1>6. Seated(v) = Seated(lf) /\ Plays(t, v)
  BY <1>3, <1>4, <1>5 DEF Plays, Members, Invited, Seated, LeftOut
<1>7. CASE \E d \in Payouts(t) : Book(r, d) /\ room' = [room EXCEPT ![r] = Ended(v, "game")]
  <2>1. PICK d \in Payouts(t) : Book(r, d) /\ room' = [room EXCEPT ![r] = Ended(v, "game")]
    BY <1>7
  <2>2. Pays(t, d)
    BY <1>3, PayoutBooks
  <2>. QED
    BY <1>1, <1>6, <2>1, <2>2, PaidStep
<1>8. CASE /\ room' = [room EXCEPT ![r] = Ended(v, "only_npcs")] /\ UNCHANGED money
           /\ OnlyNpcs(lf)
  <2>1. Seated(v) \subseteq Npcs
    BY <1>6, <1>8 DEF OnlyNpcs
  <2>. QED
    BY <1>1, <1>6, <1>8, <2>1, DrawnStep
<1>9. CASE /\ ~OnlyNpcs(lf) /\ UNCHANGED money
           /\ \/ \E next \in Seated(lf) : room' = [room EXCEPT ![r] = [v EXCEPT !.current = next]]
              \/ room' = [room EXCEPT ![r] = [v EXCEPT !.current = Nobody, !.review = TRUE]]
  <2>1. Seated(lf) \cap Real # {}
    <3>1. Seated(lf) # {}
      BY <1>2 DEF lf
    <3>. QED
      BY <1>9, <3>1, People DEF OnlyNpcs, Seated
  <2>2. ASSUME NEW u \in Row, room' = [room EXCEPT ![r] = u],
               u.seat = v.seat, u.join = v.join, u.active = v.active, u.stake = v.stake,
               u.status = v.status, u.revision = v.revision,
               u.current \in Seated(v) \/ (u.current = Nobody /\ u.review)
        PROVE  Step
    <3>1. Seated(u) = Seated(v) /\ Plays(t, u)
      BY <1>6, <2>2 DEF Plays, Members, Invited, Seated, LeftOut
    <3>. QED
      BY <1>1, <1>4, <1>6, <1>9, <2>1, <2>2, <3>1, GoesOnStep
  <2>3. CASE \E next \in Seated(lf) : room' = [room EXCEPT ![r] = [v EXCEPT !.current = next]]
    <3>1. PICK next \in Seated(lf) : room' = [room EXCEPT ![r] = [v EXCEPT !.current = next]]
      BY <2>3
    <3> DEFINE u == [v EXCEPT !.current = next]
    <3>2. next \in Someone
      BY DEF Seated, Someone
    <3>3. /\ u \in Row /\ u.seat = v.seat /\ u.join = v.join /\ u.active = v.active
          /\ u.stake = v.stake /\ u.status = v.status /\ u.revision = v.revision
          /\ u.current = next
      BY <1>4, <3>2, RowIs
    <3>4. room' = [room EXCEPT ![r] = u]
      BY <3>1
    <3> HIDE DEF u
    <3>. QED
      BY <1>6, <2>2, <3>3, <3>4
  <2>4. CASE room' = [room EXCEPT ![r] = [v EXCEPT !.current = Nobody, !.review = TRUE]]
    <3> DEFINE u == [v EXCEPT !.current = Nobody, !.review = TRUE]
    <3>1. Nobody \in Someone
      BY DEF Someone
    <3>2. /\ u \in Row /\ u.seat = v.seat /\ u.join = v.join /\ u.active = v.active
          /\ u.stake = v.stake /\ u.status = v.status /\ u.revision = v.revision
          /\ u.current = Nobody /\ u.review
      BY <1>4, <3>1, RowIs
    <3>3. room' = [room EXCEPT ![r] = u]
      BY <2>4
    <3> HIDE DEF u
    <3>. QED
      BY <2>2, <3>2, <3>3
  <2>. QED
    BY <1>9, <2>3, <2>4
<1>. QED
  BY <1>2, <1>7, <1>8, <1>9 DEF v, lf

\* A rested row.
LEMMA RestedRow ==
  ASSUME NEW t \in Row
  PROVE  /\ Rested(t) \in Row /\ Rested(t).join = t.join /\ Rested(t).seat = t.seat
         /\ Rested(t).active = t.active /\ Rested(t).stake = t.stake
         /\ Rested(t).status = t.status /\ Rested(t).revision = t.revision
         /\ Rested(t).current = t.current
<1>1. 0 \in Turns /\ 0 \in Actions
  BY RoundCap, RoomAssumption DEF Turns, Actions, RoundLimit
<1>. QED
  BY <1>1, RowIs DEF Rested

LEMMA RevisedRow ==
  ASSUME NEW t \in Row, t.revision < MaxRevision
  PROVE  /\ Revised(t) \in Row /\ Revised(t).join = t.join /\ Revised(t).seat = t.seat
         /\ Revised(t).active = t.active /\ Revised(t).stake = t.stake
         /\ Revised(t).status = t.status /\ Revised(t).revision > t.revision
         /\ Revised(t).current = t.current
BY NextRevision, RowIs

LEMMA AcknowledgeStep ==
  ASSUME Inv, NEW r \in RoomIds, NEW p \in Real, AcknowledgeRound(r, p)
  PROVE  Step
<1> DEFINE t == room[r]
           mid(next) == [t EXCEPT !.review = FALSE, !.current = next, !.age = 0]
<1>1. /\ t.status = "playing" /\ t.revision < MaxRevision
      /\ UNCHANGED <<money, external, agreed>>
  BY DEF AcknowledgeRound
<1>2. PICK next \in Seated(t) : room' = [room EXCEPT ![r] = Revised(Rested(mid(next)))]
  BY DEF AcknowledgeRound
<1> DEFINE m == mid(next)
           n == Rested(m)
           u == Revised(n)
<1>3. Good(t) /\ t \in Row /\ Invited(t) = {} /\ LeftOut(t) /\ Playable(t)
  BY <1>1, PlayersAgreed DEF Good
<1>4. /\ m \in Row /\ m.join = t.join /\ m.seat = t.seat /\ m.active = t.active
      /\ m.stake = t.stake /\ m.status = t.status /\ m.revision = t.revision
      /\ m.current = next
  <2>1. next \in Someone /\ 0 \in Ages
    BY Sizes DEF Seated, Someone, Ages
  <2>. QED
    BY <1>3, <2>1, RowIs
<1> HIDE DEF m
<1>5. /\ n \in Row /\ n.join = t.join /\ n.seat = t.seat /\ n.active = t.active
      /\ n.stake = t.stake /\ n.status = t.status /\ n.revision = t.revision
      /\ n.current = next
  BY <1>4, RestedRow
<1> HIDE DEF n
<1>6. /\ u \in Row /\ u.join = t.join /\ u.seat = t.seat /\ u.active = t.active
      /\ u.stake = t.stake /\ u.status = t.status /\ u.revision > t.revision
      /\ u.current = next
  BY <1>1, <1>5, RevisedRow
<1> HIDE DEF u
<1>7. Plays(t, u) /\ Seated(u) = Seated(t)
  BY <1>3, <1>6 DEF Plays, Members, Invited, Seated, LeftOut
<1>. QED
  BY <1>1, <1>2, <1>3, <1>6, <1>7, GoesOnStep DEF u, n, m, Playable

LEMMA ForfeitStep ==
  ASSUME Inv, NEW r \in RoomIds, NEW p \in Real, NEW leave \in BOOLEAN, Forfeit(r, p, leave)
  PROVE  Step
<1> DEFINE t == room[r]
           join == [t.join EXCEPT ![p] = IF leave THEN "left" ELSE @]
           quit == [t EXCEPT !.active[p] = FALSE, !.join[p] = IF leave THEN "left" ELSE @]
           gone == Rested(quit)
           v == Revised(gone)
<1>1. /\ t.status = "playing" /\ p \in Seated(t) /\ t.revision < MaxRevision
      /\ external' = external /\ agreed' = agreed
  BY DEF Forfeit
<1>2. \/ /\ \E d \in Payouts(t) : Book(r, d)
         /\ room' = [room EXCEPT ![r] = Ended(v, "game")]
      \/ /\ MustEnd(gone) /\ Cardinality(Seated(gone)) > 1
         /\ Book(r, ForfeitDeltas(gone))
         /\ room' = [room EXCEPT ![r] = Ended(v, "forfeit")]
      \/ /\ ~MustEnd(gone)
         /\ \E next \in Seated(gone) :
              room' = [room EXCEPT ![r] = [v EXCEPT !.current = next]]
         /\ UNCHANGED money
  BY DEF Forfeit
<1>3. Good(t) /\ t \in Row /\ Invited(t) = {} /\ LeftOut(t) /\ p \in Players
  BY <1>1, PlayersAgreed, People
<1> HIDE DEF t
<1>4. /\ quit.active = [t.active EXCEPT ![p] = FALSE]
      /\ quit.join = [t.join EXCEPT ![p] = IF leave THEN "left" ELSE @]
      /\ quit.seat = t.seat /\ quit.stake = t.stake /\ quit.status = t.status
      /\ quit.revision = t.revision
      /\ quit = [t EXCEPT !.active = quit.active, !.join = quit.join]
  BY <1>3, RowIs
<1> HIDE DEF quit
<1>5. /\ quit.active \in Flags /\ quit.join \in Joins /\ ~quit.active[p]
      /\ quit.join[p] = IF leave THEN "left" ELSE t.join[p]
      /\ \A q \in Players \ {p} : quit.active[q] = t.active[q] /\ quit.join[q] = t.join[q]
  BY <1>3, <1>4, RowIs DEF Flags, Joins
<1>6. quit \in Row
  BY <1>3, <1>4, <1>5, RowIs
<1>7. /\ gone \in Row /\ gone.join = quit.join /\ gone.seat = t.seat
      /\ gone.active = quit.active /\ gone.stake = t.stake /\ gone.status = t.status
      /\ gone.revision = t.revision
  BY <1>4, <1>6, RestedRow
<1> HIDE DEF gone
<1>8. /\ v \in Row /\ v.join = quit.join /\ v.seat = t.seat /\ v.active = quit.active
      /\ v.stake = t.stake /\ v.status = t.status /\ v.revision > t.revision
  BY <1>1, <1>7, RevisedRow
<1> HIDE DEF v
<1>9. /\ Members(gone) = Members(t) /\ Invited(gone) = {} /\ LeftOut(gone)
      /\ Members(v) = Members(t) /\ Invited(v) = {} /\ LeftOut(v)
      /\ Seated(v) = Seated(gone)
  <2>1. t.join[p] = "joined"
    BY <1>1 DEF Seated
  <2>2. \A q \in Players : /\ quit.join[q] = "absent" <=> t.join[q] = "absent"
                           /\ quit.join[q] # "invited"
                           /\ quit.join[q] = "left" => ~quit.active[q]
    BY <1>3, <1>5, <2>1 DEF Invited, LeftOut
  <2>. QED
    BY <1>7, <1>8, <2>2 DEF Members, Invited, LeftOut, Seated
<1>10. Plays(t, v)
  BY <1>8, <1>9 DEF Plays
<1>11. CASE \E d \in Payouts(t) : Book(r, d) /\ room' = [room EXCEPT ![r] = Ended(v, "game")]
  <2>1. PICK d \in Payouts(t) : Book(r, d) /\ room' = [room EXCEPT ![r] = Ended(v, "game")]
    BY <1>11
  <2>2. Pays(t, d)
    BY <1>3, PayoutBooks
  <2>. QED
    BY <1>1, <1>10, <2>1, <2>2, PaidStep DEF t
<1>13. CASE /\ MustEnd(gone) /\ Cardinality(Seated(gone)) > 1
            /\ room' = [room EXCEPT ![r] = Ended(v, "forfeit")] /\ Book(r, ForfeitDeltas(gone))
  <2> DEFINE d == ForfeitDeltas(gone)
  <2>1. Seated(gone) # {} /\ p \in Members(gone) /\ ~gone.active[p]
    <3>1. Cardinality({}) = 0
      BY FS_EmptySet
    <3>2. p \in Members(t)
      BY <1>1 DEF t, Seated, Members
    <3>. QED
      BY <1>5, <1>7, <1>9, <1>13, <3>1, <3>2
  <2>2. /\ Pays(gone, d)
        /\ gone.stake > 0 =>
             \A q \in Members(gone) : IF q \in Seated(gone) THEN d[q] > 0 ELSE d[q] < 0
    BY <1>7, <1>9, <2>1, ForfeitBooks
  <2>3. Book(r, d)
    BY <1>13
  <2> HIDE DEF d
  <2>4. Pays(t, d)
    BY <1>7, <1>9, <2>2 DEF Pays
  <2>5. Forfeited(v, d)
    BY <1>7, <1>8, <1>9, <1>13, <2>2 DEF Forfeited, MustEnd, OnlyNpcs
  <2>. QED
    BY <1>1, <1>10, <1>13, <2>3, <2>4, <2>5, PaidStep DEF t
<1>14. CASE /\ ~MustEnd(gone) /\ UNCHANGED money
            /\ \E next \in Seated(v) : room' = [room EXCEPT ![r] = [v EXCEPT !.current = next]]
  <2>1. PICK next \in Seated(v) : room' = [room EXCEPT ![r] = [v EXCEPT !.current = next]]
    BY <1>14
  <2> DEFINE u == [v EXCEPT !.current = next]
  <2>2. next \in Someone
    BY DEF Seated, Someone
  <2>3. /\ u \in Row /\ u.seat = v.seat /\ u.join = v.join /\ u.active = v.active
        /\ u.stake = v.stake /\ u.status = v.status /\ u.revision = v.revision
        /\ u.current = next
    BY <1>8, <2>2, RowIs
  <2>4. room' = [room EXCEPT ![r] = u]
    BY <2>1
  <2> HIDE DEF u
  <2>5. Seated(u) = Seated(v) /\ Plays(t, u)
    BY <1>10, <2>3 DEF Plays, Members, Invited, Seated, LeftOut
  <2>6. Seated(u) \cap Real # {}
    <3>1. Seated(v) # {} /\ ~(Seated(v) \subseteq Npcs)
      BY <1>9, <1>14, <2>1 DEF MustEnd, OnlyNpcs
    <3>. QED
      BY <2>5, <3>1, People DEF Seated
  <2>. QED
    BY <1>1, <1>8, <1>14, <2>3, <2>4, <2>5, <2>6, GoesOnStep DEF t
<1>. QED
  BY <1>2, <1>9, <1>11, <1>13, <1>14

-----------------------------------------------------------------------------
(* Retention and everything else.                                          *)

LEMMA RefreshStep ==
  ASSUME Inv, NEW r \in RoomIds, Refresh(r)
  PROVE  Step
<1>1. /\ CanArchive(room[r]) /\ UNCHANGED <<money, external, agreed>>
      /\ room' = [room EXCEPT ![r] = Maintained(room[r])]
  BY DEF Refresh
<1>2. RoomInv(room[r], paid[r], agreed[r])
  BY DEF Inv
<1>3. ASSUME room'[r] = Maintained(room[r]), agreed'[r] = agreed[r], paid'[r] = paid[r]
      PROVE  StepOK(r)
  BY <1>1, <1>2, <1>3, MaintainedStep
<1>. QED
  BY <1>1, <1>3, SameAgreed, OneRoom

LEMMA SetPreservedStep ==
  ASSUME Inv, NEW r \in RoomIds, NEW p \in Real, NEW preserved \in BOOLEAN,
         SetPreserved(r, p, preserved)
  PROVE  Step
<1> DEFINE t == room[r]
           m == Maintained(t)
           u == [m EXCEPT !.preserved = preserved]
<1>1. /\ CanArchive(t) /\ UNCHANGED <<money, external, agreed>>
      /\ m.status \in Terminal /\ room' = [room EXCEPT ![r] = u]
  BY DEF SetPreserved
<1>2. RoomInv(t, paid[r], agreed[r]) /\ Good(t) /\ t \in Row
  BY DEF Inv, RoomInv, Good
<1>3. /\ Good(m) /\ m \in Row
      /\ \/ m = t
         \/ m = Gone
         \/ m = Archived(t) /\ t.status \in {"waiting", "playing"}
  BY <1>1, <1>2, MaintainedGood DEF Good
<1>4. Gone.status \notin Terminal
  BY DEF Gone, Empty, Terminal
<1>5. m = t \/ (m = Archived(t) /\ t.status \in {"waiting", "playing"})
  BY <1>1, <1>3, <1>4
<1> HIDE DEF t, m
<1>6. /\ u \in Row /\ u.join = m.join /\ u.seat = m.seat /\ u.active = m.active
      /\ u.kind = m.kind /\ u.target = m.target /\ u.status = m.status
      /\ u.current = m.current /\ u.review = m.review /\ u.revision = m.revision
      /\ u.owner = m.owner /\ u.stake = m.stake /\ u.result = m.result
  BY <1>3, RowIs
<1> HIDE DEF u
<1>7. Good(u) /\ Members(u) = Members(m) /\ Seated(u) = Seated(m) /\ Seen(u) = Seen(m)
  <2>1. Good(u) /\ Members(u) = Members(m) /\ Seated(u) = Seated(m)
    BY <1>1, <1>3, <1>6, Quiet
  <2>. QED
    BY <1>6, <2>1 DEF Seen
<1>8. Consents(u, agreed[r])
  BY <1>1, <1>6 DEF Consents, Terminal, OpenStatus
<1>9. CASE m = t
  <2>1. Booked(u, paid[r], agreed[r])
    BY <1>2, <1>6, <1>7, <1>9 DEF RoomInv, Booked, Justified, Forfeited
  <2>2. ASSUME room'[r] = u, agreed'[r] = agreed[r], paid'[r] = paid[r] PROVE StepOK(r)
    BY <1>2, <1>7, <1>8, <1>9, <2>1, <2>2 DEF StepOK, RoomInv, Covers, Final, t
  <2>. QED
    BY <1>1, <2>2, SameAgreed, OneRoom
<1>10. CASE m = Archived(t) /\ t.status \in {"waiting", "playing"}
  <2>1. m.status = "archived" /\ m.revision > t.revision
    BY <1>2, <1>10, RowIs DEF Archived, Revisions
  <2>2. Booked(u, paid[r], agreed[r])
    BY <1>2, <1>6, <1>10, <2>1 DEF RoomInv, Booked
  <2>3. ASSUME room'[r] = u, agreed'[r] = agreed[r], paid'[r] = paid[r] PROVE StepOK(r)
    BY <1>2, <1>6, <1>7, <1>8, <1>10, <2>1, <2>2, <2>3
    DEF StepOK, RoomInv, Covers, Final, Terminal, t
  <2>. QED
    BY <1>1, <2>3, SameAgreed, OneRoom
<1>. QED
  BY <1>5, <1>9, <1>10

LEMMA DeleteTerminalStep ==
  ASSUME Inv, NEW r \in RoomIds, NEW p \in Real, DeleteTerminal(r, p)
  PROVE  Step
<1>1. Gone.status = "deleted"
  BY DEF Gone, Empty
<1>2. room' = [room EXCEPT ![r] = Gone] /\ UNCHANGED <<money, external, agreed>>
  BY DEF DeleteTerminal
<1>3. ASSUME room'[r] = Gone, agreed'[r] = agreed[r], paid'[r] = paid[r] PROVE StepOK(r)
  <2>1. Consents(Gone, agreed[r])
    BY <1>1 DEF Consents, OpenStatus
  <2>2. Booked(Gone, paid[r], agreed[r])
    BY <1>1 DEF Inv, RoomInv, Booked
  <2>3. Final(r)
    BY <1>1, <1>3 DEF Final
  <2>. QED
    BY <1>1, <1>3, <2>1, <2>2, <2>3, EmptyGood DEF Inv, RoomInv, StepOK, Covers
<1>. QED
  BY <1>2, <1>3, SameAgreed, OneRoom

LEMMA TickStep ==
  ASSUME Inv, Tick
  PROVE  Step
<1>1. /\ room' = [r \in RoomIds |->
            IF room[r].status \in {"free", "deleted"} \/ room[r].age = AgeCap THEN room[r]
            ELSE [room[r] EXCEPT !.age = @ + 1]]
      /\ UNCHANGED <<money, external, agreed>>
  BY DEF Tick
<1>2. paid' = paid /\ agreed' = agreed
  BY <1>1 DEF money
<1>3. ASSUME NEW r \in RoomIds PROVE StepOK(r)
  <2> DEFINE t == room[r]
             u == room'[r]
  <2>1. RoomInv(t, paid[r], agreed[r]) /\ t \in Row
    BY DEF Inv, RoomInv, Good
  <2>2. CASE u = t
    BY <1>2, <2>1, <2>2, Untouched
  <2>3. CASE t.age # AgeCap /\ u = [t EXCEPT !.age = t.age + 1]
    <3>1. t.age + 1 \in Ages
      BY <2>1, <2>3, Sizes, RowIs DEF Ages
    <3> HIDE DEF t
    <3>2. /\ u \in Row /\ u.join = t.join /\ u.seat = t.seat /\ u.active = t.active
          /\ u.kind = t.kind /\ u.target = t.target /\ u.status = t.status
          /\ u.current = t.current /\ u.review = t.review /\ u.stake = t.stake
          /\ u.owner = t.owner /\ u.result = t.result
      BY <2>1, <2>3, <3>1, RowIs
    <3> HIDE DEF u
    <3>3. Good(u) /\ Members(u) = Members(t) /\ Seated(u) = Seated(t) /\ Seen(u) = Seen(t)
      <4>1. Good(u) /\ Members(u) = Members(t) /\ Seated(u) = Seated(t)
        BY <2>1, <3>2, Quiet DEF RoomInv
      <4>. QED
        BY <3>2, <4>1 DEF Seen
    <3>4. Consents(u, agreed[r]) /\ Booked(u, paid[r], agreed[r])
      BY <2>1, <3>2, <3>3 DEF RoomInv, Consents, Booked, Justified, Forfeited
    <3>. QED
      BY <1>2, <2>1, <3>3, <3>4 DEF StepOK, RoomInv, Covers, Final, t, u
  <2>4. u = t \/ (t.age # AgeCap /\ u = [t EXCEPT !.age = t.age + 1])
    BY <1>1
  <2>. QED
    BY <2>2, <2>3, <2>4
<1>4. room' = [r \in RoomIds |-> room'[r]] /\ agreed' = [r \in RoomIds |-> agreed'[r]]
  BY <1>1, <1>2 DEF Inv, Shape
<1>. QED
  BY <1>1, <1>3, <1>4, NoMoney

LEMMA OtherChipsStep ==
  ASSUME Inv, NEW p \in Real, NEW d \in ExternalDeltas, OtherChips(p, d)
  PROVE  Step
<1>1. /\ UNCHANGED <<room, paid, agreed>> /\ d \in Int
      /\ balance' = [balance EXCEPT ![p] = balance[p] + d]
      /\ external' = [external EXCEPT ![p] = external[p] + d]
  BY RoomAssumption DEF OtherChips
<1>2. \A r \in RoomIds : StepOK(r)
  BY <1>1, Untouched DEF Inv
<1>3. Shape'
  <2>1. balance' \in [Real -> Int] /\ external' \in [Real -> Int]
    BY <1>1 DEF Inv, Shape
  <2>2. /\ room' = [x \in RoomIds |-> room'[x]] /\ paid' = [x \in RoomIds |-> paid'[x]]
        /\ agreed' = [x \in RoomIds |-> agreed'[x]]
    BY <1>1 DEF Inv, Shape
  <2>. QED
    BY <2>1, <2>2 DEF Shape
<1>4. Balanced'
  <2>1. SUFFICES ASSUME NEW q \in Real
                 PROVE  balance'[q] = InitialBalance + external'[q] + Total(PaidTo(q)', RoomIds)
    BY DEF Balanced
  <2>2. PaidTo(q)' = PaidTo(q)
    BY <1>1 DEF PaidTo
  <2> DEFINE total == Total(PaidTo(q), RoomIds)
  <2>3. total \in Int
    <3>1. \A x \in RoomIds : PaidTo(q)[x] \in Int
      BY People DEF Inv, RoomInv, Booked, PaidTo
    <3>. QED
      BY <3>1, RoomAssumption, TotalType
  <2>4. balance[q] = InitialBalance + external[q] + total
    BY DEF Inv, Balanced
  <2>5. /\ balance'[q] = IF q = p THEN balance[q] + d ELSE balance[q]
        /\ external'[q] = IF q = p THEN external[q] + d ELSE external[q]
        /\ balance[q] \in Int /\ external[q] \in Int /\ InitialBalance \in Int
    <3>1. InitialBalance \in Int
      BY RoomAssumption
    <3>2. balance \in [Real -> Int] /\ external \in [Real -> Int]
      BY DEF Inv, Shape
    <3>. QED
      BY <1>1, <3>1, <3>2
  <2> HIDE DEF total
  <2>6. balance'[q] = InitialBalance + external'[q] + total
    BY <1>1, <2>3, <2>4, <2>5
  <2>. QED
    BY <2>2, <2>6 DEF total
<1>. QED
  BY <1>2, <1>3, <1>4 DEF Step, Inv, StepOK

-----------------------------------------------------------------------------
(* The theorems.                                                           *)

LEMMA InitHolds == Init => Inv
<1>1. SUFFICES ASSUME Init PROVE Inv
  OBVIOUS
<1>2. \A r \in RoomIds : room[r] = Empty /\ paid[r] = Nothing /\ agreed[r] = {}
  BY <1>1 DEF Init
<1>3. \A p \in Players : Nothing[p] = 0
  BY DEF Nothing
<1>4. \A r \in RoomIds : RoomInv(room[r], paid[r], agreed[r])
  <2>1. Empty.status = "free" /\ Good(Empty) /\ Members(Empty) = {}
    BY EmptyGood DEF Empty
  <2>2. Nothing \in [Players -> Int] /\ Total(Nothing, Players) = 0
    BY <1>3, People, TotalZero DEF Nothing
  <2>. QED
    BY <1>2, <1>3, <2>1, <2>2, People DEF RoomInv, Consents, Booked, OpenStatus
<1>5. Shape
  BY <1>1, RoomAssumption DEF Init, Shape
<1>6. Balanced
  <2>1. SUFFICES ASSUME NEW p \in Real
                 PROVE  balance[p] = InitialBalance + external[p] + Total(PaidTo(p), RoomIds)
    BY DEF Balanced
  <2>2. \A r \in RoomIds : PaidTo(p)[r] = 0
    BY <1>2, <1>3, People DEF PaidTo
  <2>3. Total(PaidTo(p), RoomIds) = 0
    BY <2>2, RoomAssumption, TotalZero
  <2>4. balance[p] = InitialBalance /\ external[p] = 0 /\ InitialBalance \in Int
    BY <1>1, RoomAssumption DEF Init
  <2>. QED
    BY <2>3, <2>4
<1>. QED
  BY <1>4, <1>5, <1>6 DEF Inv

LEMMA RoomStepKeeps ==
  ASSUME Inv, NEW r \in RoomIds, RoomStep(r)
  PROVE  Step
<1>1. CASE \E roster \in Rosters, p \in Real, stake \in Stakes, confirm \in BOOLEAN :
             CreateRoom(r, roster, p, stake, confirm)
  BY <1>1, CreateRoomStep
<1>2. CASE \E p \in Real, own \in Households, target \in AllowedCounts,
              stake \in Stakes, ask \in BOOLEAN : CreateInvite(r, p, own, target, stake, ask)
  BY <1>2, CreateInviteStep
<1>3. CASE \E npcs \in SUBSET Npcs : StartInvite(r, npcs)
  BY <1>3, StartInviteStep
<1>4. ASSUME NEW p \in Real, AcceptInvitation(r, p) PROVE Step
  BY <1>4, AcceptStep
<1>5. ASSUME NEW p \in Real, RejectInvitation(r, p) PROVE Step
  BY <1>5, RejectStep
<1>6. ASSUME NEW p \in Real, JoinRoom(r, p) PROVE Step
  BY <1>6, JoinRoomStep
<1>7. ASSUME NEW p \in Real, JoinInvite(r, p) PROVE Step
  BY <1>7, JoinInviteStep
<1>8. ASSUME NEW p \in Real, LeaveLobby(r, p) PROVE Step
  BY <1>8, LeaveLobbyStep
<1>9. ASSUME NEW p \in Real, AcknowledgeRound(r, p) PROVE Step
  BY <1>9, AcknowledgeStep
<1>10. ASSUME NEW p \in Real, NEW leave \in BOOLEAN, Forfeit(r, p, leave) PROVE Step
  BY <1>10, ForfeitStep
<1>11. ASSUME NEW p \in Real, NEW preserved \in BOOLEAN, SetPreserved(r, p, preserved)
       PROVE  Step
  BY <1>11, SetPreservedStep
<1>12. ASSUME NEW p \in Real, DeleteTerminal(r, p) PROVE Step
  BY <1>12, DeleteTerminalStep
<1>13. ASSUME NEW p \in Players, PlayMove(r, p) PROVE Step
  BY <1>13, PlayMoveStep
<1>14. CASE Refresh(r)
  BY <1>14, RefreshStep
<1>. QED
  BY <1>1, <1>2, <1>3, <1>4, <1>5, <1>6, <1>7, <1>8, <1>9, <1>10, <1>11, <1>12, <1>13, <1>14
  DEF RoomStep

LEMMA StepKeeps == Inv /\ [Next]_vars => Step
<1>1. SUFFICES ASSUME Inv, [Next]_vars PROVE Step
  OBVIOUS
<1>2. CASE \E r \in RoomIds : RoomStep(r)
  BY <1>1, <1>2, RoomStepKeeps
<1>3. CASE Tick
  BY <1>1, <1>3, TickStep
<1>4. CASE \E p \in Real, d \in ExternalDeltas : OtherChips(p, d)
  BY <1>1, <1>4, OtherChipsStep
<1>5. CASE UNCHANGED vars
  <2>1. UNCHANGED <<room, money, paid, external, agreed>>
    BY <1>5 DEF vars, money
  <2>2. \A r \in RoomIds : StepOK(r)
    BY <1>1, <2>1, Untouched DEF Inv
  <2>3. room' = [x \in RoomIds |-> room'[x]] /\ agreed' = [x \in RoomIds |-> agreed'[x]]
    BY <1>1, <2>1 DEF Inv, Shape
  <2>. QED
    BY <1>1, <2>1, <2>2, <2>3, NoMoney
<1>. QED
  BY <1>1, <1>2, <1>3, <1>4, <1>5 DEF Next

LEMMA InvHolds == Spec => []Inv
<1>1. Inv /\ [Next]_vars => Inv'
  BY StepKeeps DEF Step
<1>. QED
  BY InitHolds, <1>1, PTL DEF Spec

\* In every reachable state every column of every room, wallet and history
\* keeps its type, whatever the players, the game and the clock do.
THEOREM TypeCorrect == Spec => []TypeOK
<1>1. Inv => TypeOK
  BY DEF Inv, Shape, RoomInv, Good, Booked, TypeOK
<1>. QED
  BY <1>1, InvHolds, PTL

\* Seats are never shared and a table that plays can always be played on: the
\* turn is held by somebody seated, or a review is open, and a real player sits.
THEOREM TablesPlayable == Spec => []PlayableTables
<1>1. Inv => PlayableTables
  BY DEF Inv, RoomInv, Good, PlayableTables
<1>. QED
  BY <1>1, InvHolds, PTL

\* Nobody plays for, wins or loses chips at a table he did not agree to.
THEOREM ConsentToStakes == Spec => []StakeConsent
<1>1. Inv => StakeConsent
  <2>1. SUFFICES ASSUME Inv, NEW r \in RoomIds
                 PROVE  /\ \A p \in Real : paid[r][p] # 0 => p \in agreed[r]
                        /\ room[r].status = "playing" /\ room[r].stake > 0
                             => Members(room[r]) \cap Real \subseteq agreed[r]
    BY DEF StakeConsent
  <2>2. \A p \in Real : paid[r][p] # 0 => p \in agreed[r]
    BY <2>1 DEF Inv, RoomInv, Booked
  <2>. QED
    BY <2>1, <2>2, PlayersAgreed
<1>. QED
  BY <1>1, InvHolds, PTL

\* The sum of the books of one player over all rooms is a total.
LEMMA SumOfBooks ==
  ASSUME NEW p, \A r \in RoomIds : paid[r][p] \in Int
  PROVE  MapThenSumSet(LAMBDA r : paid[r][p], RoomIds) = Total(PaidTo(p), RoomIds)
<1> DEFINE f == PaidTo(p)
           Def(g) == g = [s \in SUBSET RoomIds |->
                            IF s = {} THEN 0
                            ELSE paid[CHOOSE x \in s : TRUE][p] + g[s \ {CHOOSE x \in s : TRUE}]]
           it == CHOOSE g : Def(g)
<1>1. \A x \in RoomIds : f[x] = paid[x][p] /\ f[x] \in Int
  BY DEF PaidTo
<1>2. \A s \in SUBSET RoomIds : s # {} => f[Picked(s)] = paid[Picked(s)][p]
  <2>1. ASSUME NEW s \in SUBSET RoomIds, s # {} PROVE Picked(s) \in RoomIds
    <3>1. Picked(s) \in s
      BY <2>1 DEF Picked
    <3>. QED
      BY <3>1
  <2> HIDE DEF f
  <2>. QED
    BY <1>1, <2>1
<1>3. \A g : Def(g) <=> Sums(f, g, SUBSET RoomIds)
  <2>1. SUFFICES ASSUME NEW g PROVE Def(g) <=> Sums(f, g, SUBSET RoomIds)
    OBVIOUS
  <2> HIDE DEF f
  <2>2. [s \in SUBSET RoomIds |->
           IF s = {} THEN 0
           ELSE paid[CHOOSE x \in s : TRUE][p] + g[s \ {CHOOSE x \in s : TRUE}]]
        = [s \in SUBSET RoomIds |->
             IF s = {} THEN 0 ELSE f[Picked(s)] + g[s \ {Picked(s)}]]
    <3>1. ASSUME NEW s \in SUBSET RoomIds
          PROVE  (IF s = {} THEN 0 ELSE paid[Picked(s)][p] + g[s \ {Picked(s)}])
                 = (IF s = {} THEN 0 ELSE f[Picked(s)] + g[s \ {Picked(s)}])
      <4>1. CASE s = {}
        BY <4>1, Zenon
      <4>2. CASE s # {}
        <5>1. f[Picked(s)] = paid[Picked(s)][p]
          BY <1>2, <4>2
        <5>. QED
          BY <5>1, Zenon
      <4>. QED
        BY <4>1, <4>2, Zenon
    <3>2. [s \in SUBSET RoomIds |->
             IF s = {} THEN 0 ELSE paid[Picked(s)][p] + g[s \ {Picked(s)}]]
          = [s \in SUBSET RoomIds |->
               IF s = {} THEN 0 ELSE f[Picked(s)] + g[s \ {Picked(s)}]]
      BY <3>1, Zenon
    <3>. QED
      BY <3>2, Zenon DEF Picked
  <2>. QED
    BY <2>2, Zenon DEF Sums
<1>4. PICK h \in [SUBSET RoomIds -> Int] :
        Sums(f, h, SUBSET RoomIds) /\ Total(f, RoomIds) = h[RoomIds]
  BY <1>1, RoomAssumption, TotalIs
<1>5. \E g : Def(g)
  <2> HIDE DEF Def
  <2>. QED
    BY <1>3, <1>4
<1>6. Def(it)
  <2> HIDE DEF Def
  <2>. QED
    BY <1>5
<1>7. MapThenSumSet(LAMBDA r : paid[r][p], RoomIds) = it[RoomIds]
  BY DEF MapThenSumSet, MapThenFoldSet
<1>8. Sums(f, it, SUBSET RoomIds)
  <2> HIDE DEF Def
  <2>. QED
    BY <1>3, <1>6
<1> HIDE DEF f, it
<1>9. Solves(f, it, RoomIds) /\ Solves(f, h, RoomIds)
  BY <1>1, <1>4, <1>8, RoomAssumption, SumsTyped DEF Solves
<1>10. it[RoomIds] = h[RoomIds]
  BY <1>9, SumsAgree DEF Alike
<1>. QED
  BY <1>4, <1>7, <1>10 DEF f

\* Each wallet is explained by its start, by other subsystems and by ended
\* games, and these book for a stake, among their members, and a sum of zero
\* unless the game has a bank.
THEOREM BooksBalanced == Spec => []BooksBalance
<1>1. Inv => BooksBalance
  <2>1. SUFFICES ASSUME Inv PROVE BooksBalance
    OBVIOUS
  <2>2. \A p \in Real :
          balance[p] = InitialBalance + external[p]
                       + MapThenSumSet(LAMBDA r : paid[r][p], RoomIds)
    <3>1. SUFFICES ASSUME NEW p \in Real
                   PROVE  balance[p] = InitialBalance + external[p]
                                       + MapThenSumSet(LAMBDA r : paid[r][p], RoomIds)
      OBVIOUS
    <3>2. \A r \in RoomIds : paid[r][p] \in Int
      BY <2>1, People DEF Inv, RoomInv, Booked
    <3>3. MapThenSumSet(LAMBDA r : paid[r][p], RoomIds) = Total(PaidTo(p), RoomIds)
      BY <3>2, SumOfBooks
    <3>4. balance[p] = InitialBalance + external[p] + Total(PaidTo(p), RoomIds)
      BY <2>1 DEF Inv, Balanced
    <3>. QED
      BY <3>3, <3>4, Zenon
  <2>3. ASSUME NEW r \in RoomIds
        PROVE  /\ NonZeroSum \/ MapThenSumSet(LAMBDA p : paid[r][p], Players) = 0
               /\ paid[r] # Nothing => room[r].status \in {"finished", "deleted"}
               /\ room[r].status = "finished" =>
                    \A p \in Players :
                      paid[r][p] # 0 => room[r].stake > 0 /\ p \in Members(room[r])
    <3>1. Booked(room[r], paid[r], agreed[r])
      BY <2>1 DEF Inv, RoomInv
    <3>2. NonZeroSum \/ Total(paid[r], Players) = 0
      BY <3>1 DEF Booked
    <3>3. NonZeroSum \/ MapThenSumSet(LAMBDA p : paid[r][p], Players) = 0
      BY <3>2, Zenon DEF Total
    <3>. QED
      BY <3>1, <3>3 DEF Booked, Justified
  <2>. QED
    BY <2>2, <2>3, Zenon DEF BooksBalance
<1>. QED
  BY <1>1, InvHolds, PTL

\* A game the framework ends itself could not go on: with only NPCs left by an
\* elimination nobody pays, and otherwise who is out pays who is seated.
THEOREM FrameworkJudges == Spec => []FrameworkVerdict
<1>1. Inv => FrameworkVerdict
  <2>1. SUFFICES ASSUME Inv, NEW r \in RoomIds, room[r].status = "finished"
                 PROVE  Justified(room[r], paid[r])
    BY DEF FrameworkVerdict, Justified, Forfeited
  <2>. QED
    BY <2>1 DEF Inv, RoomInv, Booked
<1>. QED
  BY <1>1, InvHolds, PTL

\* A step that changes what a client sees of a room raises its revision.
THEOREM RevisionsCover == Spec => RevisionCoversChange
<1>1. Inv /\ [Next]_vars =>
        [\A r \in RoomIds :
           room[r].status # "free" /\ room'[r].status # "deleted"
             /\ Seen(room'[r]) # Seen(room[r])
           => room'[r].revision > room[r].revision]_vars
  BY StepKeeps DEF Step, Covers
<1>. QED
  BY <1>1, InvHolds, PTL DEF Spec, RevisionCoversChange

\* What has ended stays as it ended: its result, its books and its row, until
\* its retention is over or a human deletes it.
THEOREM TerminalsFinal == Spec => TerminalIsFinal
<1>1. Inv /\ [Next]_vars =>
        [\A r \in RoomIds :
           room[r].status \in Terminal =>
             /\ paid'[r] = paid[r]
             /\ \/ Seen(room'[r]) = Seen(room[r])
                \/ /\ room'[r].status = "deleted"
                   /\ \/ ~room[r].preserved /\ room[r].age >= Retention
                      \/ \E p \in Real : DeleteTerminal(r, p)]_vars
  BY StepKeeps DEF Step, Final
<1>. QED
  BY <1>1, InvHolds, PTL DEF Spec, TerminalIsFinal

=============================================================================
