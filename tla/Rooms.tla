------------------------------- MODULE Rooms -------------------------------
(***************************************************************************)
(* The life of a game room (app/framework.py) and of an invite-code room   *)
(* (app/invites.py), for every game plugin.                                *)
(*                                                                         *)
(* One function call is one SQLite write transaction, hence one action;    *)
(* the calls of several clients, the scheduler and the wait loop interleave*)
(* at that grain.  A call of framework.py first MAINTAINS its room (expires*)
(* an invitation, archives a stale room, deletes an old one), invites.py   *)
(* and the explicit deletion do not.  A refused call rolls its own         *)
(* maintenance back, so it is a disabled action.                           *)
(*                                                                         *)
(* The game is external: a plugin may eliminate somebody, name any seated  *)
(* successor, pause the table for a review, or end the game with any       *)
(* settlement the framework admits.  Messages,                             *)
(* notifications and achievements are written beside these columns and     *)
(* read by no guard here.                                                  *)
(***************************************************************************)
EXTENDS Integers, Sequences, FiniteSetsExt

CONSTANTS
  Humans, Machines, Npcs,  \* participant_kind
  RoomIds,
  Bindings,        \* pairs <<human, machine>> of bound accounts
  Rosters,         \* ordered_participants the routes may pass to create_room
  Households,      \* sets of own machines an invitation may seat
  Stakes,
  AllowedCounts,   \* accepts_player_count
  MayContinue,     \* accepts_active_count_after_resignation
  GameDeltas,      \* what a plugin may give to or take from one participant, if any
  NonZeroSum,      \* allows_non_zero_sum_settlement
  CustomPayout,    \* uses_custom_stake_settlement
  GlobalLimit,     \* GLOBAL_ACTIVE_ROOM_LIMIT
  PairLimit,       \* PAIR_ACTIVE_ROOM_LIMIT, also the cap of one owner
  NpcRounds,       \* NPC_UNATTENDED_ROUNDS
  MaxNpcActions,   \* MAX_NPC_ACTIONS_PER_TURN
  InviteLife,      \* INVITATION_EXPIRY_HOURS, in ticks
  StaleAge,        \* STALE_ROOM_DAYS, in ticks
  Retention,       \* TERMINAL_ROOM_RETENTION_DAYS, in ticks
  InitialBalance,  \* INITIAL_BALANCE
  ExternalDeltas,  \* what loans, the shop, a check-in do to a wallet
  MaxExternal,     \* bound: |what they do to one wallet in all|
  MaxRevision,     \* bound: revisions of one room
  Nobody           \* a NULL player id

Real == Humans \cup Machines
Players == Real \cup Npcs
AgeCap == Max({InviteLife, StaleAge + 1, Retention})

ASSUME RoomAssumption ==
  /\ IsFiniteSet(Players) /\ Nobody \notin Players /\ IsFiniteSet(RoomIds)
  /\ Humans \cap Machines = {} /\ Real \cap Npcs = {}
  /\ Bindings \subseteq Humans \X Machines
  /\ Rosters \subseteq Seq(Players)
  /\ \A s \in Rosters : \A i, j \in DOMAIN s : s[i] = s[j] => i = j
  /\ Households \subseteq SUBSET Machines
  /\ Stakes \subseteq Nat
  /\ AllowedCounts \subseteq Nat \ {0, 1} /\ AllowedCounts # {}
  /\ IsFiniteSet(AllowedCounts)
  /\ MayContinue \subseteq Nat \ {0}
  /\ GameDeltas \subseteq Int /\ NonZeroSum \in BOOLEAN /\ CustomPayout \in BOOLEAN
  /\ GlobalLimit \in Nat /\ PairLimit \in Nat
  /\ NpcRounds \in Nat /\ MaxNpcActions \in Nat
  /\ InviteLife \in Nat /\ StaleAge \in Nat /\ Retention \in Nat
  /\ InitialBalance \in Nat /\ ExternalDeltas \subseteq Int
  /\ MaxExternal \in Nat /\ MaxRevision \in Nat

VARIABLES
  room,      \* the rooms, room_participants and room_invites rows of an id
  balance,   \* chip_wallets.balance of each real player
  paid,      \* chip_settlement_batches: deltas booked for a room, NPCs' too
  external,  \* history: what other subsystems did to each wallet
  agreed     \* history: who has ever accepted, opened or joined the room

money == <<balance, paid>>
vars == <<room, balance, paid, external, agreed>>

----------------------------------------------------------------------------
(* Rows.  Ids are never used twice, so a deleted room keeps its status.    *)

OpenStatus == {"pending", "waiting", "playing"}
Terminal == {"finished", "archived"}
Statuses == {"free", "deleted"} \cup OpenStatus \cup Terminal

Row ==
  [status : Statuses, kind : {"table", "invite"}, stake : Nat,
   owner : Players \cup {Nobody}, target : Nat, household : Nat,
   seat : [Players -> Nat], join : [Players -> {"absent", "invited", "joined", "left"}],
   active : [Players -> BOOLEAN], current : Players \cup {Nobody},
   review : BOOLEAN, result : {"none", "game", "only_npcs", "forfeit"}, revision : 0..MaxRevision, age : 0..AgeCap,
   preserved : BOOLEAN, npcTurns : 0..(NpcRounds * Cardinality(Players)),
   npcActions : 0..MaxNpcActions]

Empty ==
  [status |-> "free", kind |-> "table", stake |-> 0, owner |-> Nobody,
   target |-> 0, household |-> 0, seat |-> [p \in Players |-> 0],
   join |-> [p \in Players |-> "absent"], active |-> [p \in Players |-> FALSE],
   current |-> Nobody, review |-> FALSE, result |-> "none", revision |-> 0, age |-> 0,
   preserved |-> FALSE, npcTurns |-> 0, npcActions |-> 0]

Gone == [Empty EXCEPT !.status = "deleted"]
Nothing == [p \in Players |-> 0]

Members(t) == {p \in Players : t.join[p] # "absent"}
Invited(t) == {p \in Players : t.join[p] = "invited"}
Seated(t) == {p \in Players : t.join[p] = "joined" /\ t.active[p]}

\* Mutant: a member who resigned still counts as present.
OnlyNpcsByMembership(t) == Members(t) # {} /\ Members(t) \subseteq Npcs

OnlyNpcs(t) == Seated(t) # {} /\ Seated(t) \subseteq Npcs

OpenRooms(rooms) == {r \in RoomIds : rooms[r].status \in OpenStatus}

LargestCount == Max(AllowedCounts)

----------------------------------------------------------------------------
(* Maintenance (_maintain_rooms), the first thing a framework call does.   *)

Expired(t) == t.status = "pending" /\ t.age >= InviteLife

\* Mutant: whatever is not an invitation and old is archived.
StaleAnyStatus(t) == t.status \in {"waiting", "playing", "finished"} /\ t.age > StaleAge

Stale(t) == t.status \in {"waiting", "playing"} /\ t.age > StaleAge
Retired(t) == t.status \in Terminal /\ ~t.preserved /\ t.age >= Retention

\* Mutant: the archive does not raise the revision.
ArchivedSilently(t) ==
  [t EXCEPT !.status = "archived", !.current = Nobody, !.age = 0]

\* A stale room ends as a draw; a draw books nothing.
Archived(t) ==
  [t EXCEPT !.status = "archived", !.current = Nobody, !.age = 0,
            !.revision = @ + 1]

Maintained(t) ==
  IF Expired(t) \/ Retired(t) THEN Gone
  ELSE IF Stale(t) THEN Archived(t) ELSE t

\* The room an accepted call works on needs no maintenance: after an
\* expiry or an archive every such call refuses.
Fresh(t) == Maintained(t) = t

CanArchive(t) == Stale(t) => t.revision < MaxRevision

----------------------------------------------------------------------------
(* Chips.                                                                  *)

\* Face values of the other open rooms the player sits in; an invitation
\* past its deadline no longer counts, maintained or not.
Committed(rooms, r, p) ==
  LET counts(x) ==
        /\ x # r /\ rooms[x].status \in OpenStatus /\ ~Expired(rooms[x])
        /\ \/ rooms[x].join[p] = "joined"
           \/ rooms[x].status = "playing" /\ p \in Members(rooms[x])
  IN MapThenSumSet(LAMBDA x : rooms[x].stake, {x \in RoomIds : counts(x)})

\* validate_stake_budget: only the initiator is checked, nothing is debited.
Affords(rooms, r, p, stake) ==
  stake > 0 =>
    /\ p \in Real
    /\ balance[p] > 0
    /\ stake <= balance[p] - Committed(rooms, r, p)

Sum(d) == MapThenSumSet(LAMBDA p : d[p], Players)

\* What a plugin may settle: every participant, nobody else, and a sum of
\* zero unless its game has a bank.  Without a stake nothing is booked.
Settlements(t) ==
  IF t.stake = 0 THEN {Nothing}
  ELSE {d \in [Players -> GameDeltas \cup {0}] :
          /\ \A p \in Players \ Members(t) : d[p] = 0
          /\ NonZeroSum \/ Sum(d) = 0}

\* The fixed payout of two players: a stake from one to the other, or none.
WinnerTakes(t, w) ==
  [p \in Players |->
     IF p = w THEN t.stake ELSE IF p \in Members(t) THEN -t.stake ELSE 0]

\* _attach_multiplayer_settlement: a game of two that has no settlement of
\* its own pays the winner, whoever it is, or is a draw.
Payouts(t) ==
  Settlements(t) \cup
    (IF CustomPayout \/ Cardinality(Members(t)) # 2 THEN {}
     ELSE {Nothing} \cup {WinnerTakes(t, w) : w \in Members(t)})

\* Mutant: a resigned player still seated by membership shares the win.
ForfeitDeltasByMembership(t) ==
  LET winners == {p \in Players : t.join[p] = "joined"}
      losers == {p \in Members(t) : ~t.active[p]}
  IN IF winners = {} \/ losers = {} THEN Nothing
     ELSE [p \in Players |->
             IF p \in winners THEN Cardinality(losers) * t.stake
             ELSE IF p \in Members(t) THEN -(Cardinality(winners) * t.stake)
             ELSE 0]

\* _generic_resignation_deltas: those out pay each of those still seated.
ForfeitDeltas(t) ==
  LET losers == {p \in Members(t) : ~t.active[p]}
  IN IF Seated(t) = {} \/ losers = {} THEN Nothing
     ELSE [p \in Players |->
             IF p \in Seated(t) THEN Cardinality(losers) * t.stake
             ELSE IF p \in Members(t) THEN -(Cardinality(Seated(t)) * t.stake)
             ELSE 0]

\* Mutant: every participant gets a wallet delta except those who left.
BookPresent(r, deltas) ==
  /\ paid' = [paid EXCEPT ![r] = deltas]
  /\ balance' = [p \in Real |->
                   IF room[r].join[p] = "left" THEN balance[p]
                   ELSE balance[p] + deltas[p]]

\* settle_duel_room: NPC deltas are logical, they have no wallet.
Book(r, deltas) ==
  /\ paid' = [paid EXCEPT ![r] = deltas]
  /\ balance' = [p \in Real |-> balance[p] + deltas[p]]

Ended(t, result) ==
  [t EXCEPT !.status = "finished", !.current = Nobody, !.review = FALSE, !.age = 0,
            !.result = result]

----------------------------------------------------------------------------
(* Opening a room.                                                         *)

\* The roster of a two-seat table of one human and one bound machine.
BoundPair(ms) ==
  /\ 2 \in AllowedCounts /\ Cardinality(ms) = 2
  /\ Cardinality(ms \cap Humans) = 1 /\ Cardinality(ms \cap Machines) = 1

PairRooms(rooms, ms) ==
  {r \in OpenRooms(rooms) :
     Members(rooms[r]) = ms /\ \A p \in ms : rooms[r].join[p] # "left"}

OwnRooms(rooms, p) == {r \in OpenRooms(rooms) : rooms[r].owner = p}

BelowGlobal(rooms) == Cardinality(OpenRooms(rooms)) < GlobalLimit

BelowPair(rooms, ms) ==
  BoundPair(ms) => Cardinality(PairRooms(rooms, ms)) < PairLimit

\* _room_can_start: right number of members, all joined and active.
CanStart(t) ==
  /\ t.kind = "table"
  /\ Cardinality(Members(t)) \in AllowedCounts
  /\ Seated(t) = Members(t)

\* Mutant: a full table starts whoever has not answered yet.
OpeningEager(t) ==
  IF t.kind = "table" /\ Cardinality(Members(t)) \in AllowedCounts THEN "playing"
  ELSE IF Invited(t) # {} THEN "pending" ELSE "waiting"

Opening(t) ==
  IF Invited(t) # {} THEN "pending" ELSE IF CanStart(t) THEN "playing" ELSE "waiting"

NewTable(roster, p, stake, confirm) ==
  LET ms == {roster[i] : i \in DOMAIN roster}
      t == [Empty EXCEPT
              !.stake = stake, !.owner = p,
              !.seat = [q \in Players |->
                          IF q \in ms THEN CHOOSE i \in DOMAIN roster : roster[i] = q ELSE 0],
              !.join = [q \in Players |->
                          IF q \notin ms THEN "absent"
                          ELSE IF confirm /\ q # p /\ q \notin Npcs THEN "invited"
                          ELSE "joined"],
              !.active = [q \in Players |-> q \in ms]]
  IN [t EXCEPT !.status = Opening(t)]

\* create_room maintains every room; stakes force a confirmation.
CreateRoom(r, roster, p, stake, confirm) ==
  LET ms == {roster[i] : i \in DOMAIN roster}
      kept == [x \in RoomIds |-> Maintained(room[x])]
  IN /\ room[r].status = "free"
     /\ p \in ms \cap Real
     /\ Len(roster) <= LargestCount
     /\ Len(roster) >= Min(AllowedCounts) => Len(roster) \in AllowedCounts
     /\ stake > 0 => confirm
     /\ \A x \in RoomIds : CanArchive(room[x])
     /\ BelowGlobal(kept)
     /\ Affords(kept, r, p, stake)
     /\ BelowPair(kept, ms)
     /\ ms \cap Humans = {} => Cardinality(OwnRooms(kept, p)) < PairLimit
     /\ \E first \in ms :
          room' = [kept EXCEPT ![r] =
                     [NewTable(roster, p, stake, confirm) EXCEPT !.current = first]]
     /\ agreed' = [agreed EXCEPT ![r] = {p}]
     /\ UNCHANGED <<money, external>>

\* create_invite: the owner, own machines, seats for outsiders.  Own
\* machines of a paid party table are asked for their consent first.
CreateInvite(r, p, own, target, stake, ask) ==
  LET ms == {p} \cup own
      asked == IF ask THEN own ELSE {}
  IN /\ room[r].status = "free"
     /\ p \in Real /\ p \notin own
     /\ own # {} => p \in Humans
     /\ target \in AllowedCounts /\ Cardinality(ms) < target
     /\ ask => stake > 0
     /\ BelowGlobal(room)
     /\ Affords(room, r, p, stake)
     /\ Cardinality(OwnRooms(room, p)) < PairLimit
     /\ \E order \in Bijection(own, 2..Cardinality(ms)) :
          room' = [room EXCEPT ![r] =
            [Empty EXCEPT
               !.status = IF asked # {} THEN "pending" ELSE "waiting",
               !.kind = "invite", !.stake = stake, !.owner = p,
               !.target = target, !.household = Cardinality(ms),
               !.seat = [q \in Players |->
                           IF q = p THEN 1 ELSE IF q \in own THEN order[q] ELSE 0],
               !.join = [q \in Players |->
                           IF q \in asked THEN "invited"
                           ELSE IF q \in ms THEN "joined" ELSE "absent"],
               !.active = [q \in Players |-> q \in ms]]]
     /\ agreed' = [agreed EXCEPT ![r] = ms \ asked]
     /\ UNCHANGED <<money, external>>

----------------------------------------------------------------------------
(* Before the game.                                                        *)

Revised(t) == [t EXCEPT !.revision = @ + 1]

\* respond_to_invitation("accept").
AcceptInvitation(r, p) ==
  LET t == room[r]
      in == [t EXCEPT !.join[p] = "joined"]
  IN /\ t.status = "pending" /\ Fresh(t)
     /\ p \in Invited(t)
     /\ t.revision < MaxRevision
     /\ Affords(room, r, t.owner, t.stake)
     /\ room' = [room EXCEPT ![r] = Revised([in EXCEPT !.status = Opening(in)])]
     /\ agreed' = [agreed EXCEPT ![r] = @ \cup {p}]
     /\ UNCHANGED <<money, external>>

\* respond_to_invitation("reject") cancels the room.
RejectInvitation(r, p) ==
  /\ room[r].status = "pending" /\ Fresh(room[r])
  /\ p \in Invited(room[r])
  /\ room' = [room EXCEPT ![r] = Gone]
  /\ UNCHANGED <<money, external, agreed>>

FreeSeat(t) == Min({s \in 1..LargestCount : \A p \in Members(t) : t.seat[p] # s})

\* join_room: the board is initialised again for the larger table.
JoinRoom(r, p) ==
  LET t == room[r]
      in == [t EXCEPT !.seat[p] = FreeSeat(t), !.join[p] = "joined", !.active[p] = TRUE]
  IN /\ t.kind = "table" /\ t.status \in {"waiting", "pending"} /\ Fresh(t)
     /\ p \in Real \ Members(t)
     /\ Cardinality(Members(t)) < LargestCount
     /\ t.revision < MaxRevision
     /\ Affords(room, r, t.owner, t.stake)
     /\ BelowPair(room, Members(in))
     /\ \E first \in Members(in) :
          room' = [room EXCEPT ![r] =
                     Revised([in EXCEPT !.status = Opening(in), !.current = first])]
     /\ agreed' = [agreed EXCEPT ![r] = @ \cup {p}]
     /\ UNCHANGED <<money, external>>

\* join_invite: only a waiting room is found by its code.
JoinInvite(r, p) ==
  LET t == room[r]
  IN /\ t.kind = "invite" /\ t.status = "waiting"
     /\ p \in Real \ Members(t)
     /\ Cardinality(Members(t)) < t.target
     /\ t.revision < MaxRevision
     /\ Affords(room, r, t.owner, t.stake)
     /\ room' = [room EXCEPT ![r] =
          Revised([t EXCEPT !.seat[p] = Cardinality(Members(t)) + 1,
                            !.join[p] = "joined", !.active[p] = TRUE])]
     /\ agreed' = [agreed EXCEPT ![r] = @ \cup {p}]
     /\ UNCHANGED <<money, external>>

\* start_invite: the owner, with an outsider, a full table (NPCs may fill
\* it) and seats drawn by lot.
StartInvite(r, npcs) ==
  LET t == room[r]
      ms == Members(t) \cup npcs
  IN /\ t.kind = "invite" /\ t.status = "waiting"
     /\ Invited(t) = {}
     /\ Cardinality(Members(t) \ Npcs) > t.household
     /\ Members(t) \cap npcs = {} /\ Cardinality(ms) = t.target
     /\ t.revision < MaxRevision
     /\ Affords(room, r, t.owner, t.stake)
     /\ \E order \in Bijection(ms, 1..t.target) : \E first \in ms :
          room' = [room EXCEPT ![r] =
            Revised([t EXCEPT
              !.status = "playing", !.current = first, !.age = 0,
              !.seat = [p \in Players |-> IF p \in ms THEN order[p] ELSE 0],
              !.join = [p \in Players |-> IF p \in npcs THEN "joined" ELSE t.join[p]],
              !.active = [p \in Players |-> p \in npcs \/ t.active[p]]])]
     /\ UNCHANGED <<money, external, agreed>>

Lowest(t, ms) == CHOOSE p \in ms : \A q \in ms : t.seat[p] <= t.seat[q]

Without(t, p) ==
  [t EXCEPT !.seat[p] = 0, !.join[p] = "absent", !.active[p] = FALSE]

\* leave_room before the game: a pending room and an invite room close, a
\* waiting table shrinks and its opener is chosen again.
LeaveLobby(r, p) ==
  LET t == room[r]
      out == Without(t, p)
  IN /\ t.status \in {"pending", "waiting"} /\ Fresh(t)
     /\ p \in Real \cap Members(t)
     /\ IF t.status = "pending" \/ t.kind = "invite" \/ Members(out) = {}
          THEN room' = [room EXCEPT ![r] = Gone]
          ELSE /\ t.revision < MaxRevision
               /\ \E first \in Members(out) :
                    room' = [room EXCEPT ![r] = Revised([out EXCEPT
                      !.current = first,
                      !.owner = IF @ = p THEN Lowest(out, Members(out)) ELSE @])]
     /\ UNCHANGED <<money, external, agreed>>

----------------------------------------------------------------------------
(* The game.                                                               *)

\* Mutant: the fuse burns one action too late.
NpcBudgetLate(t) ==
  /\ t.npcTurns < NpcRounds * Cardinality(Seated(t))
  /\ t.npcActions <= MaxNpcActions

NpcBudget(t) ==
  /\ t.npcTurns < NpcRounds * Cardinality(Seated(t))
  /\ t.npcActions < MaxNpcActions

Rested(t) == [t EXCEPT !.npcTurns = 0, !.npcActions = 0]

\* A real player's move restores the budget of unattended NPC play.
Counted(t, p, completed) ==
  IF p \notin Npcs THEN Rested(t)
  ELSE IF completed THEN [t EXCEPT !.npcTurns = @ + 1, !.npcActions = 0]
  ELSE [t EXCEPT !.npcActions = @ + 1]

\* What a plugin may answer to a move: whom it puts out, and whether it
\* goes on, pauses for a review, or ends.
Outcomes(t) ==
  [out : {{}} \cup {{q} : q \in Seated(t)}, does : {"next", "pause", "end"}]

Out(t, out) == [t EXCEPT !.active = [q \in Players |-> @[q] /\ q \notin out]]

\* play_move by the player whose turn it is.  A game that ends is paid as
\* its plugin settles it; when only NPCs would be left the framework ends
\* the game itself, and nobody pays.  An invite room or
\* a party table takes no review: its loser or confirmer is simply next.
PlayMove(r, p) ==
  LET t == room[r]
  IN /\ t.status = "playing" /\ Fresh(t)
     /\ t.current = p /\ t.active[p] /\ ~t.review
     /\ p \in Npcs => NpcBudget(t)
     /\ t.revision < MaxRevision
     /\ \E o \in Outcomes(t), completed \in BOOLEAN :
          LET left == Out(t, o.out)
              moved == Revised(Counted([left EXCEPT !.age = 0], p, completed))
          IN /\ Seated(left) # {}
             /\ \/ /\ o.does = "end"
                   /\ \E d \in Payouts(t) : Book(r, d)
                   /\ room' = [room EXCEPT ![r] = Ended(moved, "game")]
                \/ /\ o.does \in {"next", "pause"} /\ OnlyNpcs(left)
                   /\ room' = [room EXCEPT ![r] = Ended(moved, "only_npcs")]
                   /\ UNCHANGED money
                \/ /\ o.does = "next" /\ ~OnlyNpcs(left)
                   /\ \E next \in Seated(left) :
                        room' = [room EXCEPT ![r] = [moved EXCEPT !.current = next]]
                   /\ UNCHANGED money
                \/ /\ o.does = "pause" /\ t.kind = "table" /\ ~OnlyNpcs(left)
                   /\ room' = [room EXCEPT ![r] =
                                 [moved EXCEPT !.current = Nobody, !.review = TRUE]]
                   /\ UNCHANGED money
     /\ UNCHANGED <<external, agreed>>

\* acknowledge_liars_dice_round: any human of the roster, still seated or
\* not, starts the next round.
AcknowledgeRound(r, p) ==
  LET t == room[r]
  IN /\ t.status = "playing" /\ Fresh(t)
     /\ t.review /\ p \in Humans \cap Members(t)
     /\ t.revision < MaxRevision
     /\ \E next \in Seated(t) :
          room' = [room EXCEPT ![r] = Revised(Rested(
                     [t EXCEPT !.review = FALSE, !.current = next, !.age = 0]))]
     /\ UNCHANGED <<money, external, agreed>>

MustEnd(t) == Cardinality(Seated(t)) \notin MayContinue \/ OnlyNpcs(t)

\* _forfeit_active_participant, for resign and for leave_room.  The plugin
\* may end the game and settle it, also to the gain of who left; it settles
\* the win of a last player, too.  Otherwise, at a table that cannot go on,
\* those out pay those still seated.
Forfeit(r, p, leave) ==
  LET t == room[r]
      gone == Rested([t EXCEPT !.active[p] = FALSE,
                               !.join[p] = IF leave THEN "left" ELSE @])
  IN /\ t.status = "playing" /\ Fresh(t)
     /\ p \in Real \cap Seated(t)
     /\ t.revision < MaxRevision
     /\ \/ /\ \E d \in Payouts(t) : Book(r, d)
           /\ room' = [room EXCEPT ![r] = Ended(Revised(gone), "game")]
        \/ /\ MustEnd(gone) /\ Cardinality(Seated(gone)) > 1
           /\ Book(r, ForfeitDeltas(gone))
           /\ room' = [room EXCEPT ![r] = Ended(Revised(gone), "forfeit")]
        \/ /\ ~MustEnd(gone)
           /\ \E next \in Seated(gone) :
                room' = [room EXCEPT ![r] = [Revised(gone) EXCEPT !.current = next]]
           /\ UNCHANGED money
     /\ UNCHANGED <<external, agreed>>

----------------------------------------------------------------------------
(* Retention and everything else.                                          *)

\* get_room, post_message, a repeated join, a repeated leave: the
\* maintenance is what they commit.
Refresh(r) ==
  /\ ~Fresh(room[r]) /\ CanArchive(room[r])
  /\ room' = [room EXCEPT ![r] = Maintained(@)]
  /\ UNCHANGED <<money, external, agreed>>

HumanMember(t, p) == p \in Humans /\ t.join[p] \in {"invited", "joined"}

\* A human of no seat watches through a bound machine that has one.
Spectator(t, p) ==
  /\ p \in Humans \ Members(t)
  /\ \E m \in Machines : <<p, m>> \in Bindings /\ t.join[m] \in {"invited", "joined"}

\* set_room_preserved; the maintenance comes after the authorisation and
\* may archive the room in the same call, but not for a spectator.
SetPreserved(r, p, preserved) ==
  LET t == Maintained(room[r])
  IN /\ \/ HumanMember(room[r], p)
        \/ Spectator(room[r], p) /\ room[r].status \in Terminal
     /\ CanArchive(room[r])
     /\ t.status \in Terminal
     /\ room' = [room EXCEPT ![r] = [t EXCEPT !.preserved = preserved]]
     /\ UNCHANGED <<money, external, agreed>>

\* delete_terminal_room judges the stored status, without maintenance.
DeleteTerminal(r, p) ==
  /\ HumanMember(room[r], p) \/ Spectator(room[r], p)
  /\ room[r].status \in Terminal
  /\ room' = [room EXCEPT ![r] = Gone]
  /\ UNCHANGED <<money, external, agreed>>

\* Time passes for every stored room.
Tick ==
  /\ \E r \in RoomIds : room[r].status \notin {"free", "deleted"} /\ room[r].age < AgeCap
  /\ room' = [r \in RoomIds |->
       IF room[r].status \in {"free", "deleted"} \/ room[r].age = AgeCap THEN room[r]
       ELSE [room[r] EXCEPT !.age = @ + 1]]
  /\ UNCHANGED <<money, external, agreed>>

\* Loans, gifts, check-ins and the shop use the same wallets.
OtherChips(p, d) ==
  /\ external[p] + d \in -MaxExternal..MaxExternal
  /\ balance' = [balance EXCEPT ![p] = @ + d]
  /\ external' = [external EXCEPT ![p] = @ + d]
  /\ UNCHANGED <<room, paid, agreed>>

Init ==
  /\ room = [r \in RoomIds |-> Empty]
  /\ balance = [p \in Real |-> InitialBalance]
  /\ paid = [r \in RoomIds |-> Nothing]
  /\ external = [p \in Real |-> 0]
  /\ agreed = [r \in RoomIds |-> {}]

RoomStep(r) ==
  \/ \E roster \in Rosters, p \in Real, stake \in Stakes, confirm \in BOOLEAN :
       CreateRoom(r, roster, p, stake, confirm)
  \/ \E p \in Real, own \in Households, target \in AllowedCounts,
        stake \in Stakes, ask \in BOOLEAN : CreateInvite(r, p, own, target, stake, ask)
  \/ \E npcs \in SUBSET Npcs : StartInvite(r, npcs)
  \/ \E p \in Real : \/ AcceptInvitation(r, p)
                     \/ RejectInvitation(r, p)
                     \/ JoinRoom(r, p)
                     \/ JoinInvite(r, p)
                     \/ LeaveLobby(r, p)
                     \/ AcknowledgeRound(r, p)
                     \/ \E leave \in BOOLEAN : Forfeit(r, p, leave)
                     \/ \E preserved \in BOOLEAN : SetPreserved(r, p, preserved)
                     \/ DeleteTerminal(r, p)
  \/ \E p \in Players : PlayMove(r, p)
  \/ Refresh(r)

Next ==
  \/ \E r \in RoomIds : RoomStep(r)
  \/ Tick
  \/ \E p \in Real, d \in ExternalDeltas : OtherChips(p, d)

Spec == Init /\ [][Next]_vars

----------------------------------------------------------------------------
(* Properties.                                                             *)

\* Types: every column of every row keeps its type, and the history its.
TypeOK ==
  /\ room \in [RoomIds -> Row]
  /\ balance \in [Real -> Int]
  /\ paid \in [RoomIds -> [Players -> Int]]
  /\ external \in [Real -> Int]
  /\ agreed \in [RoomIds -> SUBSET Real]

\* Two members never share a seat, however members came, left a waiting
\* table or were shuffled; a non-member has none.
SeatsDistinct(t) ==
  /\ \A p, q \in Members(t) : t.seat[p] = t.seat[q] => p = q
  /\ \A p \in Players : (p \in Members(t)) = (t.seat[p] \in 1..LargestCount)

\* A playing table can always be played or reviewed: it has a real player
\* seated (README: an NPC-only remainder ends), it has no open invitation,
\* and whoever holds the turn is seated; nobody holds it only in a review.
Playable(t) ==
  t.status = "playing" =>
    /\ Seated(t) \cap Real # {}
    /\ Invited(t) = {}
    /\ t.current \in Seated(t) \/ (t.current = Nobody /\ t.review)

\* Every table has distinct seats, and one that plays can go on.
PlayableTables == \A r \in RoomIds : SeatsDistinct(room[r]) /\ Playable(room[r])

\* Nobody plays for, wins or loses chips in a room he did not open, join
\* or accept himself, whatever the order of answers, joins and departures.
StakeConsent ==
  \A r \in RoomIds :
    /\ \A p \in Real : paid[r][p] # 0 => p \in agreed[r]
    /\ room[r].status = "playing" /\ room[r].stake > 0
         => Members(room[r]) \cap Real \subseteq agreed[r]

\* A wallet, below zero or not, holds what it started with, what other
\* subsystems did to it and what ended rooms booked.  A room books only when
\* it ends, only for a stake and among its members, and what some lose others
\* win, unless the game has a bank (base.py:59-61).
BooksBalance ==
  /\ \A p \in Real :
       balance[p] = InitialBalance + external[p]
                    + MapThenSumSet(LAMBDA r : paid[r][p], RoomIds)
  /\ \A r \in RoomIds :
       /\ NonZeroSum \/ MapThenSumSet(LAMBDA p : paid[r][p], Players) = 0
       /\ paid[r] # Nothing => room[r].status \in {"finished", "deleted"}
       /\ room[r].status = "finished" =>
            \A p \in Players : paid[r][p] # 0 => room[r].stake > 0 /\ p \in Members(room[r])

\* A game the framework ends itself could not go on.  If an elimination left
\* only NPCs nobody pays; after a resignation or a departure whoever is out,
\* however he got out, pays, and whoever is still seated wins.
FrameworkVerdict ==
  \A r \in RoomIds :
    LET t == room[r]
    IN t.status = "finished" =>
         /\ t.result = "only_npcs" => paid[r] = Nothing /\ Seated(t) \subseteq Npcs
         /\ t.result = "forfeit" =>
              /\ Cardinality(Seated(t)) \notin MayContinue \/ Seated(t) \subseteq Npcs
              /\ t.stake > 0 =>
                   \A p \in Members(t) :
                     IF p \in Seated(t) THEN paid[r][p] > 0 ELSE paid[r][p] < 0

\* What a client with an old revision could miss: every change of the
\* roster, the turn or the status of a stored room raises its revision.
Seen(t) == <<t.status, t.join, t.active, t.seat, t.current, t.review, t.owner>>

RevisionCoversChange ==
  [][\A r \in RoomIds :
       room[r].status # "free" /\ room'[r].status # "deleted"
         /\ Seen(room'[r]) # Seen(room[r])
       => room'[r].revision > room[r].revision]_vars

\* A finished or archived game is never reopened, replayed or rebooked, and
\* one marked as preserved disappears only when a human deletes it.
TerminalIsFinal ==
  [][\A r \in RoomIds :
       room[r].status \in Terminal =>
         /\ paid'[r] = paid[r]
         /\ \/ Seen(room'[r]) = Seen(room[r])
            \/ /\ room'[r].status = "deleted"
               /\ \/ ~room[r].preserved /\ room[r].age >= Retention
                  \/ \E p \in Real : DeleteTerminal(r, p)]_vars

\* One human and one machine never have more two-seat tables open between
\* them than the limit (README:439), opened so or grown so by a join.
PairLimitKept ==
  \A h \in Humans, m \in Machines :
    2 \in AllowedCounts =>
      Cardinality({r \in PairRooms(room, {h, m}) : room[r].kind = "table"})
        <= PairLimit

\* README:255 lets an authenticated human confirm a review, and
\* docs/MCP_GUIDE.md:20-24 lets real machines play a table by themselves:
\* then every review has somebody who can end it.
ReviewAnswerable ==
  \A r \in RoomIds :
    room[r].status = "playing" /\ room[r].review => Members(room[r]) \cap Humans # {}

=============================================================================
