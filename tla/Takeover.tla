------------------------------ MODULE Takeover ------------------------------
(***************************************************************************)
(* Timeout takeover of an invitation room (app/takeover.py): a turn that   *)
(* stands too long is played once for its player while somebody is there.  *)
(* The sweep of every second, the decision that takes its time, and the    *)
(* commit race with the players, who may also reclaim the turn.            *)
(***************************************************************************)
EXTENDS Integers, FiniteSets

CONSTANTS
  Players,      \* participants that are no system NPCs, at the start
  Npc,          \* the seat of a system NPC
  Limit,        \* timeout_takeover_seconds
  MaxTime,      \* bound: the clock
  MaxRevision   \* bound: revisions of the room

VARIABLES
  bets,      \* whether the game of the room accepts bets out of turn
  now, revision, actor, present, updated,
  turnRevision, turnStarted, reclaimed,  \* columns of room_invites
  seen,      \* seen[p]: updated_at of the cursor of p
  worker,    \* the turn a worker decides on
  began,     \* when the actor got this turn
  assists,   \* turns played for players since one of them did anything
  kept       \* the revision at which the actor reclaimed its turn

columns == <<turnRevision, turnStarted, reclaimed>>
vars == <<bets, now, revision, actor, present, updated, columns, seen, worker, began, assists, kept>>

None == -1
Over == "over"    \* whose turn it is once the game is finished
NoWork == [stage |-> "none", revision |-> None]

\* has_live_room_participant: somebody acted or asked within one timeout.
Live(player) == seen[player] > now - Limit
SomebodyLive == \E p \in present : Live(p)

\* Mutant: a turn is due one second early.
EagerlyDue ==
  /\ actor \in present
  /\ reclaimed # revision /\ turnRevision = revision
  /\ now - turnStarted >= Limit - 1
  /\ SomebodyLive

\* Mutant: the clock of the turn is not looked at.
DueAtOnce ==
  /\ actor \in present
  /\ reclaimed # revision /\ turnRevision = revision
  /\ SomebodyLive

\* is_due.
IsDue ==
  /\ actor \in present
  /\ reclaimed # revision /\ turnRevision = revision
  /\ now - turnStarted >= Limit
  /\ SomebodyLive

Touch(p) == seen' = [seen EXCEPT ![p] = now] /\ assists' = 0

Advance == revision < MaxRevision /\ revision' = revision + 1 /\ updated' = now

\* play_move gives the turn on, leaves it where it is or ends the game: in
\* each case the clock starts again.
TurnPasses(to) ==
  /\ Advance /\ actor' = to
  /\ turnRevision' = revision + 1 /\ turnStarted' = now /\ reclaimed' = None
  /\ began' = now /\ kept' = None

Seats == present \cup {Npc, Over}

\* The player moves, by itself or answering late.
Move(to) ==
  /\ actor \in present /\ to \in Seats
  /\ TurnPasses(to) /\ Touch(actor)
  /\ UNCHANGED <<bets, now, present, worker>>

NpcMove(to) ==
  /\ actor = Npc /\ to \in Seats
  /\ TurnPasses(to)
  /\ UNCHANGED <<bets, now, present, seen, worker, assists>>

\* A bet of somebody else: the turn and its clock stay, the revision moves.
Side(p) ==
  /\ bets /\ actor # Over /\ p \in present \ {actor}
  /\ Advance /\ Touch(p) /\ turnRevision' = revision + 1
  /\ UNCHANGED <<bets, now, actor, present, turnStarted, reclaimed, worker, began, kept>>

\* Somebody resigns, which may end the game: the revision moves, the columns
\* of the turn do not.
Resign(p) ==
  /\ actor # Over /\ p \in present /\ present \ {p} # {}
  /\ Advance /\ present' = present \ {p} /\ assists' = 0
  /\ \/ p # actor /\ UNCHANGED <<actor, began, kept>>
     \/ /\ actor' \in IF p = actor THEN present' \cup {Npc, Over} ELSE {Over}
        /\ began' = now /\ kept' = None
  /\ UNCHANGED <<bets, now, columns, seen, worker>>

\* invites.reclaim.
Reclaim(p) ==
  /\ p \in present
  /\ Touch(p) /\ reclaimed' = revision
  /\ kept' = IF p = actor THEN revision ELSE kept
  /\ UNCHANGED <<bets, now, revision, actor, present, updated, turnRevision, turnStarted, worker, began>>

\* Reading the state, waiting or speaking shows that a player is there.
Ask(p) ==
  /\ p \in present /\ Touch(p)
  /\ UNCHANGED <<bets, now, revision, actor, present, updated, columns, worker, began, kept>>

SyncedColumns ==
  IF turnRevision # revision
  THEN [revision |-> revision, started |-> updated, reclaimed |-> None]
  ELSE [revision |-> turnRevision, started |-> turnStarted, reclaimed |-> reclaimed]

\* The sweep: the clock follows a revision it missed, then a worker starts.
Sweep ==
  /\ turnRevision' = SyncedColumns.revision
  /\ turnStarted' = SyncedColumns.started
  /\ reclaimed' = SyncedColumns.reclaimed
  /\ UNCHANGED <<bets, now, revision, actor, present, updated, seen, began, assists, kept>>
  /\ worker' = IF worker = NoWork /\ IsDue' THEN [NoWork EXCEPT !.stage = "started"] ELSE worker

\* The worker reads the room again and asks the provider.
Decide ==
  /\ worker.stage = "started"
  /\ worker' = IF IsDue THEN [stage |-> "deciding", revision |-> revision] ELSE NoWork
  /\ UNCHANGED <<bets, now, revision, actor, present, updated, columns, seen, began, assists, kept>>

\* The revision, the presence and the mark are checked where it commits.
StillItsTurn == worker.revision = revision /\ SomebodyLive /\ reclaimed # revision

\* play_move(takeover): the move is committed or loses the race.
Play(to) ==
  /\ worker.stage = "deciding" /\ worker' = NoWork
  /\ StillItsTurn /\ to \in Seats
  /\ TurnPasses(to) /\ assists' = assists + 1
  /\ UNCHANGED <<bets, now, present, seen>>
Lose ==
  /\ worker.stage = "deciding" /\ worker' = NoWork
  /\ ~StillItsTurn
  /\ UNCHANGED <<bets, now, revision, actor, present, updated, columns, seen, began, assists, kept>>

\* A tick is longer than the second between two sweeps.
Tick ==
  /\ turnRevision = revision
  /\ now < MaxTime /\ now' = now + 1
  /\ UNCHANGED <<bets, revision, actor, present, updated, columns, seen, worker, began, assists, kept>>

\* A stopped process forgets its worker.
Restart ==
  /\ worker # NoWork /\ worker' = NoWork
  /\ UNCHANGED <<bets, now, revision, actor, present, updated, columns, seen, began, assists, kept>>

\* start_invite: the owner is there, the others joined now or long ago.
Init ==
  /\ bets \in BOOLEAN
  /\ now = 0 /\ revision = 0 /\ updated = 0
  /\ actor \in Players \cup {Npc} /\ present = Players
  /\ turnRevision = 0 /\ turnStarted = 0 /\ reclaimed = None
  /\ seen \in [Players -> {0, -Limit}] /\ \E owner \in Players : seen[owner] = 0
  /\ worker = NoWork /\ began = 0 /\ assists = 0 /\ kept = None

Next ==
  \/ \E to \in Players \cup {Npc, Over} : Move(to) \/ NpcMove(to) \/ Play(to)
  \/ \E p \in Players : Side(p) \/ Resign(p) \/ Reclaim(p) \/ Ask(p)
  \/ Sweep \/ Decide \/ Lose \/ Tick \/ Restart

Spec == Init /\ [][Next]_vars

----------------------------------------------------------------------------
(* Properties.                                                             *)

\* After the clients stop, at most one turn more is played for them
\* (framework.py:1183-1189).
OneAssistUnwatched == assists <= 1

\* A turn that is played for its player has stood for the whole timeout in
\* that player's hands, whatever moved the revision or the clock meanwhile.
\* (A bet that comes between a resignation and the next sweep hands the new
\* actor the old one's clock, so games with bets are left out.)
OverdueTaken == assists' = assists + 1 /\ ~bets => now - began >= Limit /\ actor \in present
OnlyOverdueTaken == [][OverdueTaken]_vars

\* A player who took the turn back keeps it as long as the revision stands
\* (invites.py:273 "Protect this revision from in-flight/overdue work.").
ReclaimProtects == [][assists' = assists + 1 => kept # revision]_vars
=============================================================================
