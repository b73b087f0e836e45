-------------------------------- MODULE Npc --------------------------------
(***************************************************************************)
(* The turns of one system NPC in one room: decision tickets and speech    *)
(* debts (app/npc_runtime.py), one decision and its move                   *)
(* (app/npc_controller.py), and the scheduler of each server process       *)
(* (app/npc_scheduler.py, app/main.py).                                    *)
(*                                                                         *)
(* A worker is a server process: its event loop holds at most one task for *)
(* the room, the flag that asks for another pass, one retry timer and the  *)
(* speech tasks in flight; it loses all of them when it stops.  The room,  *)
(* the tickets and the speech state are rows of the shared database, and   *)
(* every transaction is one step, so another process may act between any   *)
(* two of them.  The registry lock is never held across an await, so each  *)
(* of its critical sections is part of one step.                           *)
(*                                                                         *)
(* The provider and the game are external: an answer arrives with any      *)
(* action and with or without a message, and the plugin names whoever has  *)
(* the next turn.                                                          *)
(***************************************************************************)
EXTENDS Integers, Sequences, FiniteSets

CONSTANTS
  Workers,          \* server processes
  Npc,              \* the system NPC
  Real,             \* the other participants
  Over,             \* the turn of a game that has ended
  Actions,          \* legal actions of a turn
  NoAction,         \* no decision yet
  SpeakAfter,       \* silent full turns after which the NPC owes a word
  UnattendedLimit,  \* unattended_turn_limit
  MaxActions,       \* MAX_NPC_ACTIONS_PER_TURN
  MaxRevision,      \* bound: revisions of the room
  MaxStops,         \* bound: processes killed or shut down
  MaxFumbles        \* bound: exceptions of a plugin

Revisions == 0..MaxRevision
Actors == Real \cup {Npc}

ASSUME NpcAssumption ==
  /\ Npc \notin Real /\ Over \notin Actors
  /\ NoAction \notin Actions
  /\ SpeakAfter \in Nat /\ UnattendedLimit \in Nat /\ MaxActions \in Nat
  /\ MaxRevision \in Nat /\ MaxStops \in Nat /\ MaxFumbles \in Nat

VARIABLES
  turns,       \* turns[r + 1]: current_player_id at revision r, Over at the end
  played,      \* history: what the NPC played at each revision
  said,        \* revision_at_send of the NPC's messages
  unattended, burst,  \* npc_unattended_turns, npc_turn_actions
  ticket,      \* npc_decisions, by revision
  speech,      \* the npc_speech_states row
  pc,          \* what the task of each worker does next
  seen,        \* the revision _drain_room read
  snap,        \* the revision of the room run_current_npc_turn holds
  answer,      \* the decision in hand
  again,       \* _requested_again
  retry,       \* _retry_tasks
  due,         \* a route has changed the room and still has to schedule
  claims,      \* speech tasks in flight, <<worker, completion revision>>
  stops, fumbles,
  asked, failed,  \* history: decisions asked of a provider, tickets failed
  counted,     \* history: the full turns counted, and whether the NPC spoke
  spoken       \* history: claims whose speech was posted

room == <<turns, played, said, unattended, burst>>
task == <<pc, seen, snap, answer, again, retry, due>>
talk == <<speech, claims, counted, spoken>>
history == <<asked, failed>>
bounds == <<stops, fumbles>>
vars == <<room, ticket, task, talk, history, bounds>>

Now == Len(turns) - 1
Owner(r) == turns[r + 1]
NpcTurn == Owner(Now) = Npc
Exhausted == unattended >= UnattendedLimit \/ burst >= MaxActions

Decision == [action : Actions \cup {NoAction}, voice : BOOLEAN]
Silent(a) == [action |-> a, voice |-> FALSE]
Ticket == [status : {"none", "reserved", "completed", "failed"},
           decision : Decision, fresh : BOOLEAN]
Speech == [silent : Nat, pending : BOOLEAN, start : {-1} \cup Revisions,
           last : {-1} \cup Revisions, attempt : {-1} \cup Revisions,
           status : {"none", "reserved", "superseded", "sent", "failed"},
           fresh : BOOLEAN]
Places == {"down", "idle", "check", "delay", "begin", "reserve", "ask",
           "settle", "reread", "play", "latest", "finish", "refused"}

Goto(w, from, to) == pc[w] = from /\ pc' = [pc EXCEPT ![w] = to]
Put(w, f, x) == [f EXCEPT ![w] = x]

\* The locals of a pass die with it.
Forget(w) ==
  /\ seen' = Put(w, seen, 0) /\ snap' = Put(w, snap, 0)
  /\ answer' = Put(w, answer, Silent(NoAction))

----------------------------------------------------------------------------
(* Scheduling.                                                             *)

\* schedule: a new task, or a note for the running one.
Schedule(w) ==
  /\ pc[w] # "down"
  /\ pc' = IF pc[w] = "idle" THEN Put(w, pc, "check") ELSE pc
  /\ again' = IF pc[w] = "idle" THEN again ELSE Put(w, again, TRUE)

\* A pass in progress elsewhere waits for its lease, whatever was asked of
\* this worker meanwhile.
Restarts(w, outcome) == again[w] /\ outcome # "in_progress"

\* The end of _run_room: the slot is freed, the retry armed or cancelled, and
\* the pass that was asked for meanwhile begun.
EndTask(w, outcome) ==
  /\ pc' = Put(w, pc, IF Restarts(w, outcome) THEN "check" ELSE "idle")
  /\ again' = Put(w, again, FALSE)
  /\ retry' = CASE outcome = "in_progress" -> Put(w, retry, TRUE)
                [] outcome \in {"idle", "limit"} -> Put(w, retry, FALSE)
                [] OTHER -> retry
  /\ Forget(w)

\* start: every room whose turn is an NPC's is enqueued.
Start(w) ==
  /\ Goto(w, "down", IF NpcTurn THEN "check" ELSE "idle")
  /\ UNCHANGED <<room, ticket, seen, snap, answer, again, retry, due, talk, history, bounds>>

\* _schedule_current_system_npc after the change this route made.
RouteSchedules(w) ==
  /\ due[w] /\ due' = Put(w, due, FALSE)
  /\ Schedule(w)
  /\ UNCHANGED <<room, ticket, seen, snap, answer, retry, talk, history, bounds>>

\* The status poll of a client.
Poll(w) ==
  /\ NpcTurn /\ Schedule(w)
  /\ UNCHANGED <<room, ticket, seen, snap, answer, retry, due, talk, history, bounds>>

\* _retry_after_lease.
RetryFires(w) ==
  /\ retry[w] /\ retry' = Put(w, retry, FALSE)
  /\ Schedule(w)
  /\ UNCHANGED <<room, ticket, seen, snap, answer, due, talk, history, bounds>>

----------------------------------------------------------------------------
(* One pass of _drain_room.                                                *)

Check(w) ==
  /\ pc[w] = "check"
  /\ \/ ~NpcTurn /\ EndTask(w, "idle")
     \/ NpcTurn /\ Exhausted /\ EndTask(w, "limit")
     \/ /\ NpcTurn /\ ~Exhausted
        /\ Goto(w, "check", "delay")
        /\ seen' = Put(w, seen, Now)
        /\ UNCHANGED <<snap, answer, again, retry>>
  /\ UNCHANGED <<room, ticket, due, talk, history, bounds>>

\* After the visible delay the controller reads the room again.
Load(w) ==
  /\ Goto(w, "delay", IF NpcTurn THEN "begin" ELSE "refused")
  /\ snap' = IF NpcTurn THEN Put(w, snap, Now) ELSE snap
  /\ UNCHANGED <<room, ticket, seen, answer, again, retry, due, talk, history, bounds>>

\* begin_npc_full_turn: the first revision of this ownership is kept.
Begin(w) ==
  /\ Goto(w, "begin", IF Now = snap[w] /\ NpcTurn THEN "reserve" ELSE "refused")
  /\ speech' = IF Now = snap[w] /\ NpcTurn /\ speech.start = -1
                 THEN [speech EXCEPT !.start = snap[w]] ELSE speech
  /\ UNCHANGED <<room, ticket, seen, snap, answer, again, retry, due, claims,
                 counted, spoken, history, bounds>>

\* Mutant: a lapsed reservation is treated like a failed one.
FreeForAsking(t) == t.status \in {"none", "failed"} \/ (t.status = "reserved" /\ ~t.fresh)

\* A ticket nobody holds: a provider may be asked.
Unclaimed(t) == t.status \in {"none", "failed"}

\* Mutant: a reservation is never past its lease.
LapsedNever(t) == FALSE

\* A reservation past its lease: recovered locally.
Lapsed(t) == t.status = "reserved" /\ ~t.fresh

\* Mutant: a status the schema does not know.
ReservedTypo(t) == [t EXCEPT !.status = "pending", !.fresh = TRUE]

Reserved(t) == [t EXCEPT !.status = "reserved", !.fresh = TRUE]
Failed(t) == [t EXCEPT !.status = "failed", !.fresh = FALSE]
Completed(d) == [status |-> "completed", decision |-> d, fresh |-> FALSE]

\* reserve_npc_decision and what the controller does with the ticket.
Reserve(w) ==
  LET r == snap[w]
      t == ticket[r]
      Take == ticket' = [ticket EXCEPT ![r] = Reserved(t)]
  IN /\ \/ /\ Now # r \/ ~NpcTurn
           /\ Goto(w, "reserve", "refused")
           /\ UNCHANGED <<ticket, seen, snap, answer, again, retry, asked>>
        \/ /\ Now = r /\ NpcTurn /\ Unclaimed(t) /\ Take
           /\ Goto(w, "reserve", "ask")
           /\ asked' = [asked EXCEPT ![r] = @ + 1]
           /\ UNCHANGED <<seen, snap, answer, again, retry>>
        \/ \* a forced move, the local strategy of the game, or its fallback
           /\ Now = r /\ NpcTurn /\ (Unclaimed(t) \/ Lapsed(t)) /\ Take
           /\ \E a \in Actions : answer' = Put(w, answer, Silent(a))
           /\ Goto(w, "reserve", "settle")
           /\ UNCHANGED <<seen, snap, again, retry, asked>>
        \/ /\ Now = r /\ NpcTurn /\ t.status = "completed"
           /\ answer' = Put(w, answer, t.decision)
           /\ Goto(w, "reserve", "play")
           /\ UNCHANGED <<ticket, seen, snap, again, retry, asked>>
        \/ /\ Now = r /\ NpcTurn /\ t.status = "reserved" /\ ~Lapsed(t)
           /\ pc[w] = "reserve" /\ EndTask(w, "in_progress")
           /\ UNCHANGED <<ticket, asked>>
     /\ UNCHANGED <<room, due, talk, failed, bounds>>

\* fail_npc_decision: whoever holds the reservation by now.
FailTicket(r) ==
  /\ ticket' = IF ticket[r].status = "reserved"
                 THEN [ticket EXCEPT ![r] = Failed(@)] ELSE ticket
  /\ failed' = IF ticket[r].status = "reserved"
                 THEN [failed EXCEPT ![r] = @ + 1] ELSE failed

\* At most two calls of the provider, then the fallback.
Ask(w) ==
  /\ Goto(w, "ask", "settle")
  /\ \E d \in [action : Actions, voice : BOOLEAN] : answer' = Put(w, answer, d)
  /\ UNCHANGED <<room, ticket, seen, snap, again, retry, due, talk, history, bounds>>

\* The plugin cannot list its actions, or its local strategy fails: before a
\* provider is asked, or where a forced or local move, or the recovery of a
\* lapsed ticket, takes the place of its answer.
Fumble(w) ==
  /\ fumbles < MaxFumbles /\ fumbles' = fumbles + 1
  /\ FailTicket(snap[w])
  /\ \E at \in {"ask", "settle"} :
       /\ pc[w] = at
       /\ at = "settle" => ~answer[w].voice
       /\ \/ Goto(w, at, "refused") /\ UNCHANGED <<seen, snap, answer, again, retry>>
          \/ EndTask(w, "error")
  /\ UNCHANGED <<room, due, talk, asked, stops>>

\* Mutant: the answer is stored over a decision already taken.
SettleableAny(t) == t.status \in {"reserved", "completed"}

\* Only a reservation can be completed.
Settleable(t) == t.status = "reserved"

\* complete_npc_decision does not look at the room.
Settle(w) ==
  LET r == snap[w]
      t == ticket[r]
  IN /\ \/ /\ Settleable(t)
           /\ Goto(w, "settle", "play")
           /\ ticket' = [ticket EXCEPT ![r] = Completed(answer[w])]
        \/ /\ ~Settleable(t)
           /\ Goto(w, "settle", IF t.status = "completed" THEN "reread" ELSE "refused")
           /\ UNCHANGED ticket
     /\ UNCHANGED <<room, seen, snap, answer, again, retry, due, talk, history, bounds>>

\* reserve_npc_decision again, for the decision somebody else stored.
Reread(w) ==
  LET current == Now = snap[w] /\ NpcTurn
  IN /\ Goto(w, "reread", IF current THEN "play" ELSE "refused")
     /\ answer' = IF current THEN Put(w, answer, ticket[snap[w]].decision) ELSE answer
     /\ UNCHANGED <<room, ticket, seen, snap, again, retry, due, talk, history, bounds>>

\* The bound ends the game before the NPC could be left with the turn.
Advance(next) ==
  /\ Now < MaxRevision
  /\ Now = MaxRevision - 1 => next # Npc
  /\ turns' = Append(turns, next)

\* play_move under the revision the worker holds.
Accepted(w) == Now = snap[w] /\ NpcTurn /\ ~Exhausted

\* turn_completed is the plugin's word.
Play(w) ==
  /\ \/ /\ Accepted(w)
        /\ Goto(w, "play", "finish")
        /\ \E next \in Actors \cup {Over} : Advance(next)
        /\ played' = [played EXCEPT ![Now] = answer[w].action]
        /\ said' = IF answer[w].voice THEN said \cup {Now + 1} ELSE said
        /\ \/ unattended' = unattended + 1 /\ burst' = 0
           \/ unattended' = unattended /\ burst' = burst + 1
        /\ snap' = Put(w, snap, Now + 1)
     \/ /\ ~Accepted(w)
        /\ Goto(w, "play", "latest")
        /\ UNCHANGED <<room, snap>>
  /\ UNCHANGED <<ticket, seen, answer, again, retry, due, talk, history, bounds>>

\* A refused move: somebody else moved the room on, or nothing did.
Latest(w) ==
  /\ Goto(w, "latest", IF Now > snap[w] THEN "finish" ELSE "refused")
  /\ snap' = IF Now > snap[w] THEN Put(w, snap, Now) ELSE snap
  /\ UNCHANGED <<room, ticket, seen, answer, again, retry, due, talk, history, bounds>>

\* A DuelError of the pass: another one if the room has changed.
Recheck(w) ==
  /\ \/ /\ Now # seen[w] \/ ~NpcTurn
        /\ Goto(w, "refused", "check") /\ Forget(w) /\ UNCHANGED <<again, retry>>
     \/ /\ Now = seen[w] /\ NpcTurn
        /\ pc[w] = "refused" /\ EndTask(w, "error")
  /\ UNCHANGED <<room, ticket, due, talk, history, bounds>>

----------------------------------------------------------------------------
(* Full turns and speech.                                                  *)

\* The NPC said something after its ownership began, up to the completion.
Spoke(at) ==
  LET start == IF speech.start = -1 THEN at - 1 ELSE speech.start
  IN \E r \in said : start < r /\ r <= at

\* Mutant: every action of the NPC completes a full turn.
EndedAlways(at) == TRUE

\* The NPC has given the turn away, or the game is over.
Ended(at) == Owner(at) # Npc

\* Each completion revision counts once and in order.
Countable(at) == speech.last < at

\* Mutant: a reservation survives the word the NPC has since said.
SupersedeNever(status, spoke) == status

\* What becomes of an attempt when a later turn is counted.
Supersede(status, spoke) == IF spoke /\ status = "reserved" THEN "superseded" ELSE status

\* complete_npc_full_turn.
CountTurn(w, at) ==
  LET spoke  == Spoke(at)
      silent == IF spoke THEN 0 ELSE speech.silent + 1
      owed   == ~spoke /\ (speech.pending \/ silent >= SpeakAfter)
      claim  == owed /\ ~(speech.status = "reserved" /\ speech.fresh)
  IN /\ speech' = [silent |-> silent, pending |-> owed, start |-> -1, last |-> at,
                   attempt |-> IF claim THEN at ELSE speech.attempt,
                   status |-> IF claim THEN "reserved" ELSE Supersede(speech.status, spoke),
                   fresh |-> claim \/ (speech.fresh /\ ~spoke)]
     /\ claims' = IF claim THEN claims \cup {<<w, at>>} ELSE claims
     /\ counted' = counted \cup {[at |-> at, spoke |-> spoke]}
     /\ UNCHANGED spoken

\* _finish_npc_action: nothing while the NPC keeps the turn.
Finish(w) ==
  /\ Goto(w, "finish", "check")
  /\ IF Ended(snap[w]) /\ Countable(snap[w])
       THEN CountTurn(w, snap[w]) ELSE UNCHANGED talk
  /\ Forget(w)
  /\ UNCHANGED <<room, ticket, again, retry, due, history, bounds>>

\* The attempt is still this claim's.
OwnsAttempt(r) == speech.attempt = r /\ speech.status = "reserved"

\* complete_npc_speech, at the revision the room has by then.
Speak(w, r) ==
  /\ <<w, r>> \in claims /\ claims' = claims \ {<<w, r>>}
  /\ IF OwnsAttempt(r)
       THEN /\ said' = said \cup {Now}
            /\ speech' = [speech EXCEPT !.silent = 0, !.pending = FALSE,
                                  !.status = "sent", !.fresh = FALSE]
            /\ spoken' = spoken \cup {r}
       ELSE UNCHANGED <<said, speech, spoken>>
  /\ UNCHANGED <<turns, played, unattended, burst, ticket, task, counted, history, bounds>>

\* fail_npc_speech for the claims of R: the debt stays.
DropClaims(R) ==
  speech' = IF \E r \in R : OwnsAttempt(r)
              THEN [speech EXCEPT !.pending = TRUE, !.status = "failed", !.fresh = FALSE] ELSE speech

SpeechFails(w, r) ==
  /\ <<w, r>> \in claims /\ claims' = claims \ {<<w, r>>}
  /\ DropClaims({r})
  /\ UNCHANGED <<room, ticket, task, counted, spoken, history, bounds>>

----------------------------------------------------------------------------
(* The others, the clock, and the processes.                               *)

\* Another participant moves, resigns, leaves or takes a side action, or a
\* timed-out turn is played for it; the route then schedules the NPC.
OthersAct(w, next) ==
  /\ pc[w] # "down" /\ Owner(Now) # Over
  /\ Advance(next)
  /\ \/ unattended' = 0 /\ burst' = 0
     \/ /\ Owner(Now) \in Real  \* a temporary takeover is no presence
        /\ burst' \in {0, burst} /\ UNCHANGED unattended
  /\ due' = IF next = Npc THEN Put(w, due, TRUE) ELSE due
  /\ UNCHANGED <<played, said, ticket, pc, seen, snap, answer, again, retry,
                 talk, history, bounds>>

\* A lease runs out, whether or not its owner is still alive.
LeaseEnds(r) ==
  /\ ticket[r].status = "reserved" /\ ticket[r].fresh
  /\ ticket' = [ticket EXCEPT ![r].fresh = FALSE]
  /\ UNCHANGED <<room, task, talk, history, bounds>>

SpeechLeaseEnds ==
  /\ speech.status = "reserved" /\ speech.fresh
  /\ speech' = [speech EXCEPT !.fresh = FALSE]
  /\ UNCHANGED <<room, ticket, task, claims, counted, spoken, history, bounds>>

Stop(w) ==
  /\ pc[w] # "down" /\ stops < MaxStops /\ stops' = stops + 1
  /\ pc' = Put(w, pc, "down")
  /\ again' = Put(w, again, FALSE) /\ retry' = Put(w, retry, FALSE)
  /\ due' = Put(w, due, FALSE)
  /\ claims' = {c \in claims : c[1] # w}
  /\ Forget(w)
  /\ UNCHANGED <<room, counted, spoken, asked, fumbles>>

\* The process dies.
Kill(w) == Stop(w) /\ UNCHANGED <<ticket, speech, failed>>

\* shutdown cancels the tasks where they await: a question to the provider
\* fails its ticket, a speech fails its claim.
Shutdown(w) ==
  /\ pc[w] \in {"idle", "delay", "ask"} /\ ~due[w]
  /\ Stop(w)
  /\ IF pc[w] = "ask" THEN FailTicket(snap[w]) ELSE UNCHANGED <<ticket, failed>>
  /\ DropClaims({c[2] : c \in {x \in claims : x[1] = w}})

----------------------------------------------------------------------------
(* The specification.                                                      *)

Init ==
  /\ turns \in {<<first>> : first \in Actors}
  /\ played = [r \in Revisions |-> NoAction] /\ said = {}
  /\ unattended = 0 /\ burst = 0
  /\ ticket = [r \in Revisions |-> [status |-> "none", decision |-> Silent(NoAction), fresh |-> FALSE]]
  /\ speech = [silent |-> 0, pending |-> FALSE, start |-> -1, last |-> -1,
               attempt |-> -1, status |-> "none", fresh |-> FALSE]
  /\ pc = [w \in Workers |-> "down"]
  /\ seen = [w \in Workers |-> 0] /\ snap = [w \in Workers |-> 0]
  /\ answer = [w \in Workers |-> Silent(NoAction)]
  /\ again = [w \in Workers |-> FALSE] /\ retry = [w \in Workers |-> FALSE]
  /\ due = [w \in Workers |-> FALSE]
  /\ claims = {} /\ stops = 0 /\ fumbles = 0
  /\ asked = [r \in Revisions |-> 0] /\ failed = [r \in Revisions |-> 0]
  /\ counted = {} /\ spoken = {}

\* What the event loop of a worker does by itself.
Work(w) ==
  \/ RouteSchedules(w) \/ Check(w) \/ Load(w) \/ Begin(w) \/ Reserve(w) \/ Ask(w)
  \/ Settle(w) \/ Reread(w) \/ Play(w) \/ Latest(w) \/ Finish(w) \/ Recheck(w)

Next ==
  \/ \E w \in Workers :
       \/ Work(w) \/ Start(w) \/ Poll(w) \/ RetryFires(w) \/ Fumble(w)
       \/ Kill(w) \/ Shutdown(w)
       \/ \E next \in Actors \cup {Over} : OthersAct(w, next)
       \/ \E r \in Revisions : Speak(w, r) \/ SpeechFails(w, r)
  \/ \E r \in Revisions : LeaseEnds(r)
  \/ SpeechLeaseEnds

Spec == Init /\ [][Next]_vars

\* The event loop runs every ready task, provider calls have a time limit, a
\* stopped process is started again, timers fire and leases run out.
Fairness ==
  /\ \A w \in Workers : WF_vars(Work(w)) /\ WF_vars(Start(w)) /\ WF_vars(RetryFires(w))
  /\ \A r \in Revisions : WF_vars(LeaseEnds(r))

LiveSpec == Spec /\ Fairness

----------------------------------------------------------------------------
(* Correctness.                                                            *)

RoomTypes ==
  /\ turns \in Seq(Actors \cup {Over}) /\ Len(turns) \in 1..MaxRevision + 1
  /\ played \in [Revisions -> Actions \cup {NoAction}] /\ said \subseteq Revisions
  /\ unattended \in Nat /\ burst \in Nat

TicketTypes ==
  /\ ticket \in [Revisions -> Ticket]
  /\ asked \in [Revisions -> Nat] /\ failed \in [Revisions -> Nat]

TaskTypes ==
  /\ pc \in [Workers -> Places]
  /\ seen \in [Workers -> Revisions] /\ snap \in [Workers -> Revisions]
  /\ answer \in [Workers -> Decision]
  /\ again \in [Workers -> BOOLEAN] /\ retry \in [Workers -> BOOLEAN]
  /\ due \in [Workers -> BOOLEAN]
  /\ stops \in 0..MaxStops /\ fumbles \in 0..MaxFumbles

TalkTypes ==
  /\ speech \in Speech /\ claims \subseteq Workers \X Revisions
  /\ counted \subseteq [at : Revisions, spoke : BOOLEAN] /\ spoken \subseteq Revisions

\* Every row and every field of a task keeps its type.
TypeOK == RoomTypes /\ TicketTypes /\ TaskTypes /\ TalkTypes

\* A provider is asked about a revision once, and once more only for each time
\* the ticket was failed: a lapsed reservation is never worth a second call,
\* whoever recovers it and however late its first owner wakes up.
AskedOnce == \A r \in Revisions : asked[r] <= 1 + failed[r]

\* A speech that was owed for a turn is not posted any more once the NPC has
\* spoken by itself in a later turn.
NoStaleSpeech ==
  [][\A r \in spoken' \ spoken : \A c \in counted : c.at > r => ~c.spoke]_vars

\* The revisions at which the NPC's ownership of the turn has ended.
Endings == {r \in 1..Now : Owner(r) # Npc /\ Owner(r - 1) = Npc}

\* One process never counts more full turns than the NPC has had, however
\* often it is stopped and however its moves are refused.
NotOvercounted == Cardinality(counted) <= Cardinality(Endings)

\* The decisions as their readers see them.
Decided == [r \in Revisions |->
  IF ticket[r].status = "completed" THEN ticket[r].decision.action ELSE NoAction]

\* The tickets keep the promise of one decision for each revision.
Promise == INSTANCE NpcPromise WITH decided <- Decided, Undecided <- NoAction
KeepsPromise == Promise!Spec

\* A turn of the NPC does not stay with it, whoever is stopped and whatever
\* reservation was left behind, unless the unattended budget is used up.
NpcMovesOn ==
  \A r \in Revisions : (Now = r /\ NpcTurn /\ ~Exhausted) ~> (Now # r)

=============================================================================
