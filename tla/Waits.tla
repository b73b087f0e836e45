------------------------------- MODULE Waits --------------------------------
(***************************************************************************)
(* Long waits of machines in one room: the gateway's chain of requests     *)
(* (local_mcp.py), the lease of each chain (wait_control.py), the slots    *)
(* and wake-up events of the server, and the events an answer consumes.    *)
(*                                                                         *)
(* The server is one event loop: what lies between two awaits is one step. *)
(* A chain is one call of the tool; its generation is the time it began,   *)
(* and it owns at most one lease.  Its requests may arrive after it gave   *)
(* up, its answers may be lost, and the server may be restarted.           *)
(***************************************************************************)
EXTENDS Integers, FiniteSets, Sequences

CONSTANTS
  Players,    \* machines of the room, the keys of the wait table
  Chains,     \* calls of the tool that wait
  Slots,      \* MAX_CONCURRENT_WAITS
  TableSize,  \* entries the wait table may hold
  Lease,      \* LEASE_SECONDS
  MaxTime,    \* bound: moments at which a call begins or the clock ticks
  MaxEvents,  \* bound: events of the room
  MaxRestarts

VARIABLES
  now,      \* the clock of the host
  entries,  \* entries[p]: generation and lease of the table, or NoEntry
  started,  \* when the server began
  dead,     \* chains whose generation was cancelled, replaced or finished
  live,     \* chains that own a lease that is not cancelled
  running,  \* chains with a request the server works on under their lease
  call,     \* call[c]: player, first action and generation of the chain
  gateway,  \* gateway[c]: where the gateway's loop is
  flight,   \* flight[c]: a request on its way to the server
  handler,  \* handler[c]: where the server's coroutine of the chain is
  saw,      \* chains whose room was due when their handler read it
  rung,     \* sleeping handlers whose event is set
  waiting,  \* waiting_count
  log,      \* events of the room: who sent it, whom it mentions
  cursor, turn, over,
  fresh,    \* machines not bootstrapped
  restarts

leases == <<entries, dead, live, running>>
server == <<handler, saw, rung, waiting>>
room   == <<log, cursor, turn, over, fresh>>
vars   == <<now, started, leases, call, gateway, flight, server, room, restarts>>

NoEntry == [gen |-> 0, lease |-> 0]
Other == "other"    \* a participant that does not wait
Finished == "finished"  \* whose turn it is once the game is finished
NoWaiter == 0

Present == {p \in Players : entries[p] # NoEntry}
Cutoff == now - Lease

----------------------------------------------------------------------------
(* WaitControl.apply.                                                      *)

Expired == {p \in Present : entries[p].gen < Cutoff}
Swept == [p \in Players |-> IF p \in Expired THEN NoEntry ELSE entries[p]]
Ended == {entries[p].lease : p \in Expired} \ {0}

\* Too old, of an earlier server, or overtaken by a younger call of its key.
Refused(p, gen) == gen < started \/ gen < Cutoff \/ gen < Swept[p].gen

\* The heartbeat of a chain goes on with its lease.
Resumes(p, gen, c) == gen = Swept[p].gen /\ Swept[p].lease = c /\ c \notin running

\* A new generation replaces the entry of its key.
Replaces(p, gen) ==
  /\ gen # Swept[p].gen
  /\ Swept[p] = NoEntry =>
       Cardinality({q \in Players : Swept[q] # NoEntry}) < TableSize

\* Mutant: the lease of the entry that is replaced lives on.
NothingSuperseded(p) == Ended

Superseded(p) == (Ended \cup {Swept[p].lease}) \ {0}

\* Whatever call comes, entries that are too old go first.
Sweep ==
  /\ entries' = Swept
  /\ live' = live \ Ended /\ dead' = dead \cup Ended
  /\ UNCHANGED running

\* A new wait of the key.
Acquire(p, gen, c) ==
  /\ entries' = [Swept EXCEPT ![p] = [gen |-> gen, lease |-> c]]
  /\ live' = (live \ Superseded(p)) \cup {c}
  /\ dead' = dead \cup Superseded(p) \cup {d \in Chains : call[d].player = p /\ call[d].gen < gen}
  /\ running' = running \cup {c}

\* Any other call of the key, cancel_wait among them, leaves a tombstone.
Bury(p, gen) ==
  /\ entries' = [Swept EXCEPT ![p] = [gen |-> gen, lease |-> 0]]
  /\ live' = live \ Superseded(p)
  /\ dead' = dead \cup Superseded(p) \cup {d \in Chains : call[d].player = p /\ call[d].gen <= gen}
  /\ UNCHANGED running

\* finish, after the handler of c answered: the entry becomes a tombstone if
\* it is still this lease's.
Finish(c) ==
  LET p == call[c].player
  IN /\ running' = running \ {c}
     /\ IF entries[p].lease = c
        THEN /\ entries' = [entries EXCEPT ![p].lease = 0]
             /\ live' = live \ {c} /\ dead' = dead \cup {c}
        ELSE UNCHANGED <<entries, live, dead>>

\* A heartbeat keeps the lease for the next request of the chain.
Keep(c) == running' = running \ {c} /\ UNCHANGED <<entries, live, dead>>

----------------------------------------------------------------------------
(* The room and its wake-up events.                                        *)

Mentioned(p) == \E i \in (cursor[p] + 1)..Len(log) : p \in log[i].to
Due(p) == over \/ turn \in {p, Finished} \/ Mentioned(p)

\* Mutant: the commit rings nobody.
NotifyNobody == UNCHANGED rung

Notify == rung' = rung \cup {c \in Chains : handler[c] = "sleeping"}

Write(by, to) == log' = Append(log, [by |-> by, to |-> to])

\* read_new_room_events: everything up to the newest event is consumed.
Consume(p) == cursor' = [cursor EXCEPT ![p] = Len(log)]

\* Somebody else moves or speaks: committed, then notified.  A move, and a
\* resignation at any time, may end the game.
OtherMoves(next) ==
  /\ turn = Other /\ ~over /\ Len(log) < MaxEvents
  /\ Write(NoWaiter, {}) /\ turn' = next /\ Notify
  /\ UNCHANGED <<now, started, leases, call, gateway, flight, handler, saw, waiting,
                 cursor, over, fresh, restarts>>
OtherResigns ==
  /\ turn # Finished /\ ~over /\ Len(log) < MaxEvents
  /\ Write(NoWaiter, {}) /\ turn' = Finished /\ Notify
  /\ UNCHANGED <<now, started, leases, call, gateway, flight, handler, saw, waiting,
                 cursor, over, fresh, restarts>>
OtherSpeaks(to) ==
  /\ Len(log) < MaxEvents
  /\ Write(NoWaiter, to) /\ Notify
  /\ UNCHANGED <<now, started, leases, call, gateway, flight, handler, saw, waiting,
                 cursor, turn, over, fresh, restarts>>

\* Maintenance on behalf of another room archives this one and tells nobody.
Archive ==
  /\ turn # Finished /\ ~over /\ over' = TRUE
  /\ UNCHANGED <<now, started, leases, call, gateway, flight, server,
                 log, cursor, turn, fresh, restarts>>

----------------------------------------------------------------------------
(* The gateway.                                                            *)

Later == now < MaxTime /\ now' = now + 1

\* A tool call that waits: its generation is the time it began.
Call(c, p, action) ==
  /\ gateway[c] = "idle" /\ Later
  /\ \A d \in Chains : d < c => gateway[d] # "idle"    \* chains are interchangeable
  /\ call' = [call EXCEPT ![c] = [player |-> p, action |-> action, gen |-> now + 1]]
  /\ gateway' = [gateway EXCEPT ![c] = "asking"]
  /\ flight' = [flight EXCEPT ![c] = "first"]
  /\ UNCHANGED <<started, leases, server, room, restarts>>

\* The gateway stops waiting for an answer (read timeout, disconnect).
GiveUp(c) ==
  /\ gateway[c] = "asking"
  /\ gateway' = [gateway EXCEPT ![c] = "closing"]
  /\ UNCHANGED <<now, started, leases, call, flight, server, room, restarts>>

\* After a heartbeat it asks again, and never repeats its move; or its
\* deadline has passed.
Resend(c) ==
  /\ gateway[c] = "pausing"
  /\ gateway' = [gateway EXCEPT ![c] = "asking"]
  /\ flight' = [flight EXCEPT ![c] = "resume"]
  /\ UNCHANGED <<now, started, leases, call, server, room, restarts>>
Deadline(c) ==
  /\ gateway[c] = "pausing"
  /\ gateway' = [gateway EXCEPT ![c] = "closing"]
  /\ UNCHANGED <<now, started, leases, call, flight, server, room, restarts>>

\* In the end it cancels its own generation; that request may be lost.
Close(c) ==
  LET p == call[c].player
      gen == call[c].gen
  IN /\ gateway[c] = "closing"
     /\ gateway' = [gateway EXCEPT ![c] = "done"]
     /\ \/ UNCHANGED leases
        \/ IF \/ Refused(p, gen)
              \/ Swept[p] = NoEntry /\ Cardinality({q \in Players : Swept[q] # NoEntry}) >= TableSize
           THEN Sweep ELSE Bury(p, gen)
        /\ UNCHANGED <<now, started, call, flight, server, room, restarts>>

----------------------------------------------------------------------------
(* The handler of a waiting request.                                       *)

\* The answer reaches a gateway that still listens.
Reply(c, status) ==
  gateway' = IF gateway[c] # "asking" THEN gateway
             ELSE [gateway EXCEPT ![c] = IF status = "still_waiting" THEN "pausing" ELSE "closing"]
Leave(c) ==
  /\ handler' = [handler EXCEPT ![c] = "none"]
  /\ saw' = saw \ {c} /\ rung' = rung \ {c}

\* A request that is refused is answered wait_cancelled and changes nothing.
Refuse(c) ==
  /\ Sweep /\ Reply(c, "wait_cancelled")
  /\ UNCHANGED <<handler, saw, rung, room>>

\* It is accepted: the move is committed and notified, the room is read; the
\* turn of an NPC is scheduled before the handler goes on.
Begin(c) ==
  LET p == call[c].player
      moves == flight[c] = "first" /\ call[c].action = "move"
  IN /\ handler' = [handler EXCEPT ![c] = "begun"]
     /\ IF moves
        THEN /\ turn = p /\ ~over /\ Len(log) < MaxEvents
             /\ Write(c, {})
             /\ \E next \in (Players \ {p}) \cup {Other, Finished} : turn' = next
             /\ saw' = IF Mentioned(p) THEN saw \cup {c} ELSE saw
             /\ Notify
             /\ UNCHANGED <<cursor, over, fresh>>
        ELSE /\ saw' = IF Due(p) THEN saw \cup {c} ELSE saw
             /\ UNCHANGED <<rung, room>>
     /\ UNCHANGED gateway

\* A move that is not this player's to make is an error: the lease ends.
Err(c) ==
  /\ flight[c] = "first" /\ call[c].action = "move"
  /\ turn # call[c].player \/ over
  /\ Bury(call[c].player, call[c].gen)
  /\ Reply(c, "error")
  /\ UNCHANGED <<handler, saw, rung, room>>

Arrive(c) ==
  LET p == call[c].player
      gen == call[c].gen
      resume == flight[c] = "resume"
      admitted == IF resume THEN Resumes(p, gen, c) ELSE Replaces(p, gen)
  IN /\ flight[c] # "none"
     /\ flight' = [flight EXCEPT ![c] = "none"]
     /\ \/ (Refused(p, gen) \/ ~admitted) /\ Refuse(c)
        \/ ~Refused(p, gen) /\ admitted
           /\ \/ resume /\ running' = running \cup {c} /\ entries' = Swept
                 /\ live' = live \ Ended /\ dead' = dead \cup Ended /\ Begin(c)
              \/ ~resume /\ Acquire(p, gen, c) /\ Begin(c)
              \/ ~resume /\ Err(c)
        /\ UNCHANGED <<now, started, call, waiting, restarts>>

\* A request may be repeated by what lies between, or lost on its way.
Repeat(c) ==
  /\ gateway[c] = "asking" /\ flight[c] = "none"
  /\ flight' = [flight EXCEPT ![c] = "first"]
  /\ UNCHANGED <<now, started, leases, call, gateway, server, room, restarts>>
Lose(c) ==
  /\ flight[c] # "none"
  /\ flight' = [flight EXCEPT ![c] = "none"]
  /\ UNCHANGED <<now, started, leases, call, gateway, server, room, restarts>>

\* Mutant: the lease is not checked again.
NeverCancelled(c) == FALSE

Cancelled(c) == c \notin live

\* lease.check raised: the answer is wait_cancelled and consumes nothing.
Stop(c) ==
  /\ Cancelled(c)
  /\ Leave(c) /\ Finish(c) /\ Reply(c, "wait_cancelled")
  /\ UNCHANGED room

\* A full answer: the events and, at the first sight of the game, the context.
Tell(c) ==
  /\ ~Cancelled(c)
  /\ Leave(c) /\ Finish(c) /\ Reply(c, "told")
  /\ Consume(call[c].player)
  /\ UNCHANGED <<log, turn, over>>

\* An empty heartbeat keeps the lease, unless it carries a new notice.
Heartbeat(c) ==
  /\ ~Cancelled(c) /\ ~Due(call[c].player)
  /\ Leave(c) /\ UNCHANGED room
  /\ \/ Keep(c) /\ Reply(c, "still_waiting")
     \/ Finish(c) /\ Reply(c, "told")

Others(c) == UNCHANGED <<now, started, call, flight, restarts>>

\* After the schedule: answer, or take a slot and sleep until the event.
Go(c) ==
  LET p == call[c].player
      greets == p \in fresh /\ call[c].action = "state" /\ turn # Finished /\ ~over
  IN /\ handler[c] = "begun" /\ Others(c)
     /\ \/ Stop(c) /\ UNCHANGED waiting
        \/ /\ c \in saw \/ greets
           /\ Tell(c) /\ UNCHANGED waiting
           /\ fresh' = IF greets THEN fresh \ {p} ELSE fresh
        \/ /\ ~Cancelled(c) /\ c \notin saw /\ ~greets
           /\ waiting >= Slots
           /\ Leave(c) /\ Keep(c) /\ Reply(c, "still_waiting") /\ UNCHANGED <<waiting, room>>
        \/ /\ ~Cancelled(c) /\ c \notin saw /\ ~greets
           /\ waiting < Slots /\ waiting' = waiting + 1
           /\ handler' = [handler EXCEPT ![c] = IF Due(p) THEN "woken" ELSE "sleeping"]
           /\ UNCHANGED <<leases, gateway, saw, rung, room>>

\* asyncio.wait returns when the event or the cancellation is set ...
Wake(c) ==
  /\ handler[c] = "sleeping" /\ (c \in rung \/ Cancelled(c))
  /\ handler' = [handler EXCEPT ![c] = "woken"] /\ rung' = rung \ {c}
  /\ UNCHANGED <<now, started, leases, call, gateway, flight, saw, waiting, room, restarts>>

\* ... or the heartbeat is over.
Timeout(c) ==
  /\ handler[c] = "sleeping"
  /\ handler' = [handler EXCEPT ![c] = "timed out"] /\ rung' = rung \ {c}
  /\ UNCHANGED <<now, started, leases, call, gateway, flight, saw, waiting, room, restarts>>

Released == waiting' = waiting - 1

\* The tasks are gathered, then the lease is checked and the room read again.
GoOn(c) ==
  LET p == call[c].player
  IN /\ handler[c] \in {"woken", "timed out"} /\ Others(c)
     /\ \/ Stop(c) /\ Released
        \/ Due(p) /\ Tell(c) /\ Released /\ UNCHANGED fresh
        \/ handler[c] = "timed out" /\ Heartbeat(c) /\ Released
        \/ /\ handler[c] = "woken" /\ ~Cancelled(c) /\ ~Due(p)
           /\ handler' = [handler EXCEPT ![c] = "sleeping"]
                    /\ UNCHANGED <<leases, gateway, saw, rung, waiting, room>>

\* The connection is gone and the server cancels the coroutine.
Abandon(c) ==
  /\ handler[c] # "none" /\ gateway[c] \notin {"asking", "pausing"}
  /\ Leave(c) /\ Finish(c) /\ Others(c)
  /\ waiting' = IF handler[c] = "begun" THEN waiting ELSE waiting - 1
  /\ UNCHANGED <<gateway, room>>

\* A call of the same machine that does not wait: it ends its own wait, and
\* answers with the events if it is due.
Ordinary(p) ==
  /\ Later
  /\ LET gen == now + 1
         full == Swept[p] = NoEntry
                 /\ Cardinality({q \in Players : Swept[q] # NoEntry}) >= TableSize
     IN IF full THEN Sweep ELSE Bury(p, gen)
  /\ IF Due(p) THEN Consume(p) ELSE UNCHANGED cursor
  /\ UNCHANGED <<started, call, gateway, flight, server, log, turn, over, fresh, restarts>>

Tick ==
  /\ Later
  /\ UNCHANGED <<started, leases, call, gateway, flight, server, room, restarts>>

\* The server restarts: leases, slots and requests are gone.
Restart ==
  /\ restarts < MaxRestarts /\ restarts' = restarts + 1
  /\ Later /\ started' = now + 1
  /\ entries' = [p \in Players |-> NoEntry]
  /\ dead' = dead \cup {c \in Chains : call[c].gen > 0} /\ live' = {} /\ running' = {}
  /\ handler' = [c \in Chains |-> "none"] /\ saw' = {} /\ rung' = {} /\ waiting' = 0
  /\ gateway' = [c \in Chains |-> IF gateway[c] = "asking" /\ flight[c] = "none"
                                  THEN "closing" ELSE gateway[c]]
  /\ UNCHANGED <<call, flight, room>>

----------------------------------------------------------------------------
Init ==
  /\ now = 1 /\ started = 1
  /\ entries = [p \in Players |-> NoEntry]
  /\ dead = {} /\ live = {} /\ running = {}
  /\ call = [c \in Chains |-> [player |-> Other, action |-> "state", gen |-> 0]]
  /\ gateway = [c \in Chains |-> "idle"]
  /\ flight = [c \in Chains |-> "none"]
  /\ handler = [c \in Chains |-> "none"]
  /\ saw = {} /\ rung = {} /\ waiting = 0
  /\ log = <<>> /\ cursor = [p \in Players |-> 0]
  /\ turn \in Players \cup {Other} /\ over = FALSE
  /\ fresh \in {{}, Players}
  /\ restarts = 0

\* What the event loop and the gateway do on their own.
Serve(c) ==
  \/ Arrive(c) \/ Go(c) \/ Wake(c) \/ Timeout(c) \/ GoOn(c)
  \/ Resend(c) \/ Deadline(c) \/ Close(c)

Next ==
  \/ \E c \in Chains : Serve(c) \/ Repeat(c) \/ GiveUp(c) \/ Lose(c) \/ Abandon(c)
  \/ \E c \in Chains, p \in Players, action \in {"state", "move"} : Call(c, p, action)
  \/ \E p \in Players : Ordinary(p)
  \/ \E next \in Players \cup {Finished} : OtherMoves(next)
  \/ OtherResigns
  \/ \E to \in SUBSET Players : OtherSpeaks(to)
  \/ Archive \/ Tick \/ Restart

Spec == Init /\ [][Next]_vars

----------------------------------------------------------------------------
(* Properties.                                                             *)

Holding == {c \in Chains : handler[c] \in {"sleeping", "woken", "timed out"}}

\* Of all calls of a machine at most one waits: a lease that is not cancelled
\* is the one its key's entry names (wait_control.py:44-85), every slot in use
\* belongs to a request that will give it back, within the limit of the
\* server (main.py:209-218), and a move is committed once, however often its
\* request is sent (main.py:2200-2254).
OneLiveWait ==
  /\ \A c \in live : entries[call[c].player] = [gen |-> call[c].gen, lease |-> c]
  /\ Cardinality(Present) <= TableSize
  /\ waiting = Cardinality(Holding) /\ waiting <= Slots
  /\ \A i, j \in 1..Len(log) : log[i].by = log[j].by /\ log[i].by \in Chains => i = j

\* Nobody sleeps through news: a sleeping request whose room is due has its
\* event set (main.py:168-182, 1018-1080), or only an archiving that told
\* nobody made it due.
SleeperArmed ==
  \A c \in Chains :
    handler[c] = "sleeping" /\ Due(call[c].player) => c \in rung \/ Cancelled(c) \/ over

\* A call that was cancelled, replaced or closed stays so: no late, repeated
\* or resumed request of it ever gets a lease again, through the expiry of
\* its tombstone and a restart, and none consumes an event
\* (wait_control.py:44-85, main.py:2086-2161).
CancelKept ==
  \A c \in dead :
    /\ c \in dead' /\ c \notin live'
    /\ handler[c] # "none" /\ handler'[c] = "none" => cursor' = cursor
CancelIsFinal == [][CancelKept]_vars
=============================================================================
