----------------------------- MODULE NpcProofs ------------------------------
(***************************************************************************)
(* Proofs about Npc, for every set of server processes and every bound:    *)
(* the types, the number of times a provider is asked about one revision,  *)
(* that the tickets implement NpcPromise, that no speech is posted after a *)
(* later word of the NPC, and, for one process, the turns counted.         *)
(***************************************************************************)
EXTENDS Npc, SumLemmas

USE NpcAssumption DEF Revisions

----------------------------------------------------------------------------
(* The inductive invariant.                                                *)

\* A worker inside a decision holds a revision at which the NPC had the turn.
Holding == {"begin", "reserve", "ask", "settle", "reread", "play"}
HoldsTurn == \A w \in Workers : pc[w] \in Holding => snap[w] <= Now /\ Owner(snap[w]) = Npc

\* What a worker is about to store is legal; what it is about to play or to
\* read again is the decision stored for its revision.
InHand ==
  \A w \in Workers :
    /\ pc[w] = "settle" => answer[w].action \in Actions
    /\ pc[w] = "reread" => ticket[snap[w]].status = "completed"
    /\ pc[w] = "play" => /\ ticket[snap[w]].status = "completed"
                         /\ answer[w] = ticket[snap[w]].decision

\* A stored decision is legal.
Stored == \A r \in Revisions : ticket[r].status = "completed" => ticket[r].decision.action \in Actions

\* A ticket that is not free accounts for one question, each failure for one.
Accounted ==
  \A r \in Revisions :
    asked[r] <= failed[r] + (IF ticket[r].status \in {"reserved", "completed"} THEN 1 ELSE 0)

Inv == TypeOK /\ HoldsTurn /\ InHand /\ Stored /\ Accounted

----------------------------------------------------------------------------
(* What a step leaves alone.                                               *)

\* Only moves, side actions and speech change the room.
LEMMA RoomFrame ==
  ASSUME Next
  PROVE \/ UNCHANGED room
        \/ \E w \in Workers : Play(w)
        \/ \E w \in Workers, next \in Actors \cup {Over} : OthersAct(w, next)
        \/ \E w \in Workers, r \in Revisions : Speak(w, r)
<1>1. ASSUME NEW w \in Workers,
             \/ RouteSchedules(w) \/ Check(w) \/ Load(w) \/ Begin(w) \/ Reserve(w)
             \/ Ask(w) \/ Settle(w) \/ Reread(w) \/ Latest(w) \/ Finish(w) \/ Recheck(w)
      PROVE UNCHANGED room
  BY <1>1 DEF RouteSchedules, Check, Load, Begin, Reserve, Ask, Settle, Reread, Latest,
              Finish, Recheck
<1>2. ASSUME NEW w \in Workers,
             \/ Start(w) \/ Poll(w) \/ RetryFires(w) \/ Fumble(w) \/ Kill(w) \/ Shutdown(w)
      PROVE UNCHANGED room
  BY <1>2 DEF Start, Poll, RetryFires, Fumble, Kill, Shutdown, Stop
<1>3. ASSUME NEW w \in Workers, NEW r \in Revisions, SpeechFails(w, r)
      PROVE UNCHANGED room
  BY <1>3 DEF SpeechFails
<1>4. (\E r \in Revisions : LeaseEnds(r)) \/ SpeechLeaseEnds => UNCHANGED room
  BY DEF LeaseEnds, SpeechLeaseEnds
<1> QED
  BY <1>1, <1>2, <1>3, <1>4 DEF Next, Work

\* Only five operations write a ticket.
LEMMA TicketFrame ==
  ASSUME Next
  PROVE \/ UNCHANGED <<ticket, history>>
        \/ \E w \in Workers : Reserve(w) \/ Fumble(w) \/ Settle(w) \/ Shutdown(w)
        \/ \E r \in Revisions : LeaseEnds(r)
<1>1. ASSUME NEW w \in Workers,
             \/ RouteSchedules(w) \/ Check(w) \/ Load(w) \/ Begin(w) \/ Play(w)
             \/ Ask(w) \/ Reread(w) \/ Latest(w) \/ Finish(w) \/ Recheck(w)
      PROVE UNCHANGED <<ticket, history>>
  BY <1>1 DEF RouteSchedules, Check, Load, Begin, Play, Ask, Reread, Latest, Finish, Recheck
<1>2. ASSUME NEW w \in Workers, \/ Start(w) \/ Poll(w) \/ RetryFires(w) \/ Kill(w)
      PROVE UNCHANGED <<ticket, history>>
  BY <1>2 DEF Start, Poll, RetryFires, Kill, Stop, history
<1>3. ASSUME NEW w \in Workers, NEW r \in Revisions, SpeechFails(w, r) \/ Speak(w, r)
      PROVE UNCHANGED <<ticket, history>>
  BY <1>3 DEF SpeechFails, Speak
<1>4. ASSUME NEW w \in Workers, NEW next \in Actors \cup {Over}, OthersAct(w, next)
      PROVE UNCHANGED <<ticket, history>>
  BY <1>4 DEF OthersAct
<1>5. SpeechLeaseEnds => UNCHANGED <<ticket, history>>
  BY DEF SpeechLeaseEnds
<1> QED
  BY <1>1, <1>2, <1>3, <1>4, <1>5 DEF Next, Work

\* The bookkeeping of speech.
LEMMA TalkFrame ==
  ASSUME Next
  PROVE \/ UNCHANGED talk
        \/ \E w \in Workers : Begin(w) \/ Finish(w) \/ Kill(w) \/ Shutdown(w)
        \/ \E w \in Workers, r \in Revisions : Speak(w, r) \/ SpeechFails(w, r)
        \/ SpeechLeaseEnds
<1>1. ASSUME NEW w \in Workers,
             \/ RouteSchedules(w) \/ Check(w) \/ Load(w) \/ Reserve(w) \/ Play(w)
             \/ Ask(w) \/ Settle(w) \/ Reread(w) \/ Latest(w) \/ Recheck(w)
      PROVE UNCHANGED talk
  BY <1>1 DEF RouteSchedules, Check, Load, Reserve, Play, Ask, Settle, Reread, Latest, Recheck
<1>2. ASSUME NEW w \in Workers, \/ Start(w) \/ Poll(w) \/ RetryFires(w) \/ Fumble(w)
      PROVE UNCHANGED talk
  BY <1>2 DEF Start, Poll, RetryFires, Fumble
<1>3. ASSUME NEW w \in Workers, NEW next \in Actors \cup {Over}, OthersAct(w, next)
      PROVE UNCHANGED talk
  BY <1>3 DEF OthersAct
<1>4. (\E r \in Revisions : LeaseEnds(r)) => UNCHANGED talk
  BY DEF LeaseEnds
<1> QED
  BY <1>1, <1>2, <1>3, <1>4 DEF Next, Work

----------------------------------------------------------------------------
(* Types.                                                                  *)

LEMMA RevisionTypes == ASSUME RoomTypes PROVE Now \in Revisions
  BY DEF RoomTypes, Now

\* The moves extend the room by one revision inside the bound.
LEMMA AdvanceTypes ==
  ASSUME RoomTypes, NEW next \in Actors \cup {Over}, Advance(next)
  PROVE /\ turns' \in Seq(Actors \cup {Over}) /\ Len(turns') \in 1..MaxRevision + 1
        /\ Now + 1 \in Revisions
        /\ Now' = Now + 1
        /\ \A r \in 0..Now : Owner(r)' = Owner(r)
<1> DEFINE T == Actors \cup {Over}
<1>1. turns \in Seq(T) /\ next \in T /\ Len(turns) \in 1..MaxRevision + 1
  BY DEF RoomTypes
<1>2. Len(turns) - 1 < MaxRevision /\ turns' = Append(turns, next)
  BY DEF Advance, Now
<1> HIDE DEF T
<1>3. turns' \in Seq(T) /\ Len(turns') = Len(turns) + 1
  BY <1>1, <1>2
<1>4. \A i \in 1..Len(turns) : turns'[i] = turns[i]
  BY <1>1, <1>2
<1>5. Len(turns') \in 1..MaxRevision + 1 /\ Now + 1 \in Revisions /\ Now' = Now + 1
  BY <1>1, <1>2, <1>3 DEF Now
<1>6. ASSUME NEW r \in 0..Now PROVE Owner(r)' = Owner(r)
  BY <1>1, <1>4 DEF Owner, Now
<1> QED
  BY <1>3, <1>5, <1>6 DEF T

LEMMA RoomTypesStep == ASSUME TypeOK, Next PROVE RoomTypes'
<1> USE DEF TypeOK
<1>1. CASE UNCHANGED room
  BY <1>1 DEF RoomTypes, room
<1>2. ASSUME NEW w \in Workers, Play(w) PROVE RoomTypes'
  <2>1. CASE ~Accepted(w)
    BY <1>2, <2>1 DEF Play, RoomTypes, room
  <2>2. CASE Accepted(w)
    <3>1. PICK next \in Actors \cup {Over} : Advance(next)
      BY <1>2, <2>2 DEF Play
    <3>2. /\ turns' \in Seq(Actors \cup {Over}) /\ Len(turns') \in 1..MaxRevision + 1
          /\ Now + 1 \in Revisions
      BY <3>1, AdvanceTypes
    <3>3. answer[w].action \in Actions \cup {NoAction}
      BY DEF TaskTypes, Decision
    <3>4. played' \in [Revisions -> Actions \cup {NoAction}] /\ said' \subseteq Revisions
      BY <1>2, <2>2, <3>2, <3>3 DEF Play, RoomTypes
    <3>5. unattended' \in Nat /\ burst' \in Nat
      BY <1>2, <2>2 DEF Play, RoomTypes
    <3> QED BY <3>2, <3>4, <3>5 DEF RoomTypes
  <2> QED BY <2>1, <2>2
<1>3. ASSUME NEW w \in Workers, NEW next \in Actors \cup {Over}, OthersAct(w, next)
      PROVE RoomTypes'
  <2>1. /\ turns' \in Seq(Actors \cup {Over}) /\ Len(turns') \in 1..MaxRevision + 1
    BY <1>3, AdvanceTypes DEF OthersAct
  <2>2. unattended' \in Nat /\ burst' \in Nat
    BY <1>3 DEF OthersAct, RoomTypes
  <2> QED BY <1>3, <2>1, <2>2 DEF OthersAct, RoomTypes
<1>4. ASSUME NEW w \in Workers, NEW r \in Revisions, Speak(w, r) PROVE RoomTypes'
  <2>1. said' \subseteq Revisions
    BY <1>4, RevisionTypes DEF Speak, RoomTypes
  <2> QED BY <1>4, <2>1 DEF Speak, RoomTypes
<1> QED BY <1>1, <1>2, <1>3, <1>4, RoomFrame

\* What the operations write into a ticket.
LEMMA TicketValues ==
  ASSUME NEW t \in Ticket, NEW d \in Decision
  PROVE /\ Reserved(t) \in Ticket /\ Failed(t) \in Ticket /\ Completed(d) \in Ticket
        /\ [t EXCEPT !.fresh = FALSE] \in Ticket
        /\ Reserved(t).status = "reserved" /\ Failed(t).status = "failed"
        /\ Completed(d).status = "completed" /\ Completed(d).decision = d
        /\ [t EXCEPT !.fresh = FALSE].status = t.status
        /\ [t EXCEPT !.fresh = FALSE].decision = t.decision
  BY DEF Ticket, Reserved, Failed, Completed

LEMMA TicketTypesStep == ASSUME TypeOK, Next PROVE TicketTypes'
<1> USE DEF TypeOK
<1>1. CASE UNCHANGED <<ticket, history>>
  BY <1>1 DEF TicketTypes, history
<1>2. ASSUME NEW w \in Workers, Reserve(w) PROVE TicketTypes'
  <2>1. snap[w] \in Revisions BY DEF TaskTypes
  <2>2. Reserved(ticket[snap[w]]) \in Ticket
    BY <2>1, TicketValues DEF TicketTypes, TaskTypes
  <2>3. ticket' = ticket \/ ticket' = [ticket EXCEPT ![snap[w]] = Reserved(ticket[snap[w]])]
    BY <1>2 DEF Reserve
  <2>4. asked' = asked \/ asked' = [asked EXCEPT ![snap[w]] = @ + 1]
    BY <1>2 DEF Reserve
  <2>5. failed' = failed BY <1>2 DEF Reserve
  <2>6. ticket' \in [Revisions -> Ticket] BY <2>1, <2>2, <2>3 DEF TicketTypes
  <2>7. asked' \in [Revisions -> Nat]
    <3>1. asked \in [Revisions -> Nat] BY DEF TicketTypes
    <3>2. asked[snap[w]] + 1 \in Nat BY <2>1, <3>1
    <3> QED BY <2>4, <3>1, <3>2
  <2> QED BY <2>5, <2>6, <2>7 DEF TicketTypes
<1>3. ASSUME NEW w \in Workers, Fumble(w) \/ Shutdown(w) PROVE TicketTypes'
  <2>1. snap[w] \in Revisions BY DEF TaskTypes
  <2>2. Failed(ticket[snap[w]]) \in Ticket
    BY <2>1, TicketValues DEF TicketTypes, TaskTypes
  <2>3. FailTicket(snap[w]) => TicketTypes' \/ asked' # asked
    <3>1. ticket \in [Revisions -> Ticket] /\ asked \in [Revisions -> Nat] /\ failed \in [Revisions -> Nat]
      BY DEF TicketTypes
    <3>2. [ticket EXCEPT ![snap[w]] = Failed(ticket[snap[w]])] \in [Revisions -> Ticket]
      BY <2>1, <2>2, <3>1
    <3>3. failed[snap[w]] + 1 \in Nat
      BY <2>1, <3>1
    <3>4. [failed EXCEPT ![snap[w]] = @ + 1] \in [Revisions -> Nat]
      BY <2>1, <3>1, <3>3
    <3>5. ASSUME FailTicket(snap[w])
          PROVE  ticket' \in [Revisions -> Ticket] /\ failed' \in [Revisions -> Nat]
      BY <3>1, <3>2, <3>4, <3>5 DEF FailTicket
    <3> QED BY <3>1, <3>5 DEF TicketTypes
  <2> QED BY <1>3, <2>3 DEF Fumble, Shutdown, Stop, TicketTypes
<1>4. ASSUME NEW w \in Workers, Settle(w) PROVE TicketTypes'
  <2>1. snap[w] \in Revisions /\ answer[w] \in Decision BY DEF TaskTypes
  <2>2. Completed(answer[w]) \in Ticket
    BY <2>1, TicketValues DEF TicketTypes
  <2> QED BY <1>4, <2>1, <2>2 DEF Settle, TicketTypes, history
<1>5. ASSUME NEW r \in Revisions, LeaseEnds(r) PROVE TicketTypes'
  <2>1. [ticket[r] EXCEPT !.fresh = FALSE] \in Ticket
    BY DEF TicketTypes, Ticket
  <2> QED BY <1>5, <2>1 DEF LeaseEnds, TicketTypes, history
<1> QED BY <1>1, <1>2, <1>3, <1>4, <1>5, TicketFrame

\* The end of a pass and its locals.
LEMMA ForgetTypes ==
  ASSUME TypeOK, NEW w \in Workers, Forget(w)
  PROVE /\ seen' \in [Workers -> Revisions] /\ snap' \in [Workers -> Revisions]
        /\ answer' \in [Workers -> Decision]
<1>1. 0 \in Revisions OBVIOUS
<1>2. Silent(NoAction) \in Decision BY DEF Silent, Decision
<1> QED BY <1>1, <1>2 DEF Forget, Put, TypeOK, TaskTypes

LEMMA EndTaskTypes ==
  ASSUME TypeOK, NEW w \in Workers, NEW outcome, EndTask(w, outcome)
  PROVE /\ pc' \in [Workers -> Places]
        /\ again' \in [Workers -> BOOLEAN] /\ retry' \in [Workers -> BOOLEAN]
        /\ seen' \in [Workers -> Revisions] /\ snap' \in [Workers -> Revisions]
        /\ answer' \in [Workers -> Decision]
<1>1. Forget(w) BY DEF EndTask
<1>2. pc' \in [Workers -> Places]
  BY DEF EndTask, Put, TypeOK, TaskTypes, Places
<1>3. again' \in [Workers -> BOOLEAN] BY DEF EndTask, Put, TypeOK, TaskTypes
<1>4. retry' \in [Workers -> BOOLEAN] BY DEF EndTask, Put, TypeOK, TaskTypes
<1> QED BY <1>1, <1>2, <1>3, <1>4, ForgetTypes

LEMMA ScheduleTypes ==
  ASSUME TypeOK, NEW w \in Workers, Schedule(w)
  PROVE pc' \in [Workers -> Places] /\ again' \in [Workers -> BOOLEAN]
  BY DEF Schedule, Put, TypeOK, TaskTypes, Places

LEMMA TaskTypesStep == ASSUME TypeOK, Next PROVE TaskTypes'
<1> USE DEF TypeOK
<1>1. ASSUME NEW w \in Workers, Start(w) \/ RouteSchedules(w) \/ Poll(w) \/ RetryFires(w)
      PROVE TaskTypes'
  <2>1. CASE Start(w) BY <2>1 DEF Start, Goto, Put, TaskTypes, Places, bounds
  <2>2. CASE RouteSchedules(w) BY <2>2, ScheduleTypes DEF RouteSchedules, Put, TaskTypes, bounds
  <2>3. CASE Poll(w) BY <2>3, ScheduleTypes DEF Poll, TaskTypes, bounds
  <2>4. CASE RetryFires(w) BY <2>4, ScheduleTypes DEF RetryFires, Put, TaskTypes, bounds
  <2> QED BY <1>1, <2>1, <2>2, <2>3, <2>4
<1>2. ASSUME NEW w \in Workers, Check(w) PROVE TaskTypes'
  <2>1. CASE EndTask(w, "idle") \/ EndTask(w, "limit")
    BY <1>2, <2>1, EndTaskTypes DEF Check, TaskTypes, bounds
  <2>2. CASE Goto(w, "check", "delay") /\ seen' = Put(w, seen, Now)
             /\ UNCHANGED <<snap, answer, again, retry>>
    BY <1>2, <2>2, RevisionTypes DEF Check, Goto, Put, TaskTypes, Places, bounds
  <2> QED BY <1>2, <2>1, <2>2 DEF Check
<1>3. ASSUME NEW w \in Workers, Load(w) \/ Latest(w) PROVE TaskTypes'
  BY <1>3, RevisionTypes DEF Load, Latest, Goto, Put, TaskTypes, Places, bounds
<1>4. ASSUME NEW w \in Workers, Begin(w) PROVE TaskTypes'
  BY <1>4 DEF Begin, Goto, Put, TaskTypes, Places, bounds
<1>5. ASSUME NEW w \in Workers, Reserve(w) PROVE TaskTypes'
  <2>1. UNCHANGED <<due, bounds>> BY <1>5 DEF Reserve
  <2>2. CASE EndTask(w, "in_progress")
    BY <2>1, <2>2, EndTaskTypes DEF TaskTypes, bounds
  <2>3. CASE /\ \E q \in {"refused", "ask", "settle", "play"} : Goto(w, "reserve", q)
             /\ \/ UNCHANGED answer
                \/ \E a \in Actions : answer' = Put(w, answer, Silent(a))
                \/ answer' = Put(w, answer, ticket[snap[w]].decision)
             /\ UNCHANGED <<seen, snap, again, retry>>
    <3>1. ticket[snap[w]].decision \in Decision BY DEF TaskTypes, TicketTypes, Ticket
    <3>2. \A a \in Actions : Silent(a) \in Decision BY DEF Silent, Decision
    <3>3. answer' \in [Workers -> Decision]
      BY <2>3, <3>1, <3>2 DEF Put, TaskTypes
    <3>4. pc' \in [Workers -> Places]
      BY <2>3 DEF Goto, TaskTypes, Places
    <3> QED BY <2>1, <2>3, <3>3, <3>4 DEF TaskTypes, bounds
  <2>4. \/ EndTask(w, "in_progress")
        \/ UNCHANGED <<seen, snap, again, retry>>
    BY <1>5 DEF Reserve
  <2>5. \/ EndTask(w, "in_progress")
        \/ Goto(w, "reserve", "refused") \/ Goto(w, "reserve", "ask")
        \/ Goto(w, "reserve", "settle") \/ Goto(w, "reserve", "play")
    BY <1>5 DEF Reserve
  <2>6. \/ EndTask(w, "in_progress") \/ UNCHANGED answer
        \/ \E a \in Actions : answer' = Put(w, answer, Silent(a))
        \/ answer' = Put(w, answer, ticket[snap[w]].decision)
    BY <1>5 DEF Reserve
  <2> QED BY <2>2, <2>3, <2>4, <2>5, <2>6
<1>6. ASSUME NEW w \in Workers, Ask(w) PROVE TaskTypes'
  BY <1>6 DEF Ask, Goto, Put, TaskTypes, Places, Decision, bounds
<1>7. ASSUME NEW w \in Workers, Fumble(w) PROVE TaskTypes'
  <2>1. UNCHANGED <<due, stops>> /\ fumbles' \in 0..MaxFumbles
    BY <1>7 DEF Fumble, TaskTypes
  <2>2. CASE EndTask(w, "error") BY <2>1, <2>2, EndTaskTypes DEF TaskTypes
  <2>3. CASE /\ \E at \in {"ask", "settle"} : Goto(w, at, "refused")
             /\ UNCHANGED <<seen, snap, answer, again, retry>>
    BY <2>1, <2>3 DEF Goto, TaskTypes, Places
  <2> QED BY <1>7, <2>2, <2>3 DEF Fumble
<1>8. ASSUME NEW w \in Workers, Settle(w) PROVE TaskTypes'
  BY <1>8 DEF Settle, Goto, Put, TaskTypes, Places, bounds
<1>9. ASSUME NEW w \in Workers, Reread(w) PROVE TaskTypes'
  <2>1. ticket[snap[w]].decision \in Decision BY DEF TaskTypes, TicketTypes, Ticket
  <2> QED BY <1>9, <2>1 DEF Reread, Goto, Put, TaskTypes, Places, bounds
<1>10. ASSUME NEW w \in Workers, Play(w) PROVE TaskTypes'
  <2>1. snap' \in [Workers -> Revisions]
    <3>1. CASE Accepted(w)
      <4>1. \E next \in Actors \cup {Over} : Advance(next) BY <1>10, <3>1 DEF Play
      <4>2. Now + 1 \in Revisions BY <4>1, AdvanceTypes
      <4> QED BY <1>10, <3>1, <4>2 DEF Play, Put, TaskTypes
    <3> QED BY <1>10, <3>1 DEF Play, TaskTypes
  <2>2. pc' \in [Workers -> Places] BY <1>10 DEF Play, Goto, TaskTypes, Places
  <2> QED BY <1>10, <2>1, <2>2 DEF Play, TaskTypes, bounds
<1>11. ASSUME NEW w \in Workers, Finish(w) PROVE TaskTypes'
  <2>1. Forget(w) /\ UNCHANGED <<again, retry, due, bounds>> BY <1>11 DEF Finish
  <2>2. pc' \in [Workers -> Places] BY <1>11 DEF Finish, Goto, TaskTypes, Places
  <2> QED BY <2>1, <2>2, ForgetTypes DEF TaskTypes, bounds
<1>12. ASSUME NEW w \in Workers, Recheck(w) PROVE TaskTypes'
  <2>1. UNCHANGED <<due, bounds>> BY <1>12 DEF Recheck
  <2>2. CASE EndTask(w, "error") BY <2>1, <2>2, EndTaskTypes DEF TaskTypes, bounds
  <2>3. CASE Goto(w, "refused", "check") /\ Forget(w) /\ UNCHANGED <<again, retry>>
    BY <2>1, <2>3, ForgetTypes DEF Goto, TaskTypes, Places, bounds
  <2> QED BY <1>12, <2>2, <2>3 DEF Recheck
<1>13. ASSUME NEW w \in Workers, Stop(w) PROVE TaskTypes'
  <2>1. Forget(w) /\ UNCHANGED fumbles /\ stops' \in 0..MaxStops
    BY <1>13 DEF Stop, TaskTypes
  <2>2. pc' \in [Workers -> Places] BY <1>13 DEF Stop, Put, TaskTypes, Places
  <2>3. /\ again' \in [Workers -> BOOLEAN] /\ retry' \in [Workers -> BOOLEAN]
        /\ due' \in [Workers -> BOOLEAN]
    BY <1>13 DEF Stop, Put, TaskTypes
  <2> QED BY <2>1, <2>2, <2>3, ForgetTypes DEF TaskTypes
<1>14. ASSUME NEW w \in Workers, NEW next \in Actors \cup {Over}, OthersAct(w, next)
       PROVE TaskTypes'
  BY <1>14 DEF OthersAct, Put, TaskTypes, bounds
<1>15. ASSUME NEW w \in Workers, NEW r \in Revisions, Speak(w, r) \/ SpeechFails(w, r)
       PROVE TaskTypes'
  BY <1>15 DEF Speak, SpeechFails, task, TaskTypes, bounds
<1>16. ASSUME (\E r \in Revisions : LeaseEnds(r)) \/ SpeechLeaseEnds PROVE TaskTypes'
  BY <1>16 DEF LeaseEnds, SpeechLeaseEnds, task, TaskTypes, bounds
<1> QED
  BY <1>1, <1>2, <1>3, <1>4, <1>5, <1>6, <1>7, <1>8, <1>9, <1>10, <1>11, <1>12, <1>13,
     <1>14, <1>15, <1>16 DEF Next, Work, Kill, Shutdown

LEMMA TalkTypesStep == ASSUME TypeOK, Next PROVE TalkTypes'
<1> USE DEF TypeOK
<1>1. CASE UNCHANGED talk
  BY <1>1 DEF TalkTypes, talk
<1>2. ASSUME NEW w \in Workers, Begin(w) PROVE TalkTypes'
  <2>1. snap[w] \in Revisions BY DEF TaskTypes
  <2>2. [speech EXCEPT !.start = snap[w]] \in Speech BY <2>1 DEF TalkTypes, Speech
  <2> QED BY <1>2, <2>2 DEF Begin, TalkTypes
<1>3. ASSUME NEW w \in Workers, Finish(w) PROVE TalkTypes'
  <2>1. CASE UNCHANGED talk BY <2>1, <1>1
  <2>2. CASE CountTurn(w, snap[w])
    <3>1. snap[w] \in Revisions BY DEF TaskTypes
    <3>2. Spoke(snap[w]) \in BOOLEAN BY DEF Spoke
    <3>3. claims' \subseteq Workers \X Revisions
      BY <2>2, <3>1 DEF CountTurn, TalkTypes
    <3>4. counted' \subseteq [at : Revisions, spoke : BOOLEAN] /\ spoken' \subseteq Revisions
      BY <2>2, <3>1, <3>2 DEF CountTurn, TalkTypes
    <3>5. speech' \in Speech
      BY <2>2, <3>1, <3>2 DEF CountTurn, Supersede, TalkTypes, Speech
    <3> QED BY <3>3, <3>4, <3>5 DEF TalkTypes
  <2> QED BY <1>3, <2>1, <2>2 DEF Finish
<1>4. \A R : DropClaims(R) => speech' \in Speech
  BY DEF DropClaims, TalkTypes, Speech
<1>5. ASSUME NEW w \in Workers, Kill(w) \/ Shutdown(w) PROVE TalkTypes'
  <2>1. speech' \in Speech BY <1>4, <1>5 DEF Kill, Shutdown, TalkTypes
  <2> QED BY <1>5, <2>1 DEF Kill, Shutdown, Stop, TalkTypes
<1>6. ASSUME NEW w \in Workers, NEW r \in Revisions, Speak(w, r) \/ SpeechFails(w, r)
      PROVE TalkTypes'
  <2>1. speech' \in Speech
    <3>1. CASE SpeechFails(w, r) BY <1>4, <3>1 DEF SpeechFails
    <3>2. CASE Speak(w, r)
      <4>1. speech \in Speech BY DEF TalkTypes
      <4>2. [speech EXCEPT !.silent = 0, !.pending = FALSE,
                           !.status = "sent", !.fresh = FALSE] \in Speech
        BY <4>1 DEF Speech
      <4> QED BY <3>2, <4>1, <4>2 DEF Speak
    <3> QED BY <1>6, <3>1, <3>2
  <2> QED BY <1>6, <2>1 DEF Speak, SpeechFails, TalkTypes
<1>7. SpeechLeaseEnds => TalkTypes'
  BY DEF SpeechLeaseEnds, TalkTypes, Speech
<1> QED BY <1>1, <1>2, <1>3, <1>5, <1>6, <1>7, TalkFrame

LEMMA TypesInit == ASSUME Init PROVE TypeOK
<1>1. RoomTypes
  <2>1. PICK first \in Actors : turns = <<first>> BY DEF Init
  <2>2. turns \in Seq(Actors \cup {Over}) /\ Len(turns) = 1 BY <2>1
  <2> QED BY <2>2 DEF Init, RoomTypes
<1>2. TicketTypes BY DEF Init, TicketTypes, Ticket, Decision, Silent
<1>3. TaskTypes BY DEF Init, TaskTypes, Places, Decision, Silent
<1>4. TalkTypes BY DEF Init, TalkTypes, Speech
<1> QED BY <1>1, <1>2, <1>3, <1>4 DEF TypeOK

LEMMA TypesStep == ASSUME TypeOK, [Next]_vars PROVE TypeOK'
<1>1. CASE UNCHANGED vars
  BY <1>1 DEF TypeOK, RoomTypes, TicketTypes, TaskTypes, TalkTypes, vars, room, task, talk,
              history, bounds
<1>2. CASE Next
  BY <1>2, RoomTypesStep, TicketTypesStep, TaskTypesStep, TalkTypesStep DEF TypeOK
<1> QED BY <1>1, <1>2

\* Every row of the room, of the tickets and of the speech state, and every
\* field of every process keeps its type, for every number of processes.
THEOREM TypeCorrect == Spec => []TypeOK
  BY TypesInit, TypesStep, PTL DEF Spec

----------------------------------------------------------------------------
(* The life of a ticket, and how far each worker is with it.               *)

\* A step leaves a ticket, reserves a free one, fails a reservation, or stores
\* the answer of the worker that settles it.
LEMMA TicketSteps ==
  ASSUME TypeOK, Next, NEW r \in Revisions
  PROVE \/ /\ ticket'[r].status = ticket[r].status /\ ticket'[r].decision = ticket[r].decision
           /\ asked'[r] = asked[r] /\ failed'[r] = failed[r]
        \/ /\ Unclaimed(ticket[r]) /\ ticket'[r].status = "reserved"
           /\ asked'[r] \in {asked[r], asked[r] + 1} /\ failed'[r] = failed[r]
        \/ /\ ticket[r].status = "reserved" /\ ticket'[r].status = "failed"
           /\ asked'[r] = asked[r] /\ failed'[r] = failed[r] + 1
        \/ /\ ticket[r].status = "reserved" /\ ticket'[r].status = "completed"
           /\ asked'[r] = asked[r] /\ failed'[r] = failed[r]
           /\ \E w \in Workers : /\ Settle(w) /\ snap[w] = r
                                 /\ ticket'[r].decision = answer[w]
<1> USE DEF TypeOK
<1> DEFINE Same == /\ ticket'[r].status = ticket[r].status
                   /\ ticket'[r].decision = ticket[r].decision
                   /\ asked'[r] = asked[r] /\ failed'[r] = failed[r]
<1>0. /\ ticket \in [Revisions -> Ticket] /\ ticket[r] \in Ticket
      /\ asked \in [Revisions -> Nat] /\ failed \in [Revisions -> Nat]
  BY DEF TicketTypes
<1>1. CASE UNCHANGED <<ticket, history>>
  BY <1>1 DEF history
<1>2. ASSUME NEW w \in Workers, Reserve(w)
      PROVE \/ Same
            \/ /\ Unclaimed(ticket[r]) /\ ticket'[r].status = "reserved"
               /\ asked'[r] \in {asked[r], asked[r] + 1} /\ failed'[r] = failed[r]
  <2>1. snap[w] \in Revisions /\ failed' = failed BY <1>2 DEF TaskTypes, Reserve
  <2>2. CASE ticket' = ticket /\ asked' = asked BY <2>1, <2>2
  <2>3. CASE /\ ticket' = [ticket EXCEPT ![snap[w]] = Reserved(ticket[snap[w]])]
             /\ \/ Unclaimed(ticket[snap[w]])
                \/ Lapsed(ticket[snap[w]]) /\ asked' = asked
             /\ asked' = asked \/ asked' = [asked EXCEPT ![snap[w]] = @ + 1]
    <3>1. CASE snap[w] # r BY <1>0, <2>1, <2>3, <3>1
    <3>2. CASE snap[w] = r
      <4>1. ticket'[r] = Reserved(ticket[r]) BY <1>0, <2>3, <3>2
      <4>2. ticket'[r].status = "reserved" /\ ticket'[r].decision = ticket[r].decision
        BY <1>0, <4>1 DEF Reserved, Ticket
      <4>3. asked'[r] \in {asked[r], asked[r] + 1} BY <1>0, <2>3, <3>2
      <4>4. CASE Unclaimed(ticket[r]) BY <2>1, <4>2, <4>3, <4>4
      <4>5. CASE Lapsed(ticket[r]) /\ asked' = asked BY <2>1, <4>2, <4>5 DEF Lapsed
      <4> QED BY <2>3, <3>2, <4>4, <4>5
    <3> QED BY <3>1, <3>2
  <2> QED BY <1>2, <2>2, <2>3 DEF Reserve
<1>3. ASSUME NEW w \in Workers, Fumble(w) \/ Shutdown(w)
      PROVE \/ Same
            \/ /\ ticket[r].status = "reserved" /\ ticket'[r].status = "failed"
               /\ asked'[r] = asked[r] /\ failed'[r] = failed[r] + 1
  <2>1. snap[w] \in Revisions /\ asked' = asked
    BY <1>3 DEF TaskTypes, Fumble, Shutdown, Stop
  <2>2. FailTicket(snap[w]) \/ UNCHANGED <<ticket, failed>>
    BY <1>3 DEF Fumble, Shutdown
  <2>3. CASE UNCHANGED <<ticket, failed>> BY <2>1, <2>3
  <2>4. CASE FailTicket(snap[w]) /\ ticket[snap[w]].status # "reserved"
    BY <2>1, <2>4 DEF FailTicket
  <2>5. CASE FailTicket(snap[w]) /\ ticket[snap[w]].status = "reserved"
    <3>1. /\ ticket' = [ticket EXCEPT ![snap[w]] = Failed(ticket[snap[w]])]
          /\ failed' = [failed EXCEPT ![snap[w]] = @ + 1]
      BY <2>5 DEF FailTicket
    <3>2. CASE snap[w] # r BY <1>0, <2>1, <3>1, <3>2
    <3>3. CASE snap[w] = r
      <4>1. ticket'[r] = Failed(ticket[r]) /\ failed'[r] = failed[r] + 1
        BY <1>0, <3>1, <3>3
      <4>2. ticket'[r].status = "failed" BY <1>0, <4>1 DEF Failed, Ticket
      <4> QED BY <2>1, <2>5, <3>3, <4>1, <4>2
    <3> QED BY <3>2, <3>3
  <2> QED BY <2>2, <2>3, <2>4, <2>5
<1>4. ASSUME NEW w \in Workers, Settle(w)
      PROVE \/ Same
            \/ /\ ticket[r].status = "reserved" /\ ticket'[r].status = "completed"
               /\ asked'[r] = asked[r] /\ failed'[r] = failed[r]
               /\ snap[w] = r /\ ticket'[r].decision = answer[w]
  <2>1. snap[w] \in Revisions /\ asked' = asked /\ failed' = failed
    BY <1>4 DEF TaskTypes, Settle, history
  <2>2. CASE ~Settleable(ticket[snap[w]]) BY <1>4, <2>1, <2>2 DEF Settle
  <2>3. CASE Settleable(ticket[snap[w]])
    <3>1. ticket' = [ticket EXCEPT ![snap[w]] = Completed(answer[w])]
      BY <1>4, <2>3 DEF Settle
    <3>2. CASE snap[w] # r BY <1>0, <2>1, <3>1, <3>2
    <3>3. CASE snap[w] = r
      <4>1. ticket'[r] = Completed(answer[w]) BY <1>0, <3>1, <3>3
      <4> QED BY <2>1, <2>3, <3>3, <4>1 DEF Completed, Settleable
    <3> QED BY <3>2, <3>3
  <2> QED BY <2>2, <2>3
<1>5. ASSUME NEW l \in Revisions, LeaseEnds(l) PROVE Same
  <2>1. UNCHANGED history /\ ticket' = [ticket EXCEPT ![l].fresh = FALSE]
    BY <1>5 DEF LeaseEnds
  <2>2. CASE l # r BY <1>0, <2>1, <2>2 DEF history
  <2>3. CASE l = r
    <3>1. ticket'[r] = [ticket[r] EXCEPT !.fresh = FALSE] BY <1>0, <2>1, <2>3
    <3> QED BY <1>0, <2>1, <3>1, TicketValues DEF history, Ticket
  <2> QED BY <2>2, <2>3
<1> QED BY <1>1, <1>2, <1>3, <1>4, <1>5, TicketFrame

\* The room only moves forward.
LEMMA TurnsGrow ==
  ASSUME TypeOK, Next
  PROVE Now' >= Now /\ \A r \in 0..Now : Owner(r)' = Owner(r)
<1>1. RoomTypes /\ Now \in Nat BY RevisionTypes DEF TypeOK, Now, RoomTypes
<1>2. CASE turns' = turns BY <1>1, <1>2 DEF Now, Owner
<1>3. ASSUME NEW next \in Actors \cup {Over}, Advance(next)
      PROVE Now' >= Now /\ \A r \in 0..Now : Owner(r)' = Owner(r)
  BY <1>1, <1>3, AdvanceTypes
<1>4. \/ turns' = turns
      \/ \E next \in Actors \cup {Over} : Advance(next)
  BY RoomFrame DEF Play, OthersAct, Speak, room
<1> QED BY <1>2, <1>3, <1>4

\* Where a worker may be after a step.
Progress(v) ==
  \/ pc'[v] = pc[v] /\ snap'[v] = snap[v] /\ answer'[v] = answer[v]
  \/ pc'[v] \notin Holding
  \/ pc'[v] = "begin" /\ snap'[v] = Now /\ NpcTurn
  \/ /\ pc[v] \in Holding /\ snap'[v] = snap[v]
     /\ \/ pc'[v] \in {"reserve", "ask"}
        \/ pc'[v] = "settle" /\ answer'[v].action \in Actions
        \/ pc'[v] = "reread" /\ ticket'[snap[v]].status = "completed"
        \/ pc'[v] = "play" /\ ticket'[snap[v]].status = "completed"
                           /\ answer'[v] = ticket'[snap[v]].decision

LEMMA EndsPass ==
  ASSUME TypeOK, NEW w \in Workers, NEW v \in Workers,
         \/ Forget(w) /\ \E q \in Places \ Holding : pc' = Put(w, pc, q)
         \/ \E outcome \in {"idle", "limit", "error", "in_progress"} : EndTask(w, outcome)
  PROVE Progress(v)
<1>1. Forget(w) /\ \E q \in Places \ Holding : pc' = Put(w, pc, q)
  BY DEF EndTask, Places, Holding
<1>2. CASE v = w BY <1>1, <1>2 DEF Progress, Put, TypeOK, TaskTypes
<1>3. CASE v # w BY <1>1, <1>3 DEF Progress, Forget, Put, TypeOK, TaskTypes
<1> QED BY <1>2, <1>3

LEMMA ProgressStep ==
  ASSUME Inv, Next, NEW v \in Workers
  PROVE Progress(v)
<1> USE DEF Inv, TypeOK
<1>0. /\ pc \in [Workers -> Places] /\ snap \in [Workers -> Revisions]
      /\ answer \in [Workers -> Decision] /\ ticket \in [Revisions -> Ticket]
  BY DEF TaskTypes, TicketTypes
<1>1. ASSUME NEW w \in Workers, Start(w) \/ RouteSchedules(w) \/ Poll(w) \/ RetryFires(w)
      PROVE Progress(v)
  <2>1. UNCHANGED <<snap, answer>> BY <1>1 DEF Start, RouteSchedules, Poll, RetryFires
  <2>2. pc'[v] = pc[v] \/ pc'[v] \in {"check", "idle"}
    BY <1>0, <1>1 DEF Start, RouteSchedules, Poll, RetryFires, Schedule, Goto, Put
  <2> QED BY <2>1, <2>2 DEF Progress, Holding
<1>2. ASSUME NEW w \in Workers, Check(w) PROVE Progress(v)
  <2>1. CASE EndTask(w, "idle") \/ EndTask(w, "limit") BY <2>1, EndsPass
  <2>2. CASE Goto(w, "check", "delay") /\ UNCHANGED <<snap, answer>>
    BY <1>0, <2>2 DEF Goto, Progress, Holding
  <2> QED BY <1>2, <2>1, <2>2 DEF Check
<1>3. ASSUME NEW w \in Workers, Load(w) \/ Begin(w) \/ Latest(w) PROVE Progress(v)
  <2>1. CASE v = w BY <1>0, <1>3, <2>1 DEF Load, Begin, Latest, Goto, Put, Progress, Holding
  <2>2. CASE v # w BY <1>0, <1>3, <2>2 DEF Load, Begin, Latest, Goto, Put, Progress
  <2> QED BY <2>1, <2>2
<1>4. ASSUME NEW w \in Workers, Reserve(w) PROVE Progress(v)
  <2>1. CASE EndTask(w, "in_progress") BY <2>1, EndsPass
  <2>2. CASE /\ Goto(w, "reserve", "settle") /\ snap' = snap
             /\ \E a \in Actions : answer' = Put(w, answer, Silent(a))
    BY <1>0, <2>2 DEF Goto, Put, Silent, Progress, Holding
  <2>3. CASE Goto(w, "reserve", "refused") /\ UNCHANGED <<snap, answer>>
    BY <1>0, <2>3 DEF Goto, Progress, Holding
  <2>4. CASE Goto(w, "reserve", "ask") /\ UNCHANGED <<snap, answer>>
    BY <1>0, <2>4 DEF Goto, Progress, Holding
  <2>5. CASE /\ Goto(w, "reserve", "play") /\ UNCHANGED <<snap, ticket>>
             /\ ticket[snap[w]].status = "completed"
             /\ answer' = Put(w, answer, ticket[snap[w]].decision)
    BY <1>0, <2>5 DEF Goto, Put, Progress, Holding
  <2> QED BY <1>4, <2>1, <2>2, <2>3, <2>4, <2>5 DEF Reserve
<1>5. ASSUME NEW w \in Workers, Ask(w) PROVE Progress(v)
  BY <1>0, <1>5 DEF Ask, Goto, Put, Progress, Holding
<1>6. ASSUME NEW w \in Workers, Fumble(w) PROVE Progress(v)
  <2>1. CASE EndTask(w, "error") BY <2>1, EndsPass
  <2>2. CASE (\E at \in {"ask", "settle"} : Goto(w, at, "refused")) /\ UNCHANGED <<snap, answer>>
    BY <1>0, <2>2 DEF Goto, Progress, Holding
  <2> QED BY <1>6, <2>1, <2>2 DEF Fumble
<1>7. ASSUME NEW w \in Workers, Settle(w) PROVE Progress(v)
  <2>1. UNCHANGED <<snap, answer>> BY <1>7 DEF Settle
  <2>2. CASE Settleable(ticket[snap[w]])
    <3>1. ticket' = [ticket EXCEPT ![snap[w]] = Completed(answer[w])] /\ Goto(w, "settle", "play")
      BY <1>7, <2>2 DEF Settle
    <3>2. ticket'[snap[w]] = Completed(answer[w]) BY <1>0, <3>1
    <3> QED BY <1>0, <2>1, <3>1, <3>2 DEF Completed, Goto, Progress, Holding
  <2>3. CASE ~Settleable(ticket[snap[w]])
    <3>1. /\ ticket' = ticket
          /\ \/ Goto(w, "settle", "refused")
             \/ ticket[snap[w]].status = "completed" /\ Goto(w, "settle", "reread")
      BY <1>7, <2>3 DEF Settle
    <3> QED BY <1>0, <2>1, <3>1 DEF Goto, Progress, Holding
  <2> QED BY <2>2, <2>3
<1>8. ASSUME NEW w \in Workers, Reread(w) PROVE Progress(v)
  <2>1. UNCHANGED <<snap, ticket>> /\ pc[w] = "reread" BY <1>8 DEF Reread, Goto
  <2>2. ticket[snap[w]].status = "completed" BY <2>1 DEF InHand
  <2>3. CASE Goto(w, "reread", "refused") /\ answer' = answer
    BY <1>0, <2>1, <2>3 DEF Goto, Progress, Holding
  <2>4. CASE Goto(w, "reread", "play") /\ answer' = Put(w, answer, ticket[snap[w]].decision)
    BY <1>0, <2>1, <2>2, <2>4 DEF Goto, Put, Progress, Holding
  <2> QED BY <1>8, <2>3, <2>4 DEF Reread
<1>9. ASSUME NEW w \in Workers, Play(w) PROVE Progress(v)
  BY <1>0, <1>9 DEF Play, Goto, Put, Progress, Holding
<1>10. ASSUME NEW w \in Workers, Finish(w) PROVE Progress(v)
  BY <1>10, EndsPass DEF Finish, Goto, Put, Places, Holding
<1>11. ASSUME NEW w \in Workers, Recheck(w) PROVE Progress(v)
  <2>1. CASE EndTask(w, "error") BY <2>1, EndsPass
  <2>2. CASE Goto(w, "refused", "check") /\ Forget(w)
    BY <2>2, EndsPass DEF Goto, Put, Places, Holding
  <2> QED BY <1>11, <2>1, <2>2 DEF Recheck
<1>12. ASSUME NEW w \in Workers, Kill(w) \/ Shutdown(w) PROVE Progress(v)
  BY <1>12, EndsPass DEF Kill, Shutdown, Stop, Places, Holding
<1>13. CASE UNCHANGED <<pc, snap, answer>> BY <1>13 DEF Progress
<1>14. \A w \in Workers, r \in Revisions, next \in Actors \cup {Over} :
         OthersAct(w, next) \/ Speak(w, r) \/ SpeechFails(w, r) => UNCHANGED <<pc, snap, answer>>
  BY DEF OthersAct, Speak, SpeechFails, task
<1>15. (\E r \in Revisions : LeaseEnds(r)) \/ SpeechLeaseEnds => UNCHANGED <<pc, snap, answer>>
  BY DEF LeaseEnds, SpeechLeaseEnds, task
<1>16. Npc \in Actors \cup {Over} /\ 0 \in Revisions BY DEF Actors
<1> QED
  BY <1>1, <1>2, <1>3, <1>4, <1>5, <1>6, <1>7, <1>8, <1>9, <1>10, <1>11, <1>12, <1>13,
     <1>14, <1>15, <1>16 DEF Next, Work

----------------------------------------------------------------------------
(* The invariant holds.                                                    *)

LEMMA InvInit == ASSUME Init PROVE Inv
<1>1. TypeOK BY TypesInit
<1>2. \A w \in Workers : pc[w] = "down" BY DEF Init
<1>3. \A r \in Revisions : ticket[r].status = "none" /\ asked[r] = 0 /\ failed[r] = 0
  BY DEF Init
<1>4. HoldsTurn /\ InHand BY <1>2 DEF HoldsTurn, InHand, Holding
<1>5. Stored /\ Accounted BY <1>3 DEF Stored, Accounted
<1> QED BY <1>1, <1>4, <1>5 DEF Inv

\* A stored decision stays as it is.
LEMMA StoredStays ==
  ASSUME TypeOK, Next, NEW r \in Revisions, ticket[r].status = "completed"
  PROVE ticket'[r].status = "completed" /\ ticket'[r].decision = ticket[r].decision
  BY TicketSteps DEF Unclaimed

LEMMA HoldsTurnStep == ASSUME Inv, Next PROVE HoldsTurn'
<1>1. SUFFICES ASSUME NEW v \in Workers, pc'[v] \in Holding
               PROVE snap'[v] <= Now' /\ turns'[snap'[v] + 1] = Npc
  BY DEF HoldsTurn, Owner
<1>2. /\ Now \in Revisions /\ Now' >= Now /\ Now' \in Revisions
      /\ \A r \in 0..Now : turns'[r + 1] = turns[r + 1]
  <2>1. TypeOK' BY TypesStep DEF Inv
  <2>2. Now' \in Revisions BY <2>1 DEF TypeOK, RoomTypes, Now
  <2> QED BY <2>2, TurnsGrow, RevisionTypes DEF Inv, TypeOK, Owner
<1>3. snap[v] \in Revisions BY DEF Inv, TypeOK, TaskTypes
<1>4. CASE pc[v] \in Holding /\ snap'[v] = snap[v]
  <2>1. snap[v] \in 0..Now /\ Owner(snap[v]) = Npc BY <1>2, <1>3, <1>4 DEF Inv, HoldsTurn
  <2> QED BY <1>2, <1>4, <2>1 DEF Owner
<1>5. CASE snap'[v] = Now /\ NpcTurn
  BY <1>2, <1>5 DEF NpcTurn, Owner
<1> QED BY <1>1, <1>4, <1>5, ProgressStep DEF Progress

LEMMA InHandStep == ASSUME Inv, Next PROVE InHand'
<1>1. SUFFICES ASSUME NEW v \in Workers
               PROVE /\ pc'[v] = "settle" => answer'[v].action \in Actions
                     /\ pc'[v] = "reread" => ticket'[snap'[v]].status = "completed"
                     /\ pc'[v] = "play" => /\ ticket'[snap'[v]].status = "completed"
                                           /\ answer'[v] = ticket'[snap'[v]].decision
  BY DEF InHand
<1>2. snap[v] \in Revisions BY DEF Inv, TypeOK, TaskTypes
<1>3. CASE pc'[v] = pc[v] /\ snap'[v] = snap[v] /\ answer'[v] = answer[v]
  <2>1. pc[v] = "settle" => answer[v].action \in Actions BY DEF Inv, InHand
  <2>2. pc[v] \in {"reread", "play"} => ticket[snap[v]].status = "completed"
    BY DEF Inv, InHand
  <2>3. pc[v] = "play" => answer[v] = ticket[snap[v]].decision BY DEF Inv, InHand
  <2>4. ticket[snap[v]].status = "completed" =>
          /\ ticket'[snap[v]].status = "completed"
          /\ ticket'[snap[v]].decision = ticket[snap[v]].decision
    BY <1>2, StoredStays DEF Inv
  <2> QED BY <1>3, <2>1, <2>2, <2>3, <2>4
<1>4. CASE ~(pc'[v] = pc[v] /\ snap'[v] = snap[v] /\ answer'[v] = answer[v])
  BY <1>4, ProgressStep DEF Progress, Holding
<1> QED BY <1>3, <1>4

LEMMA StoredStep == ASSUME Inv, Next PROVE Stored'
<1>1. SUFFICES ASSUME NEW r \in Revisions, ticket'[r].status = "completed"
               PROVE ticket'[r].decision.action \in Actions
  BY DEF Stored
<1>2. CASE ticket[r].status = "completed"
  BY <1>2, StoredStays DEF Inv, Stored
<1>3. CASE ticket[r].status # "completed"
  <2>1. PICK w \in Workers : Settle(w) /\ ticket'[r].decision = answer[w]
    BY <1>1, <1>3, TicketSteps DEF Inv
  <2>2. pc[w] = "settle" BY <2>1 DEF Settle, Goto
  <2> QED BY <2>1, <2>2 DEF Inv, InHand
<1> QED BY <1>2, <1>3

LEMMA AccountedStep == ASSUME Inv, Next PROVE Accounted'
<1>1. SUFFICES ASSUME NEW r \in Revisions
               PROVE asked'[r] <= failed'[r]
                       + (IF ticket'[r].status \in {"reserved", "completed"} THEN 1 ELSE 0)
  BY DEF Accounted
<1>2. asked[r] \in Nat /\ failed[r] \in Nat BY DEF Inv, TypeOK, TicketTypes
<1>3. asked[r] <= failed[r] + (IF ticket[r].status \in {"reserved", "completed"} THEN 1 ELSE 0)
  BY DEF Inv, Accounted
<1> QED BY <1>2, <1>3, TicketSteps DEF Inv, Unclaimed

LEMMA InvStep == ASSUME Inv, [Next]_vars PROVE Inv'
<1>1. CASE UNCHANGED vars
  BY <1>1, TypesStep DEF Inv, HoldsTurn, InHand, Stored, Accounted, Owner, Now, vars, room,
                         task, history
<1>2. CASE Next
  BY <1>2, TypesStep, HoldsTurnStep, InHandStep, StoredStep, AccountedStep DEF Inv
<1> QED BY <1>1, <1>2

THEOREM Invariance == Spec => []Inv
  BY InvInit, InvStep, PTL DEF Spec

\* A provider is asked about one revision at most once more than its ticket
\* was failed, for every number of processes and every order of crashes, lapsed
\* leases and late answers.
THEOREM AskedOnceAlways == Spec => []AskedOnce
<1>1. Inv => AskedOnce
  BY DEF Inv, TypeOK, TicketTypes, Accounted, AskedOnce
<1> QED BY <1>1, Invariance, PTL

----------------------------------------------------------------------------
(* The tickets implement NpcPromise.                                       *)

\* The decisions as their readers see them.
LEMMA DecidedSteps ==
  ASSUME TypeOK, Next
  PROVE \/ Decided' = Decided
        \/ \E w \in Workers : Settle(w) /\ Settleable(ticket[snap[w]])
<1>1. SUFFICES ASSUME \A w \in Workers : ~(Settle(w) /\ Settleable(ticket[snap[w]]))
               PROVE Decided' = Decided
  OBVIOUS
<1>2. ASSUME NEW r \in Revisions PROVE Decided'[r] = Decided[r]
  BY <1>1, TicketSteps DEF Decided, Settleable, Unclaimed
<1> QED BY <1>2 DEF Decided

\* A worker that stores its answer decides its revision.
LEMMA SettleDecides ==
  ASSUME Inv, NEW w \in Workers, Settle(w), Settleable(ticket[snap[w]])
  PROVE Promise!Decide(snap[w], answer[w].action)
        /\ snap[w] \in Revisions /\ answer[w].action \in Actions
<1>1. pc[w] = "settle" /\ UNCHANGED <<turns, played>>
      /\ ticket' = [ticket EXCEPT ![snap[w]] = Completed(answer[w])]
  BY DEF Settle, Goto, room
<1>2. snap[w] \in Revisions /\ ticket \in [Revisions -> Ticket]
  BY DEF Inv, TypeOK, TaskTypes, TicketTypes
<1>3. snap[w] <= Now /\ Owner(snap[w]) = Npc /\ answer[w].action \in Actions
  BY <1>1 DEF Inv, HoldsTurn, InHand, Holding
<1>4. Decided[snap[w]] = NoAction BY <1>2 DEF Decided, Settleable
<1>5. ASSUME NEW r \in Revisions
      PROVE Decided'[r] = [Decided EXCEPT ![snap[w]] = answer[w].action][r]
  <2>1. CASE r = snap[w] BY <1>1, <1>2, <2>1 DEF Decided, Completed
  <2>2. CASE r # snap[w] BY <1>1, <1>2, <2>2 DEF Decided
  <2> QED BY <2>1, <2>2
<1>6. Decided' = [Decided EXCEPT ![snap[w]] = answer[w].action]
  BY <1>5 DEF Decided
<1> QED
  BY <1>1, <1>2, <1>3, <1>4, <1>6 DEF Promise!Decide, Promise!Now, Promise!Owner, Now, Owner

\* A worker whose move is accepted plays the decision of that revision.
LEMMA PlayKeeps ==
  ASSUME Inv, NEW w \in Workers, Play(w), Accepted(w)
  PROVE \E next \in Actors \cup {Over} : Promise!NpcMoves(next)
<1>1. PICK next \in Actors \cup {Over} : Advance(next)
  BY DEF Play
<1>2. /\ pc[w] = "play" /\ snap[w] = Now /\ Owner(Now) = Npc
      /\ played' = [played EXCEPT ![Now] = answer[w].action] /\ ticket' = ticket
  BY DEF Play, Accepted, Goto, NpcTurn
<1>3. Now \in Revisions BY RevisionTypes DEF Inv, TypeOK
<1>4. Decided[Now] = answer[w].action /\ Decided[Now] \in Actions
  <2>1. ticket[Now].status = "completed" /\ answer[w] = ticket[Now].decision
    BY <1>2 DEF Inv, InHand
  <2>2. ticket[Now].decision.action \in Actions BY <1>3, <2>1 DEF Inv, Stored
  <2> QED BY <1>3, <2>1, <2>2 DEF Decided
<1>5. Decided' = Decided BY <1>2 DEF Decided
<1> QED
  BY <1>1, <1>2, <1>4, <1>5
     DEF Promise!NpcMoves, Promise!Now, Promise!Owner, Promise!Advance, Now, Owner, Advance

LEMMA PromiseInit == ASSUME Init PROVE Promise!Init
<1>1. Decided = [r \in Revisions |-> NoAction] BY DEF Init, Decided
<1> QED BY <1>1 DEF Init, Promise!Init, Actors

LEMMA PromiseStep == ASSUME Inv, [Next]_vars PROVE [Promise!Next]_(Promise!vars)
<1>1. CASE UNCHANGED vars
  BY <1>1 DEF vars, room, Decided, Promise!vars
<1>2. CASE Next
  <2>1. CASE \E w \in Workers : Settle(w) /\ Settleable(ticket[snap[w]])
    BY <2>1, SettleDecides DEF Promise!Next
  <2>2. CASE \E w \in Workers : Play(w) /\ Accepted(w)
    BY <2>2, PlayKeeps DEF Promise!Next, Actors
  <2>3. CASE /\ Decided' = Decided
             /\ \A w \in Workers : ~(Play(w) /\ Accepted(w))
    <3>1. CASE UNCHANGED <<turns, played>> BY <2>3, <3>1 DEF Promise!vars
    <3>2. ASSUME NEW w \in Workers, NEW next \in Actors \cup {Over}, OthersAct(w, next)
          PROVE Promise!OthersAct(next)
      BY <2>3, <3>2 DEF OthersAct, Advance, Owner, Now, Promise!OthersAct, Promise!Owner,
                        Promise!Now, Promise!Advance
    <3>3. \/ UNCHANGED <<turns, played>>
          \/ \E w \in Workers, next \in Actors \cup {Over} : OthersAct(w, next)
      BY <1>2, <2>3, RoomFrame DEF room, Play, Speak
    <3> QED BY <3>1, <3>2, <3>3 DEF Promise!Next, Actors
  <2> QED BY <1>2, <2>1, <2>2, <2>3, DecidedSteps DEF Inv
<1> QED BY <1>1, <1>2

\* The ticket protocol implements the promise: one decision for each revision,
\* never changed, and the NPC's move is that decision or is refused.
THEOREM Refinement == Spec => KeepsPromise
  BY Invariance, PromiseInit, PromiseStep, PTL DEF Spec, KeepsPromise, Promise!Spec

----------------------------------------------------------------------------
(* Speech and the full turns.                                              *)

\* Turns are counted in order, and an attempt still reserved is newer than
\* every turn in which the NPC spoke.
Timely ==
  /\ \A c \in counted : c.at <= speech.last
  /\ speech.status = "reserved" => \A c \in counted : c.at > speech.attempt => ~c.spoke

\* One server process.
OneProcess == \A v, w \in Workers : v = w

\* Between reading a room in which the NPC has the turn and counting.
Pending == Holding \cup {"latest"}

\* The pass of the only process began after the last count, while the NPC had
\* the turn.
AfterLast(v) ==
  /\ pc[v] \in Pending => /\ speech.last <= snap[v] /\ snap[v] <= Now
                          /\ Owner(snap[v]) = Npc
  /\ pc[v] = "finish" => /\ snap[v] <= Now
                         /\ \E s \in Revisions : s < snap[v] /\ speech.last <= s /\ Owner(s) = Npc
Ordered == \A v \in Workers : AfterLast(v)

\* The endings up to a revision.
EndingsTo(n) == {r \in 1..n : Owner(r) # Npc /\ Owner(r - 1) = Npc}

CountedInTime ==
  /\ speech.last <= Now
  /\ IsFiniteSet(counted)
  /\ Cardinality(counted) <= Cardinality(EndingsTo(speech.last))

\* What a step does to the turns counted, the attempt and the claims posted.
CountsTurn(w) ==
  /\ pc[w] = "finish" /\ pc' = Put(w, pc, "check") /\ UNCHANGED room
  /\ Ended(snap[w]) /\ Countable(snap[w]) /\ CountTurn(w, snap[w])

LEMMA TalkSteps ==
  ASSUME TypeOK, Next
  PROVE \/ /\ UNCHANGED <<counted, spoken>> /\ speech'.last = speech.last
           /\ speech'.status = "reserved" =>
                speech.status = "reserved" /\ speech'.attempt = speech.attempt
        \/ /\ counted' = counted /\ speech'.last = speech.last /\ speech'.status = "sent"
           /\ \E r \in Revisions : OwnsAttempt(r) /\ spoken' = spoken \cup {r}
        \/ \E w \in Workers : CountsTurn(w)
<1>0. speech \in Speech BY DEF TypeOK, TalkTypes
<1>1. CASE UNCHANGED talk BY <1>1 DEF talk
<1>2. ASSUME NEW w \in Workers, Begin(w)
      PROVE UNCHANGED <<counted, spoken>> /\ speech'.last = speech.last
            /\ speech'.status = speech.status /\ speech'.attempt = speech.attempt
  BY <1>0, <1>2 DEF Begin, Speech
<1>3. ASSUME NEW R
      PROVE DropClaims(R) =>
              /\ speech'.last = speech.last
              /\ speech'.status = "reserved" =>
                   speech.status = "reserved" /\ speech'.attempt = speech.attempt
  BY <1>0 DEF DropClaims, Speech
<1>4. ASSUME NEW w \in Workers, Kill(w) \/ Shutdown(w)
      PROVE UNCHANGED <<counted, spoken>>
            /\ (speech' = speech \/ \E R : DropClaims(R))
  BY <1>4 DEF Kill, Shutdown, Stop
<1>5. ASSUME NEW w \in Workers, NEW r \in Revisions, SpeechFails(w, r)
      PROVE UNCHANGED <<counted, spoken>> /\ DropClaims({r})
  BY <1>5 DEF SpeechFails
<1>6. ASSUME NEW w \in Workers, NEW r \in Revisions, Speak(w, r)
      PROVE \/ UNCHANGED <<counted, spoken, speech>>
            \/ /\ counted' = counted /\ speech'.last = speech.last /\ speech'.status = "sent"
               /\ OwnsAttempt(r) /\ spoken' = spoken \cup {r}
  BY <1>0, <1>6 DEF Speak, Speech
<1>7. SpeechLeaseEnds => UNCHANGED <<counted, spoken>> /\ speech'.last = speech.last
                         /\ speech'.status = speech.status /\ speech'.attempt = speech.attempt
  BY <1>0 DEF SpeechLeaseEnds, Speech
<1>8. ASSUME NEW w \in Workers, Finish(w)
      PROVE UNCHANGED talk \/ CountsTurn(w)
  BY <1>8 DEF Finish, CountsTurn, Goto, Put
<1> QED
  BY <1>1, <1>2, <1>3, <1>4, <1>5, <1>6, <1>7, <1>8, TalkFrame DEF talk

\* What counting a turn leaves behind.
LEMMA CountTurnWrites ==
  ASSUME NEW w \in Workers, NEW at, CountTurn(w, at)
  PROVE /\ speech'.last = at /\ UNCHANGED spoken
        /\ counted' = counted \cup {[at |-> at, spoke |-> Spoke(at)]}
        /\ speech'.status = "reserved" =>
             /\ ~Spoke(at)
             /\ \/ speech'.attempt = at
                \/ speech.status = "reserved" /\ speech'.attempt = speech.attempt
  BY DEF CountTurn, Supersede

LEMMA TimelyStep == ASSUME TypeOK, Timely, [Next]_vars PROVE Timely'
<1>0. /\ counted \subseteq [at : Revisions, spoke : BOOLEAN]
      /\ speech.last \in {-1} \cup Revisions
  BY DEF TypeOK, TalkTypes, Speech
<1>1. CASE UNCHANGED vars BY <1>1 DEF vars, talk, Timely
<1>2. ASSUME NEW w \in Workers, CountsTurn(w) PROVE Timely'
  <2> DEFINE n == snap[w]
             new == [at |-> n, spoke |-> Spoke(n)]
  <2>1. n \in Revisions /\ speech.last < n
    BY <1>2 DEF CountsTurn, Countable, TypeOK, TaskTypes
  <2>2. /\ speech'.last = n /\ counted' = counted \cup {new}
        /\ speech'.status = "reserved" =>
             /\ ~Spoke(n)
             /\ \/ speech'.attempt = n
                \/ speech.status = "reserved" /\ speech'.attempt = speech.attempt
    BY <1>2, CountTurnWrites DEF CountsTurn
  <2>3. \A c \in counted : c.at \in Revisions /\ c.at <= speech.last BY <1>0 DEF Timely
  <2>4. new.at = n /\ new.spoke = Spoke(n) OBVIOUS
  <2> HIDE DEF n, new
  <2>5. \A c \in counted' : c.at <= speech'.last BY <1>0, <2>1, <2>2, <2>3, <2>4
  <2>6. ASSUME speech'.status = "reserved", NEW c \in counted', c.at > speech'.attempt
        PROVE ~c.spoke
    <3>1. CASE c = new BY <2>2, <2>4, <2>6, <3>1
    <3>2. CASE c \in counted /\ speech'.attempt = n BY <1>0, <2>1, <2>3, <2>6, <3>2
    <3>3. CASE c \in counted /\ speech.status = "reserved" /\ speech'.attempt = speech.attempt
      BY <2>6, <3>3 DEF Timely
    <3> QED BY <2>2, <2>6, <3>1, <3>2, <3>3
  <2> QED BY <2>5, <2>6 DEF Timely
<1>3. CASE /\ counted' = counted /\ speech'.last = speech.last
           /\ speech'.status = "reserved" =>
                speech.status = "reserved" /\ speech'.attempt = speech.attempt
  BY <1>3 DEF Timely
<1> QED BY <1>1, <1>2, <1>3, TalkSteps

\* A claim is posted only while its attempt is still reserved.
LEMMA SpeakIsTimely ==
  ASSUME TypeOK, Timely, [Next]_vars
  PROVE \A r \in spoken' \ spoken : \A c \in counted : c.at > r => ~c.spoke
<1>1. CASE UNCHANGED vars BY <1>1 DEF vars, talk
<1>2. CASE spoken' = spoken BY <1>2
<1>3. ASSUME NEW r \in Revisions, OwnsAttempt(r), spoken' = spoken \cup {r}
      PROVE \A q \in spoken' \ spoken : \A c \in counted : c.at > q => ~c.spoke
  BY <1>3 DEF OwnsAttempt, Timely
<1>4. ASSUME NEW w \in Workers, CountsTurn(w) PROVE spoken' = spoken
  BY <1>4, CountTurnWrites DEF CountsTurn
<1> QED BY <1>1, <1>2, <1>3, <1>4, TalkSteps

LEMMA TimelyAlways == Spec => []Timely
<1>1. Init => Timely BY DEF Init, Timely
<1>2. Inv => TypeOK BY DEF Inv
<1> QED BY <1>1, <1>2, TimelyStep, Invariance, PTL DEF Spec

\* A speech that was owed for a turn is never posted once the NPC has spoken by
\* itself in a later counted turn: for every number of processes, whenever their
\* claims lapse, are superseded, are taken over or come back late.
THEOREM NoStaleSpeechEver == Spec => NoStaleSpeech
<1>1. Inv => TypeOK BY DEF Inv
<1> QED BY <1>1, SpeakIsTimely, TimelyAlways, Invariance, PTL DEF Spec, NoStaleSpeech

----------------------------------------------------------------------------
(* The turns counted, with one process.                                    *)

\* Between a turn of the NPC and one that is not lies an ending.
LEMMA EndingBetween ==
  ASSUME RoomTypes, NEW s \in Revisions, NEW at \in Revisions, s < at, at <= Now,
         Owner(s) = Npc, Owner(at) # Npc
  PROVE \E r \in EndingsTo(at) : s < r
<1> DEFINE T == {r \in Nat : s < r /\ r <= at /\ Owner(r) # Npc}
<1>1. T \in SUBSET Nat /\ at \in T OBVIOUS
<1>2. PICK r \in T : \A q \in T : r <= q
  <2> HIDE DEF T
  <2> QED BY <1>1, LeastNatural
<1>3. r - 1 \in Nat /\ s <= r - 1 /\ r - 1 <= at BY <1>2
<1>4. Owner(r - 1) = Npc
  <2>1. CASE s = r - 1 BY <2>1
  <2>2. CASE s # r - 1
    <3>1. r - 1 \notin T BY <1>2, <1>3
    <3> QED BY <1>3, <2>2, <3>1
  <2> QED BY <2>1, <2>2
<1> QED BY <1>2, <1>3, <1>4 DEF EndingsTo

LEMMA EndingsGrow ==
  ASSUME NEW m \in Int, NEW n \in Int, m <= n
  PROVE /\ EndingsTo(m) \subseteq EndingsTo(n)
        /\ IsFiniteSet(EndingsTo(m)) /\ IsFiniteSet(EndingsTo(n))
        /\ Cardinality(EndingsTo(m)) <= Cardinality(EndingsTo(n))
        /\ Cardinality(EndingsTo(m)) \in Nat /\ Cardinality(EndingsTo(n)) \in Nat
<1>1. EndingsTo(m) \subseteq EndingsTo(n) /\ EndingsTo(m) \subseteq 1..m /\ EndingsTo(n) \subseteq 1..n
  BY DEF EndingsTo
<1>2. IsFiniteSet(1..m) /\ IsFiniteSet(1..n) BY FS_Interval
<1>3. IsFiniteSet(EndingsTo(m)) /\ IsFiniteSet(EndingsTo(n)) BY <1>1, <1>2, FS_Subset
<1> QED BY <1>1, <1>3, FS_Subset, FS_CardinalityType

\* What is past does not change.
LEMMA EndingsStay ==
  ASSUME TypeOK, [Next]_vars, NEW n \in Int, n <= Now
  PROVE EndingsTo(n)' = EndingsTo(n)
<1>1. /\ Now \in Int
      /\ \A r \in 0..Now : turns'[r + 1] = turns[r + 1]
  <2>1. CASE UNCHANGED vars BY <2>1, RevisionTypes DEF vars, room, TypeOK
  <2>2. CASE Next BY <2>2, TurnsGrow, RevisionTypes DEF TypeOK, Owner
  <2> QED BY <2>1, <2>2
<1>2. \A r \in 1..n : r \in 0..Now /\ r - 1 \in 0..Now BY <1>1
<1>3. \A r \in 1..n : Owner(r)' = Owner(r) /\ Owner(r - 1)' = Owner(r - 1)
  BY <1>1, <1>2 DEF Owner
<1> QED BY <1>3 DEF EndingsTo

\* How far a pass gets in one step, up to the count.
Course(v) ==
  \/ pc'[v] \notin Pending \cup {"finish"}
  \/ pc'[v] = pc[v] /\ snap'[v] = snap[v]
  \/ pc'[v] \in Pending /\ snap'[v] = Now /\ NpcTurn
  \/ pc[v] \in Pending /\ pc'[v] \in Pending /\ snap'[v] = snap[v]
  \/ /\ pc[v] = "play" /\ pc'[v] = "finish" /\ NpcTurn
     /\ snap[v] = Now /\ snap'[v] = Now + 1 /\ Now' = Now + 1
  \/ /\ pc[v] = "latest" /\ pc'[v] = "finish"
     /\ snap[v] < Now /\ snap'[v] = Now /\ Now' = Now

LEMMA EndsCourse ==
  ASSUME TypeOK, NEW w \in Workers,
         \/ Forget(w) /\ \E q \in Places \ (Pending \cup {"finish"}) : pc' = Put(w, pc, q)
         \/ \E outcome \in {"idle", "limit", "error", "in_progress"} : EndTask(w, outcome),
         NEW v \in Workers
  PROVE Course(v)
<1>1. Forget(w) /\ \E q \in Places \ (Pending \cup {"finish"}) : pc' = Put(w, pc, q)
  BY DEF EndTask, Places, Pending, Holding
<1>2. CASE v = w BY <1>1, <1>2 DEF Course, Put, TypeOK, TaskTypes
<1>3. CASE v # w BY <1>1, <1>3 DEF Course, Forget, Put, TypeOK, TaskTypes
<1> QED BY <1>2, <1>3

LEMMA CourseStep == ASSUME Inv, Next, NEW v \in Workers PROVE Course(v)
<1> USE DEF Inv, TypeOK
<1>0. /\ pc \in [Workers -> Places] /\ snap \in [Workers -> Revisions]
      /\ Now \in Revisions
  BY RevisionTypes DEF TaskTypes
<1>1. ASSUME NEW w \in Workers, Start(w) \/ RouteSchedules(w) \/ Poll(w) \/ RetryFires(w)
      PROVE Course(v)
  <2>1. UNCHANGED snap BY <1>1 DEF Start, RouteSchedules, Poll, RetryFires
  <2>2. pc'[v] = pc[v] \/ pc'[v] \in {"check", "idle"}
    BY <1>0, <1>1 DEF Start, RouteSchedules, Poll, RetryFires, Schedule, Goto, Put
  <2> QED BY <2>1, <2>2 DEF Course, Pending, Holding
<1>2. ASSUME NEW w \in Workers, Check(w) PROVE Course(v)
  <2>1. CASE EndTask(w, "idle") \/ EndTask(w, "limit") BY <2>1, EndsCourse
  <2>2. CASE Goto(w, "check", "delay") /\ UNCHANGED <<snap, answer>>
    BY <1>0, <2>2 DEF Goto, Course, Pending, Holding
  <2> QED BY <1>2, <2>1, <2>2 DEF Check
<1>3. ASSUME NEW w \in Workers, Load(w) PROVE Course(v)
  BY <1>0, <1>3 DEF Load, Goto, Put, Course, Pending, Holding
<1>4. ASSUME NEW w \in Workers, Latest(w) PROVE Course(v)
  <2>1. Now' = Now /\ pc[w] = "latest" BY <1>4 DEF Latest, Goto, room, Now
  <2> QED BY <1>0, <1>4, <2>1 DEF Latest, Goto, Put, Course, Pending, Holding
<1>5. ASSUME NEW w \in Workers, Begin(w) \/ Ask(w) \/ Settle(w) \/ Reread(w) PROVE Course(v)
  <2>1. UNCHANGED snap /\ pc[w] \in Pending
    BY <1>5 DEF Begin, Ask, Settle, Reread, Goto, Pending, Holding
  <2>2. \E q \in (Pending \cup {"refused"}) : pc' = [pc EXCEPT ![w] = q]
    BY <1>5 DEF Begin, Ask, Settle, Reread, Goto, Pending, Holding
  <2> QED BY <1>0, <2>1, <2>2 DEF Course, Pending, Holding
<1>6. ASSUME NEW w \in Workers, Reserve(w) PROVE Course(v)
  <2>1. CASE EndTask(w, "in_progress") BY <2>1, EndsCourse
  <2>2. CASE /\ snap' = snap
             /\ \E q \in {"refused", "ask", "settle", "play"} : Goto(w, "reserve", q)
    BY <1>0, <2>2 DEF Goto, Course, Pending, Holding
  <2> QED BY <1>6, <2>1, <2>2 DEF Reserve
<1>7. ASSUME NEW w \in Workers, Fumble(w) PROVE Course(v)
  <2>1. CASE EndTask(w, "error") BY <2>1, EndsCourse
  <2>2. CASE (\E at \in {"ask", "settle"} : Goto(w, at, "refused")) /\ UNCHANGED snap
    BY <1>0, <2>2 DEF Goto, Course, Pending, Holding
  <2> QED BY <1>7, <2>1, <2>2 DEF Fumble
<1>8. ASSUME NEW w \in Workers, Play(w) PROVE Course(v)
  <2>1. CASE Accepted(w)
    <3>1. PICK next \in Actors \cup {Over} : Advance(next) BY <1>8, <2>1 DEF Play
    <3>2. Now' = Now + 1 BY <3>1, AdvanceTypes
    <3>3. /\ Goto(w, "play", "finish") /\ snap' = Put(w, snap, Now + 1)
          /\ snap[w] = Now /\ NpcTurn
      BY <1>8, <2>1 DEF Play, Accepted
    <3>4. CASE v = w BY <1>0, <3>2, <3>3, <3>4 DEF Goto, Put, Course
    <3>5. CASE v # w BY <1>0, <3>3, <3>5 DEF Goto, Put, Course
    <3> QED BY <3>4, <3>5
  <2>2. CASE ~Accepted(w)
    BY <1>0, <1>8, <2>2 DEF Play, Goto, Course, Pending, Holding
  <2> QED BY <2>1, <2>2
<1>9. ASSUME NEW w \in Workers, Finish(w) PROVE Course(v)
  BY <1>9, EndsCourse DEF Finish, Goto, Put, Places, Pending, Holding
<1>10. ASSUME NEW w \in Workers, Recheck(w) PROVE Course(v)
  <2>1. CASE EndTask(w, "error") BY <2>1, EndsCourse
  <2>2. CASE Goto(w, "refused", "check") /\ Forget(w)
    BY <2>2, EndsCourse DEF Goto, Put, Places, Pending, Holding
  <2> QED BY <1>10, <2>1, <2>2 DEF Recheck
<1>11. ASSUME NEW w \in Workers, Kill(w) \/ Shutdown(w) PROVE Course(v)
  BY <1>11, EndsCourse DEF Kill, Shutdown, Stop, Places, Pending, Holding
<1>12. CASE UNCHANGED <<pc, snap>> BY <1>12 DEF Course
<1>13. \A w \in Workers, r \in Revisions, next \in Actors \cup {Over} :
         OthersAct(w, next) \/ Speak(w, r) \/ SpeechFails(w, r) => UNCHANGED <<pc, snap>>
  BY DEF OthersAct, Speak, SpeechFails, task
<1>14. (\E r \in Revisions : LeaseEnds(r)) \/ SpeechLeaseEnds => UNCHANGED <<pc, snap>>
  BY DEF LeaseEnds, SpeechLeaseEnds, task
<1>15. Npc \in Actors \cup {Over} /\ 0 \in Revisions BY DEF Actors
<1> QED
  BY <1>1, <1>2, <1>3, <1>4, <1>5, <1>6, <1>7, <1>8, <1>9, <1>10, <1>11, <1>12, <1>13,
     <1>14, <1>15 DEF Next, Work

\* The room as the next two lemmas need it: it grows, and its past stays.
LEMMA RoomGrows ==
  ASSUME TypeOK, [Next]_vars
  PROVE /\ Now \in Revisions /\ Now' \in Revisions /\ Now <= Now'
        /\ \A r \in 0..Now : Owner(r)' = Owner(r)
<1>1. Now \in Revisions BY RevisionTypes DEF TypeOK
<1>2. Now' \in Revisions
  <2>1. TypeOK' BY TypesStep
  <2> QED BY <2>1 DEF TypeOK, RoomTypes, Now
<1>3. CASE UNCHANGED vars BY <1>1, <1>2, <1>3 DEF vars, room, Now, Owner
<1>4. CASE Next BY <1>1, <1>2, <1>4, TurnsGrow DEF TypeOK
<1> QED BY <1>3, <1>4

LEMMA OrderedStep ==
  ASSUME OneProcess, Inv, Ordered, speech.last <= Now, [Next]_vars
  PROVE Ordered'
<1>1. SUFFICES ASSUME NEW v \in Workers PROVE AfterLast(v)'
  BY DEF Ordered
<1>2. /\ Now \in Revisions /\ Now' \in Revisions /\ Now <= Now'
      /\ \A r \in 0..Now : Owner(r)' = Owner(r)
  BY RoomGrows DEF Inv
<1>3. /\ snap[v] \in Revisions /\ speech.last \in {-1} \cup Revisions
      /\ AfterLast(v) /\ speech.last <= Now
  BY DEF Inv, TypeOK, TaskTypes, TalkTypes, Speech, Ordered
<1>4. CASE UNCHANGED vars BY <1>3, <1>4 DEF vars, room, task, talk, AfterLast, Owner, Now
<1>5. CASE Next
  <2>1. Course(v) BY <1>5, CourseStep
  <2>2. speech'.last = speech.last \/ pc'[v] \notin Pending \cup {"finish"}
    <3>1. ASSUME NEW w \in Workers, CountsTurn(w) PROVE pc'[v] = "check"
      <4>1. w = v BY DEF OneProcess
      <4> QED BY <3>1, <4>1 DEF CountsTurn, Put, Inv, TypeOK, TaskTypes
    <3> QED BY <1>5, <3>1, TalkSteps DEF Inv, Pending, Holding
  <2>3. CASE pc'[v] \notin Pending \cup {"finish"} BY <2>3 DEF AfterLast
  <2>4. CASE /\ speech'.last = speech.last
             /\ \/ pc'[v] = pc[v] /\ snap'[v] = snap[v]
                \/ pc[v] \in Pending /\ pc'[v] \in Pending /\ snap'[v] = snap[v]
    <3>1. "finish" \notin Pending BY DEF Pending, Holding
    <3>2. CASE pc[v] \in Pending
      <4>1. snap[v] \in 0..Now /\ speech.last <= snap[v] /\ Owner(snap[v]) = Npc
        BY <1>2, <1>3, <3>2 DEF AfterLast
      <4>2. Owner(snap[v])' = Npc BY <1>2, <2>4, <4>1 DEF Owner
      <4> QED BY <1>2, <1>3, <2>4, <3>1, <3>2, <4>1, <4>2 DEF AfterLast
    <3>3. CASE pc[v] = "finish" /\ pc'[v] = "finish"
      <4>1. PICK s \in Revisions : s < snap[v] /\ speech.last <= s /\ Owner(s) = Npc
        BY <1>3, <3>3 DEF AfterLast
      <4>2. snap[v] <= Now BY <1>3, <3>3 DEF AfterLast
      <4>3. Owner(s)' = Npc BY <1>2, <1>3, <4>1, <4>2 DEF Owner
      <4> QED BY <1>2, <1>3, <2>4, <3>1, <3>3, <4>1, <4>2, <4>3 DEF AfterLast
    <3>4. CASE pc[v] \notin Pending \cup {"finish"} BY <2>4, <3>4 DEF AfterLast
    <3> QED BY <2>4, <3>1, <3>2, <3>3, <3>4
  <2>5. CASE speech'.last = speech.last /\ pc'[v] \in Pending /\ snap'[v] = Now /\ NpcTurn
    <3>1. Owner(snap[v])' = Npc BY <1>2, <2>5 DEF NpcTurn, Owner
    <3>2. "finish" \notin Pending BY DEF Pending, Holding
    <3> QED BY <1>2, <1>3, <2>5, <3>1, <3>2 DEF AfterLast
  <2>6. CASE /\ speech'.last = speech.last
             /\ pc[v] = "play" /\ pc'[v] = "finish" /\ NpcTurn
             /\ snap[v] = Now /\ snap'[v] = Now + 1 /\ Now' = Now + 1
    <3>1. Owner(Now) = Npc /\ Now \in 0..Now BY <1>2, <2>6 DEF NpcTurn
    <3>2. turns'[Now + 1] = Npc BY <1>2, <3>1 DEF Owner
    <3> DEFINE n == Now
    <3>3. n \in Revisions /\ n < snap'[v] /\ speech'.last <= n /\ turns'[n + 1] = Npc
      BY <1>2, <1>3, <2>6, <3>2
    <3> HIDE DEF n
    <3>4. "finish" \notin Pending BY DEF Pending, Holding
    <3> QED BY <1>2, <2>6, <3>3, <3>4 DEF AfterLast, Owner
  <2>7. CASE /\ speech'.last = speech.last
             /\ pc[v] = "latest" /\ pc'[v] = "finish"
             /\ snap[v] < Now /\ snap'[v] = Now /\ Now' = Now
    <3> DEFINE s == snap[v]
    <3>1. speech.last <= s /\ Owner(s) = Npc BY <1>3, <2>7 DEF AfterLast, Pending
    <3>2. s \in 0..Now BY <1>2, <1>3, <2>7
    <3>3. turns'[s + 1] = Npc BY <1>2, <3>1, <3>2 DEF Owner
    <3>4. s \in Revisions /\ s < snap'[v] /\ speech'.last <= s /\ snap'[v] <= Now'
      BY <1>2, <1>3, <2>7, <3>1
    <3> HIDE DEF s
    <3>5. "finish" \notin Pending BY DEF Pending, Holding
    <3> QED BY <2>7, <3>3, <3>4, <3>5 DEF AfterLast, Owner
  <2> QED BY <2>1, <2>2, <2>3, <2>4, <2>5, <2>6, <2>7 DEF Course
<1> QED BY <1>4, <1>5

\* A turn is counted when an ending has passed since the last one counted.
LEMMA CountedStep ==
  ASSUME Inv, Ordered, CountedInTime, [Next]_vars
  PROVE CountedInTime'
<1> DEFINE k == speech.last
<1>1. /\ Now \in Revisions /\ Now' \in Revisions /\ Now <= Now'
      /\ k \in {-1} \cup Revisions /\ k <= Now
  BY RoomGrows DEF Inv, TypeOK, TalkTypes, Speech, CountedInTime
<1>2. CASE speech'.last = k /\ counted' = counted
  <2>1. \A m \in Int : m <= Now => EndingsTo(m)' = EndingsTo(m) BY EndingsStay DEF Inv
  <2>2. EndingsTo(speech.last)' = EndingsTo(speech.last)
    <3>1. PICK m \in Int : m = k /\ m <= Now BY <1>1
    <3>2. EndingsTo(m)' = EndingsTo(m) BY <2>1, <3>1
    <3>3. speech'.last = m BY <1>2, <3>1
    <3> QED BY <3>1, <3>2, <3>3 DEF EndingsTo, Owner
  <2> QED BY <1>1, <1>2, <2>2 DEF CountedInTime
<1>3. ASSUME NEW w \in Workers, CountsTurn(w) PROVE CountedInTime'
  <2> DEFINE n == snap[w]
             new == [at |-> n, spoke |-> Spoke(n)]
  <2>1. speech'.last = n /\ counted' = counted \cup {new} /\ UNCHANGED turns
    BY <1>3, CountTurnWrites DEF CountsTurn, room
  <2>2. /\ pc[w] = "finish" /\ Owner(n) # Npc /\ k < n /\ n \in Revisions
    BY <1>3 DEF CountsTurn, Ended, Countable, Inv, TypeOK, TaskTypes
  <2>3. n <= Now /\ \E s \in Revisions : s < n /\ k <= s /\ Owner(s) = Npc
    BY <2>2 DEF Ordered, AfterLast
  <2>4. PICK r \in EndingsTo(n) : k < r
    <3>1. PICK s \in Revisions : s < n /\ k <= s /\ Owner(s) = Npc BY <2>3
    <3>2. \E r \in EndingsTo(n) : s < r
      BY <2>2, <2>3, <3>1, EndingBetween DEF Inv, TypeOK
    <3>3. PICK r \in EndingsTo(n) : s < r BY <3>2
    <3>4. r \in Int BY DEF EndingsTo
    <3> QED BY <1>1, <3>1, <3>3, <3>4
  <2>5. r \notin EndingsTo(k) BY <1>1, <2>4 DEF EndingsTo
  <2>6. /\ IsFiniteSet(EndingsTo(k)) /\ IsFiniteSet(EndingsTo(n))
        /\ EndingsTo(k) \subseteq EndingsTo(n)
        /\ Cardinality(EndingsTo(k)) \in Nat /\ Cardinality(EndingsTo(n)) \in Nat
    BY <1>1, <2>2, EndingsGrow
  <2>7. Cardinality(EndingsTo(k)) + 1 <= Cardinality(EndingsTo(n))
    <3>1. EndingsTo(k) \cup {r} \subseteq EndingsTo(n) BY <2>4, <2>6
    <3>2. Cardinality(EndingsTo(k) \cup {r}) = Cardinality(EndingsTo(k)) + 1
      BY <2>5, <2>6, FS_AddElement
    <3>3. Cardinality(EndingsTo(k) \cup {r}) <= Cardinality(EndingsTo(n))
      BY <2>6, <3>1, FS_Subset
    <3> QED BY <3>2, <3>3
  <2> HIDE DEF n, new, k
  <2>8. /\ IsFiniteSet(counted') /\ Cardinality(counted') \in Nat /\ Cardinality(counted) \in Nat
        /\ Cardinality(counted') <= Cardinality(counted) + 1
    <3>1. IsFiniteSet(counted) /\ Cardinality(counted) \in Nat
      BY FS_CardinalityType DEF CountedInTime
    <3>2. CASE new \in counted
      <4>1. counted' = counted BY <2>1, <3>2
      <4> QED BY <3>1, <4>1
    <3>3. CASE new \notin counted
      <4>1. /\ IsFiniteSet(counted \cup {new})
            /\ Cardinality(counted \cup {new}) = Cardinality(counted) + 1
        BY <3>1, <3>3, FS_AddElement
      <4> QED BY <2>1, <3>1, <4>1
    <3> QED BY <3>2, <3>3
  <2>9. Cardinality(counted) <= Cardinality(EndingsTo(k)) BY DEF CountedInTime, k
  <2>10. EndingsTo(speech.last)' = EndingsTo(n)
    BY <2>1 DEF EndingsTo, Owner
  <2>11. Cardinality(counted') <= Cardinality(EndingsTo(n)) BY <2>6, <2>7, <2>8, <2>9
  <2>12. speech'.last <= Now'
    <3>1. n <= Now BY <2>3
    <3> QED BY <1>1, <2>1, <2>2, <3>1
  <2> QED BY <2>8, <2>10, <2>11, <2>12 DEF CountedInTime
<1>4. CASE UNCHANGED vars
  BY <1>2, <1>4 DEF vars, talk
<1> QED BY <1>2, <1>3, <1>4, TalkSteps DEF Inv

LEMMA CountingInit == ASSUME Init PROVE Ordered /\ CountedInTime
<1>1. Ordered BY DEF Init, Ordered, AfterLast, Pending, Holding
<1>2. speech.last = -1 /\ counted = {} /\ Now \in Nat
  BY TypesInit, RevisionTypes DEF Init, TypeOK
<1>3. EndingsTo(-1) = {} BY DEF EndingsTo
<1> QED BY <1>1, <1>2, <1>3, FS_EmptySet DEF CountedInTime

\* One process never counts more full turns than the NPC has had, for every
\* length of the game, however often the process is stopped and its moves are
\* refused.
THEOREM NotOvercountedAlways ==
  ASSUME OneProcess
  PROVE Spec => []NotOvercounted
<1>1. Ordered /\ CountedInTime /\ Inv /\ [Next]_vars => (Ordered /\ CountedInTime)'
  BY OrderedStep, CountedStep DEF CountedInTime
<1>2. Inv /\ CountedInTime => NotOvercounted
  <2> SUFFICES ASSUME Inv, CountedInTime PROVE NotOvercounted
    OBVIOUS
  <2>1. /\ Now \in Int /\ speech.last \in Int /\ speech.last <= Now
    BY RevisionTypes DEF Inv, TypeOK, TalkTypes, Speech, CountedInTime
  <2>2. /\ Cardinality(EndingsTo(speech.last)) <= Cardinality(EndingsTo(Now))
        /\ Cardinality(EndingsTo(speech.last)) \in Nat /\ Cardinality(EndingsTo(Now)) \in Nat
    BY <2>1, EndingsGrow
  <2>3. Cardinality(counted) \in Nat BY FS_CardinalityType DEF CountedInTime
  <2>4. EndingsTo(Now) = Endings BY DEF EndingsTo, Endings
  <2> QED BY <2>2, <2>3, <2>4 DEF CountedInTime, NotOvercounted
<1> QED BY <1>1, <1>2, CountingInit, Invariance, PTL DEF Spec

=============================================================================
