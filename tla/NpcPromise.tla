----------------------------- MODULE NpcPromise -----------------------------
(***************************************************************************)
(* What the decision tickets of app/npc_runtime.py promise to a game: at   *)
(* each revision at which the system NPC has the turn, at most one action  *)
(* is ever decided, a decision is never changed, and what the NPC then     *)
(* plays is that decision, at that revision or not at all.  How many       *)
(* processes work on it, which of them crash, and how often a provider was *)
(* asked is not visible here.                                              *)
(***************************************************************************)
EXTENDS Integers, Sequences

CONSTANTS Npc, Real, Over, Actions, Undecided, Revisions

VARIABLES
  turns,    \* turns[r + 1]: who has the turn at revision r, or Over
  decided,  \* the decision of each revision
  played    \* what the NPC played at each revision

vars == <<turns, decided, played>>

Now == Len(turns) - 1
Owner(r) == turns[r + 1]
Advance(next) == turns' = Append(turns, next)

Init ==
  /\ turns \in {<<first>> : first \in Real \cup {Npc}}
  /\ decided = [r \in Revisions |-> Undecided]
  /\ played = [r \in Revisions |-> Undecided]

\* A late worker may still decide a revision the room has left.
Decide(r, a) ==
  /\ r <= Now /\ Owner(r) = Npc /\ decided[r] = Undecided
  /\ decided' = [decided EXCEPT ![r] = a]
  /\ UNCHANGED <<turns, played>>

NpcMoves(next) ==
  /\ Owner(Now) = Npc /\ decided[Now] # Undecided
  /\ played' = [played EXCEPT ![Now] = decided[Now]]
  /\ Advance(next)
  /\ UNCHANGED decided

OthersAct(next) == Owner(Now) # Over /\ Advance(next) /\ UNCHANGED <<decided, played>>

Next ==
  \/ \E r \in Revisions, a \in Actions : Decide(r, a)
  \/ \E next \in Real \cup {Npc, Over} : NpcMoves(next) \/ OthersAct(next)

Spec == Init /\ [][Next]_vars

=============================================================================
