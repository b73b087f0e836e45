------------------------------- MODULE MCNpc --------------------------------
(* Small instances of Npc: one NPC and one real player. *)
EXTENDS Npc, TLC

\* Processes and actions are interchangeable.
Symmetry == Permutations(Workers) \cup Permutations(Actions)
=============================================================================
