\* Two players and an NPC: a resignation moves the revision without the clock.
SPECIFICATION Spec
CONSTANTS
  Players = {p, q}
  Npc = n
  Limit = 2
  MaxTime = 4
  MaxRevision = 3
PROPERTY ReclaimProtects
CHECK_DEADLOCK FALSE
