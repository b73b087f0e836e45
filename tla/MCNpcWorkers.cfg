\* Two processes around one turn, stopped twice, and one failure of the plugin.
SPECIFICATION Spec
SYMMETRY Symmetry
CONSTANTS
  Workers = {w1, w2}
  Npc = n
  Real = {p}
  Over = Over
  Actions = {a, b}
  NoAction = NoAction
  SpeakAfter = 1
  UnattendedLimit = 9
  MaxActions = 9
  MaxRevision = 1
  MaxStops = 2
  MaxFumbles = 1
INVARIANTS TypeOK AskedOnce
PROPERTY KeepsPromise
CHECK_DEADLOCK FALSE
