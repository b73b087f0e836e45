\* One process, stopped once, over a longer game in which every silent turn is owed a word.
SPECIFICATION LiveSpec
CONSTANTS
  Workers = {w}
  Npc = n
  Real = {p}
  Over = Over
  Actions = {a}
  NoAction = NoAction
  SpeakAfter = 1
  UnattendedLimit = 1
  MaxActions = 2
  MaxRevision = 3
  MaxStops = 1
  MaxFumbles = 0
INVARIANT NotOvercounted
PROPERTIES NoStaleSpeech NpcMovesOn
CHECK_DEADLOCK FALSE
