\* One room over its whole life: three seats, a stake, an NPC, an invite.
SPECIFICATION Spec
CONSTANTS
  h1 = h1
  h2 = h2
  m1 = m1
  m2 = m2
  n1 = n1
  n2 = n2
  Humans = {h1}
  Machines = {m1}
  Npcs = {n1, n2}
  RoomIds = {r1}
  Bindings <- Bound
  Rosters <- TableRosters
  Households <- WithMachine
  Stakes = {0, 1}
  AllowedCounts = {2, 3}
  MayContinue = {2, 3}
  GameDeltas <- Payment
  NonZeroSum = FALSE
  CustomPayout = FALSE
  GlobalLimit = 1
  PairLimit = 1
  NpcRounds = 1
  MaxNpcActions = 1
  InviteLife = 1
  StaleAge = 1
  Retention = 1
  InitialBalance = 1
  ExternalDeltas <- Spending
  MaxExternal = 1
  MaxRevision = 5
  Nobody = Nobody
INVARIANTS TypeOK PlayableTables StakeConsent BooksBalance
  FrameworkVerdict
PROPERTIES RevisionCoversChange TerminalIsFinal
CHECK_DEADLOCK FALSE
