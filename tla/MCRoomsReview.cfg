\* A table of machines only stops for a review nobody can end.
SPECIFICATION Spec
CONSTANTS
  h1 = h1
  h2 = h2
  m1 = m1
  m2 = m2
  n1 = n1
  n2 = n2
  Humans = {h1}
  Machines = {m1, m2}
  Npcs = {n1}
  RoomIds = {r1}
  Bindings <- BoundBoth
  Rosters <- MachineRosters
  Households <- Solo
  Stakes = {0}
  AllowedCounts = {2, 3}
  MayContinue = {2, 3}
  GameDeltas <- Payment
  NonZeroSum = FALSE
  CustomPayout = FALSE
  GlobalLimit = 1
  PairLimit = 1
  NpcRounds = 1
  MaxNpcActions = 1
  InviteLife = 1
  StaleAge = 1
  Retention = 1
  InitialBalance = 1
  ExternalDeltas = {}
  MaxExternal = 0
  MaxRevision = 3
  Nobody = Nobody
INVARIANTS ReviewAnswerable
CHECK_DEADLOCK FALSE
