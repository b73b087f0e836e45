\* A game for two or four players: a third member leaves a waiting table.
SPECIFICATION Spec
SYMMETRY RoomSymmetry
CONSTANTS
  h1 = h1
  h2 = h2
  m1 = m1
  m2 = m2
  n1 = n1
  n2 = n2
  Humans = {h1, h2}
  Machines = {m1}
  Npcs = {}
  RoomIds = {r1, r2}
  Bindings <- Bound
  Rosters <- GapRosters
  Households <- NoInvites
  Stakes = {1}
  AllowedCounts = {2, 4}
  MayContinue = {2, 3, 4}
  GameDeltas <- Payment
  NonZeroSum = FALSE
  CustomPayout = FALSE
  GlobalLimit = 2
  PairLimit = 1
  NpcRounds = 1
  MaxNpcActions = 1
  InviteLife = 1
  StaleAge = 1
  Retention = 1
  InitialBalance = 2
  ExternalDeltas = {}
  MaxExternal = 0
  MaxRevision = 4
  Nobody = Nobody
INVARIANTS PairLimitKept
CHECK_DEADLOCK FALSE
