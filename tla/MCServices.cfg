\* Exchanges: one human and two machines, two requests around a midnight.
\* Purse: a human, a machine and an NPC, two rooms, and what they unlock.
\* Waits: one machine through a restart, two that compete for one entry.
\* Takeover: two players and an NPC.  Notices: three notices of two kinds.
SPECIFICATION PartsSpec
CONSTANTS
  Humans = {h}
  Ais = {a1, a2}
  RequestIds = {r1, r2}
  Keys = {k1, k2}
  Amounts = {2}
  MaxPendingPerPair = 1
  MaxDailySpend = 2
  RequestLifetime = 1
  DayLength = 2
  InitialBalances = {4}
  MaxTime = 2
  Lag = 1
  Nobody = Nobody
  Owners = {"h"}
  Machines = {"a"}
  Bots = {"n"}
  Midnight = 1
  PurseTime = 1
  GameCalls = 5
  LoanCalls = 4
  InitialBalance = 3
  CheckInAmount = 1
  BankruptcyThreshold <- Ruin
  ResetBalance = 1
  CappedGames = {}
  Banks = {"blackjack"}
  GameDeltas <- House
  Rewards <- Prizes
  Target <- Counts
  GameAward <- Jungle
  NpcAward <- Beaten
  HumanIds = {"human_rematch_after_loss", "human_preserve_loss"}
  AiIds = {"ai_creates_room"}
  PairIds = {"pair_same_day_check_in", "pair_both_won", "loan_pair_bidirectional"}
  RoomIds = {1, 2}
  Seatings <- Tables
  Stakes = {2}
  RoomKinds = {"table"}
  LoanSizes = {1}
  Counters = {FALSE}
  Askers = {"h", "a"}
  Trades <- Sales
  Legacy <- Kept
  Chains = {1, 2}
  Slots = 1
  Lease = 1
  OneMachine = {"p"}
  OneTable = 2
  OneTime = 4
  OneEvents = 1
  OneRestarts = 1
  TwoMachines = {"p", "q"}
  TwoTable = 1
  TwoTime = 3
  TwoEvents = 0
  TwoRestarts = 0
  Seated = {"p", "q"}
  Bot = "n"
  Limit = 2
  TakeoverTime = 4
  MaxRevision = 3
  NoticeEvents <- Rings
  HistoryLimit = 1
  ReadLimit = 1
  MaxChanges = 5
  MaxAnswers = 3
INVARIANTS TypeOK DailyAllowance PaidExactlyOnce NoticesMatch
  LedgerExplains SettlementWhole UnlockedIsProven RecoveryAwarded
  OneLiveWait SleeperArmed OneAssistUnwatched UnreadHonest
PROPERTIES CancelIsFinal OnlyOverdueTaken
CHECK_DEADLOCK FALSE
