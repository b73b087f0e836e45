\* One loan over several days: accrual, cap, repayment, overdue.
SPECIFICATION Spec
SYMMETRY KeyRoleSymmetry
CONSTANTS
  Humans = {h}
  Ais = {a}
  LoanIds = {l1}
  Keys = {k1, k2, k3}
  Principals = {3}
  Rates = {2}
  Denominator = 4
  DayLength = 2
  MaxDueDays = 1
  ProposalLifetime = 2
  MaxOpenLoans = 1
  MaxInteger = 6
  MaxReward = 0
  InitialBalances = {3}
  ExternalDeltas <- NoGames
  MaxExternal = 0
  MaxRevision = 1
  MaxTime = 5
  Lag = 1
  Nobody = Nobody
INVARIANTS DebtAccounted InterestExact RepaymentsRecorded
CHECK_DEADLOCK FALSE
