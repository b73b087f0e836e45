\* A proposal is accepted while another loan of the borrower is overdue.
SPECIFICATION Spec
SYMMETRY KeyLoanRoleSymmetry
CONSTANTS
  Humans = {h}
  Ais = {a}
  LoanIds = {l1, l2}
  Keys = {k1, k2}
  Principals = {1}
  Rates = {1}
  Denominator = 2
  DayLength = 2
  MaxDueDays = 2
  ProposalLifetime = 4
  MaxOpenLoans = 2
  MaxInteger = 4
  MaxReward = 0
  InitialBalances = {2}
  ExternalDeltas <- NoGames
  MaxExternal = 0
  MaxRevision = 1
  MaxTime = 4
  Lag = 1
  Nobody = Nobody
PROPERTY OverdueBlocksNewBorrowing

CHECK_DEADLOCK FALSE
