\* Two proposals over two revisions: retries, withdrawals, late and stale answers,
\* the limit of open IOUs, rewards, and a game that changes a wallet.
SPECIFICATION Spec
SYMMETRY KeyLoanRoleSymmetry
CONSTANTS
  Humans = {h}
  Ais = {a}
  LoanIds = {l1, l2}
  Keys = {k1, k2}
  Principals = {2}
  Rates = {1}
  Denominator = 2
  DayLength = 2
  MaxDueDays = 1
  ProposalLifetime = 1
  MaxOpenLoans = 1
  MaxInteger = 4
  MaxReward = 1
  InitialBalances = {2}
  ExternalDeltas <- Games
  MaxExternal = 1
  MaxRevision = 2
  MaxTime = 1
  Lag = 1
  Nobody = Nobody
INVARIANTS TypeOK ConsentedTerms NoticeMatchesTurn
PROPERTIES ChipsConserved PayerCovers
CHECK_DEADLOCK FALSE
