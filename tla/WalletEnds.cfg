SPECIFICATION PlannedFairSpec
CONSTANTS
  c1 = c1
  c2 = c2
  c3 = c3
  t1 = t1
  t2 = t2
  Calls = {c1}
  Transfers = {t1}
  TransferOf <- Requests
  Amount <- ThreeDollars
  Purchased = 3
  Free = 1
  Denominations <- Published
  MaxPieces = 3
  CreditAttempts = 1
  Attempts = 3
  NoTransfer = NoTransfer
  LateCalls = FALSE
  Budgets <- PlannedBudgets
  Plans <- OneCall
PROPERTIES
  TransferEnds
CHECK_DEADLOCK FALSE
