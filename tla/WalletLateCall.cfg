SPECIFICATION PlannedFairSpec
CONSTANTS
  c1 = c1
  c2 = c2
  c3 = c3
  t1 = t1
  t2 = t2
  Calls = {c1}
  Transfers = {t1}
  TransferOf <- Requests
  Amount <- TwoDollars
  Purchased = 2
  Free = 0
  Denominations <- OnePublished
  MaxPieces = 3
  CreditAttempts = 1
  Attempts = 3
  NoTransfer = NoTransfer
  LateCalls = TRUE
  Budgets <- PlannedBudgets
  Plans <- LateCall
PROPERTIES
  ReversalIsFinal
CHECK_DEADLOCK FALSE
