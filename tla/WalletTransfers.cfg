SPECIFICATION PlannedSpec
CONSTANTS
  c1 = c1
  c2 = c2
  c3 = c3
  t1 = t1
  t2 = t2
  Calls = {c1, c2, c3}
  Transfers = {t1, t2}
  TransferOf <- Requests
  Amount <- TwoDollars
  Purchased = 2
  Free = 1
  Denominations <- Published
  MaxPieces = 2
  CreditAttempts = 1
  Attempts = 3
  NoTransfer = NoTransfer
  LateCalls = FALSE
  Budgets <- PlannedBudgets
  Plans <- TwoCalls
INVARIANTS
  NothingStranded
  OverageNeverFunds
  OnlyPurchasedMoves
PROPERTIES
  ImplementsLedger
CHECK_DEADLOCK FALSE
