SPECIFICATION AnySpec
CONSTANTS
  HistorySize = 3
  HistoryBytes = 3
  HistoryPage = 1
  JoinBuffer = 1
  Sizes <- OneSize
  MaxEvents = 7
  MaxDrops = 1
  MaxOutboundLost = 0
  MaxPageErrors = 0
INVARIANTS
  GapIsReported
CHECK_DEADLOCK FALSE
