SPECIFICATION AnySpec
CONSTANTS
  HistorySize = 4
  HistoryBytes = 4
  HistoryPage = 1
  JoinBuffer = 2
  Sizes <- OneSize
  MaxEvents = 3
  MaxDrops = 1
  MaxOutboundLost = 0
  MaxPageErrors = 1
INVARIANTS
  MissedIsReported
CHECK_DEADLOCK FALSE
