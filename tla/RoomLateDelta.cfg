SPECIFICATION AnySpec
CONSTANTS
  HistorySize = 3
  HistoryBytes = 3
  HistoryPage = 3
  JoinBuffer = 2
  Sizes <- OneSize
  MaxEvents = 3
  MaxDrops = 1
  MaxOutboundLost = 0
  MaxPageErrors = 0
INVARIANTS
  NoEventTwice
CHECK_DEADLOCK FALSE
