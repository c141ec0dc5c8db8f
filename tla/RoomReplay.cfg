SPECIFICATION PlainOrNotSpec
CONSTANTS
  HistorySize = 2
  HistoryBytes = 3
  HistoryPage = 1
  JoinBuffer = 1
  Sizes <- SmallAndLarge
  MaxEvents = 4
  MaxDrops = 1
  MaxOutboundLost = 1
  MaxPageErrors = 1
INVARIANTS
  MissedUnlessPaging
  ReplayIsNew
  WholeUnlessTruncated
PROPERTIES
  CatchUpEnds
CHECK_DEADLOCK FALSE
