SPECIFICATION BoundedSpec
CONSTANTS
  u1 = u1
  s1 = s1
  b1 = b1
  b2 = b2
  None = None
  Stoppers = {u1}
  Steerers = {s1}
  Payers = {b1, b2}
  Kinds = {"agent", "shell"}
  MaxRounds = 2
  MaxFaults = 1
INVARIANTS
  StopIsHeard
PROPERTIES
  KeyKeepsUserStop
  BillingLetsRoundEnd
  NextRoundNeverStarts
  StoppedTurnEnds
CHECK_DEADLOCK FALSE
