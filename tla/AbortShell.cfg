SPECIFICATION FairSpec
CONSTANTS
  u1 = u1
  s1 = s1
  b1 = b1
  b2 = b2
  None = None
  Stoppers = {u1}
  Steerers = {}
  Payers = {}
  Kinds = {"shell"}
  MaxRounds = 1
  MaxFaults = 0
PROPERTIES
  StopIsNoFailure
CHECK_DEADLOCK FALSE
