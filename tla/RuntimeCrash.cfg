SPECIFICATION FairSpec
CONSTANTS
  FaultPlans <- OneCrash
  Attempts = 2
  MaxDials = 2
PROPERTIES
  Surfaced
CHECK_DEADLOCK FALSE
