SPECIFICATION FairSpec
CONSTANTS
  FaultPlans <- LostLease
  Attempts = 2
  MaxDials = 2
PROPERTIES
  StartedIsHeard
CHECK_DEADLOCK FALSE
