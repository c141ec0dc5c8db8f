SPECIFICATION FairSpec
CONSTANTS
  FaultPlans <- LostLinks
  Attempts = 2
  MaxDials = 2
PROPERTIES
  SavedReaches
CHECK_DEADLOCK FALSE
