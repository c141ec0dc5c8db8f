SPECIFICATION FairSpec
CONSTANTS
  FaultPlans <- Plans
  Attempts = 3
  MaxDials = 2
INVARIANTS
  RunsOnce
  OneOutcome
  UnknownStaysActive
PROPERTIES
  AckedIsDurable
  StartedSurfaces
  ConfirmedEnds
  SavedIsRecovered
CHECK_DEADLOCK FALSE
