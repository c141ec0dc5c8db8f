SPECIFICATION FairSpec
CONSTANTS
  FaultPlans <- FullGateway
  Attempts = 2
  MaxDials = 2
INVARIANTS
  UnknownNeverFails
CHECK_DEADLOCK FALSE
