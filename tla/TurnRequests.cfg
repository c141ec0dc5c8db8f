SPECIFICATION Spec
ACTION_CONSTRAINT Planned
CONSTANTS
  t1 = t1
  t2 = t2
  t3 = t3
  t4 = t4
  t5 = t5
  Turns = {t1, t2, t3, t4, t5}
  Generations = {t3}
  Steers = {t2}
  Shells = {t2}
  Workers = {w1}
  NoTurn = NoTurn
  ApprovalMode <- TwoModes
  BatchLimit = 2
  MaxPool = 1
  Deliveries = {"together", "one_by_one"}
  MaxFaults = 1
  MaxCrashes = 0
  MaxRequests = 1
CHECK_DEADLOCK FALSE
INVARIANTS
  MergedIntoClaimedOwner
  FollowupsInOrder
  NothingOvertakesGeneration
PROPERTIES
  ImplementsTurnService
  SettledTurnsStay
