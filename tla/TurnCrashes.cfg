SPECIFICATION Spec
CONSTANTS
  t1 = t1
  t2 = t2
  t3 = t3
  t4 = t4
  t5 = t5
  Turns = {t1, t2}
  Generations = {}
  Steers = {t1, t2}
  Shells = {}
  Workers = {w1, w2}
  NoTurn = NoTurn
  ApprovalMode <- OneMode
  BatchLimit = 2
  MaxPool = 1
  Deliveries = {"together", "one_by_one"}
  MaxFaults = 1
  MaxCrashes = 1
  MaxRequests = 0
SYMMETRY FullSymmetry
CHECK_DEADLOCK FALSE
INVARIANTS
  TypeOK
  AtMostOneActive
  OneHealthyExecution
  RunKeepsItsTurn
