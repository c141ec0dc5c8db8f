SPECIFICATION FairSpec
CONSTANTS
  t1 = t1
  t2 = t2
  t3 = t3
  t4 = t4
  t5 = t5
  Turns = {t1, t2}
  Generations = {}
  Steers = {}
  Shells = {}
  Workers = {w1}
  NoTurn = NoTurn
  ApprovalMode <- OneMode
  BatchLimit = 2
  MaxPool = 1
  Deliveries = {"together"}
  MaxFaults = 2
  MaxCrashes = 0
  MaxRequests = 0
CHECK_DEADLOCK FALSE
PROPERTIES
  NewMessageClaims
