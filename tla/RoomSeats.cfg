SPECIFICATION PlannedSpec
CONSTANTS
  tab1 = tab1
  tab1again = tab1again
  tab2 = tab2
  other = other
  agent = agent
  sTab1 = sTab1
  sTab2 = sTab2
  sOther = sOther
  sAgent = sAgent
  alice = alice
  bob = bob
  n1 = n1
  n2 = n2
  NoSeat = NoSeat
  Clients = {tab1, tab1again, tab2, other, agent}
  Hosted = {agent}
  Nodes = {n1, n2}
  NodeOf <- OneGateway
  Seats = {sTab1, sTab2, sOther, sAgent}
  SeatOf <- Tickets
  UserOf <- Users
  MaxParticipants = 2
  MaxLapses = 1
  MaxErrors = 1
CHECK_DEADLOCK FALSE
INVARIANTS
  OneSeatPerUser
  QuietNoGhost
  QuietLiveIsShown
PROPERTIES
  CleanupSparesSuccessor
  LapsedLeaves
