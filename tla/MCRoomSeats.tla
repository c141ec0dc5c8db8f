----------------------------- MODULE MCRoomSeats -----------------------------
(* Small instances of RoomSeats for TLC: a viewer with two tabs, the first of  *)
(* which reconnects, a second viewer, and an agent's hosted seat served by     *)
(* another node.                                                               *)
EXTENDS RoomSeats

CONSTANTS tab1, tab1again, tab2, other, agent, sTab1, sTab2, sOther, sAgent, alice, bob, n1, n2

Tickets ==
  [c \in {tab1, tab1again, tab2, other, agent} |->
     CASE c \in {tab1, tab1again} -> sTab1 [] c = tab2 -> sTab2 [] c = other -> sOther
       [] c = agent -> sAgent]
Users == [s \in {sTab1, sTab2, sOther, sAgent} |-> IF s = sOther THEN bob ELSE alice]

\* The agent is served by the API; the first tab comes back to the same gateway, or to another.
OneGateway == [c \in {tab1, tab1again, tab2, other, agent} |-> IF c = agent THEN n2 ELSE n1]
TwoGateways == [c \in {tab1, tab1again, tab2, other, agent} |-> IF c = tab1again THEN n2 ELSE n1]

VARIABLE plan  \* the clients that ever come, and whether announcements may fail

Plans == {
  [clients |-> {tab1, tab1again, other}, errors |-> FALSE],
  [clients |-> {tab1, tab2, other}, errors |-> FALSE],
  [clients |-> {tab1, tab1again, tab2}, errors |-> TRUE],
  [clients |-> {tab1, tab2, agent}, errors |-> TRUE]}

PlannedInit == Init /\ plan \in Plans

PlannedNext ==
  /\ Next
  /\ UNCHANGED plan
  /\ \A c \in Clients \ plan.clients : status'[c] = "new"
  /\ plan.errors \/ faults'.errors = 0

PlannedSpec == PlannedInit /\ [][PlannedNext]_<<vars, plan>> /\ Fairness

\* Four clients of one gateway; leases run out while nobody waits for an answer.
CrowdInit ==
  /\ Init /\ room.seatPerUser = FALSE
  /\ plan = [clients |-> {tab1, tab1again, tab2, other}, errors |-> FALSE]

CrowdNext ==
  /\ PlannedNext
  /\ faults'.lapses = faults.lapses \/ \A n \in Nodes : due[n] = <<>>

CrowdSpec == CrowdInit /\ [][CrowdNext]_<<vars, plan>>
=============================================================================
