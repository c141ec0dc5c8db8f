---------------------------- MODULE MCRoomReplay ----------------------------
(* Instances of RoomReplay for TLC.                                          *)
EXTENDS RoomReplay

OneSize == {1}
SmallAndLarge == {1, 2}

VARIABLE plain  \* are all events of one size, and does the gateway receive all of them?

PlainOrNot == plain \in BOOLEAN /\ Init

\* A behaviour that is not plain has fewer events of the members' own.
PlainOrNotNext ==
  /\ Next
  /\ UNCHANGED plain
  /\ plain => faults'.outbound = 0 /\ \A n \in 1..Len(log') : log'[n].size <= 1
  /\ ~plain /\ Len(log') > Len(log) => Len(log) < MaxEvents - 1 \/ log'[Len(log')].kind = "announce"

AnySpec == PlainOrNot /\ [][Next /\ UNCHANGED plain]_<<vars, plain>> /\ Fairness

PlainOrNotSpec == PlainOrNot /\ [][PlainOrNotNext]_<<vars, plain>> /\ Fairness
=============================================================================
