--------------------------- MODULE MCAbortDelivery ---------------------------
(* Small instances of AbortDelivery for TLC. *)
EXTENDS AbortDelivery

CONSTANTS u1, s1, b1, b2

\* A second billing stop comes only where nothing fails.
FewerStopsWithFaults == faults = 0 \/ req[b2] = "idle"

BoundedNext == Next /\ FewerStopsWithFaults'

BoundedSpec == Init /\ [][BoundedNext]_vars /\ Fairness
=============================================================================
