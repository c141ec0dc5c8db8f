-------------------------- MODULE MCRuntimeRecovery --------------------------
(* Small instances of RuntimeRecovery for TLC. *)
EXTENDS RuntimeRecovery

Plan(kinds, n) == {[kinds |-> kinds, left |-> n]}

\* The session's side, the machine's side, and the processes alone.
Plans == Plan({"link", "lease", "slots", "slow"}, 2)
    \union Plan({"link", "host", "harness", "agent", "slow"}, 3)
    \union Plan({"agent", "harness"}, 3)

\* One sort of trouble at a time.
FullGateway == Plan({"link", "slots"}, 2)
OneCrash    == Plan({"agent"}, 1)
LostLinks   == Plan({"link"}, 2)
LostLease   == Plan({"agent", "harness", "lease"}, 3)
=============================================================================
