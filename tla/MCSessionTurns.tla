---------------------------- MODULE MCSessionTurns ---------------------------
(* Small instances of SessionTurns for TLC. *)
EXTENDS SessionTurns, TLC

CONSTANTS t1, t2, t3, t4, t5

(* One approval mode for all turns, or another one for the last turn. *)
OneMode == [t \in Turns |-> "default"]
TwoModes == [t \in Turns |-> IF t = t5 THEN "plan" ELSE "default"]

(* Worker slots, and the turns that no constant singles out, are interchangeable. *)
FullSymmetry == Permutations(Workers) \cup Permutations(Turns)

(* The turns of a behaviour: two of any kind among failures and requests, or *)
(* three follow-ups where nothing fails and nobody asks for anything else;   *)
(* t1 and t4 are alike, so t1 goes first.                                    *)
Sent == {t \in Turns : sub[t] # "none"}
Quiet == faults = 0 /\ requests = 0

OnePlan ==
  \/ \E pair \in {{t1, t2}, {t1, t3}, {t2, t3}} : Sent \subseteq pair
  \/ t1 \in Sent /\ Sent \subseteq {t1, t4, t5} /\ Quiet

(* Where two turns of the agent meet a request and a failure, the request    *)
(* comes first and it is a call of the API that fails.                       *)
ApiFails ==
  {t1, t2} \subseteq Sent =>
    /\ requests' # requests => faults = 0
    /\ faults' # faults /\ requests > 0 => UNCHANGED wk

Planned == OnePlan' /\ ApiFails

=============================================================================
