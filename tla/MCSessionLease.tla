---------------------------- MODULE MCSessionLease ---------------------------
(* A small instance of SessionLease for TLC, in which Redis may also be known  *)
(* to answer in time.                                                          *)
EXTENDS SessionLease, TLC

CONSTANTS k1, k2

VARIABLE prompt  \* does every command end within one unit, and no timer run late?

InTime ==
  \A k \in Tokens :
    /\ req[k] # "none" => now <= sentAt[k] + 1
    /\ Healthy(k) => now <= deadline[k] /\ now <= tickAt[k]

PromptOrNot == prompt \in BOOLEAN /\ Init

PromptOrNotNext ==
  /\ Next
  /\ UNCHANGED prompt
  /\ prompt => InTime'

PromptOrNotSpec == PromptOrNot /\ [][PromptOrNotNext]_<<vars, prompt>>

(* A Redis that answers in time does not cost a lease, even when one renewal  *)
(* fails: LeaseSurvivesOneError of monitorSessionLease.                       *)
PromptLeaseSurvives == prompt => LeaseSurvivesOneError

(* Acquisitions are interchangeable. *)
TokenSymmetry == Permutations(Tokens)

=============================================================================
