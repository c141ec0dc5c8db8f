--------------------------- MODULE MCWalletTransfer --------------------------
(* Small instances of WalletTransfer for TLC. *)
EXTENDS WalletTransfer

CONSTANTS c1, c2, c3, t1, t2, Plans

(* c1 and c2 repeat one request of a user under its id, c3 is another one. *)
Requests == [c \in Calls |-> IF c = c3 THEN t2 ELSE t1]

TwoDollars == [t \in Transfers |-> 2]
ThreeDollars == [t \in Transfers |-> 3]

PiecesOfOne == {1}
OnePiece == {2}
OneOrTwo == {1, 2}
Published == {PiecesOfOne, OnePiece, OneOrTwo}
OnePublished == {PiecesOfOne}

Budget(fault, crash, change, spend) ==
  [fault |-> fault, crash |-> crash, change |-> change, spend |-> spend]

(* A request that is repeated; two requests beside other expenses. *)
TwoCalls == {
  [calls |-> {c1, c2}, denoms |-> PiecesOfOne, budget |-> Budget(1, 0, 0, 0)],
  [calls |-> {c1, c2}, denoms |-> PiecesOfOne, budget |-> Budget(0, 1, 0, 0)],
  [calls |-> {c1, c3}, denoms |-> OnePiece, budget |-> Budget(1, 0, 0, 2)]}

(* One request whose plan of pieces changes in its middle. *)
OneCall == {
  [calls |-> {c1}, denoms |-> d, budget |-> Budget(2, 1, 1, 1)] : d \in {PiecesOfOne, OneOrTwo}}

(* One request, and billing calls that are executed late. *)
LateCall == {[calls |-> {c1}, denoms |-> PiecesOfOne, budget |-> Budget(2, 0, 0, 0)]}

PlannedBudgets == {p.budget : p \in TwoCalls \cup OneCall \cup LateCall}

-----------------------------------------------------------------------------

(* The plan a behaviour follows. *)
VARIABLE plan

OnlyPlannedCalls == \A c \in Calls \ plan.calls : pc[<<"start", c>>] = "idle"

PlannedInit == plan \in Plans /\ left = plan.budget /\ denoms = plan.denoms /\ Init

PlannedSpec ==
  /\ PlannedInit
  /\ [][Next /\ UNCHANGED plan /\ OnlyPlannedCalls']_<<vars, plan>>

PlannedFairSpec == PlannedSpec /\ Fairness

=============================================================================
