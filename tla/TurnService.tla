------------------------------ MODULE TurnService ----------------------------
(***************************************************************************)
(* What a session promises about its turns, whoever calls and whatever     *)
(* fails: a turn that arrived is served at most once, a closed turn stays   *)
(* closed, and the agent serves one turn at a time.  A turn that is taken   *)
(* together with a later one is closed when that one is taken.             *)
(***************************************************************************)
CONSTANTS
  Turns,        \* every turn
  Generations   \* those served by a generation task rather than the agent

VARIABLE phase

Phases == {"absent", "queued", "serving", "closed"}

Init == phase = [t \in Turns |-> "absent"]

Serving == {t \in Turns \ Generations : phase[t] = "serving"}

Move(t, from, to) ==
  /\ phase[t] = from
  /\ phase' = [phase EXCEPT ![t] = to]

Arrive(t) == Move(t, "absent", "queued")

(* Turns that end their service, or that are cancelled or fail before it. *)
Close(S) ==
  /\ \A t \in S : phase[t] \in {"queued", "serving"}
  /\ phase' = [t \in Turns |-> IF t \in S THEN "closed" ELSE phase[t]]

Generate(t) ==
  /\ t \in Generations
  /\ Move(t, "queued", "serving")

(* The agent takes a batch of queued turns and serves the one that owns it; *)
(* a turn that was abandoned in service is closed by the same step.         *)
Serve(owner, batch) ==
  /\ owner \in batch
  /\ \A t \in batch : phase[t] = "queued" /\ t \notin Generations
  /\ \A t, u \in Serving : t = u
  /\ phase' = [t \in Turns |-> IF t = owner THEN "serving"
                               ELSE IF t \in batch \cup Serving THEN "closed"
                               ELSE phase[t]]

Next ==
  \/ \E t \in Turns : Arrive(t) \/ Generate(t)
  \/ \E S \in SUBSET Turns : Close(S) \/ \E owner \in S : Serve(owner, S)

Spec == Init /\ [][Next]_phase

=============================================================================
