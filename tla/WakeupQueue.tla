----------------------------- MODULE WakeupQueue -----------------------------
(***************************************************************************)
(* The agent-turns queue of BullMQ, as far as the code relies on it, for    *)
(* the jobs of one session.  A wakeup carries the id                        *)
(* agent-session-wakeup-<session>, and an add whose id exists in any state  *)
(* is a no-op.  Drain, retry and generation wakeups have no shared id: they *)
(* are interchangeable, and only their number and attempt matter.           *)
(***************************************************************************)
EXTENDS Naturals

CONSTANT MaxPool  \* the most waiting jobs of an attempt that are told apart

ASSUME QueueAssumption == MaxPool \in Nat \ {0}

VARIABLES
  wakeup,  \* the job with the session's wakeup id
  pool     \* number of waiting jobs without a shared id, by attempt

queueVars == <<wakeup, pool>>

Attempts == 1..2
JobKinds == {"wakeup", "plain"}
Jobs == [kind : JobKinds, attempt : Attempts]

QueueTypeOK ==
  /\ wakeup \in [state : {"absent", "waiting", "active", "failed"}, attempt : Attempts]
  /\ pool \in [Attempts -> 0..MaxPool]

NoWakeup == [state |-> "absent", attempt |-> 1]

QueueInit ==
  /\ wakeup = NoWakeup
  /\ pool = [a \in Attempts |-> 0]

AddWakeup ==
  /\ wakeup' = IF wakeup.state = "absent" THEN [state |-> "waiting", attempt |-> 1] ELSE wakeup
  /\ UNCHANGED pool

(* Past MaxPool one more waiting job brings nothing that the others do not. *)
PutJob(a) ==
  /\ pool' = [pool EXCEPT ![a] = IF @ < MaxPool THEN @ + 1 ELSE @]
  /\ UNCHANGED wakeup

AddJob == PutJob(1)

(* Mutant of TakeJob: a job is taken though none waits. *)
TakeAnyJob(j) ==
  \/ /\ j.kind = "wakeup"
     /\ wakeup = [state |-> "waiting", attempt |-> j.attempt]
     /\ wakeup' = [wakeup EXCEPT !.state = "active"]
     /\ UNCHANGED pool
  \/ /\ j.kind = "plain"
     /\ pool' = [pool EXCEPT ![j.attempt] = @ - 1]
     /\ UNCHANGED wakeup

TakeJob(j) ==
  \/ /\ j.kind = "wakeup"
     /\ wakeup = [state |-> "waiting", attempt |-> j.attempt]
     /\ wakeup' = [wakeup EXCEPT !.state = "active"]
     /\ UNCHANGED pool
  \/ /\ j.kind = "plain"
     /\ pool[j.attempt] > 0
     /\ pool' = [pool EXCEPT ![j.attempt] = @ - 1]
     /\ UNCHANGED wakeup

(* The job waits again, for attempt a. *)
Requeue(j, a) ==
  IF j.kind = "wakeup"
    THEN /\ wakeup' = [state |-> "waiting", attempt |-> a]
         /\ UNCHANGED pool
    ELSE PutJob(a)

(* The job leaves the active set: a completed one is removed, an error is   *)
(* tried once more, and a job that failed for good is retained under its id. *)
EndJob(j, outcome) ==
  IF outcome = "error" /\ j.attempt = 1
    THEN Requeue(j, 2)
    ELSE IF j.kind = "wakeup"
      THEN /\ wakeup' = IF outcome = "done" THEN NoWakeup ELSE [wakeup EXCEPT !.state = "failed"]
           /\ UNCHANGED pool
      ELSE UNCHANGED queueVars

(* removeOnFail: the failed set is trimmed by age and count. *)
ForgetFailed ==
  /\ wakeup.state = "failed"
  /\ wakeup' = NoWakeup
  /\ UNCHANGED pool

=============================================================================
