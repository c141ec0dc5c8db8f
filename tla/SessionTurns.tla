----------------------------- MODULE SessionTurns ----------------------------
(***************************************************************************)
(* One session of a Space: API calls that submit, steer, promote, cancel    *)
(* and stop turns, the wakeup queue, and the agent workers that take the    *)
(* session lock, claim a batch of queued turns, run it and settle it.       *)
(* Every step below ends at an await, so any two of them may interleave.    *)
(***************************************************************************)
EXTENDS TurnTable, WakeupQueue

CONSTANTS
  Workers,      \* job slots of the agent worker processes
  Steers,       \* turns that may be submitted to steer the active one away
  Shells,       \* turns that are one direct shell command
  Deliveries,   \* values followupDelivery may have when a claim reads it
  MaxFaults,    \* database, Redis and configuration failures in a behaviour
  MaxCrashes,   \* process crashes in a behaviour
  MaxRequests   \* promotions, cancellations and stops in a behaviour

(* A job is stalled at most once, which BullMQ's maxStalledCount 1 allows.  *)
ASSUME SessionAssumption ==
  /\ Shells \subseteq Steers /\ Steers \subseteq Agents
  /\ Deliveries \subseteq {"together", "one_by_one"}
  /\ MaxFaults \in Nat /\ MaxCrashes \in 0..1 /\ MaxRequests \in Nat
  /\ {"free", "orphan", "leaked"} \cap Workers = {}

VARIABLES
  sub,       \* where the call that submits a turn stands
  pro,       \* where the call that promotes a turn stands
  saw,       \* the active turn that the submission of a turn read
  pushed,    \* the active turn a promotion marked, and its status before
  stopping,  \* the turn a stop request marked and is about to publish
  abortKey,  \* turns whose abort key is set in Redis
  wk,        \* what each worker slot is doing
  lock,      \* holder of the session lock in Redis
  faults, crashes, requests  \* what is used of the bounds

apiVars == <<sub, pro, saw, pushed, stopping>>
budgets == <<faults, crashes, requests>>
vars == <<turnVars, queueVars, apiVars, abortKey, wk, lock, budgets>>

SubSteps == {"none", "followup", "steer", "abort", "publish", "enqueue", "fail", "behind", "task", "wake", "done"}
ProSteps == {"none", "enqueue", "publish", "fail", "restore", "done"}
Pcs == {"idle", "claim", "precheck", "run", "replied", "catch", "unsaved", "finally",
        "release", "drain", "end"}

(* A lock nobody waits for: "orphan" runs out with its TTL, and "leaked" is  *)
(* still renewed by the monitor of a job that ended.                        *)
NoWorker == {"free", "orphan", "leaked"}

IdleJob == [kind |-> "plain", attempt |-> 1]
IdleWorker == [pc |-> "idle", job |-> IdleJob, own |-> NoTurn, lost |-> FALSE, aborted |-> FALSE,
               outcome |-> "done"]

Slots == [pc : Pcs, job : Jobs, own : Turns \cup {NoTurn}, lost : BOOLEAN, aborted : BOOLEAN,
          outcome : {"done", "error", "unrecoverable"}]

ApiTypeOK ==
  /\ sub \in [Turns -> SubSteps]
  /\ pro \in [Turns -> ProSteps]
  /\ saw \in [Turns -> Turns \cup {NoTurn}]
  /\ pushed \in [Turns -> [turn : Turns \cup {NoTurn}, was : Active]]
  /\ stopping \in Turns \cup {NoTurn}

WorkerTypeOK ==
  /\ abortKey \subseteq Turns
  /\ wk \in [Workers -> Slots]
  /\ lock \in Workers \cup NoWorker

BudgetTypeOK ==
  /\ faults \in 0..MaxFaults
  /\ crashes \in 0..MaxCrashes
  /\ requests \in 0..MaxRequests

TypeOK == TableTypeOK /\ QueueTypeOK /\ ApiTypeOK /\ WorkerTypeOK /\ BudgetTypeOK

Init ==
  /\ TableInit
  /\ QueueInit
  /\ sub = [t \in Turns |-> "none"]
  /\ pro = [t \in Turns |-> "none"]
  /\ saw = [t \in Turns |-> NoTurn]
  /\ pushed = [t \in Turns |-> [turn |-> NoTurn, was |-> "running"]]
  /\ stopping = NoTurn
  /\ abortKey = {}
  /\ wk = [w \in Workers |-> IdleWorker]
  /\ lock = "free"
  /\ faults = 0 /\ crashes = 0 /\ requests = 0

Fault ==
  /\ faults < MaxFaults
  /\ faults' = faults + 1
  /\ UNCHANGED <<crashes, requests>>

Request ==
  /\ requests < MaxRequests
  /\ requests' = requests + 1
  /\ UNCHANGED <<faults, crashes>>

Crashing ==
  /\ crashes < MaxCrashes
  /\ crashes' = crashes + 1
  /\ UNCHANGED <<faults, requests>>

GoSub(t, from, to) ==
  /\ sub[t] = from
  /\ sub' = [sub EXCEPT ![t] = to]

GoPro(t, from, to) ==
  /\ pro[t] = from
  /\ pro' = [pro EXCEPT ![t] = to]

-----------------------------------------------------------------------------
(* submitSessionPrompt and enqueueSpacePrompt: insert the turn, read the    *)
(* active turn, steer it away, wake a worker.  Until it has read the active *)
(* turn, sub holds the dispatch intent of the submission, which a promotion *)
(* of the row meanwhile does not change.                                    *)

SubmitPrompt(t, i) ==
  /\ t \in Agents
  /\ i = "steer" => t \in Steers
  /\ t \in Shells => i = "steer"
  /\ GoSub(t, "none", i)
  /\ InsertTurn(t, i)
  /\ UNCHANGED <<queueVars, pro, saw, pushed, stopping, abortKey, wk, lock, budgets>>

(* A follow-up that finds another turn active stays behind it and wakes nobody. *)
ReadActive(t, i, a) ==
  /\ NewestActive(a)
  /\ IF a \in {NoTurn, t}
       THEN GoSub(t, i, "enqueue") /\ UNCHANGED saw
       ELSE IF i = "steer"
         THEN GoSub(t, i, "abort") /\ saw' = [saw EXCEPT ![t] = a]
         ELSE GoSub(t, i, "behind") /\ UNCHANGED saw
  /\ UNCHANGED <<turnVars, queueVars, pro, pushed, stopping, abortKey, wk, lock, budgets>>

SteerActive(t) ==
  /\ GoSub(t, "abort", "publish")
  /\ RequestAbort(saw[t])
  /\ UNCHANGED <<queueVars, pro, saw, pushed, stopping, abortKey, wk, lock, budgets>>

(* A failure to set the key is logged and the submission goes on. *)
PublishSteer(t) ==
  /\ GoSub(t, "publish", "enqueue")
  /\ saw' = [saw EXCEPT ![t] = NoTurn]
  /\ \/ abortKey' = abortKey \cup {saw[t]} /\ UNCHANGED budgets
     \/ Fault /\ UNCHANGED abortKey
  /\ UNCHANGED <<turnVars, queueVars, pro, pushed, stopping, wk, lock>>

EnqueuePrompt(t) ==
  /\ t \in Agents
  /\ GoSub(t, "enqueue", "done")
  /\ AddWakeup
  /\ UNCHANGED <<turnVars, pro, saw, pushed, stopping, abortKey, wk, lock, budgets>>

(* Any await of the submission may throw; an add may throw though it was done. *)
SubmitThrows(t) ==
  /\ sub[t] \in {"followup", "steer", "abort", "enqueue"}
  /\ sub' = [sub EXCEPT ![t] = "fail"]
  /\ \/ UNCHANGED queueVars
     \/ t \in Agents /\ sub[t] = "enqueue" /\ AddWakeup
  /\ Fault
  /\ UNCHANGED <<turnVars, pro, saw, pushed, stopping, abortKey, wk, lock>>

FailSubmission(t) ==
  /\ GoSub(t, "fail", "done")
  /\ \/ FailSubmittedTurn(t) /\ UNCHANGED budgets
     \/ Fault /\ UNCHANGED turnVars
  /\ UNCHANGED <<queueVars, pro, saw, pushed, stopping, abortKey, wk, lock>>

-----------------------------------------------------------------------------
(* promoteQueuedTurnToSteer. *)

Promote(t, a) ==
  /\ GoPro(t, "none", "enqueue")
  /\ Request
  /\ PromoteTurn(t, a)
  /\ pushed' = [pushed EXCEPT ![t] = [turn |-> a, was |-> IF a = NoTurn THEN "running" ELSE status[a]]]
  /\ UNCHANGED <<queueVars, sub, saw, stopping, abortKey, wk, lock>>

PromoteEnqueue(t) ==
  /\ GoPro(t, "enqueue", IF pushed[t].turn = NoTurn THEN "done" ELSE "publish")
  /\ AddWakeup
  /\ UNCHANGED <<turnVars, sub, saw, pushed, stopping, abortKey, wk, lock, budgets>>

PromotePublish(t) ==
  /\ GoPro(t, "publish", "done")
  /\ \/ abortKey' = abortKey \cup {pushed[t].turn} /\ UNCHANGED budgets
     \/ Fault /\ UNCHANGED abortKey
  /\ UNCHANGED <<turnVars, queueVars, sub, saw, pushed, stopping, wk, lock>>

PromoteThrows(t) ==
  /\ GoPro(t, "enqueue", "fail")
  /\ AddWakeup \/ UNCHANGED queueVars
  /\ Fault
  /\ UNCHANGED <<turnVars, sub, saw, pushed, stopping, abortKey, wk, lock>>

AfterFail(t) ==
  IF pushed[t].turn # NoTurn /\ pushed[t].was = "running" THEN "restore" ELSE "done"

PromoteFailTarget(t) ==
  /\ GoPro(t, "fail", AfterFail(t))
  /\ UpdateStatus(t, {"queued"}, "failed")
  /\ UNCHANGED <<queueVars, sub, saw, pushed, stopping, abortKey, wk, lock, budgets>>

(* Mutant of PromoteRestore: the rollback does not look at the status. *)
PromoteRestoreAny(t) ==
  /\ GoPro(t, "restore", "done")
  /\ UpdateStatus(pushed[t].turn, Statuses, "running")
  /\ UNCHANGED <<queueVars, sub, saw, pushed, stopping, abortKey, wk, lock, budgets>>

(* The rollback puts the turn it had marked back to running. *)
PromoteRestore(t) ==
  /\ GoPro(t, "restore", "done")
  /\ UpdateStatus(pushed[t].turn, {"abort_requested"}, "running")
  /\ UNCHANGED <<queueVars, sub, saw, pushed, stopping, abortKey, wk, lock, budgets>>

Cancel(t) ==
  /\ Request
  /\ CancelTurn(t)
  /\ UNCHANGED <<queueVars, apiVars, abortKey, wk, lock>>

(* enqueueSessionAbort: mark the active turn, then set its key. *)
Stop(t) ==
  /\ Request
  /\ stopping = NoTurn
  /\ t \in ActiveAgents
  /\ RequestAbort(t)
  /\ stopping' = t
  /\ UNCHANGED <<queueVars, sub, pro, saw, pushed, abortKey, wk, lock>>

PublishStop ==
  /\ stopping # NoTurn
  /\ stopping' = NoTurn
  /\ \/ abortKey' = abortKey \cup {stopping} /\ UNCHANGED budgets
     \/ Fault /\ UNCHANGED abortKey
  /\ UNCHANGED <<turnVars, queueVars, sub, pro, saw, pushed, wk, lock>>

-----------------------------------------------------------------------------
(* createGenerationSessionExecution and the generation task of apps/worker. *)

SubmitGeneration(t) ==
  /\ t \in Generations
  /\ GoSub(t, "none", "enqueue")
  /\ InsertTurn(t, "followup")
  /\ UNCHANGED <<queueVars, pro, saw, pushed, stopping, abortKey, wk, lock, budgets>>

EnqueueGeneration(t) ==
  /\ t \in Generations
  /\ GoSub(t, "enqueue", "task")
  /\ UNCHANGED <<turnVars, queueVars, pro, saw, pushed, stopping, abortKey, wk, lock, budgets>>

(* A cancelled turn is refused and its task ends. *)
StartGeneration(t) ==
  /\ status[t] # "running"
  /\ GoSub(t, "task", IF status[t] = "queued" THEN "task" ELSE "done")
  /\ UpdateStatus(t, {"queued"}, "running")
  /\ UNCHANGED <<queueVars, pro, saw, pushed, stopping, abortKey, wk, lock, budgets>>

EndGeneration(t, to) ==
  /\ status[t] = "running"
  /\ GoSub(t, "task", "wake")
  /\ UpdateStatus(t, {"queued", "running"}, to)
  /\ UNCHANGED <<queueVars, pro, saw, pushed, stopping, abortKey, wk, lock, budgets>>

(* A failure to wake the agent is swallowed. *)
WakeAgent(t) ==
  /\ GoSub(t, "wake", "done")
  /\ \/ AddJob /\ UNCHANGED budgets
     \/ Fault /\ UNCHANGED queueVars
  /\ UNCHANGED <<turnVars, pro, saw, pushed, stopping, abortKey, wk, lock>>

-----------------------------------------------------------------------------
(* processAgentTurnJob, on worker slot w. *)

At(w, pc) == wk[w].pc = pc
Own(w) == wk[w].own

(* What a step of the worker leaves in its slot. *)
Become(w, slot) == wk' = [wk EXCEPT ![w] = slot]

(* The end of a step that only moves the worker. *)
Go(w, pc) == Become(w, [wk[w] EXCEPT !.pc = pc])

(* A job that is still waiting and one that has not reached the lock look   *)
(* the same to the queue, so taking the job and trying the lock are one     *)
(* step.                                                                    *)
StartJob(w, j) ==
  /\ At(w, "idle")
  /\ TakeJob(j)
  /\ lock = "free"
  /\ lock' = w
  /\ Become(w, [wk[w] EXCEPT !.pc = "claim", !.job = j])
  /\ UNCHANGED <<turnVars, apiVars, abortKey, budgets>>

(* The wakeup is skipped and its job completes: nothing is queued again. *)
SkipLocked(w, j) ==
  /\ At(w, "idle")
  /\ TakeJob(j)
  /\ lock # "free"
  /\ Become(w, [wk[w] EXCEPT !.pc = "end", !.job = j])
  /\ UNCHANGED <<turnVars, apiVars, abortKey, lock, budgets>>

(* The answer is lost: the key may have been set all the same. *)
AcquireThrows(w, j) ==
  /\ At(w, "idle")
  /\ TakeJob(j)
  /\ Become(w, [wk[w] EXCEPT !.pc = "end", !.job = j, !.outcome = "error"])
  /\ lock' \in {lock, IF lock = "free" THEN "orphan" ELSE lock}
  /\ Fault
  /\ UNCHANGED <<turnVars, apiVars, abortKey>>

Claim(w, owner, batch, delivery, r) ==
  /\ At(w, "claim")
  /\ ClaimBatch(owner, batch, delivery, r)
  /\ Become(w, [wk[w] EXCEPT !.pc = "precheck", !.own = owner])
  /\ UNCHANGED <<queueVars, apiVars, abortKey, lock, budgets>>

ClaimNoop(w, r) ==
  /\ At(w, "claim")
  /\ ClaimNothing(r)
  /\ Go(w, "release")
  /\ UNCHANGED <<queueVars, apiVars, abortKey, lock, budgets>>

(* A failed submission or promotion fails its turn without the session row  *)
(* lock, so this may land between the claim's read of the batch and its     *)
(* writes: without its owner the claim is a noop, without a merged turn it  *)
(* throws.                                                                  *)
ClaimRaced(w, t, owner, batch, delivery, r) ==
  /\ At(w, "claim")
  /\ \/ GoSub(t, "fail", "done") /\ UNCHANGED pro
     \/ GoPro(t, "fail", AfterFail(t)) /\ UNCHANGED sub
  /\ ClaimWithout(t, owner, batch, delivery, r)
  /\ Become(w, [wk[w] EXCEPT !.pc = "release", !.outcome = IF t = owner THEN "done" ELSE "error"])
  /\ UNCHANGED <<queueVars, saw, pushed, stopping, abortKey, lock, budgets>>

(* Another turn is active: a delayed retry takes the place of this wakeup. *)
ClaimBusy(w) ==
  /\ At(w, "claim")
  /\ Busy
  /\ AddJob
  /\ Go(w, "release")
  /\ UNCHANGED <<turnVars, apiVars, abortKey, lock, budgets>>

(* A database error, an invalid queue config, or a retry that cannot be added. *)
ClaimThrows(w) ==
  /\ At(w, "claim")
  /\ Become(w, [wk[w] EXCEPT !.pc = "release", !.outcome = "error"])
  /\ Fault
  /\ UNCHANGED <<turnVars, queueVars, apiVars, abortKey, lock>>

(* The abort key is read before anything runs. *)
AbortPrecheck(w) ==
  /\ At(w, "precheck")
  /\ Own(w) \in abortKey
  /\ InterruptTurn(Own(w))
  /\ Become(w, [wk[w] EXCEPT !.pc = "release", !.aborted = FALSE])
  /\ UNCHANGED <<queueVars, apiVars, abortKey, lock, budgets>>

BeginTurn(w) ==
  /\ At(w, "precheck")
  /\ Own(w) \notin abortKey
  /\ ~wk[w].lost
  /\ Go(w, "run")
  /\ UNCHANGED <<turnVars, queueVars, apiVars, abortKey, lock, budgets>>

(* The published abort reaches the controller of the turn, or the key is    *)
(* found when the controller is registered.                                 *)
DeliverAbort(w) ==
  /\ At(w, "run") \/ At(w, "replied")
  /\ Own(w) \in abortKey
  /\ ~wk[w].aborted
  /\ Become(w, [wk[w] EXCEPT !.aborted = TRUE])
  /\ UNCHANGED <<turnVars, queueVars, apiVars, abortKey, lock, budgets>>

(* The final assistant message is persisted and finalizes the turn. *)
Reply(w, to) ==
  /\ At(w, "run")
  /\ IF Own(w) \in Shells
       THEN to = IF wk[w].aborted THEN "interrupted" ELSE "completed"
       ELSE to \in {"completed", "failed"}
  /\ FinalizeTurn(Own(w), to)
  /\ Go(w, "replied")
  /\ UNCHANGED <<queueVars, apiVars, abortKey, lock, budgets>>

(* The turn counts as handled unless an abort arrived by now. *)
Settle(w) ==
  /\ At(w, "replied")
  /\ Become(w, [wk[w] EXCEPT !.pc = IF wk[w].aborted THEN "finally" ELSE "release",
                            !.aborted = FALSE])
  /\ UNCHANGED <<turnVars, queueVars, apiVars, abortKey, lock, budgets>>

(* The prompt run is aborted; a direct shell command has no such path. *)
AbortTurn(w) ==
  /\ At(w, "run") \/ At(w, "replied")
  /\ wk[w].aborted
  /\ Own(w) \notin Shells
  /\ InterruptTurn(Own(w))
  /\ Become(w, [wk[w] EXCEPT !.pc = "release", !.aborted = FALSE])
  /\ UNCHANGED <<queueVars, apiVars, abortKey, lock, budgets>>

(* Only the preparation of the model throws ModelUnavailableError. *)
TurnThrows(w, outcome) ==
  /\ \/ At(w, "precheck")
     \/ outcome = "error" /\ (At(w, "run") \/ At(w, "replied"))
  /\ Become(w, [wk[w] EXCEPT !.pc = "catch", !.outcome = outcome, !.aborted = FALSE])
  /\ UNCHANGED <<turnVars, queueVars, apiVars, abortKey, lock, budgets>>

(* The persistence of the reply rejects, before or after it finalized the   *)
(* turn, and the strict settle of the session handle throws that error.     *)
PersistThrows(w) ==
  /\ At(w, "run")
  /\ Own(w) \notin Shells
  /\ FinalizeTurn(Own(w), "completed") \/ UNCHANGED turnVars
  /\ Become(w, [wk[w] EXCEPT !.pc = "unsaved", !.outcome = "error", !.aborted = FALSE])
  /\ Fault
  /\ UNCHANGED <<queueVars, apiVars, abortKey, lock>>

(* Once the turn is failed, the finally block settles the handle strictly   *)
(* again, throws the same error, and gets neither to the release of the     *)
(* lock nor to the drain.                                                   *)
CatchUnsaved(w) ==
  /\ At(w, "unsaved")
  /\ \/ /\ FailTurn(Own(w))
        /\ Become(w, [wk[w] EXCEPT !.pc = "end", !.lost = FALSE])
        /\ lock' = IF lock # w THEN lock ELSE IF wk[w].lost THEN "orphan" ELSE "leaked"
        /\ UNCHANGED budgets
     \/ Fault /\ Go(w, "finally") /\ UNCHANGED <<turnVars, lock>>
  /\ UNCHANGED <<queueVars, apiVars, abortKey>>

(* failActiveTurn reports whether it could write. *)
CatchError(w) ==
  /\ At(w, "catch")
  /\ \/ FailTurn(Own(w)) /\ Go(w, "release") /\ UNCHANGED budgets
     \/ Fault /\ Go(w, "finally") /\ UNCHANGED turnVars
  /\ UNCHANGED <<queueVars, apiVars, abortKey, lock>>

(* Mutant of Finalize: nothing is written on the way out. *)
FinalizeNothing(w) ==
  /\ At(w, "finally")
  /\ Go(w, "release")
  /\ UNCHANGED <<turnVars, queueVars, apiVars, abortKey, lock, budgets>>

(* A turn that was not handled is failed on the way out. *)
Finalize(w) ==
  /\ At(w, "finally")
  /\ Go(w, "release")
  /\ \/ FailTurn(Own(w)) /\ UNCHANGED budgets
     \/ Fault /\ UNCHANGED turnVars
  /\ UNCHANGED <<queueVars, apiVars, abortKey, lock>>

(* Mutant of ReleaseLock: the key is deleted whoever holds it. *)
ReleaseAnyLock(w) ==
  /\ At(w, "release")
  /\ Become(w, [wk[w] EXCEPT !.pc = IF Own(w) = NoTurn THEN "end" ELSE "drain", !.lost = FALSE])
  /\ lock' = "free"
  /\ UNCHANGED <<turnVars, queueVars, apiVars, abortKey, budgets>>

(* Only the holder's token deletes the lock; a failed release leaves it to  *)
(* its TTL.  Every job that claimed a batch drains the queue.               *)
ReleaseLock(w) ==
  /\ At(w, "release")
  /\ Become(w, [wk[w] EXCEPT !.pc = IF Own(w) = NoTurn THEN "end" ELSE "drain", !.lost = FALSE])
  /\ \/ lock' = (IF lock = w THEN "free" ELSE lock) /\ UNCHANGED budgets
     \/ lock' = (IF lock = w THEN "orphan" ELSE lock) /\ Fault
  /\ UNCHANGED <<turnVars, queueVars, apiVars, abortKey>>

(* Mutant of Drain: only queued steers are looked for. *)
DrainSteers(w) ==
  /\ At(w, "drain")
  /\ Go(w, "end")
  /\ IF \E t \in Agents : status[t] = "queued" /\ intent[t] = "steer" THEN AddJob ELSE UNCHANGED queueVars
  /\ UNCHANGED <<turnVars, apiVars, abortKey, lock, budgets>>

(* enqueueNextRunnableTurn: a drain job when any agent turn is queued. *)
Drain(w) ==
  /\ At(w, "drain")
  /\ Go(w, "end")
  /\ IF \E t \in Agents : status[t] = "queued" THEN AddJob ELSE UNCHANGED queueVars
  /\ UNCHANGED <<turnVars, apiVars, abortKey, lock, budgets>>

DrainThrows(w) ==
  /\ At(w, "drain")
  /\ Become(w, [wk[w] EXCEPT !.pc = "end", !.outcome = "error"])
  /\ Fault
  /\ UNCHANGED <<turnVars, queueVars, apiVars, abortKey, lock>>

FinishJob(w) ==
  /\ At(w, "end")
  /\ EndJob(wk[w].job, wk[w].outcome)
  /\ Become(w, IdleWorker)
  /\ UNCHANGED <<turnVars, apiVars, abortKey, lock, budgets>>

-----------------------------------------------------------------------------
(* Time and failures. *)

Holding == {"claim", "precheck", "run", "replied", "catch", "unsaved", "finally", "release"}

(* The lease monitor gives up before the TTL can end, and aborts what runs. *)
LoseLease(w) ==
  /\ wk[w].pc \in Holding
  /\ ~wk[w].lost
  /\ Become(w, [wk[w] EXCEPT !.lost = TRUE, !.aborted = At(w, "run") \/ At(w, "replied")])
  /\ Fault
  /\ UNCHANGED <<turnVars, queueVars, apiVars, abortKey, lock>>

LockExpires ==
  /\ \/ lock = "orphan"
     \/ lock \in Workers /\ wk[lock].lost
  /\ lock' = "free"
  /\ UNCHANGED <<turnVars, queueVars, apiVars, abortKey, wk, budgets>>

(* The leaked monitor loses its lease, or its process dies. *)
LeakEnds ==
  /\ lock = "leaked"
  /\ lock' = "orphan"
  /\ Fault \/ Crashing
  /\ UNCHANGED <<turnVars, queueVars, apiVars, abortKey, wk>>

(* No claim transaction lasts the half hour after which a turn is stale. *)
TurnGrowsStale(t) ==
  /\ \A w \in Workers : ~At(w, "claim")
  /\ GrowStale(t)
  /\ UNCHANGED <<queueVars, apiVars, abortKey, wk, lock, budgets>>

WakeupForgotten ==
  /\ ForgetFailed
  /\ UNCHANGED <<turnVars, apiVars, abortKey, wk, lock, budgets>>

(* The worker process dies: its job is found stalled and waits again, its   *)
(* lock waits for the TTL.                                                  *)
WorkerCrash(w) ==
  /\ ~At(w, "idle")
  /\ Crashing
  /\ Requeue(wk[w].job, wk[w].job.attempt)
  /\ lock' = IF lock = w THEN "orphan" ELSE lock
  /\ Become(w, IdleWorker)
  /\ UNCHANGED <<turnVars, apiVars, abortKey>>

(* The API process dies in the middle of a submission or a promotion. *)
ApiCrash(t) ==
  /\ \/ sub[t] \in {"followup", "steer", "abort", "publish", "enqueue", "fail"}
        /\ sub' = [sub EXCEPT ![t] = "done"] /\ UNCHANGED pro
     \/ pro[t] \in {"enqueue", "publish", "fail", "restore"}
        /\ pro' = [pro EXCEPT ![t] = "done"] /\ UNCHANGED sub
  /\ Crashing
  /\ UNCHANGED <<turnVars, queueVars, saw, pushed, stopping, abortKey, wk, lock>>

-----------------------------------------------------------------------------
SubmitStep(t) ==
  \/ \E a \in Turns \cup {NoTurn}, i \in Intents : ReadActive(t, i, a)
  \/ SteerActive(t) \/ PublishSteer(t) \/ EnqueuePrompt(t) \/ FailSubmission(t)
  \/ EnqueueGeneration(t) \/ StartGeneration(t) \/ WakeAgent(t)
  \/ \E to \in {"completed", "failed"} : EndGeneration(t, to)

PromoteStep(t) ==
  PromoteEnqueue(t) \/ PromotePublish(t) \/ PromoteFailTarget(t) \/ PromoteRestore(t)

ClaimStep(w) ==
  /\ At(w, "claim")
  /\ \/ \E owner \in Turns, batch \in SUBSET {t \in Agents : status[t] = "queued"},
           d \in Deliveries, r \in Turns \cup {NoTurn} :
          \/ Claim(w, owner, batch, d, r)
          \/ \E t \in batch : ClaimRaced(w, t, owner, batch, d, r)
     \/ \E r \in Turns \cup {NoTurn} : ClaimNoop(w, r)
     \/ ClaimBusy(w) \/ ClaimThrows(w)

(* What a worker slot does once it has a job. *)
WorkerStep(w) ==
  \/ ClaimStep(w)
  \/ AbortPrecheck(w) \/ BeginTurn(w)
  \/ \E to \in Settled : Reply(w, to)
  \/ Settle(w) \/ AbortTurn(w)
  \/ \E o \in {"error", "unrecoverable"} : TurnThrows(w, o)
  \/ PersistThrows(w) \/ CatchError(w) \/ CatchUnsaved(w) \/ Finalize(w) \/ ReleaseLock(w) \/ Drain(w) \/ DrainThrows(w) \/ FinishJob(w)

TakeStep == \E w \in Workers, j \in Jobs : StartJob(w, j) \/ SkipLocked(w, j) \/ AcquireThrows(w, j)

UserStep ==
  \/ \E t \in Turns, i \in Intents : SubmitPrompt(t, i)
  \/ \E t \in Turns : SubmitGeneration(t) \/ Cancel(t) \/ Stop(t)
  \/ \E t \in Turns, a \in Turns \cup {NoTurn} : Promote(t, a)

FaultStep ==
  \/ \E t \in Turns : SubmitThrows(t) \/ PromoteThrows(t) \/ ApiCrash(t)
  \/ \E w \in Workers : LoseLease(w) \/ WorkerCrash(w)
  \/ LeakEnds

Next ==
  \/ UserStep
  \/ FaultStep
  \/ \E t \in Turns : SubmitStep(t) \/ PromoteStep(t) \/ TurnGrowsStale(t)
  \/ PublishStop
  \/ TakeStep
  \/ \E w \in Workers : WorkerStep(w) \/ DeliverAbort(w)
  \/ LockExpires
  \/ WakeupForgotten

Spec == Init /\ [][Next]_vars

(* API calls end, BullMQ hands waiting jobs to free slots, jobs progress (a *)
(* run ends in a reply or an error), TTLs and the staleness limit pass (the *)
(* latter strongly fair: the clock does not stop during a claim).           *)
(* Users, failures, the publication of an abort and the trimming of failed  *)
(* jobs are not fair.                                                       *)
Fairness ==
  /\ \A t \in Turns : WF_vars(SubmitStep(t)) /\ WF_vars(PromoteStep(t))
                      /\ SF_vars(TurnGrowsStale(t))
  /\ WF_vars(PublishStop)
  /\ WF_vars(TakeStep)
  /\ \A w \in Workers : WF_vars(WorkerStep(w))
  /\ WF_vars(LockExpires)

FairSpec == Spec /\ Fairness

-----------------------------------------------------------------------------
(* Properties *)

(* claimNextTurnBatch serializes claims on the session row, and steering,   *)
(* stopping and rolling back a promotion only move a turn between running   *)
(* and abort_requested: a session never has two agent turns in execution.   *)
AtMostOneActive == \A t, u \in ActiveAgents : t = u

(* Between its acquisition and its release of the lock, a worker that was   *)
(* not told to stop reads and writes the session as if it were alone.       *)
Healthy(w) == wk[w].pc \in Holding /\ ~wk[w].lost

(* acquireSessionLock, the lease and release() by token: two workers never  *)
(* both work on the session, unless one of them lost its lease and is on    *)
(* its way out.                                                             *)
OneHealthyExecution == \A v, w \in Workers : Healthy(v) /\ Healthy(w) => v = w

(* While a worker holding its lease runs a turn, nothing takes the turn     *)
(* away from it (no second claim, no stale recovery): only a submission     *)
(* whose enqueue failed after the fact may have failed it.                  *)
RunKeepsItsTurn ==
  \A w \in Workers :
    (At(w, "precheck") \/ At(w, "run")) /\ ~wk[w].lost
      => \/ status[Own(w)] \in Active
         \/ status[Own(w)] = "failed" /\ sub[Own(w)] = "done"

(* A merged turn was answered by a later turn of the same batch: its owner  *)
(* was claimed with it, comes after it, and is itself neither merged nor    *)
(* waiting.                                                                 *)
MergedIntoClaimedOwner ==
  \A t \in Turns : status[t] = "merged" =>
    /\ mergedInto[t] \in Agents
    /\ seq[t] < seq[mergedInto[t]]
    /\ status[mergedInto[t]] \in Active \cup {"completed", "failed", "interrupted"}

(* An agent turn sent after a direct generation does not execute before     *)
(* the generation ended.                                                    *)
NothingOvertakesGeneration ==
  \A t \in ActiveAgents, g \in Generations :
    status[g] \in {"queued"} \cup Active => seq[t] < seq[g]

(* Follow-ups start in the order they were sent, whatever the delivery mode  *)
(* of each claim: none is left queued behind a later one that was answered.  *)
Answered(t) == status[t] \in Active \cup {"completed", "interrupted", "merged"}

FollowupsInOrder ==
  \A t, u \in Agents :
    intent[t] = "followup" /\ intent[u] = "followup" /\ seq[t] < seq[u] /\ Answered(u)
      => status[t] # "queued"

(* A turn is served once: no late write of a worker that lost its lease, of *)
(* a failed submission or of a promotion's rollback changes a turn that     *)
(* completed, failed, merged or was cancelled, and an interrupted turn only *)
(* gets the result of its own execution.                                    *)
SettledTurnsStay ==
  [][\A t \in Turns :
       /\ status[t] \in {"completed", "failed", "merged", "cancelled"} => status'[t] = status[t]
       /\ status[t] = "interrupted" =>
            \/ status'[t] = status[t]
            \/ status'[t] \in {"completed", "failed"} /\ \E w \in Workers : Own(w) = t
    ]_vars

(* The session implements the abstract service of its turns: see TurnService. *)
Phase(t) ==
  CASE status[t] \in {"absent", "queued"} -> status[t]
    [] status[t] \in Active -> "serving"
    [] status[t] \in Settled -> "closed"

Service == INSTANCE TurnService WITH phase <- [t \in Turns |-> Phase(t)]

ImplementsTurnService == Service!Spec

-----------------------------------------------------------------------------
(* Liveness *)

(* finally of processAgentTurnJob and the stale recovery of a later claim:  *)
(* whichever single step fails or loses its lease, a turn in execution ends. *)
ExecutionEnds ==
  \A t \in Agents : status[t] \in Active ~> status[t] \notin Active

(* message-queue.md: "Messages sent while an Agent turn is running wait in  *)
(* the Chat queue as follow-ups": a submission that found a turn running    *)
(* and therefore woke nobody is still served.                               *)
WaitingFollowup(t) == sub[t] = "behind" /\ status[t] = "queued"

FollowupBehindTurnIsServed ==
  \A t \in Agents : WaitingFollowup(t) ~> status[t] # "queued"

(* processor.ts releases the lock in its finally block, and the integration  *)
(* test of a run that fails expects one release and one drain: whatever one *)
(* step fails, the session can be claimed again and again.                  *)
LockComesFree == []<>(lock = "free")

(* message-queue.md: "Each time the Agent is free, the queued follow-ups    *)
(* are claimed for the next turn."                                          *)
QueuedIsServed ==
  \A t \in Agents : status[t] = "queued" ~> status[t] # "queued"

(* message-queue.md on a claim that throws: the queued follow-ups "start at *)
(* the next claim, which runs when a new message is sent": a message whose  *)
(* enqueue comes after the wakeup failed for good is claimed.               *)
NewMessageClaims ==
  \A t \in Agents :
    sub[t] = "enqueue" /\ status[t] = "queued" /\ wakeup.state = "failed"
      ~> status[t] # "queued"

=============================================================================
