-------------------------- MODULE SessionTurnsProofs --------------------------
(***************************************************************************)
(* Proofs about SessionTurns for every value of its constants: types, one   *)
(* agent turn in execution, one healthy execution.                          *)
(***************************************************************************)
EXTENDS SessionTurns, TLAPS

(* A step of claimNextTurnBatch is one of its outcomes, over some set of turns. *)
LEMMA ClaimStepCases ==
  ASSUME NEW w, ClaimStep(w)
  PROVE  \/ \E owner \in Turns, batch \in SUBSET Turns, d \in Deliveries, r \in Turns \cup {NoTurn} :
               \/ Claim(w, owner, batch, d, r)
               \/ \E t \in batch : ClaimRaced(w, t, owner, batch, d, r)
         \/ \E r \in Turns \cup {NoTurn} : ClaimNoop(w, r)
         \/ ClaimBusy(w) \/ ClaimThrows(w)
<1>1. \A S : S \in SUBSET {t \in Agents : status[t] = "queued"} => S \in SUBSET Turns
  BY DEF Agents
<1>. QED BY <1>1 DEF ClaimStep

-----------------------------------------------------------------------------
(* The statements on the table of turns. *)

(* A guarded UPDATE writes a legal status or nothing. *)
LEMMA UpdateStatusType ==
  ASSUME TableTypeOK, NEW t, NEW from, NEW to \in Statuses, UpdateStatus(t, from, to)
  PROVE  TableTypeOK'
BY DEF TableTypeOK, UpdateStatus, turnVars

(* Every named UPDATE of a status is one of them. *)
LEMMA NamedUpdatesType ==
  ASSUME TableTypeOK, NEW t, NEW to \in Statuses,
         \/ RequestAbort(t) \/ FailTurn(t) \/ FailSubmittedTurn(t)
         \/ FinalizeTurn(t, to) \/ InterruptTurn(t)
  PROVE  TableTypeOK'
<1>1. {"abort_requested", "failed", "interrupted"} \subseteq Statuses
  BY DEF Statuses, Active, Settled
<1>. QED
  BY <1>1, UpdateStatusType
  DEF RequestAbort, FailTurn, FailSubmittedTurn, FinalizeTurn, InterruptTurn

(* The transactions that insert, promote, cancel and claim turns. *)
LEMMA TransactionsType ==
  ASSUME TableTypeOK, NEW t \in Turns, NEW i \in Intents, NEW a, NEW batch, NEW d,
         \/ InsertTurn(t, i) \/ PromoteTurn(t, a) \/ CancelTurn(t) \/ GrowStale(t)
         \/ ClaimBatch(t, batch, d, a) \/ ClaimNothing(a)
         \/ \E u \in batch : ClaimWithout(u, t, batch, d, a)
  PROVE  TableTypeOK'
<1>. USE DEF TableTypeOK
<1>1. CASE InsertTurn(t, i) BY <1>1 DEF InsertTurn, Statuses
<1>2. CASE PromoteTurn(t, a) BY <1>2 DEF PromoteTurn, Statuses, Active, Intents
<1>3. CASE CancelTurn(t) BY <1>3 DEF CancelTurn, Statuses, Settled
<1>4. CASE GrowStale(t) BY <1>4 DEF GrowStale
<1>5. CASE ClaimBatch(t, batch, d, a) BY <1>5 DEF ClaimBatch, Statuses, Active, Settled
<1>6. CASE ClaimNothing(a) BY <1>6 DEF ClaimNothing, Statuses, Settled
<1>7. CASE \E u \in batch : ClaimWithout(u, t, batch, d, a)
  BY <1>7 DEF ClaimWithout, Statuses, Settled
<1>. QED BY <1>1, <1>2, <1>3, <1>4, <1>5, <1>6, <1>7

(* What is not touched keeps its type. *)
LEMMA KeptTypes ==
  /\ TableTypeOK /\ UNCHANGED turnVars => TableTypeOK'
  /\ QueueTypeOK /\ UNCHANGED queueVars => QueueTypeOK'
  /\ ApiTypeOK /\ UNCHANGED apiVars => ApiTypeOK'
  /\ WorkerTypeOK /\ UNCHANGED <<abortKey, wk, lock>> => WorkerTypeOK'
  /\ BudgetTypeOK /\ UNCHANGED budgets => BudgetTypeOK'
BY DEF TableTypeOK, turnVars, QueueTypeOK, queueVars, ApiTypeOK, apiVars, WorkerTypeOK,
       BudgetTypeOK, budgets

(* An idle slot holds a well formed job. *)
LEMMA IdleIsJob == IdleJob \in Jobs
BY DEF IdleJob, Jobs, JobKinds, Attempts

(* Every operation of the queue keeps its type. *)
LEMMA QueueType ==
  ASSUME QueueTypeOK, NEW j \in Jobs, NEW o,
         \/ AddWakeup \/ AddJob \/ TakeJob(j) \/ Requeue(j, j.attempt)
         \/ EndJob(j, o) \/ ForgetFailed
  PROVE  QueueTypeOK'
<1>. USE DEF QueueTypeOK, Attempts, NoWakeup, queueVars
<1>a. MaxPool \in Nat \ {0} BY QueueAssumption DEF QueueAssumption
<1>b. j.attempt \in 1..2 BY DEF Jobs
<1>c. ASSUME NEW b \in 1..2, PutJob(b) PROVE QueueTypeOK' BY <1>a, <1>c DEF PutJob
<1>d. ASSUME NEW b \in 1..2, Requeue(j, b) PROVE QueueTypeOK' BY <1>c, <1>d DEF Requeue
<1>1. CASE AddWakeup BY <1>1 DEF AddWakeup
<1>2. CASE AddJob BY <1>2, <1>c DEF AddJob
<1>3. CASE TakeJob(j) BY <1>3, <1>a, <1>b DEF TakeJob
<1>4. CASE Requeue(j, j.attempt) BY <1>4, <1>b, <1>d
<1>5. CASE EndJob(j, o) BY <1>5, <1>d DEF EndJob
<1>6. CASE ForgetFailed BY <1>6 DEF ForgetFailed
<1>. QED BY <1>1, <1>2, <1>3, <1>4, <1>5, <1>6

-----------------------------------------------------------------------------
(* The types of every variable, one lemma per group of actions.             *)

(* Initially. *)
LEMMA InitType == Init => TypeOK
<1>1. MaxPool \in Nat \ {0} /\ MaxFaults \in Nat /\ MaxCrashes \in Nat /\ MaxRequests \in Nat
  BY QueueAssumption, SessionAssumption DEF QueueAssumption, SessionAssumption
<1>. SUFFICES ASSUME Init PROVE TypeOK OBVIOUS
<1>2. TableTypeOK
  BY DEF Init, TableInit, TableTypeOK, Statuses, Intents
<1>3. QueueTypeOK
  BY <1>1 DEF Init, QueueInit, QueueTypeOK, NoWakeup, Attempts
<1>4. ApiTypeOK
  BY DEF Init, ApiTypeOK, SubSteps, ProSteps, Active
<1>5. WorkerTypeOK
  BY DEF Init, WorkerTypeOK, Slots, IdleWorker, IdleJob, Pcs, Jobs, JobKinds, Attempts, NoWorker
<1>6. BudgetTypeOK
  BY <1>1 DEF Init, BudgetTypeOK
<1>. QED BY <1>2, <1>3, <1>4, <1>5, <1>6 DEF TypeOK

(* The bounds are never exceeded. *)
LEMMA BudgetType ==
  ASSUME BudgetTypeOK, Fault \/ Request \/ Crashing \/ UNCHANGED budgets
  PROVE  BudgetTypeOK'
<1>1. MaxFaults \in Nat /\ MaxCrashes \in Nat /\ MaxRequests \in Nat
  BY SessionAssumption DEF SessionAssumption
<1>. QED BY <1>1 DEF BudgetTypeOK, Fault, Request, Crashing, budgets

(* Where a call stands tells what it carries: a submission or a promotion   *)
(* that has an abort to publish knows its turn, and only a generation has a  *)
(* task.                                                                    *)
CallsOK ==
  \A t \in Turns :
    /\ sub[t] \in {"abort", "publish"} => saw[t] \in Turns
    /\ pro[t] \in {"publish", "restore"} => pushed[t].turn \in Turns
    /\ sub[t] \in {"task", "wake"} => t \in Generations

TypeInv == TypeOK /\ CallsOK

(* Steps that touch no call keep CallsOK. *)
LEMMA KeptCalls == CallsOK /\ UNCHANGED <<sub, pro, saw, pushed>> => CallsOK'
BY DEF CallsOK

(* Submissions. *)
LEMMA SubmitType ==
  ASSUME TypeInv, NEW t \in Turns,
         \/ \E i \in Intents : SubmitPrompt(t, i)
         \/ SubmitGeneration(t) \/ SubmitStep(t) \/ SubmitThrows(t)
  PROVE  TypeInv'
<1>. USE DEF TypeInv, TypeOK
<1>0. {"queued", "running", "completed", "failed"} \subseteq Statuses
  BY DEF Statuses, Active, Settled
<1>. USE DEF ApiTypeOK, CallsOK, GoSub, SubSteps
<1>1. ASSUME NEW i \in Intents, SubmitPrompt(t, i) PROVE TypeInv'
  <2>1. TableTypeOK' BY <1>1, TransactionsType DEF SubmitPrompt
  <2>2. ApiTypeOK' /\ CallsOK' BY <1>1 DEF SubmitPrompt, Intents
  <2>. QED BY <1>1, <2>1, <2>2, KeptTypes DEF SubmitPrompt
<1>2. CASE SubmitGeneration(t)
  <2>1. TableTypeOK' BY <1>2, TransactionsType DEF SubmitGeneration, Intents
  <2>2. ApiTypeOK' /\ CallsOK' BY <1>2 DEF SubmitGeneration
  <2>. QED BY <1>2, <2>1, <2>2, KeptTypes DEF SubmitGeneration
<1>3. ASSUME NEW i \in Intents, NEW a \in Turns \cup {NoTurn}, ReadActive(t, i, a) PROVE TypeInv'
  <2>1. ApiTypeOK' /\ CallsOK' BY <1>3 DEF ReadActive
  <2>. QED BY <1>3, <2>1, KeptTypes DEF ReadActive
<1>4. CASE SteerActive(t)
  <2>1. TableTypeOK' BY <1>4, <1>0, NamedUpdatesType DEF SteerActive
  <2>2. ApiTypeOK' /\ CallsOK' BY <1>4 DEF SteerActive
  <2>. QED BY <1>4, <2>1, <2>2, KeptTypes DEF SteerActive
<1>5. CASE PublishSteer(t)
  <2>1. ApiTypeOK' /\ CallsOK' BY <1>5 DEF PublishSteer
  <2>2. WorkerTypeOK' BY <1>5 DEF PublishSteer, WorkerTypeOK
  <2>. QED BY <1>5, <2>1, <2>2, KeptTypes, BudgetType DEF PublishSteer
<1>6. CASE EnqueuePrompt(t)
  <2>1. ApiTypeOK' /\ CallsOK' BY <1>6 DEF EnqueuePrompt
  <2>2. QueueTypeOK' BY <1>6, IdleIsJob, QueueType DEF EnqueuePrompt
  <2>. QED BY <1>6, <2>1, <2>2, KeptTypes DEF EnqueuePrompt
<1>7. CASE FailSubmission(t)
  <2>1. TableTypeOK' BY <1>7, <1>0, NamedUpdatesType, KeptTypes DEF FailSubmission
  <2>2. ApiTypeOK' /\ CallsOK' BY <1>7 DEF FailSubmission
  <2>. QED BY <1>7, <2>1, <2>2, KeptTypes, BudgetType DEF FailSubmission
<1>8. CASE EnqueueGeneration(t)
  <2>1. ApiTypeOK' /\ CallsOK' BY <1>8 DEF EnqueueGeneration
  <2>. QED BY <1>8, <2>1, KeptTypes DEF EnqueueGeneration
<1>9. CASE StartGeneration(t)
  <2>1. TableTypeOK' BY <1>9, <1>0, UpdateStatusType DEF StartGeneration
  <2>2. ApiTypeOK' /\ CallsOK' BY <1>9 DEF StartGeneration
  <2>. QED BY <1>9, <2>1, <2>2, KeptTypes DEF StartGeneration
<1>10. ASSUME NEW to \in {"completed", "failed"}, EndGeneration(t, to) PROVE TypeInv'
  <2>1. TableTypeOK' BY <1>10, <1>0, UpdateStatusType DEF EndGeneration
  <2>2. ApiTypeOK' /\ CallsOK' BY <1>10 DEF EndGeneration
  <2>. QED BY <1>10, <2>1, <2>2, KeptTypes DEF EndGeneration
<1>11. CASE WakeAgent(t)
  <2>1. ApiTypeOK' /\ CallsOK' BY <1>11 DEF WakeAgent
  <2>2. QueueTypeOK' BY <1>11, IdleIsJob, QueueType, KeptTypes DEF WakeAgent
  <2>. QED BY <1>11, <2>1, <2>2, KeptTypes, BudgetType DEF WakeAgent
<1>12. CASE SubmitThrows(t)
  <2>1. ApiTypeOK' /\ CallsOK' BY <1>12 DEF SubmitThrows
  <2>2. QueueTypeOK' BY <1>12, IdleIsJob, QueueType, KeptTypes DEF SubmitThrows
  <2>. QED BY <1>12, <2>1, <2>2, KeptTypes, BudgetType DEF SubmitThrows
<1>. HIDE DEF ApiTypeOK, CallsOK, GoSub, SubSteps, TypeInv
<1>. QED
  BY <1>1, <1>2, <1>3, <1>4, <1>5, <1>6, <1>7, <1>8, <1>9, <1>10, <1>11, <1>12 DEF SubmitStep

(* Promotions, cancellations and stops. *)
LEMMA RequestType ==
  ASSUME TypeInv, NEW t \in Turns,
         \/ \E a \in Turns \cup {NoTurn} : Promote(t, a)
         \/ PromoteStep(t) \/ PromoteThrows(t) \/ Cancel(t) \/ Stop(t)
  PROVE  TypeInv'
<1>. USE DEF TypeInv, TypeOK
<1>0. {"queued", "running", "failed"} \subseteq Statuses
  BY DEF Statuses, Active, Settled
<1>. USE DEF ApiTypeOK, CallsOK, GoPro, ProSteps
<1>1. ASSUME NEW a \in Turns \cup {NoTurn}, Promote(t, a) PROVE TypeInv'
  <2>0. TableTypeOK' BY <1>1, TransactionsType, "followup" \in Intents DEF Promote, Intents
  <2>1. a = NoTurn \/ status[a] \in Active
    BY <1>1 DEF Promote, PromoteTurn, NewestActive, ActiveAgents
  <2>2. ApiTypeOK' /\ CallsOK' BY <1>1, <2>1 DEF Promote, Active
  <2>. QED BY <1>1, <2>0, <2>2, KeptTypes, BudgetType DEF Promote
<1>2. CASE PromoteEnqueue(t)
  <2>1. ApiTypeOK' /\ CallsOK' BY <1>2 DEF PromoteEnqueue
  <2>2. QueueTypeOK' BY <1>2, IdleIsJob, QueueType DEF PromoteEnqueue
  <2>. QED BY <1>2, <2>1, <2>2, KeptTypes DEF PromoteEnqueue
<1>3. CASE PromotePublish(t)
  <2>1. ApiTypeOK' /\ CallsOK' BY <1>3 DEF PromotePublish
  <2>2. WorkerTypeOK' BY <1>3 DEF PromotePublish, WorkerTypeOK
  <2>. QED BY <1>3, <2>1, <2>2, KeptTypes, BudgetType DEF PromotePublish
<1>4. CASE PromoteThrows(t)
  <2>1. ApiTypeOK' /\ CallsOK' BY <1>4 DEF PromoteThrows
  <2>2. QueueTypeOK' BY <1>4, IdleIsJob, QueueType, KeptTypes DEF PromoteThrows
  <2>. QED BY <1>4, <2>1, <2>2, KeptTypes, BudgetType DEF PromoteThrows
<1>5. CASE PromoteFailTarget(t)
  <2>1. TableTypeOK' BY <1>5, <1>0, UpdateStatusType DEF PromoteFailTarget
  <2>2. ApiTypeOK' /\ CallsOK' BY <1>5 DEF PromoteFailTarget, AfterFail
  <2>. QED BY <1>5, <2>1, <2>2, KeptTypes DEF PromoteFailTarget
<1>6. CASE PromoteRestore(t)
  <2>1. TableTypeOK' BY <1>6, <1>0, UpdateStatusType DEF PromoteRestore
  <2>2. ApiTypeOK' /\ CallsOK' BY <1>6 DEF PromoteRestore
  <2>. QED BY <1>6, <2>1, <2>2, KeptTypes DEF PromoteRestore
<1>7. CASE Cancel(t)
  <2>1. TableTypeOK' BY <1>7, TransactionsType, "followup" \in Intents DEF Cancel, Intents
  <2>2. CallsOK' BY <1>7, KeptCalls DEF Cancel, apiVars
  <2>. QED BY <1>7, <2>1, <2>2, KeptTypes, BudgetType DEF Cancel
<1>8. CASE Stop(t)
  <2>1. TableTypeOK' BY <1>8, <1>0, NamedUpdatesType DEF Stop
  <2>2. ApiTypeOK' /\ CallsOK' BY <1>8 DEF Stop
  <2>. QED BY <1>8, <2>1, <2>2, KeptTypes, BudgetType DEF Stop
<1>. HIDE DEF ApiTypeOK, CallsOK, GoPro, ProSteps, TypeInv
<1>. QED BY <1>1, <1>2, <1>3, <1>4, <1>5, <1>6, <1>7, <1>8 DEF PromoteStep

(* An idle slot is a slot. *)
LEMMA IdleIsSlot == IdleWorker \in Slots
BY IdleIsJob DEF Slots, IdleWorker, Pcs

(* The type of the workers' variables only asks a slot of the step. *)
LEMMA BecomeType ==
  ASSUME WorkerTypeOK, NEW w \in Workers, NEW slot \in Slots, Become(w, slot),
         UNCHANGED abortKey, lock' \in Workers \cup NoWorker
  PROVE  WorkerTypeOK'
BY DEF WorkerTypeOK, Become

(* Workers: taking a job and claiming. *)
LEMMA ClaimType ==
  ASSUME TypeInv, NEW w \in Workers,
         \/ \E j \in Jobs : StartJob(w, j) \/ SkipLocked(w, j) \/ AcquireThrows(w, j)
         \/ ClaimStep(w)
  PROVE  TypeInv'
<1>. USE DEF TypeInv, TypeOK
<1>0. wk[w] \in Slots /\ lock \in Workers \cup NoWorker /\ {"claim", "precheck", "end", "release"} \subseteq Pcs
  BY DEF WorkerTypeOK, Pcs
<1>1. ASSUME NEW j \in Jobs, StartJob(w, j) \/ SkipLocked(w, j) \/ AcquireThrows(w, j)
      PROVE  TypeInv'
  <2>1. QueueTypeOK' BY <1>1, QueueType DEF StartJob, SkipLocked, AcquireThrows
  <2>0. lock' \in Workers \cup NoWorker
    BY <1>1 DEF StartJob, SkipLocked, AcquireThrows, WorkerTypeOK, NoWorker
  <2>2. WorkerTypeOK'
    BY <1>1, <1>0, <2>0, BecomeType DEF StartJob, SkipLocked, AcquireThrows, Slots, Pcs
  <2>3. ApiTypeOK' /\ CallsOK' /\ TableTypeOK'
    BY <1>1, KeptTypes, KeptCalls DEF StartJob, SkipLocked, AcquireThrows, apiVars
  <2>4. BudgetTypeOK' BY <1>1, BudgetType DEF StartJob, SkipLocked, AcquireThrows
  <2>. QED BY <2>1, <2>2, <2>3, <2>4
<1>2. ASSUME NEW owner \in Turns, NEW batch \in SUBSET Turns, NEW d, NEW r, Claim(w, owner, batch, d, r)
      PROVE  TypeInv'
  <2>1. TableTypeOK' BY <1>2, TransactionsType, "followup" \in Intents DEF Claim, Intents
  <2>2. WorkerTypeOK' BY <1>2, <1>0, BecomeType DEF Claim, Slots, Pcs
  <2>3. CallsOK' BY <1>2, KeptCalls DEF Claim, apiVars
  <2>. QED BY <1>2, <2>1, <2>2, <2>3, KeptTypes DEF Claim
<1>3. ASSUME NEW owner \in Turns, NEW batch \in SUBSET Turns, NEW d, NEW r, NEW t \in batch,
             ClaimRaced(w, t, owner, batch, d, r)
      PROVE  TypeInv'
  <2>1. TableTypeOK' BY <1>3, TransactionsType, "followup" \in Intents DEF ClaimRaced, Intents
  <2>2. WorkerTypeOK' BY <1>3, <1>0, BecomeType DEF ClaimRaced, Slots, Pcs
  <2>3. ApiTypeOK' /\ CallsOK'
    BY <1>3 DEF ClaimRaced, GoSub, GoPro, AfterFail, ApiTypeOK, CallsOK, SubSteps, ProSteps
  <2>. QED BY <1>3, <2>1, <2>2, <2>3, KeptTypes DEF ClaimRaced
<1>4. ASSUME NEW r, ClaimNoop(w, r) PROVE TypeInv'
  <2>1. TableTypeOK' BY <1>4 DEF ClaimNoop, ClaimNothing, TableTypeOK, Statuses, Settled
  <2>2. WorkerTypeOK' BY <1>4, <1>0, BecomeType DEF ClaimNoop, Go, Slots, Pcs
  <2>3. CallsOK' BY <1>4, KeptCalls DEF ClaimNoop, apiVars
  <2>. QED BY <1>4, <2>1, <2>2, <2>3, KeptTypes DEF ClaimNoop
<1>5. CASE ClaimBusy(w)
  <2>1. QueueTypeOK' BY <1>5, IdleIsJob, QueueType DEF ClaimBusy
  <2>2. WorkerTypeOK' BY <1>5, <1>0, BecomeType DEF ClaimBusy, Go, Slots, Pcs
  <2>3. CallsOK' BY <1>5, KeptCalls DEF ClaimBusy, apiVars
  <2>. QED BY <1>5, <2>1, <2>2, <2>3, KeptTypes DEF ClaimBusy
<1>6. CASE ClaimThrows(w)
  <2>1. WorkerTypeOK' BY <1>6, <1>0, BecomeType DEF ClaimThrows, Slots, Pcs
  <2>2. CallsOK' BY <1>6, KeptCalls DEF ClaimThrows, apiVars
  <2>. QED BY <1>6, <2>1, <2>2, KeptTypes, BudgetType DEF ClaimThrows
<1>. HIDE DEF TypeInv
<1>. QED BY <1>1, <1>2, <1>3, <1>4, <1>5, <1>6, ClaimStepCases

(* Workers: running the turn they claimed, and settling it. *)
LEMMA RunType ==
  ASSUME TypeInv, NEW w \in Workers,
         \/ AbortPrecheck(w) \/ BeginTurn(w) \/ DeliverAbort(w)
         \/ \E to \in Settled : Reply(w, to)
         \/ Settle(w) \/ AbortTurn(w)
         \/ \E o \in {"error", "unrecoverable"} : TurnThrows(w, o)
         \/ PersistThrows(w) \/ CatchError(w) \/ CatchUnsaved(w) \/ Finalize(w)
  PROVE  TypeInv'
<1>. USE DEF TypeInv, TypeOK
<1>0. Settled \subseteq Statuses /\ "completed" \in Settled
  BY DEF Statuses, Settled
<1>1. UNCHANGED <<queueVars, apiVars>>
  BY DEF AbortPrecheck, BeginTurn, DeliverAbort, Reply, Settle, AbortTurn, TurnThrows,
         PersistThrows, CatchError, CatchUnsaved, Finalize
<1>2. QueueTypeOK' /\ ApiTypeOK' /\ CallsOK'
  BY <1>1, KeptTypes, KeptCalls DEF apiVars
<1>3. BudgetTypeOK'
  BY BudgetType
  DEF AbortPrecheck, BeginTurn, DeliverAbort, Reply, Settle, AbortTurn, TurnThrows,
      PersistThrows, CatchError, CatchUnsaved, Finalize
<1>4. TableTypeOK'
  BY <1>0, NamedUpdatesType, KeptTypes
  DEF AbortPrecheck, BeginTurn, DeliverAbort, Reply, Settle, AbortTurn, TurnThrows,
      PersistThrows, CatchError, CatchUnsaved, Finalize
<1>5. WorkerTypeOK'
  <2>1. /\ wk[w] \in Slots /\ wk[w].aborted \in BOOLEAN
        /\ {"run", "replied", "catch", "unsaved", "finally", "release", "end"} \subseteq Pcs
    BY DEF WorkerTypeOK, Slots, Pcs
  <2>2. UNCHANGED abortKey /\ lock' \in Workers \cup NoWorker
    BY DEF AbortPrecheck, BeginTurn, DeliverAbort, Reply, Settle, AbortTurn, TurnThrows,
           PersistThrows, CatchError, CatchUnsaved, Finalize, WorkerTypeOK, NoWorker
  <2>3. \E slot \in Slots : Become(w, slot)
    BY <2>1
    DEF Slots, AbortPrecheck, BeginTurn, DeliverAbort, Reply, Settle, AbortTurn, TurnThrows,
        PersistThrows, CatchError, CatchUnsaved, Finalize, Go
  <2>. QED BY <2>2, <2>3, BecomeType
<1>. QED BY <1>2, <1>3, <1>4, <1>5

(* Workers: leaving the turn, losing the lease, crashing; and time. *)
LEMMA LeaveType ==
  ASSUME TypeInv, NEW w \in Workers,
         \/ ReleaseLock(w) \/ Drain(w) \/ DrainThrows(w) \/ FinishJob(w)
         \/ LoseLease(w) \/ WorkerCrash(w)
  PROVE  TypeInv'
<1>. USE DEF TypeInv, TypeOK
<1>1. UNCHANGED <<turnVars, apiVars>>
  BY DEF ReleaseLock, Drain, DrainThrows, FinishJob, LoseLease, WorkerCrash
<1>2. TableTypeOK' /\ ApiTypeOK' /\ CallsOK'
  BY <1>1, KeptTypes, KeptCalls DEF apiVars
<1>3. BudgetTypeOK'
  BY BudgetType
  DEF ReleaseLock, Drain, DrainThrows, FinishJob, LoseLease, WorkerCrash
<1>4. QueueTypeOK'
  <2>1. wk[w].job \in Jobs BY DEF WorkerTypeOK, Slots
  <2>. QED
    BY <2>1, QueueType, KeptTypes
    DEF ReleaseLock, Drain, DrainThrows, FinishJob, LoseLease, WorkerCrash
<1>5. WorkerTypeOK'
  <2>1. wk[w] \in Slots /\ {"drain", "end"} \subseteq Pcs
    BY DEF WorkerTypeOK, Pcs
  <2>2. UNCHANGED abortKey /\ lock' \in Workers \cup NoWorker
    BY DEF ReleaseLock, Drain, DrainThrows, FinishJob, LoseLease, WorkerCrash,
           WorkerTypeOK, NoWorker
  <2>3. \E slot \in Slots : Become(w, slot)
    <3>1. (At(w, "run") \/ At(w, "replied")) \in BOOLEAN BY DEF At
    <3>2. CASE FinishJob(w) \/ WorkerCrash(w) BY <3>2, IdleIsSlot DEF FinishJob, WorkerCrash
    <3>3. CASE LoseLease(w) BY <2>1, <3>1, <3>3 DEF LoseLease, Slots
    <3>4. CASE ReleaseLock(w) BY <2>1, <3>4 DEF ReleaseLock, Slots
    <3>5. CASE Drain(w) \/ DrainThrows(w) BY <2>1, <3>5 DEF Drain, DrainThrows, Go, Slots
    <3>. QED BY <3>2, <3>3, <3>4, <3>5
  <2>. QED BY <2>2, <2>3, BecomeType
<1>. QED BY <1>2, <1>3, <1>4, <1>5

(* Time passing, a stop being published, an API process that dies. *)
LEMMA OtherType ==
  ASSUME TypeInv,
         \/ \E t \in Turns : TurnGrowsStale(t) \/ ApiCrash(t)
         \/ PublishStop \/ WakeupForgotten \/ LockExpires \/ LeakEnds
  PROVE  TypeInv'
<1>. USE DEF TypeInv, TypeOK
<1>1. ASSUME NEW t \in Turns, TurnGrowsStale(t) PROVE TypeInv'
  <2>1. TableTypeOK' BY <1>1, TransactionsType, "followup" \in Intents DEF TurnGrowsStale, Intents
  <2>. QED BY <1>1, <2>1, KeptTypes, KeptCalls DEF TurnGrowsStale, apiVars
<1>2. ASSUME NEW t \in Turns, ApiCrash(t) PROVE TypeInv'
  <2>1. ApiTypeOK' /\ CallsOK' BY <1>2 DEF ApiCrash, ApiTypeOK, CallsOK, SubSteps, ProSteps
  <2>. QED BY <1>2, <2>1, KeptTypes, BudgetType DEF ApiCrash
<1>3. CASE WakeupForgotten
  <2>1. QueueTypeOK' BY <1>3, IdleIsJob, QueueType DEF WakeupForgotten
  <2>. QED BY <1>3, <2>1, KeptTypes, KeptCalls DEF WakeupForgotten, apiVars
<1>4. CASE PublishStop
  <2>1. ApiTypeOK' /\ CallsOK' BY <1>4 DEF PublishStop, ApiTypeOK, CallsOK
  <2>2. WorkerTypeOK' BY <1>4 DEF PublishStop, ApiTypeOK, WorkerTypeOK
  <2>. QED BY <1>4, <2>1, <2>2, KeptTypes, BudgetType DEF PublishStop
<1>5. CASE LockExpires \/ LeakEnds
  <2>1. WorkerTypeOK' BY <1>5 DEF LockExpires, LeakEnds, WorkerTypeOK, NoWorker
  <2>. QED BY <1>5, <2>1, KeptTypes, KeptCalls, BudgetType DEF LockExpires, LeakEnds, apiVars
<1>. QED BY <1>1, <1>2, <1>3, <1>4, <1>5

-----------------------------------------------------------------------------
(* The calls of an initial state have not begun. *)
LEMMA InitCalls == Init => CallsOK
BY DEF Init, CallsOK

(* Every step keeps the types. *)
LEMMA NextType ==
  ASSUME TypeInv, [Next]_vars
  PROVE  TypeInv'
<1>1. CASE UNCHANGED vars
  BY <1>1, KeptTypes, KeptCalls DEF TypeInv, TypeOK, vars, apiVars
<1>2. CASE UserStep BY <1>2, SubmitType, RequestType DEF UserStep
<1>3. CASE FaultStep
  BY <1>3, SubmitType, RequestType, OtherType, LeaveType DEF FaultStep
<1>4. ASSUME NEW t \in Turns, SubmitStep(t) \/ PromoteStep(t) \/ TurnGrowsStale(t)
      PROVE  TypeInv'
  BY <1>4, SubmitType, RequestType, OtherType
<1>5. CASE PublishStop BY <1>5, OtherType
<1>6. CASE TakeStep BY <1>6, ClaimType DEF TakeStep
<1>7. ASSUME NEW w \in Workers, WorkerStep(w) \/ DeliverAbort(w) PROVE TypeInv'
  BY <1>7, ClaimType, RunType, LeaveType DEF WorkerStep
<1>8. CASE LockExpires BY <1>8, OtherType
<1>9. CASE WakeupForgotten BY <1>9, OtherType
<1>. QED BY <1>1, <1>2, <1>3, <1>4, <1>5, <1>6, <1>7, <1>8, <1>9 DEF Next

(* Whatever the API calls, the workers and the failures do, every column of *)
(* the turns table, the wakeup queue, the worker slots and the lock keep    *)
(* their types.                                                             *)
THEOREM TypesHold == Spec => []TypeOK
<1>1. Init => TypeInv BY InitType, InitCalls DEF TypeInv
<1>2. TypeInv /\ [Next]_vars => TypeInv' BY NextType
<1>3. TypeInv => TypeOK BY DEF TypeInv
<1>. QED BY <1>1, <1>2, <1>3, PTL DEF Spec

-----------------------------------------------------------------------------
(* One agent turn in execution: only a claim makes an agent turn active.    *)

(* A guarded UPDATE that may write an active status is one that leaves an   *)
(* active status, or one of a generation.                                   *)
LEMMA UpdateActivates ==
  ASSUME TableTypeOK, NEW t, NEW from, NEW to, UpdateStatus(t, from, to),
         to \in Active => from \subseteq Active \/ t \in Generations
  PROVE  ActiveAgents' \subseteq ActiveAgents
BY DEF TableTypeOK, UpdateStatus, turnVars, ActiveAgents, Agents

(* Nor do the other statements of the table, the claim of a batch aside.    *)
LEMMA TableActivates ==
  ASSUME TableTypeOK, NEW t, NEW i, NEW to \in Settled,
         \/ UNCHANGED turnVars \/ InsertTurn(t, i) \/ CancelTurn(t) \/ GrowStale(t)
         \/ RequestAbort(t) \/ FailTurn(t) \/ FailSubmittedTurn(t)
         \/ FinalizeTurn(t, to) \/ InterruptTurn(t) \/ ClaimNothing(t)
         \/ \E u \in Turns : \E a : PromoteTurn(u, a)
         \/ \E u, o, b, d : ClaimWithout(u, o, b, d, t)
  PROVE  ActiveAgents' \subseteq ActiveAgents
<1>1. \A x \in Settled \cup {"queued"} : x \notin Active BY DEF Settled, Active
<1>2. {"failed", "interrupted"} \subseteq Settled BY DEF Settled
<1>3. CASE RequestAbort(t) BY <1>3, UpdateActivates DEF RequestAbort
<1>4. CASE FailTurn(t) \/ FailSubmittedTurn(t) \/ FinalizeTurn(t, to) \/ InterruptTurn(t)
  BY <1>1, <1>2, <1>4, UpdateActivates
  DEF FailTurn, FailSubmittedTurn, FinalizeTurn, InterruptTurn
<1>. USE DEF TableTypeOK, ActiveAgents, Agents
<1>5. CASE UNCHANGED turnVars BY <1>5 DEF turnVars
<1>6. CASE InsertTurn(t, i) BY <1>6, <1>1 DEF InsertTurn
<1>7. CASE CancelTurn(t) BY <1>7, <1>1 DEF CancelTurn, Active
<1>8. CASE GrowStale(t) BY <1>8 DEF GrowStale
<1>9. CASE ClaimNothing(t) BY <1>9, <1>1, <1>2 DEF ClaimNothing
<1>10. ASSUME NEW u \in Turns, NEW a, PromoteTurn(u, a) PROVE ActiveAgents' \subseteq ActiveAgents
  <2>1. a \in Turns => a \in ActiveAgents
    BY <1>10, TableAssumption DEF PromoteTurn, NewestActive, TableAssumption
  <2>. QED BY <1>10, <2>1 DEF PromoteTurn
<1>11. CASE \E u, o, b, d : ClaimWithout(u, o, b, d, t) BY <1>11, <1>1, <1>2 DEF ClaimWithout
<1>. QED BY <1>3, <1>4, <1>5, <1>6, <1>7, <1>8, <1>9, <1>10, <1>11

(* claimNextTurnBatch: the turn it recovers is the only active one, so the  *)
(* owner of the batch is the only active turn when it commits.              *)
LEMMA ClaimLeavesOne ==
  ASSUME TableTypeOK, AtMostOneActive, NEW o, NEW b, NEW d, NEW r, ClaimBatch(o, b, d, r)
  PROVE  AtMostOneActive'
<1>1. ActiveAgents \subseteq {r}
  BY DEF ClaimBatch, Recoverable, Earliest, AtMostOneActive
<1>2. ActiveAgents' \subseteq {o}
  BY <1>1 DEF ClaimBatch, ActiveAgents, Agents, TableTypeOK, Active
<1>. QED BY <1>2 DEF AtMostOneActive

(* Every step of the session that is no claim of a batch. *)
LEMMA NextActivates ==
  ASSUME TypeInv, [Next]_vars,
         ~ \E w \in Workers, o \in Turns, b \in SUBSET Turns, d \in Deliveries,
              r \in Turns \cup {NoTurn} : Claim(w, o, b, d, r)
  PROVE  ActiveAgents' \subseteq ActiveAgents
<1>. USE DEF TypeInv, TypeOK
<1>0. {"completed", "failed", "interrupted"} \subseteq Settled /\ "completed" \notin Active /\ "failed" \notin Active
  BY DEF Settled, Active
<1>1. CASE UNCHANGED vars BY <1>0, <1>1, TableActivates DEF vars
<1>2. CASE UserStep
  BY <1>0, <1>2, TableActivates DEF UserStep, SubmitPrompt, SubmitGeneration, Cancel, Stop, Promote
<1>3. CASE FaultStep
  BY <1>0, <1>3, TableActivates
  DEF FaultStep, SubmitThrows, PromoteThrows, ApiCrash, LoseLease, WorkerCrash, LeakEnds
<1>4. ASSUME NEW t \in Turns, SubmitStep(t) PROVE ActiveAgents' \subseteq ActiveAgents
  <2>1. CASE StartGeneration(t)
    BY <2>1, UpdateActivates DEF StartGeneration, GoSub, CallsOK
  <2>2. ASSUME NEW to \in {"completed", "failed"}, EndGeneration(t, to)
        PROVE  ActiveAgents' \subseteq ActiveAgents
    BY <1>0, <2>2, UpdateActivates DEF EndGeneration
  <2>. QED
    BY <1>0, <1>4, <2>1, <2>2, TableActivates
    DEF SubmitStep, ReadActive, SteerActive, PublishSteer, EnqueuePrompt, FailSubmission,
        EnqueueGeneration, WakeAgent
<1>5. ASSUME NEW t \in Turns, PromoteStep(t) PROVE ActiveAgents' \subseteq ActiveAgents
  <2>1. CASE PromoteFailTarget(t) BY <1>0, <2>1, UpdateActivates DEF PromoteFailTarget
  <2>2. CASE PromoteRestore(t) BY <2>2, UpdateActivates DEF PromoteRestore, Active
  <2>. QED
    BY <1>0, <1>5, <2>1, <2>2, TableActivates DEF PromoteStep, PromoteEnqueue, PromotePublish
<1>6. CASE TakeStep
  BY <1>0, <1>6, TableActivates DEF TakeStep, StartJob, SkipLocked, AcquireThrows
<1>7. ASSUME NEW w \in Workers, WorkerStep(w) \/ DeliverAbort(w)
      PROVE  ActiveAgents' \subseteq ActiveAgents
  <2>1. CASE ClaimStep(w)
    BY <1>0, <2>1, TableActivates, ClaimStepCases DEF ClaimRaced, ClaimNoop, ClaimBusy, ClaimThrows
  <2>2. CASE DeliverAbort(w) \/ AbortPrecheck(w) \/ BeginTurn(w) \/ Settle(w) \/ AbortTurn(w)
    BY <1>0, <2>2, TableActivates DEF DeliverAbort, AbortPrecheck, BeginTurn, Settle, AbortTurn
  <2>3. CASE \/ \E to \in Settled : Reply(w, to)
             \/ \E o \in {"error", "unrecoverable"} : TurnThrows(w, o)
             \/ PersistThrows(w) \/ CatchError(w) \/ CatchUnsaved(w) \/ Finalize(w)
    BY <1>0, <2>3, TableActivates
    DEF Reply, TurnThrows, PersistThrows, CatchError, CatchUnsaved, Finalize
  <2>4. CASE ReleaseLock(w) \/ Drain(w) \/ DrainThrows(w) \/ FinishJob(w)
    BY <1>0, <2>4, TableActivates DEF ReleaseLock, Drain, DrainThrows, FinishJob
  <2>. QED BY <1>7, <2>1, <2>2, <2>3, <2>4 DEF WorkerStep
<1>8. CASE \/ \E t \in Turns : TurnGrowsStale(t)
           \/ PublishStop \/ LockExpires \/ WakeupForgotten
  BY <1>0, <1>8, TableActivates DEF TurnGrowsStale, PublishStop, LockExpires, WakeupForgotten
<1>. QED BY <1>1, <1>2, <1>3, <1>4, <1>5, <1>6, <1>7, <1>8 DEF Next

(* The session never has two agent turns in execution, whichever calls are   *)
(* interleaved, whichever lease is lost and whichever process dies: claims   *)
(* are serialized by the session row, and what marks or unmarks an abort     *)
(* moves a turn between the two active statuses.                            *)
THEOREM OneActive == Spec => []AtMostOneActive
<1>. DEFINE Inv == TypeInv /\ AtMostOneActive
<1>1. Init => Inv
  <2>1. Init => AtMostOneActive
    BY DEF Init, TableInit, AtMostOneActive, ActiveAgents, Agents, Active
  <2>. QED BY <2>1, InitType, InitCalls DEF TypeInv
<1>2. Inv /\ [Next]_vars => Inv'
  <2>. SUFFICES ASSUME Inv, [Next]_vars PROVE AtMostOneActive'
    BY NextType
  <2>1. ASSUME NEW w \in Workers, NEW o, NEW b, NEW d, NEW r, Claim(w, o, b, d, r)
        PROVE  AtMostOneActive'
    BY <2>1, ClaimLeavesOne DEF Claim, TypeInv, TypeOK
  <2>2. ASSUME ActiveAgents' \subseteq ActiveAgents PROVE AtMostOneActive'
    BY <2>2 DEF AtMostOneActive
  <2>. QED BY <2>1, <2>2, NextActivates
<1>3. Inv => AtMostOneActive OBVIOUS
<1>. QED BY <1>1, <1>2, <1>3, PTL DEF Spec

-----------------------------------------------------------------------------
(* One healthy execution: the lock names the worker that may execute.       *)

(* A worker that was not told to stop holds the lock from the moment it     *)
(* acquires it until it releases it.                                        *)
HealthyHolds == \A w \in Workers : Healthy(w) => lock = w

(* A step of one worker keeps it when that worker holds the lock afterwards *)
(* or is not healthy, and takes the lock from no other worker.              *)
LEMMA StepHolds ==
  ASSUME WorkerTypeOK, HealthyHolds, NEW w \in Workers, NEW slot, Become(w, slot),
         slot.pc \in Holding /\ ~slot.lost => lock' = w,
         lock' = lock \/ lock \notin Workers \ {w}
  PROVE  HealthyHolds'
BY DEF WorkerTypeOK, HealthyHolds, Healthy, Become, Holding

(* Steps that touch neither slots nor lock. *)
LEMMA KeptHolds == HealthyHolds /\ UNCHANGED <<wk, lock>> => HealthyHolds'
BY DEF HealthyHolds, Healthy

(* A step that stays within the job and does not touch the lock. *)
LEMMA StayHolds ==
  ASSUME WorkerTypeOK, HealthyHolds, NEW w \in Workers, NEW slot, Become(w, slot),
         slot.pc \in Holding /\ ~slot.lost => Healthy(w),
         UNCHANGED lock
  PROVE  HealthyHolds'
BY StepHolds DEF HealthyHolds

(* acquireSessionLock: the key is set when nobody holds it. *)
LEMMA AcquireHolds ==
  ASSUME WorkerTypeOK, HealthyHolds, NEW w \in Workers, NEW j \in Jobs,
         StartJob(w, j) \/ SkipLocked(w, j) \/ AcquireThrows(w, j)
  PROVE  HealthyHolds'
<1>0. wk[w] \in Slots /\ "free" \notin Workers
  BY SessionAssumption DEF WorkerTypeOK, SessionAssumption
<1>1. CASE StartJob(w, j)
  BY <1>0, <1>1, StepHolds DEF StartJob, Slots
<1>2. CASE SkipLocked(w, j)
  BY <1>0, <1>2, StepHolds DEF SkipLocked, Holding, Slots
<1>3. CASE AcquireThrows(w, j)
  BY <1>0, <1>3, StepHolds DEF AcquireThrows, Holding, Slots
<1>. QED BY <1>1, <1>2, <1>3

(* What a worker does with its turn leaves the lock to it. *)
LEMMA WorkHolds ==
  ASSUME WorkerTypeOK, HealthyHolds, NEW w \in Workers,
         \/ ClaimStep(w) \/ AbortPrecheck(w) \/ BeginTurn(w) \/ DeliverAbort(w)
         \/ \E to \in Settled : Reply(w, to)
         \/ Settle(w) \/ AbortTurn(w)
         \/ \E o \in {"error", "unrecoverable"} : TurnThrows(w, o)
         \/ PersistThrows(w) \/ CatchError(w) \/ Finalize(w)
         \/ Drain(w) \/ DrainThrows(w) \/ LoseLease(w)
  PROVE  HealthyHolds'
<1>0. wk[w] \in Slots BY DEF WorkerTypeOK
<1>. USE DEF Slots, Holding, Healthy
<1>1. CASE ClaimStep(w)
  BY <1>0, <1>1, StayHolds
  DEF ClaimStep, Claim, ClaimRaced, ClaimNoop, ClaimBusy, ClaimThrows, At, Go
<1>2. CASE AbortPrecheck(w) \/ BeginTurn(w) \/ DeliverAbort(w)
  BY <1>0, <1>2, StayHolds DEF AbortPrecheck, BeginTurn, DeliverAbort, At, Go
<1>3. CASE (\E to \in Settled : Reply(w, to)) \/ Settle(w) \/ AbortTurn(w)
  BY <1>0, <1>3, StayHolds DEF Reply, Settle, AbortTurn, At, Go
<1>4. CASE \/ \E o \in {"error", "unrecoverable"} : TurnThrows(w, o)
           \/ PersistThrows(w) \/ CatchError(w) \/ Finalize(w)
  BY <1>0, <1>4, StayHolds DEF TurnThrows, PersistThrows, CatchError, Finalize, At, Go
<1>5. CASE Drain(w) \/ DrainThrows(w) \/ LoseLease(w)
  BY <1>0, <1>5, StayHolds DEF Drain, DrainThrows, LoseLease, Go
<1>. QED BY <1>1, <1>2, <1>3, <1>4, <1>5

(* The lock is given up by its holder, by a lost lease or by a crash only.  *)
LEMMA ReleaseHolds ==
  ASSUME WorkerTypeOK, HealthyHolds,
         \/ \E w \in Workers : CatchUnsaved(w) \/ ReleaseLock(w) \/ FinishJob(w) \/ WorkerCrash(w)
         \/ LockExpires \/ LeakEnds
  PROVE  HealthyHolds'
<1>0. {"free", "orphan", "leaked"} \cap Workers = {}
  BY SessionAssumption DEF SessionAssumption
<1>1. ASSUME NEW w \in Workers, CatchUnsaved(w) PROVE HealthyHolds'
  <2>1. wk[w] \in Slots BY DEF WorkerTypeOK
  <2>2. CASE Go(w, "finally") /\ UNCHANGED lock
    BY <1>1, <2>1, <2>2, StayHolds DEF CatchUnsaved, Go, At, Healthy, Holding, Slots
  <2>3. CASE Become(w, [wk[w] EXCEPT !.pc = "end", !.lost = FALSE])
    BY <1>1, <2>1, <2>2, <2>3, StepHolds DEF CatchUnsaved, Holding, Slots
  <2>. QED BY <1>1, <2>2, <2>3 DEF CatchUnsaved
<1>2. ASSUME NEW w \in Workers, ReleaseLock(w) PROVE HealthyHolds'
  <2>1. wk[w] \in Slots BY DEF WorkerTypeOK
  <2>. QED BY <1>2, <2>1, StepHolds DEF ReleaseLock, Holding, Slots
<1>3. ASSUME NEW w \in Workers, FinishJob(w) \/ WorkerCrash(w) PROVE HealthyHolds'
  BY <1>3, StepHolds DEF FinishJob, WorkerCrash, IdleWorker, Holding
<1>4. CASE LockExpires
  BY <1>0, <1>4 DEF LockExpires, HealthyHolds, Healthy
<1>5. CASE LeakEnds
  BY <1>0, <1>5 DEF LeakEnds, HealthyHolds, Healthy
<1>. QED BY <1>1, <1>2, <1>3, <1>4, <1>5

(* A worker that was not told to stop holds the lock, after every step. *)
LEMMA LocksHold == Spec => [](TypeInv /\ HealthyHolds)
<1>. DEFINE Inv == TypeInv /\ HealthyHolds
<1>1. Init => Inv
  <2>1. Init => HealthyHolds
    BY DEF Init, HealthyHolds, Healthy, Holding, IdleWorker
  <2>. QED BY <2>1, InitType, InitCalls DEF TypeInv
<1>2. Inv /\ [Next]_vars => Inv'
  <2>. SUFFICES ASSUME Inv, [Next]_vars PROVE HealthyHolds'
    BY NextType
  <2>1. WorkerTypeOK BY DEF TypeInv, TypeOK
  <2>2. CASE UNCHANGED vars BY <2>2, KeptHolds DEF vars
  <2>3. CASE UserStep
    BY <2>3, KeptHolds DEF UserStep, SubmitPrompt, SubmitGeneration, Cancel, Stop, Promote
  <2>4. CASE FaultStep
    BY <2>1, <2>4, KeptHolds, WorkHolds, ReleaseHolds
    DEF FaultStep, SubmitThrows, PromoteThrows, ApiCrash
  <2>5. ASSUME NEW t \in Turns, SubmitStep(t) \/ PromoteStep(t) \/ TurnGrowsStale(t)
        PROVE  HealthyHolds'
    BY <2>5, KeptHolds
    DEF SubmitStep, ReadActive, SteerActive, PublishSteer, EnqueuePrompt, FailSubmission,
        EnqueueGeneration, StartGeneration, EndGeneration, WakeAgent, PromoteStep,
        PromoteEnqueue, PromotePublish, PromoteFailTarget, PromoteRestore, TurnGrowsStale
  <2>6. CASE TakeStep BY <2>1, <2>6, AcquireHolds DEF TakeStep
  <2>7. ASSUME NEW w \in Workers, WorkerStep(w) \/ DeliverAbort(w) PROVE HealthyHolds'
    BY <2>1, <2>7, WorkHolds, ReleaseHolds DEF WorkerStep
  <2>8. CASE LockExpires BY <2>1, <2>8, ReleaseHolds
  <2>9. CASE PublishStop \/ WakeupForgotten BY <2>9, KeptHolds DEF PublishStop, WakeupForgotten
  <2>. QED BY <2>2, <2>3, <2>4, <2>5, <2>6, <2>7, <2>8, <2>9 DEF Next
<1>. QED BY <1>1, <1>2, PTL DEF Spec

(* Of the workers between acquisition and release, one at most was not told *)
(* to stop: the lock is set when it is free, deleted by its own token, *)
(* and expires only after its holder lost the lease.                        *)
THEOREM OneExecution == Spec => []OneHealthyExecution
<1>1. HealthyHolds => OneHealthyExecution
  BY DEF HealthyHolds, OneHealthyExecution
<1>. QED BY <1>1, LocksHold, PTL

-----------------------------------------------------------------------------
(* SessionTurns implements TurnService.                                     *)

Serves == Service!Next \/ UNCHANGED [t \in Turns |-> Phase(t)]

(* What the phase of a turn is. *)
LEMMA PhaseOfStatus ==
  ASSUME NEW t
  PROVE  /\ status[t] \in {"absent", "queued"} => Phase(t) = status[t]
         /\ status[t] \in Active => Phase(t) = "serving"
         /\ status[t] \in Settled => Phase(t) = "closed"
BY DEF Active, Settled, Phase

(* And after a step. *)
LEMMA PhaseAfterStep ==
  ASSUME NEW t
  PROVE  /\ status'[t] = "queued" => Phase(t)' = "queued"
         /\ status'[t] \in Active => Phase(t)' = "serving"
         /\ status'[t] \in Settled => Phase(t)' = "closed"
         /\ status'[t] = status[t] => Phase(t)' = Phase(t)
BY DEF Active, Settled, Phase

(* A step that only closes turns which are waiting or in execution. *)
LEMMA ClosingServes ==
  ASSUME \A t \in Turns : \/ Phase(t)' = Phase(t)
                          \/ Phase(t) \in {"queued", "serving"} /\ Phase(t)' = "closed"
  PROVE  Serves
<1>. DEFINE S == {t \in Turns : Phase(t)' # Phase(t)}
<1>1. Service!Close(S)
  <2>1. \A t \in S : [u \in Turns |-> Phase(u)][t] \in {"queued", "serving"} OBVIOUS
  <2>2. [t \in Turns |-> Phase(t)']
          = [t \in Turns |-> IF t \in S THEN "closed" ELSE [u \in Turns |-> Phase(u)][t]]
    OBVIOUS
  <2>. QED BY <2>1, <2>2 DEF Service!Close
<1>2. S \in SUBSET Turns OBVIOUS
<1>. QED BY <1>1, <1>2 DEF Serves, Service!Next

(* A guarded UPDATE of a row either closes its turn or keeps its phase. *)
LEMMA UpdateServes ==
  ASSUME TableTypeOK, NEW t, NEW from, NEW to, UpdateStatus(t, from, to),
         \/ to \in Settled /\ "absent" \notin from
         \/ to \in Active /\ from \subseteq Active
  PROVE  Serves
<1>1. ASSUME NEW u \in Turns
      PROVE  \/ Phase(u)' = Phase(u)
             \/ Phase(u) \in {"queued", "serving"} /\ Phase(u)' = "closed"
  <2>1. \/ status'[u] = status[u]
        \/ status[u] \in from /\ status'[u] = to
    BY DEF UpdateStatus, TableTypeOK, turnVars
  <2>. QED BY <2>1 DEF Phase, TableTypeOK, Statuses, Active, Settled
<1>. QED BY <1>1, ClosingServes

(* So do the transactions, but for the insertion and the claim of a batch.  *)
LEMMA TableServes ==
  ASSUME TableTypeOK, NEW t, NEW to \in Settled,
         \/ UNCHANGED turnVars \/ CancelTurn(t) \/ GrowStale(t)
         \/ RequestAbort(t) \/ FailTurn(t) \/ FailSubmittedTurn(t)
         \/ FinalizeTurn(t, to) \/ InterruptTurn(t) \/ ClaimNothing(t)
         \/ \E u \in Turns : \E a : PromoteTurn(u, a)
         \/ \E u, o, b, d : ClaimWithout(u, o, b, d, t)
  PROVE  Serves
<1>1. {"failed", "interrupted"} \subseteq Settled /\ "absent" \notin Active
  BY DEF Settled, Active
<1>2. CASE RequestAbort(t) BY <1>2, UpdateServes DEF RequestAbort, Active
<1>3. CASE FailTurn(t) \/ FailSubmittedTurn(t) \/ FinalizeTurn(t, to) \/ InterruptTurn(t)
  BY <1>1, <1>3, UpdateServes
  DEF FailTurn, FailSubmittedTurn, FinalizeTurn, InterruptTurn
<1>4. ASSUME \A u \in Turns : \/ status'[u] = status[u]
                              \/ status[u] \in Active /\ status'[u] \in Active
                              \/ status[u] \in {"queued"} \cup Active /\ status'[u] \in Settled
      PROVE  Serves
  <2>1. ASSUME NEW u \in Turns
        PROVE  \/ Phase(u)' = Phase(u)
               \/ Phase(u) \in {"queued", "serving"} /\ Phase(u)' = "closed"
    BY <1>4 DEF Phase, Active, Settled
  <2>. QED BY <2>1, ClosingServes
<1>5. CASE UNCHANGED turnVars \/ GrowStale(t) BY <1>4, <1>5 DEF turnVars, GrowStale
<1>6. CASE CancelTurn(t) BY <1>4, <1>6 DEF CancelTurn, TableTypeOK, Settled
<1>7. CASE ClaimNothing(t)
  <2>1. t \in Turns => status[t] \in Active
    BY <1>7, TableAssumption
    DEF ClaimNothing, Recoverable, Earliest, ActiveAgents, TableAssumption
  <2>. QED BY <1>1, <1>4, <1>7, <2>1 DEF ClaimNothing
<1>8. ASSUME NEW u \in Turns, NEW a, PromoteTurn(u, a) PROVE Serves
  <2>1. a \in Turns => status[a] \in Active
    BY <1>8, TableAssumption DEF PromoteTurn, NewestActive, TableAssumption, ActiveAgents
  <2>. QED BY <1>4, <1>8, <2>1 DEF PromoteTurn, Active
<1>9. ASSUME NEW u, NEW o, NEW b, NEW d, ClaimWithout(u, o, b, d, t) PROVE Serves
  <2>1. \A x \in b : status[x] = "queued"
    BY <1>9 DEF ClaimWithout, NextBatch, Earliest, Claimable, UpTo
  <2>2. t \in Turns => status[t] \in Active
    BY <1>9, TableAssumption
    DEF ClaimWithout, Recoverable, Earliest, ActiveAgents, TableAssumption
  <2>3. status[u] = "queued" BY <1>9, <2>1 DEF ClaimWithout
  <2>4. ASSUME NEW x \in Turns
        PROVE  \/ status'[x] = status[x]
               \/ status[x] \in {"queued"} \cup Active /\ status'[x] \in Settled
    <3>1. CASE x = u BY <1>1, <1>9, <2>3, <3>1 DEF ClaimWithout
    <3>2. CASE x # u /\ x = t BY <1>1, <1>9, <2>2, <3>2 DEF ClaimWithout
    <3>3. CASE x # u /\ x # t BY <1>9, <3>3 DEF ClaimWithout
    <3>. QED BY <3>1, <3>2, <3>3
  <2>. QED BY <1>4, <2>4
<1>. QED BY <1>2, <1>3, <1>5, <1>6, <1>7, <1>8, <1>9

(* A turn that is submitted arrives. *)
LEMMA InsertServes ==
  ASSUME TableTypeOK, NEW t \in Turns, NEW i, InsertTurn(t, i)
  PROVE  Serves
<1>1. Phase(t) = "absent" /\ Phase(t)' = "queued"
  BY PhaseOfStatus, PhaseAfterStep DEF InsertTurn, TableTypeOK
<1>2. \A u \in Turns \ {t} : Phase(u)' = Phase(u)
  BY PhaseAfterStep DEF InsertTurn, TableTypeOK
<1>3. Service!Arrive(t)
  BY <1>1, <1>2 DEF Service!Arrive, Service!Move
<1>. QED BY <1>3 DEF Serves, Service!Next

(* A generation task serves its own turn. *)
LEMMA GenerateServes ==
  ASSUME TableTypeOK, NEW t \in Generations, UpdateStatus(t, {"queued"}, "running")
  PROVE  Serves
<1>0. t \in Turns BY TableAssumption DEF TableAssumption
<1>1. CASE status[t] = "queued"
  <2>1. Phase(t) = "queued" /\ Phase(t)' = "serving"
    BY <1>0, <1>1, PhaseOfStatus, PhaseAfterStep DEF UpdateStatus, TableTypeOK, Active
  <2>2. \A u \in Turns \ {t} : Phase(u)' = Phase(u)
    BY <1>1, PhaseAfterStep DEF UpdateStatus, TableTypeOK
  <2>3. Service!Generate(t)
    BY <1>0, <2>1, <2>2 DEF Service!Generate, Service!Move
  <2>. QED BY <1>0, <2>3 DEF Serves, Service!Next
<1>2. CASE status[t] # "queued"
  <2>1. \A u \in Turns : Phase(u)' = Phase(u)
    BY <1>2 DEF UpdateStatus, turnVars, Phase
  <2>. QED BY <2>1, ClosingServes
<1>. QED BY <1>1, <1>2

(* A claim serves the owner of the batch, once nothing else is served. *)
LEMMA ClaimServes ==
  ASSUME TableTypeOK, AtMostOneActive, NEW o \in Turns, NEW b \in SUBSET Turns, NEW d, NEW r,
         ClaimBatch(o, b, d, r)
  PROVE  Serves
<1>. DEFINE P == [t \in Turns |-> Phase(t)]
<1>1. o \in b /\ \A t \in b : status[t] = "queued" /\ t \in Agents
  BY DEF ClaimBatch, NextBatch, Earliest, Claimable, UpTo, TableTypeOK
<1>2. ActiveAgents \subseteq {r} /\ (r \in Turns => r \in ActiveAgents)
  BY TableAssumption
  DEF ClaimBatch, Recoverable, Earliest, AtMostOneActive, TableAssumption
<1>3. \A t \in Turns : Phase(t) = "serving" <=> status[t] \in Active
  BY DEF Phase, Active, Settled, TableTypeOK, Statuses
<1>4. \A t \in b : P[t] = "queued" /\ t \notin Generations
  BY <1>1, PhaseOfStatus DEF Agents
<1>5. Service!Serving = ActiveAgents
  BY <1>3 DEF Service!Serving, ActiveAgents, Agents
<1>6. ASSUME NEW t \in Turns
      PROVE  Phase(t)' = IF t = o THEN "serving"
                         ELSE IF t \in b \cup ActiveAgents THEN "closed"
                         ELSE Phase(t)
  <2>1. CASE t = o
    <3>0. o # r BY <1>1, <1>2 DEF ActiveAgents, Active
    <3>1. status'[t] = "running" BY <2>1, <3>0 DEF ClaimBatch
    <3>2. status'[t] \in Active BY <3>1 DEF Active
    <3>3. Phase(t)' = "serving" BY <3>2, PhaseAfterStep
    <3>. QED BY <2>1, <3>3
  <2>2. CASE t # o /\ t \in b BY <2>2, PhaseAfterStep DEF ClaimBatch, Settled
  <2>3. CASE t # o /\ t \notin b /\ t = r
    BY <1>2, <2>3, PhaseAfterStep DEF ClaimBatch, Settled
  <2>4. CASE t # o /\ t \notin b /\ t # r
    BY <1>2, <2>4, PhaseAfterStep DEF ClaimBatch
  <2>. QED BY <2>1, <2>2, <2>3, <2>4
<1>7. Service!Serve(o, b)
  BY <1>1, <1>4, <1>5, <1>6 DEF Service!Serve, AtMostOneActive
<1>. QED BY <1>1, <1>7 DEF Serves, Service!Next

(* Every step of the session is one of its service, or none at all. *)
LEMMA NextServes ==
  ASSUME TypeInv, AtMostOneActive, [Next]_vars
  PROVE  Serves
<1>. USE DEF TypeInv, TypeOK
<1>0. /\ {"completed", "failed", "interrupted"} \subseteq Settled
      /\ "queued" \in {"queued"} /\ "absent" \notin {"queued", "running"}
  BY DEF Settled
<1>1. CASE UNCHANGED vars BY <1>0, <1>1, TableServes DEF vars
<1>2. CASE UserStep
  BY <1>0, <1>2, TableServes, InsertServes
  DEF UserStep, SubmitPrompt, SubmitGeneration, Cancel, Stop, Promote
<1>3. CASE FaultStep
  BY <1>0, <1>3, TableServes
  DEF FaultStep, SubmitThrows, PromoteThrows, ApiCrash, LoseLease, WorkerCrash, LeakEnds
<1>4. ASSUME NEW t \in Turns, SubmitStep(t) PROVE Serves
  <2>1. CASE StartGeneration(t)
    BY <2>1, GenerateServes DEF StartGeneration, GoSub, CallsOK
  <2>2. ASSUME NEW to \in {"completed", "failed"}, EndGeneration(t, to) PROVE Serves
    BY <1>0, <2>2, UpdateServes DEF EndGeneration
  <2>. QED
    BY <1>0, <1>4, <2>1, <2>2, TableServes
    DEF SubmitStep, ReadActive, SteerActive, PublishSteer, EnqueuePrompt, FailSubmission,
        EnqueueGeneration, WakeAgent
<1>5. ASSUME NEW t \in Turns, PromoteStep(t) PROVE Serves
  <2>1. CASE PromoteFailTarget(t) BY <1>0, <2>1, UpdateServes DEF PromoteFailTarget
  <2>2. CASE PromoteRestore(t) BY <2>2, UpdateServes DEF PromoteRestore, Active
  <2>. QED
    BY <1>0, <1>5, <2>1, <2>2, TableServes DEF PromoteStep, PromoteEnqueue, PromotePublish
<1>6. CASE TakeStep
  BY <1>0, <1>6, TableServes DEF TakeStep, StartJob, SkipLocked, AcquireThrows
<1>7. ASSUME NEW w \in Workers, WorkerStep(w) \/ DeliverAbort(w) PROVE Serves
  <2>1. CASE ClaimStep(w)
    BY <1>0, <2>1, TableServes, ClaimServes, ClaimStepCases
    DEF Claim, ClaimRaced, ClaimNoop, ClaimBusy, ClaimThrows
  <2>2. CASE DeliverAbort(w) \/ AbortPrecheck(w) \/ BeginTurn(w) \/ Settle(w) \/ AbortTurn(w)
    BY <1>0, <2>2, TableServes DEF DeliverAbort, AbortPrecheck, BeginTurn, Settle, AbortTurn
  <2>3. CASE \/ \E to \in Settled : Reply(w, to)
             \/ \E o \in {"error", "unrecoverable"} : TurnThrows(w, o)
             \/ PersistThrows(w) \/ CatchError(w) \/ CatchUnsaved(w) \/ Finalize(w)
    BY <1>0, <2>3, TableServes
    DEF Reply, TurnThrows, PersistThrows, CatchError, CatchUnsaved, Finalize
  <2>4. CASE ReleaseLock(w) \/ Drain(w) \/ DrainThrows(w) \/ FinishJob(w)
    BY <1>0, <2>4, TableServes DEF ReleaseLock, Drain, DrainThrows, FinishJob
  <2>. QED BY <1>7, <2>1, <2>2, <2>3, <2>4 DEF WorkerStep
<1>8. CASE \/ \E t \in Turns : TurnGrowsStale(t)
           \/ PublishStop \/ LockExpires \/ WakeupForgotten
  BY <1>0, <1>8, TableServes DEF TurnGrowsStale, PublishStop, LockExpires, WakeupForgotten
<1>. QED BY <1>1, <1>2, <1>3, <1>4, <1>5, <1>6, <1>7, <1>8 DEF Next

(* The session implements the abstract service: a turn is served at most    *)
(* once and stays closed, and the agent serves one turn at a time, whatever *)
(* the calls, the workers and the failures.                                 *)
THEOREM Implements == Spec => ImplementsTurnService
<1>1. Init => Service!Init
  <2>. SUFFICES ASSUME Init PROVE \A t \in Turns : Phase(t) = "absent"
    BY DEF Service!Init
  <2>. QED BY PhaseOfStatus DEF Init, TableInit
<1>2. TypeInv /\ AtMostOneActive /\ [Next]_vars => [Service!Next]_[t \in Turns |-> Phase(t)]
  BY NextServes DEF Serves
<1>3. Spec => []TypeInv
  <2>1. Init => TypeInv BY InitType, InitCalls DEF TypeInv
  <2>2. TypeInv /\ [Next]_vars => TypeInv' BY NextType
  <2>. QED BY <2>1, <2>2, PTL DEF Spec
<1>. QED BY <1>1, <1>2, <1>3, OneActive, PTL DEF Spec, ImplementsTurnService, Service!Spec

=============================================================================
