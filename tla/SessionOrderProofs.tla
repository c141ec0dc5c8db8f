-------------------------- MODULE SessionOrderProofs --------------------------
(***************************************************************************)
(* Proofs about the order in which SessionTurns serves turns, for every     *)
(* value of its constants: generations are not overtaken, follow-ups start  *)
(* in order, a merged turn points to the turn that answers it, a settled    *)
(* turn stays, and a worker with its lease keeps the turn that it runs.     *)
(* Every step but the worker's own bookkeeping is a TableStep, so the first *)
(* four are proved of the table; the last one follows the workers.          *)
(***************************************************************************)
EXTENDS SessionTurnsProofs

-----------------------------------------------------------------------------
(* What a step of the session may do to the table.                          *)

(* The UPDATEs of one row, each with who issues it. *)
RowStep ==
  \/ \E t \in Turns : \/ FailSubmittedTurn(t)
                      \/ UpdateStatus(t, {"queued"}, "failed")
  \/ \E t : RequestAbort(t) \/ UpdateStatus(t, {"abort_requested"}, "running")
  \/ \E g \in Generations : \/ UpdateStatus(g, {"queued"}, "running")
                            \/ UpdateStatus(g, {"queued", "running"}, "completed")
                            \/ UpdateStatus(g, {"queued", "running"}, "failed")
  \/ \E w \in Workers : \/ FailTurn(Own(w)) \/ InterruptTurn(Own(w))
                        \/ \E to \in {"completed", "failed"} : FinalizeTurn(Own(w), to)

(* The transactions. *)
OrderStep ==
  \/ \E t \in Turns, i \in Intents : InsertTurn(t, i)
  \/ \E t \in Turns, a \in Turns \cup {NoTurn} : PromoteTurn(t, a)
  \/ \E t \in Turns : CancelTurn(t)

TakeBatch ==
  \E o \in Turns, b \in SUBSET Turns, d \in Deliveries, r \in Turns \cup {NoTurn} :
    \/ ClaimBatch(o, b, d, r)
    \/ \E t \in b : ClaimWithout(t, o, b, d, r)

TableStep ==
  \/ UNCHANGED <<status, intent, seq, lastSeq, mergedInto>>
  \/ RowStep \/ OrderStep \/ TakeBatch
  \/ \E r \in Turns \cup {NoTurn} : ClaimNothing(r)

(* Every step of the session is one of them. *)
LEMMA NextIsTableStep ==
  ASSUME TypeInv, [Next]_vars
  PROVE  TableStep
<1>. USE DEF TableStep
<1>a. UNCHANGED turnVars => TableStep BY DEF turnVars
<1>b. \A t \in Generations : t \in Turns BY TableAssumption DEF TableAssumption
<1>1. CASE UNCHANGED vars BY <1>a, <1>1 DEF vars
<1>2. CASE UserStep
  BY <1>2, "followup" \in Intents
  DEF UserStep, SubmitPrompt, SubmitGeneration, Cancel, Stop, Promote, RowStep, OrderStep, Intents
<1>3. CASE FaultStep
  BY <1>a, <1>3
  DEF FaultStep, SubmitThrows, PromoteThrows, ApiCrash, LoseLease, WorkerCrash, LeakEnds
<1>4. ASSUME NEW t \in Turns, SubmitStep(t) PROVE TableStep
  <2>1. CASE \E a \in Turns \cup {NoTurn}, i \in Intents : ReadActive(t, i, a)
    BY <1>a, <2>1 DEF ReadActive
  <2>2. CASE SteerActive(t) BY <2>2 DEF SteerActive, RowStep
  <2>3. CASE PublishSteer(t) \/ EnqueuePrompt(t) \/ EnqueueGeneration(t) \/ WakeAgent(t)
    BY <1>a, <2>3 DEF PublishSteer, EnqueuePrompt, EnqueueGeneration, WakeAgent
  <2>4. CASE FailSubmission(t) BY <1>a, <2>4 DEF FailSubmission, RowStep
  <2>5. CASE StartGeneration(t)
    BY <2>5 DEF StartGeneration, RowStep, GoSub, TypeInv, CallsOK
  <2>6. CASE \E to \in {"completed", "failed"} : EndGeneration(t, to)
    BY <2>6 DEF EndGeneration, RowStep, GoSub, TypeInv, CallsOK
  <2>. QED BY <1>4, <2>1, <2>2, <2>3, <2>4, <2>5, <2>6 DEF SubmitStep
<1>5. ASSUME NEW t \in Turns, PromoteStep(t) PROVE TableStep
  <2>1. CASE PromoteEnqueue(t) \/ PromotePublish(t)
    BY <1>a, <2>1 DEF PromoteEnqueue, PromotePublish
  <2>2. CASE PromoteFailTarget(t) BY <2>2 DEF PromoteFailTarget, RowStep
  <2>3. CASE PromoteRestore(t) BY <2>3 DEF PromoteRestore, RowStep
  <2>. QED BY <1>5, <2>1, <2>2, <2>3 DEF PromoteStep
<1>6. CASE TakeStep BY <1>a, <1>6 DEF TakeStep, StartJob, SkipLocked, AcquireThrows
<1>7. ASSUME NEW w \in Workers, WorkerStep(w) \/ DeliverAbort(w) PROVE TableStep
  <2>1. CASE ClaimStep(w)
    BY <1>a, <2>1, ClaimStepCases DEF Claim, ClaimRaced, ClaimNoop, ClaimBusy, ClaimThrows, TakeBatch
  <2>2. CASE AbortPrecheck(w) \/ AbortTurn(w) BY <2>2 DEF AbortPrecheck, AbortTurn, RowStep
  <2>3. CASE \E to \in Settled : Reply(w, to)
    BY <2>3 DEF Reply, RowStep, FinalizeTurn, InterruptTurn
  <2>4. CASE PersistThrows(w) BY <1>a, <2>4 DEF PersistThrows, RowStep
  <2>5. CASE CatchError(w) \/ CatchUnsaved(w) \/ Finalize(w)
    BY <1>a, <2>5 DEF CatchError, CatchUnsaved, Finalize, RowStep
  <2>6. CASE \/ DeliverAbort(w) \/ BeginTurn(w) \/ Settle(w)
             \/ \E o \in {"error", "unrecoverable"} : TurnThrows(w, o)
             \/ ReleaseLock(w) \/ Drain(w) \/ DrainThrows(w) \/ FinishJob(w)
    BY <1>a, <2>6
    DEF DeliverAbort, BeginTurn, Settle, TurnThrows, ReleaseLock, Drain, DrainThrows, FinishJob
  <2>. QED BY <1>7, <2>1, <2>2, <2>3, <2>4, <2>5, <2>6 DEF WorkerStep
<1>8. CASE \E t \in Turns : TurnGrowsStale(t) BY <1>8 DEF TurnGrowsStale, GrowStale
<1>9. CASE PublishStop \/ LockExpires \/ WakeupForgotten
  BY <1>a, <1>9 DEF PublishStop, LockExpires, WakeupForgotten
<1>. QED BY <1>1, <1>2, <1>3, <1>4, <1>5, <1>6, <1>7, <1>8, <1>9 DEF Next

-----------------------------------------------------------------------------
(* The order of the turns.                                                  *)

(* The sequences of the inserted turns are distinct and at most lastSeq.    *)
Inserted(t) == status[t] # "absent"

SequencesOK ==
  \A t \in Turns :
    /\ seq[t] <= lastSeq
    /\ \A u \in Turns : Inserted(t) /\ Inserted(u) /\ seq[t] = seq[u] => t = u

(* A turn was inserted by a follow-up or a steer and is never removed; its  *)
(* sequence moves past every other one while it waits, and not any more.    *)
LEMMA RowStepKeepsOrder ==
  ASSUME TableTypeOK, RowStep
  PROVE  /\ UNCHANGED <<intent, seq, lastSeq, mergedInto>>
         /\ \A t \in Turns : Inserted(t)' <=> Inserted(t)
         /\ \A t \in Turns : status'[t] = "queued" => status[t] = "queued"
         /\ \A t \in Turns : status[t] = "queued" =>
              \/ status'[t] \in {"queued", "failed"}
              \/ t \in Generations /\ status'[t] \in {"running", "completed"}
         /\ \A t \in Agents : status'[t] \in Active => status[t] \in Active
         /\ \A t \in Turns : status[t] \in {"completed", "failed", "merged", "cancelled"} => status'[t] = status[t]
         /\ \A t \in Turns : status[t] = "interrupted" =>
              \/ status'[t] = status[t]
              \/ status'[t] \in {"completed", "failed"} /\ \E w \in Workers : Own(w) = t
         /\ \A t \in Turns : status[t] \in Active =>
              status'[t] \in Active \cup {"completed", "failed", "interrupted"}
<1>1. PICK t, from, to :
        /\ UpdateStatus(t, from, to)
        /\ from \subseteq Statuses \ {"absent"} /\ to \in Active \cup {"completed", "failed", "interrupted"}
        /\ "queued" \in from => to = "failed" \/ (t \in Generations /\ to \in {"running", "completed"})
        /\ to \in Active => from \subseteq Active \/ t \in Generations
        /\ from \cap {"completed", "failed", "merged", "cancelled"} = {}
        /\ "interrupted" \in from => to \in {"completed", "failed", "interrupted"} /\ \E w \in Workers : Own(w) = t
  BY DEF RowStep, FailSubmittedTurn, RequestAbort, FailTurn, FinalizeTurn, InterruptTurn, Active, Statuses, Settled
<1>. QED BY <1>1 DEF UpdateStatus, turnVars, TableTypeOK, Inserted, Agents, Active, Statuses, Settled

(* A claim takes queued agent turns, and recovers an active one.            *)
LEMMA BatchIsQueued ==
  ASSUME TableTypeOK, NEW o, NEW b, NEW d, NEW r, Recoverable(r), NextBatch(o, b, d)
  PROVE  /\ o \in b
         /\ \A t \in b : t \in Agents /\ status[t] = "queued" /\ BeforeGeneration(t)
         /\ r = NoTurn \/ (r \in ActiveAgents /\ r \in stale)
<1>1. o \in Turns => seq[o] <= seq[o] BY DEF TableTypeOK
<1>2. r = NoTurn \/ (r \in ActiveAgents /\ r \in stale) BY DEF Recoverable, Earliest
<1>3. ASSUME NEW i, b = {o} \/ b = UpTo(o, Claimable(i)), o \in Claimable(i)
      PROVE  o \in b /\ b \subseteq Claimable(i)
  BY <1>1, <1>3 DEF UpTo, Claimable, Agents
<1>4. \E i : (b = {o} \/ b = UpTo(o, Claimable(i))) /\ o \in Claimable(i)
  BY DEF NextBatch, Earliest
<1>5. PICK i : o \in b /\ b \subseteq Claimable(i) BY <1>3, <1>4
<1>. QED BY <1>2, <1>5 DEF Claimable

(* Inserting, promoting or cancelling a turn moves it past all others, and  *)
(* a claim keeps the sequences.                                             *)
LEMMA SequencesKept ==
  ASSUME TableTypeOK, SequencesOK, TableStep
  PROVE  SequencesOK'
<1>. USE DEF TableTypeOK, SequencesOK, Inserted
<1>1. CASE UNCHANGED <<status, intent, seq, lastSeq, mergedInto>> BY <1>1
<1>2. CASE RowStep BY <1>2, RowStepKeepsOrder
<1>3. CASE OrderStep
  <2>1. ASSUME NEW t \in Turns, NEW i \in Intents, InsertTurn(t, i) PROVE SequencesOK'
    BY <2>1 DEF InsertTurn
  <2>2. ASSUME NEW t \in Turns, NEW a \in Turns \cup {NoTurn}, PromoteTurn(t, a) PROVE SequencesOK'
    <3>1. a \in Turns => status[a] # "absent"
      BY <2>2, TableAssumption DEF PromoteTurn, NewestActive, ActiveAgents, Active, TableAssumption
    <3>. QED BY <2>2, <3>1 DEF PromoteTurn
  <2>3. ASSUME NEW t \in Turns, CancelTurn(t) PROVE SequencesOK'
    BY <2>3 DEF CancelTurn
  <2>. QED BY <1>3, <2>1, <2>2, <2>3 DEF OrderStep
<1>4. CASE TakeBatch
  <2>. PICK o \in Turns, b \in SUBSET Turns, d \in Deliveries, r \in Turns \cup {NoTurn} :
         ClaimBatch(o, b, d, r) \/ \E t \in b : ClaimWithout(t, o, b, d, r)
    BY <1>4 DEF TakeBatch
  <2>1. /\ \A t \in b : status[t] # "absent"
        /\ r \in Turns => status[r] # "absent"
        /\ o \in b
    BY BatchIsQueued, TableAssumption
    DEF ClaimBatch, ClaimWithout, ActiveAgents, Active, TableAssumption
  <2>. QED BY <2>1 DEF ClaimBatch, ClaimWithout
<1>5. CASE \E r \in Turns \cup {NoTurn} : ClaimNothing(r)
  <2>. PICK r \in Turns \cup {NoTurn} : ClaimNothing(r) BY <1>5
  <2>1. r \in Turns => status[r] # "absent"
    BY TableAssumption DEF ClaimNothing, Recoverable, Earliest, ActiveAgents, Active, TableAssumption
  <2>. QED BY <2>1 DEF ClaimNothing
<1>. QED BY <1>1, <1>2, <1>3, <1>4, <1>5 DEF TableStep

(* What a claim does to the rows: the batch is taken as a whole or, when a  *)
(* failed submission got in between, not at all.                            *)
Taken(o, b) ==
  /\ \A t \in Turns \ b :
       /\ mergedInto'[t] = mergedInto[t]
       /\ \/ status'[t] = status[t]
          \/ status[t] \in Active /\ status'[t] = "interrupted"
  /\ \/ \A t \in b : /\ status'[t] = IF t = o THEN "running" ELSE "merged"
                     /\ t # o => mergedInto'[t] = o
     \/ \A t \in b : /\ status'[t] \in {"queued", "failed"}
                     /\ mergedInto'[t] = mergedInto[t]

(* What the transaction of a claim does to the table. *)
LEMMA BatchEffect ==
  ASSUME TableTypeOK, TakeBatch
  PROVE  /\ UNCHANGED <<intent, seq, lastSeq>>
         /\ \E o \in Turns, b \in SUBSET Turns, d \in Deliveries : NextBatch(o, b, d) /\ Taken(o, b)
<1>. PICK o \in Turns, b \in SUBSET Turns, d \in Deliveries, r \in Turns \cup {NoTurn} :
       ClaimBatch(o, b, d, r) \/ \E t \in b : ClaimWithout(t, o, b, d, r)
  BY DEF TakeBatch
<1>1. NextBatch(o, b, d) /\ Recoverable(r) BY DEF ClaimBatch, ClaimWithout
<1>2. /\ o \in b
      /\ \A t \in b : status[t] = "queued"
      /\ r \in Turns => status[r] \in Active
  BY <1>1, BatchIsQueued, TableAssumption DEF ActiveAgents, TableAssumption
<1>3. r \notin b BY <1>2 DEF Active
<1>4. CASE ClaimBatch(o, b, d, r)
  <2>1. ASSUME NEW t \in Turns \ b
        PROVE  /\ mergedInto'[t] = mergedInto[t]
               /\ \/ status'[t] = status[t]
                  \/ status[t] \in Active /\ status'[t] = "interrupted"
    BY <1>2, <1>3, <1>4 DEF ClaimBatch
  <2>2. \A t \in b : /\ status'[t] = IF t = o THEN "running" ELSE "merged"
                     /\ t # o => mergedInto'[t] = o
    <3>1. /\ status' = [t \in Turns |-> CASE t = o -> "running"
                                          [] t \in b \ {o} -> "merged"
                                          [] t = r -> "interrupted"
                                          [] OTHER -> status[t]]
          /\ mergedInto' = [t \in Turns |-> IF t \in b \ {o} THEN o ELSE mergedInto[t]]
      BY <1>4 DEF ClaimBatch
    <3>2. ASSUME NEW t \in b
          PROVE  /\ status'[t] = IF t = o THEN "running" ELSE "merged"
                 /\ t # o => mergedInto'[t] = o
      <4>1. t \in Turns OBVIOUS
      <4>2. CASE t = o BY <1>3, <3>1, <4>1, <4>2
      <4>3. CASE t # o BY <1>3, <3>1, <4>1, <4>3
      <4>. QED BY <4>2, <4>3
    <3>. QED BY <3>2
  <2>3. Taken(o, b) BY <2>1, <2>2 DEF Taken
  <2>4. UNCHANGED <<intent, seq, lastSeq>> BY <1>4 DEF ClaimBatch
  <2>. QED BY <1>1, <2>3, <2>4
<1>5. ASSUME NEW t \in b, ClaimWithout(t, o, b, d, r)
      PROVE  /\ UNCHANGED <<intent, seq, lastSeq>>
             /\ Taken(o, b)
  <2>1. \A u \in Turns : \/ u = t /\ status'[u] = "failed"
                         \/ u # t /\ u = r /\ status'[u] = "interrupted"
                         \/ u # t /\ status'[u] = status[u]
    <3>1. CASE t = o BY <1>3, <1>5, <3>1 DEF ClaimWithout
    <3>2. CASE t # o BY <1>5, <3>2 DEF ClaimWithout
    <3>. QED BY <3>1, <3>2
  <2>2. UNCHANGED <<intent, seq, lastSeq, mergedInto>> BY <1>5 DEF ClaimWithout
  <2>3. \A u \in Turns \ b : \/ status'[u] = status[u]
                             \/ status[u] \in Active /\ status'[u] = "interrupted"
    BY <1>2, <2>1
  <2>4. \A u \in b : status'[u] \in {"queued", "failed"} BY <1>2, <1>3, <2>1
  <2>. QED BY <2>2, <2>3, <2>4 DEF Taken
<1>. QED BY <1>1, <1>4, <1>5

-----------------------------------------------------------------------------
(* Direct generations are not overtaken. *)

(* Only a claim executes an agent turn, and it takes none past an unfinished *)
(* generation; a generation that is inserted comes after every turn.        *)
LEMMA OvertakesNot ==
  ASSUME TableTypeOK, SequencesOK, NothingOvertakesGeneration, TableStep
  PROVE  NothingOvertakesGeneration'
<1>. USE DEF TableTypeOK
<1>0. \A g \in Generations : g \in Turns BY TableAssumption DEF TableAssumption
<1>1. CASE UNCHANGED <<status, intent, seq, lastSeq, mergedInto>>
  BY <1>1 DEF NothingOvertakesGeneration, ActiveAgents
<1>2. ASSUME UNCHANGED seq,
             \A t \in Agents : status'[t] \in Active => status[t] \in Active,
             \A g \in Generations : status'[g] \in {"queued"} \cup Active => status[g] \in {"queued"} \cup Active
      PROVE  NothingOvertakesGeneration'
  BY <1>2 DEF NothingOvertakesGeneration, ActiveAgents
<1>3. CASE RowStep
  <2>1. \A g \in Generations : status'[g] \in {"queued"} \cup Active => status[g] \in {"queued"} \cup Active
    BY <1>0, <1>3, RowStepKeepsOrder DEF Inserted, Statuses, Active, Settled
  <2>. QED BY <1>2, <1>3, <2>1, RowStepKeepsOrder
<1>4. ASSUME NEW t \in Turns, NEW i \in Intents, InsertTurn(t, i) PROVE NothingOvertakesGeneration'
  BY <1>0, <1>4 DEF NothingOvertakesGeneration, ActiveAgents, Agents, InsertTurn, SequencesOK, Active
<1>5. ASSUME NEW t \in Turns, NEW a \in Turns \cup {NoTurn}, PromoteTurn(t, a)
      PROVE  NothingOvertakesGeneration'
  <2>1. a \in Turns => status[a] \in Active
    BY <1>5, TableAssumption DEF PromoteTurn, NewestActive, ActiveAgents, TableAssumption
  <2>2. \A u \in Turns : \/ status'[u] = status[u]
                         \/ status[u] \in Active /\ status'[u] \in Active
    BY <1>5, <2>1, "abort_requested" \in Active DEF PromoteTurn, Active
  <2>3. \A u \in Turns \ {t} : seq'[u] = seq[u] BY <1>5 DEF PromoteTurn
  <2>4. t \in Agents /\ status[t] = "queued" /\ status'[t] = "queued"
    BY <1>5, <2>1 DEF PromoteTurn, Active
  <2>. QED BY <1>0, <2>2, <2>3, <2>4 DEF NothingOvertakesGeneration, ActiveAgents, Agents, Active
<1>6. ASSUME NEW t \in Turns, CancelTurn(t) PROVE NothingOvertakesGeneration'
  BY <1>0, <1>6 DEF CancelTurn, NothingOvertakesGeneration, ActiveAgents, Agents, Active
<1>7. CASE TakeBatch
  <2>. PICK o \in Turns, b \in SUBSET Turns, d \in Deliveries : NextBatch(o, b, d) /\ Taken(o, b)
    BY <1>7, BatchEffect
  <2>0. \A t \in Turns \ b : \/ status'[t] = status[t]
                             \/ status[t] \in Active /\ status'[t] = "interrupted"
    BY DEF Taken
  <2>1. \A t \in b : t \in Agents /\ BeforeGeneration(t) BY DEF NextBatch, Earliest, Claimable, UpTo
  <2>2. \A g \in Generations : g \notin b BY <2>1 DEF Agents
  <2>3. UNCHANGED seq BY <1>7, BatchEffect
  <2>4. "interrupted" \notin {"queued"} \cup Active BY DEF Active
  <2>5. ASSUME NEW t \in Agents, status'[t] \in Active,
               NEW g \in Generations, status'[g] \in {"queued"} \cup Active
        PROVE  seq'[t] < seq'[g]
    <3>1. status[g] \in {"queued"} \cup Active BY <1>0, <2>0, <2>2, <2>4, <2>5
    <3>2. CASE t \in b BY <2>1, <2>3, <3>1, <3>2 DEF BeforeGeneration
    <3>3. CASE t \notin b
      BY <2>0, <2>3, <2>4, <2>5, <3>1, <3>3 DEF NothingOvertakesGeneration, ActiveAgents, Agents
    <3>. QED BY <3>2, <3>3
  <2>. QED BY <2>5 DEF NothingOvertakesGeneration, ActiveAgents
<1>8. ASSUME NEW r \in Turns \cup {NoTurn}, ClaimNothing(r) PROVE NothingOvertakesGeneration'
  BY <1>0, <1>2, <1>8, "interrupted" \notin {"queued"} \cup Active DEF ClaimNothing, Agents, Active
<1>. QED BY <1>1, <1>3, <1>4, <1>5, <1>6, <1>7, <1>8 DEF TableStep, OrderStep

-----------------------------------------------------------------------------
(* A merged turn points to the turn that answers it. *)

AnsweredStatus == Active \cup {"completed", "failed", "interrupted"}

(* The owner of a batch is the last of it, and from a claim on it is only   *)
(* executed and settled.                                                    *)
LEMMA MergedKept ==
  ASSUME TableTypeOK, SequencesOK, MergedIntoClaimedOwner, TableStep
  PROVE  MergedIntoClaimedOwner'
<1>. USE DEF TableTypeOK
<1>0. \A t \in Agents : t \in Turns BY DEF Agents
<1>1. ASSUME UNCHANGED mergedInto,
             \A t \in Turns : status[t] # "queued" /\ Inserted(t) => seq'[t] = seq[t],
             \A t \in Turns : status'[t] = "merged" => status[t] = "merged",
             \A t \in Turns : status[t] \in AnsweredStatus => status'[t] \in AnsweredStatus
      PROVE  MergedIntoClaimedOwner'
  BY <1>0, <1>1 DEF MergedIntoClaimedOwner, AnsweredStatus, Active, Inserted
<1>. USE DEF AnsweredStatus
<1>2. CASE UNCHANGED <<status, intent, seq, lastSeq, mergedInto>> BY <1>1, <1>2
<1>3. CASE RowStep
  <2>1. \A t \in Turns : status'[t] = "merged" => status[t] = "merged"
    <3>1. ASSUME NEW t \in Turns, status[t] # "merged" PROVE status'[t] # "merged"
      <4>1. status[t] \in {"absent", "queued", "interrupted", "completed", "failed", "cancelled"} \cup Active
        BY <3>1 DEF Statuses, Settled
      <4>2. CASE status[t] = "absent" BY <1>3, <4>2, RowStepKeepsOrder DEF Inserted
      <4>3. CASE status[t] = "queued"
        <5>1. status'[t] \in {"queued", "failed"} \cup {"running", "completed"} BY <1>3, <4>3, RowStepKeepsOrder
        <5>. QED BY <5>1
      <4>4. CASE status[t] \in {"completed", "failed", "cancelled"} BY <1>3, <4>4, RowStepKeepsOrder
      <4>5. CASE status[t] = "interrupted" BY <1>3, <4>5, RowStepKeepsOrder
      <4>6. CASE status[t] \in Active BY <1>3, <4>6, RowStepKeepsOrder DEF Active
      <4>. QED BY <4>1, <4>2, <4>3, <4>4, <4>5, <4>6
    <3>. QED BY <3>1
  <2>2. \A t \in Turns : status[t] \in AnsweredStatus => status'[t] \in AnsweredStatus
    BY <1>3, RowStepKeepsOrder
  <2>. QED BY <1>1, <1>3, <2>1, <2>2, RowStepKeepsOrder
<1>4. ASSUME NEW t \in Turns, NEW i \in Intents, InsertTurn(t, i) PROVE MergedIntoClaimedOwner'
  BY <1>1, <1>4 DEF InsertTurn, Inserted, Active
<1>5. ASSUME NEW t \in Turns, NEW a \in Turns \cup {NoTurn}, PromoteTurn(t, a)
      PROVE  MergedIntoClaimedOwner'
  <2>1. a \in Turns => status[a] \in Active
    BY <1>5, TableAssumption DEF PromoteTurn, NewestActive, ActiveAgents, TableAssumption
  <2>. QED BY <1>1, <1>5, <2>1 DEF PromoteTurn, Active
<1>6. ASSUME NEW t \in Turns, CancelTurn(t) PROVE MergedIntoClaimedOwner'
  BY <1>1, <1>6 DEF CancelTurn, Active
<1>7. CASE TakeBatch
  <2>. PICK o \in Turns, b \in SUBSET Turns, d \in Deliveries : NextBatch(o, b, d) /\ Taken(o, b)
    BY <1>7, BatchEffect
  <2>0. o \in Turns => seq[o] <= seq[o] OBVIOUS
  <2>1. /\ o \in b
        /\ \A t \in b : t \in Agents /\ status[t] = "queued" /\ seq[t] <= seq[o]
    BY <2>0 DEF NextBatch, Earliest, Claimable, UpTo, Agents
  <2>2. UNCHANGED seq BY <1>7, BatchEffect
  <2>3. ASSUME NEW t \in Turns, status'[t] = "merged", t \in b
        PROVE  mergedInto'[t] = o /\ seq'[t] < seq'[o] /\ status'[o] = "running"
    <3>1. t # o /\ mergedInto'[t] = o /\ status'[o] = "running" BY <2>1, <2>3 DEF Taken
    <3>2. seq[t] # seq[o] BY <2>1, <2>3, <3>1 DEF SequencesOK, Inserted
    <3>3. seq[t] <= seq[o] /\ seq[t] \in Nat /\ seq[o] \in Nat BY <2>1, <2>3
    <3>. QED BY <2>2, <3>1, <3>2, <3>3
  <2>4. ASSUME NEW t \in Turns, status'[t] = "merged", t \notin b
        PROVE  /\ mergedInto'[t] \in Agents
               /\ seq'[t] < seq'[mergedInto'[t]]
               /\ status'[mergedInto'[t]] \in AnsweredStatus
    <3>1. status[t] = "merged" /\ mergedInto'[t] = mergedInto[t] BY <2>4 DEF Taken
    <3>2. /\ mergedInto[t] \in Agents /\ seq[t] < seq[mergedInto[t]]
          /\ status[mergedInto[t]] \in AnsweredStatus
      BY <3>1 DEF MergedIntoClaimedOwner
    <3>3. mergedInto[t] \in Turns \ b BY <1>0, <2>1, <3>2 DEF Active
    <3>4. status'[mergedInto[t]] \in AnsweredStatus BY <3>2, <3>3 DEF Taken
    <3>. QED BY <2>2, <3>1, <3>2, <3>4
  <2>5. o \in Agents /\ "running" \in AnsweredStatus BY <2>1 DEF Active
  <2>. QED BY <2>3, <2>4, <2>5 DEF MergedIntoClaimedOwner
<1>8. ASSUME NEW r \in Turns \cup {NoTurn}, ClaimNothing(r) PROVE MergedIntoClaimedOwner'
  BY <1>1, <1>8 DEF ClaimNothing
<1>. QED BY <1>2, <1>3, <1>4, <1>5, <1>6, <1>7, <1>8 DEF TableStep, OrderStep

-----------------------------------------------------------------------------
(* Follow-ups start in order. *)

(* A batch takes every claimable follow-up up to its owner, and a follow-up *)
(* sent before a claimable one is claimable.                                *)
LEMMA FollowupsKept ==
  ASSUME TableTypeOK, SequencesOK, FollowupsInOrder, TableStep
  PROVE  FollowupsInOrder'
<1>. USE DEF TableTypeOK
<1>0. \A t \in Agents : t \in Turns BY DEF Agents
<1>1. ASSUME \A t \in Agents : /\ Answered(t)' => Answered(t)
                               /\ status'[t] = "queued" /\ intent'[t] = "followup" =>
                                    status[t] = "queued" /\ intent[t] = "followup"
                               /\ intent'[t] = "followup" /\ (Answered(t) \/ status[t] = "queued") => intent[t] = "followup" /\ (status'[t] = "cancelled" \/ seq'[t] = seq[t])
      PROVE  FollowupsInOrder'
  <2>. SUFFICES ASSUME NEW t \in Agents, NEW u \in Agents,
                       intent'[t] = "followup", intent'[u] = "followup", seq'[t] < seq'[u],
                       Answered(u)', status'[t] = "queued"
                PROVE  FALSE
    BY DEF FollowupsInOrder
  <2>1. seq'[t] = seq[t] /\ seq'[u] = seq[u] /\ intent[t] = "followup" /\ intent[u] = "followup"
        /\ status[t] = "queued" /\ Answered(u)
    BY <1>1 DEF Answered, Active
  <2>. QED BY <2>1 DEF FollowupsInOrder
<1>. USE DEF Answered, Active
<1>2. CASE UNCHANGED <<status, intent, seq, lastSeq, mergedInto>> BY <1>1, <1>2
<1>3. CASE RowStep
  <2>1. /\ UNCHANGED <<intent, seq>>
        /\ \A t \in Agents : status'[t] = "queued" => status[t] = "queued"
    BY <1>0, <1>3, RowStepKeepsOrder
  <2>2. ASSUME NEW t \in Agents, Answered(t)' PROVE Answered(t)
    BY <1>0, <1>3, <2>2, RowStepKeepsOrder DEF Agents, Statuses, Settled, Inserted
  <2>. QED BY <1>1, <2>1, <2>2
<1>4. ASSUME NEW t \in Turns, NEW i \in Intents, InsertTurn(t, i) PROVE FollowupsInOrder'
  BY <1>0, <1>4 DEF InsertTurn, FollowupsInOrder, SequencesOK
<1>5. ASSUME NEW t \in Turns, NEW a \in Turns \cup {NoTurn}, PromoteTurn(t, a)
      PROVE  FollowupsInOrder'
  <2>1. a \in Turns => status[a] \in Active
    BY <1>5, TableAssumption DEF PromoteTurn, NewestActive, ActiveAgents, TableAssumption
  <2>2. \A u \in Agents \ {t} : intent'[u] = intent[u] /\ seq'[u] = seq[u]
    BY <1>0, <1>5 DEF PromoteTurn
  <2>3. \A u \in Agents : \/ status'[u] = status[u]
                          \/ status[u] \in Active /\ status'[u] \in Active
    BY <1>0, <1>5, <2>1 DEF PromoteTurn
  <2>4. intent'[t] = "steer" BY <1>5 DEF PromoteTurn
  <2>. QED BY <1>1, <2>2, <2>3, <2>4
<1>6. ASSUME NEW t \in Turns, CancelTurn(t) PROVE FollowupsInOrder'
  BY <1>0, <1>1, <1>6 DEF CancelTurn
<1>7. CASE TakeBatch
  <2>. PICK o \in Turns, b \in SUBSET Turns, d \in Deliveries : NextBatch(o, b, d) /\ Taken(o, b)
    BY <1>7, BatchEffect
  <2>0. UNCHANGED <<intent, seq>> BY <1>7, BatchEffect
  <2>1. \A t \in b : t \in Agents /\ status[t] = "queued" /\ BeforeGeneration(t)
    BY DEF NextBatch, Earliest, Claimable, UpTo
  <2>. SUFFICES ASSUME NEW t \in Agents, NEW u \in Agents,
                       intent[t] = "followup", intent[u] = "followup", seq[t] < seq[u],
                       Answered(u)', status'[t] = "queued"
                PROVE  FALSE
    BY <2>0 DEF FollowupsInOrder
  <2>2. status[t] = "queued" BY <1>0, <2>1 DEF Taken
  <2>3. CASE u \notin b
    <3>1. Answered(u) BY <1>0, <2>3 DEF Taken
    <3>. QED BY <2>2, <3>1 DEF FollowupsInOrder
  <2>4. CASE u \in b
    <3>1. \A x \in b : status'[x] = IF x = o THEN "running" ELSE "merged" BY <2>4 DEF Taken
    <3>2. b = UpTo(o, Claimable("followup"))
      BY <2>4 DEF NextBatch, Earliest, Claimable
    <3>3. seq[u] <= seq[o] BY <2>4, <3>2 DEF UpTo
    <3>4. BeforeGeneration(t)
      <4>1. \A g \in Generations : g \in Turns BY TableAssumption DEF TableAssumption
      <4>2. BeforeGeneration(u) BY <2>1, <2>4
      <4>. QED BY <1>0, <4>1, <4>2 DEF BeforeGeneration
    <3>5. t \in Claimable("followup") BY <2>2, <3>4 DEF Claimable
    <3>6. o \in Turns /\ t \in Turns /\ u \in Turns BY <1>0
    <3>7. t \in b BY <3>2, <3>3, <3>5, <3>6 DEF UpTo
    <3>. QED BY <3>1, <3>7
  <2>. QED BY <2>3, <2>4
<1>8. ASSUME NEW r \in Turns \cup {NoTurn}, ClaimNothing(r) PROVE FollowupsInOrder'
  <2>1. r \in Turns => status[r] \in Active
    BY <1>8, TableAssumption DEF ClaimNothing, Recoverable, Earliest, ActiveAgents, TableAssumption
  <2>. QED BY <1>0, <1>1, <1>8, <2>1 DEF ClaimNothing
<1>. QED BY <1>2, <1>3, <1>4, <1>5, <1>6, <1>7, <1>8 DEF TableStep, OrderStep

-----------------------------------------------------------------------------
(* The theorems on the order of the turns. *)

OrderInv == TypeInv /\ SequencesOK

(* The invariant of the table holds in every state. *)
LEMMA OrderHolds == Spec => []OrderInv
<1>1. Init => OrderInv
  <2>1. Init => SequencesOK BY DEF Init, TableInit, SequencesOK, Inserted
  <2>. QED BY <2>1, InitType, InitCalls DEF OrderInv, TypeInv
<1>2. OrderInv /\ [Next]_vars => OrderInv'
  BY NextType, NextIsTableStep, SequencesKept DEF OrderInv, TypeInv, TypeOK
<1>. QED BY <1>1, <1>2, PTL DEF Spec

(* An agent turn that was sent after a direct generation is not executed    *)
(* while the generation is queued or runs: claimNextTurnBatch takes nothing *)
(* past an unfinished generation, and nothing but a claim executes a turn.  *)
THEOREM GenerationGoesFirst == Spec => []NothingOvertakesGeneration
<1>1. Init => NothingOvertakesGeneration
  BY DEF Init, TableInit, NothingOvertakesGeneration, ActiveAgents, Agents, Active
<1>2. OrderInv /\ NothingOvertakesGeneration /\ [Next]_vars => NothingOvertakesGeneration'
  BY NextIsTableStep, OvertakesNot DEF OrderInv, TypeInv, TypeOK
<1>. QED BY <1>1, <1>2, OrderHolds, PTL DEF Spec

(* A merged turn points to a later agent turn that was claimed with it and  *)
(* is executed or settled, never to one that waits, merged itself or was    *)
(* cancelled.                                                               *)
THEOREM MergedIsAnswered == Spec => []MergedIntoClaimedOwner
<1>1. Init => MergedIntoClaimedOwner BY DEF Init, TableInit, MergedIntoClaimedOwner
<1>2. OrderInv /\ MergedIntoClaimedOwner /\ [Next]_vars => MergedIntoClaimedOwner'
  BY NextIsTableStep, MergedKept DEF OrderInv, TypeInv, TypeOK
<1>. QED BY <1>1, <1>2, OrderHolds, PTL DEF Spec

(* Whatever followupDelivery each claim reads, and whatever is promoted,    *)
(* cancelled or failed meanwhile, no follow-up is answered before one that  *)
(* was sent earlier and still waits.                                        *)
THEOREM FollowupsStartInOrder == Spec => []FollowupsInOrder
<1>1. Init => FollowupsInOrder
  BY DEF Init, TableInit, FollowupsInOrder, Answered, Agents, Active
<1>2. OrderInv /\ FollowupsInOrder /\ [Next]_vars => FollowupsInOrder'
  BY NextIsTableStep, FollowupsKept DEF OrderInv, TypeInv, TypeOK
<1>. QED BY <1>1, <1>2, OrderHolds, PTL DEF Spec

-----------------------------------------------------------------------------
(* A settled turn stays. *)

Stays(t) ==
  /\ status[t] \in {"completed", "failed", "merged", "cancelled"} => status'[t] = status[t]
  /\ status[t] = "interrupted" =>
       \/ status'[t] = status[t]
       \/ status'[t] \in {"completed", "failed"} /\ \E w \in Workers : Own(w) = t

(* A step of the table leaves a settled turn settled. *)
LEMMA TableStays ==
  ASSUME TableTypeOK, TableStep, NEW t \in Turns
  PROVE  Stays(t)
<1>. USE DEF TableTypeOK
<1>1. CASE status'[t] = status[t] BY <1>1 DEF Stays
<1>2. CASE status[t] \in {"absent", "queued"} \cup Active BY <1>2 DEF Stays, Active
<1>3. CASE UNCHANGED <<status, intent, seq, lastSeq, mergedInto>> BY <1>1, <1>3
<1>4. CASE RowStep BY <1>4, RowStepKeepsOrder DEF Stays
<1>5. CASE OrderStep
  <2>1. ASSUME NEW u \in Turns, NEW i, InsertTurn(u, i) PROVE Stays(t)
    BY <1>1, <1>2, <2>1 DEF InsertTurn
  <2>2. ASSUME NEW u \in Turns, NEW a, PromoteTurn(u, a) PROVE Stays(t)
    <3>1. t = a => status[t] \in Active BY <2>2, TableAssumption DEF PromoteTurn, NewestActive, ActiveAgents, TableAssumption
    <3>. QED BY <1>1, <1>2, <2>2, <3>1 DEF PromoteTurn
  <2>3. ASSUME NEW u \in Turns, CancelTurn(u) PROVE Stays(t) BY <1>1, <1>2, <2>3 DEF CancelTurn
  <2>. QED BY <1>5, <2>1, <2>2, <2>3 DEF OrderStep
<1>6. CASE TakeBatch
  <2>. PICK o \in Turns, b \in SUBSET Turns, d \in Deliveries : NextBatch(o, b, d) /\ Taken(o, b)
    BY <1>6, BatchEffect
  <2>1. t \in b => status[t] = "queued" BY DEF NextBatch, Earliest, Claimable, UpTo
  <2>. QED BY <1>1, <1>2, <2>1 DEF Taken
<1>7. ASSUME NEW r, ClaimNothing(r) PROVE Stays(t)
  <2>1. t = r => status[t] \in Active
    BY <1>7, TableAssumption DEF ClaimNothing, Recoverable, Earliest, ActiveAgents, TableAssumption
  <2>. QED BY <1>1, <1>2, <1>7, <2>1 DEF ClaimNothing
<1>. QED BY <1>3, <1>4, <1>5, <1>6, <1>7 DEF TableStep

(* No late write of a worker that lost its lease, of a failed submission or *)
(* of a promotion's rollback changes a turn that completed, failed, merged  *)
(* or was cancelled, and only the worker that executes an interrupted turn  *)
(* may still write its result.                                              *)
THEOREM SettledStay == Spec => SettledTurnsStay
<1>1. OrderInv /\ [Next]_vars =>
        [\A t \in Turns :
           /\ status[t] \in {"completed", "failed", "merged", "cancelled"} => status'[t] = status[t]
           /\ status[t] = "interrupted" =>
                \/ status'[t] = status[t]
                \/ status'[t] \in {"completed", "failed"} /\ \E w \in Workers : Own(w) = t]_vars
  BY NextIsTableStep, TableStays DEF OrderInv, TypeInv, TypeOK, Stays
<1>. QED BY <1>1, OrderHolds, PTL DEF Spec, SettledTurnsStay

-----------------------------------------------------------------------------
(* A worker that holds its lease keeps the turn that it runs.               *)

InRun(w) == At(w, "precheck") \/ At(w, "run")
Undisturbed(w) == InRun(w) /\ ~wk[w].lost

(* A turn that nobody took away: only its submission may have failed it.    *)
Kept(t) == status[t] \in Active \/ (status[t] = "failed" /\ sub[t] = "done")

(* A stale turn is an active one: every UPDATE of a row refreshes it.       *)
StaleActive == \A t \in stale : status[t] \in Active

(* Workers own different turns, which were claimed and never wait again.    *)
OwnersOK ==
  \A v, w \in Workers :
    /\ InRun(w) => Own(w) # NoTurn
    /\ Own(w) # NoTurn => Own(w) \in Agents /\ status[Own(w)] \notin {"absent", "queued"}
    /\ Own(v) = Own(w) /\ Own(w) # NoTurn => v = w

(* A claim that is under way finds no turn stale that a worker with its     *)
(* lease still runs: it began when the lock was free, and no turn grows     *)
(* stale meanwhile.                                                         *)
QuietClaim ==
  \A v, w \in Workers : At(v, "claim") /\ Undisturbed(w) => Own(w) \notin stale

RunInv ==
  /\ StaleActive
  /\ OwnersOK
  /\ QuietClaim
  /\ \A w \in Workers : Undisturbed(w) => Kept(Own(w))

(* Steps that move no worker: a row that is active or failed stays so, and  *)
(* only its own submission fails it.                                        *)
LEMMA RowsKeepRun ==
  ASSUME RunInv, UNCHANGED wk, stale' \subseteq stale,
         \A t \in stale' : status'[t] \in Active,
         \A t \in Agents : Kept(t) => Kept(t)',
         \A t \in Agents : status[t] \notin {"absent", "queued"} => status'[t] \notin {"absent", "queued"}
  PROVE  RunInv'
<1>1. StaleActive' BY DEF StaleActive
<1>2. OwnersOK' BY DEF RunInv, OwnersOK, InRun, At, Own
<1>3. QuietClaim' BY DEF RunInv, QuietClaim, Undisturbed, InRun, At, Own
<1>4. \A w \in Workers : Undisturbed(w)' => Kept(Own(w))'
  <2>. SUFFICES ASSUME NEW w \in Workers, Undisturbed(w)' PROVE Kept(Own(w))' OBVIOUS
  <2>1. Undisturbed(w) /\ Own(w)' = Own(w) BY DEF Undisturbed, InRun, At, Own
  <2>2. Kept(Own(w)) /\ Own(w) \in Agents BY <2>1 DEF RunInv, OwnersOK, Undisturbed
  <2>3. Kept(Own(w))' = (status'[Own(w)'] \in Active \/ (status'[Own(w)'] = "failed" /\ sub'[Own(w)'] = "done"))
    BY DEF Kept
  <2>4. status'[Own(w)] \in Active \/ (status'[Own(w)] = "failed" /\ sub'[Own(w)] = "done")
    BY <2>2 DEF Kept
  <2>. QED BY <2>1, <2>3, <2>4
<1>. QED BY <1>1, <1>2, <1>3, <1>4 DEF RunInv

(* A guarded UPDATE by a call of the API, and where the call then stands.   *)
LEMMA UpdateKeepsRun ==
  ASSUME TypeOK, RunInv, UNCHANGED wk, NEW t, NEW from, NEW to, UpdateStatus(t, from, to),
         to \in Active \cup Settled, "absent" \notin from, "failed" \notin from,
         \A u \in Turns : sub[u] = "done" => sub'[u] = "done",
         \/ t \in Generations
         \/ from = {"queued"}
         \/ to \in Active
         \/ to = "failed" /\ sub'[t] = "done"
  PROVE  RunInv'
<1>. USE DEF TypeOK, TableTypeOK
<1>1. stale' \subseteq stale BY DEF UpdateStatus, turnVars
<1>2. \A u \in stale' : status'[u] \in Active
  BY DEF UpdateStatus, turnVars, RunInv, StaleActive
<1>3. \A u \in Turns : \/ status'[u] = status[u]
                       \/ u = t /\ status[u] \in from /\ status'[u] = to
  BY DEF UpdateStatus, turnVars
<1>4. \A u \in Agents : Kept(u) => Kept(u)'
  BY <1>3 DEF Kept, Agents, Active
<1>5. \A u \in Agents : status[u] \notin {"absent", "queued"} => status'[u] \notin {"absent", "queued"}
  BY <1>3 DEF Agents, Active, Settled
<1>. QED BY <1>1, <1>2, <1>4, <1>5, RowsKeepRun

(* The table and the submissions do not change. *)
LEMMA StillKeepsRun ==
  ASSUME RunInv, UNCHANGED wk, UNCHANGED turnVars,
         \A u \in Turns : sub[u] = "done" => sub'[u] = "done"
  PROVE  RunInv'
<1>. USE DEF turnVars
<1>1. \A u \in Agents : Kept(u) => Kept(u)' BY DEF Kept, Agents
<1>. QED BY <1>1, RowsKeepRun DEF RunInv, StaleActive

(* Calls of the API. *)
LEMMA CallsKeepRun ==
  ASSUME TypeInv, RunInv, NEW t \in Turns,
         \/ \E i \in Intents : SubmitPrompt(t, i)
         \/ \E a \in Turns \cup {NoTurn} : Promote(t, a)
         \/ SubmitGeneration(t) \/ Cancel(t) \/ Stop(t)
         \/ SubmitStep(t) \/ PromoteStep(t)
         \/ SubmitThrows(t) \/ PromoteThrows(t) \/ ApiCrash(t)
         \/ PublishStop
  PROVE  RunInv'
<1>. USE DEF TypeInv, TypeOK, TableTypeOK, ApiTypeOK
<1>1. UNCHANGED wk
  BY DEF SubmitPrompt, Promote, SubmitGeneration, Cancel, Stop, SubmitStep, ReadActive, SteerActive,
         PublishSteer, EnqueuePrompt, FailSubmission, EnqueueGeneration, StartGeneration, WakeAgent,
         EndGeneration, PromoteStep, PromoteEnqueue, PromotePublish, PromoteFailTarget, PromoteRestore,
         SubmitThrows, PromoteThrows, ApiCrash, PublishStop
<1>2. \A u \in Turns : sub[u] = "done" => sub'[u] = "done"
  BY DEF SubmitPrompt, Promote, SubmitGeneration, Cancel, Stop, SubmitStep, ReadActive, SteerActive,
         PublishSteer, EnqueuePrompt, FailSubmission, EnqueueGeneration, StartGeneration, WakeAgent,
         EndGeneration, PromoteStep, PromoteEnqueue, PromotePublish, PromoteFailTarget, PromoteRestore,
         SubmitThrows, PromoteThrows, ApiCrash, PublishStop, GoSub, GoPro, apiVars, Intents
<1>3. ASSUME NEW i \in Intents, InsertTurn(t, i) PROVE RunInv'
  <2>1. \A u \in stale' : u \in stale /\ status'[u] \in Active
    BY <1>3 DEF InsertTurn, RunInv, StaleActive, Active
  <2>2. \A u \in Agents : Kept(u) => Kept(u)'
    BY <1>2, <1>3 DEF InsertTurn, Kept, Agents, Active
  <2>3. \A u \in Agents : status[u] \notin {"absent", "queued"} => status'[u] \notin {"absent", "queued"}
    BY <1>3 DEF InsertTurn, Agents
  <2>. QED BY <1>1, <2>1, <2>2, <2>3, RowsKeepRun
<1>4. ASSUME NEW a \in Turns \cup {NoTurn}, PromoteTurn(t, a) PROVE RunInv'
  <2>0. a \in Turns => status[a] \in Active
    BY <1>4, TableAssumption DEF PromoteTurn, NewestActive, ActiveAgents, TableAssumption
  <2>1. \A u \in stale' : u \in stale /\ status'[u] \in Active
    BY <1>4 DEF PromoteTurn, RunInv, StaleActive, Active
  <2>2. \A u \in Agents : Kept(u) => Kept(u)'
    BY <1>2, <1>4, <2>0 DEF PromoteTurn, Kept, Agents, Active
  <2>3. \A u \in Agents : status[u] \notin {"absent", "queued"} => status'[u] \notin {"absent", "queued"}
    BY <1>4 DEF PromoteTurn, Agents
  <2>. QED BY <1>1, <2>1, <2>2, <2>3, RowsKeepRun
<1>5. ASSUME CancelTurn(t) PROVE RunInv'
  <2>1. \A u \in stale' : u \in stale /\ status'[u] \in Active
    BY <1>5 DEF CancelTurn, RunInv, StaleActive, Active
  <2>2. \A u \in Agents : Kept(u) => Kept(u)'
    BY <1>2, <1>5 DEF CancelTurn, Kept, Agents, Active
  <2>3. \A u \in Agents : status[u] \notin {"absent", "queued"} => status'[u] \notin {"absent", "queued"}
    BY <1>5 DEF CancelTurn, Agents
  <2>. QED BY <1>1, <2>1, <2>2, <2>3, RowsKeepRun
<1>6. CASE UNCHANGED turnVars BY <1>1, <1>2, <1>6, StillKeepsRun
<1>7. ASSUME NEW u, RequestAbort(u) \/ UpdateStatus(u, {"abort_requested"}, "running") PROVE RunInv'
  BY <1>1, <1>2, <1>7, UpdateKeepsRun DEF RequestAbort, Active
<1>8. ASSUME FailSubmittedTurn(t), sub'[t] = "done" PROVE RunInv'
  BY <1>1, <1>2, <1>8, UpdateKeepsRun DEF FailSubmittedTurn, Active, Settled
<1>9. CASE StartGeneration(t) \/ \E to \in {"completed", "failed"} : EndGeneration(t, to)
  <2>1. t \in Generations BY <1>9 DEF StartGeneration, EndGeneration, GoSub, CallsOK
  <2>. QED BY <1>1, <1>2, <1>9, <2>1, UpdateKeepsRun
       DEF StartGeneration, EndGeneration, Active, Settled
<1>10. CASE PromoteFailTarget(t)
  BY <1>1, <1>2, <1>10, UpdateKeepsRun DEF PromoteFailTarget, Settled
<1>11. CASE FailSubmission(t) BY <1>6, <1>8, <1>11 DEF FailSubmission, GoSub
<1>12. CASE \/ \E i \in Intents : SubmitPrompt(t, i)
            \/ \E a \in Turns \cup {NoTurn} : Promote(t, a)
            \/ SubmitGeneration(t) \/ Cancel(t) \/ Stop(t)
  BY <1>3, <1>4, <1>5, <1>7, <1>12, "followup" \in Intents
  DEF SubmitPrompt, Promote, SubmitGeneration, Cancel, Stop, Intents
<1>13. CASE SubmitThrows(t) \/ PromoteThrows(t) \/ ApiCrash(t) \/ PublishStop
  BY <1>6, <1>13 DEF SubmitThrows, PromoteThrows, ApiCrash, PublishStop
<1>14. CASE SubmitStep(t)
  BY <1>6, <1>7, <1>9, <1>11, <1>14
  DEF SubmitStep, ReadActive, SteerActive, PublishSteer, EnqueuePrompt, EnqueueGeneration, WakeAgent
<1>15. CASE PromoteStep(t)
  BY <1>6, <1>7, <1>10, <1>15 DEF PromoteStep, PromoteEnqueue, PromotePublish, PromoteRestore
<1>. QED BY <1>12, <1>13, <1>14, <1>15

(* A worker acts on its own turn, enters a claim with the lock and leaves   *)
(* the run before it writes.                                                *)
LEMMA SlotKeepsRun ==
  ASSUME TypeOK, HealthyHolds, RunInv, NEW w \in Workers, NEW slot, Become(w, slot), UNCHANGED sub,
         slot.own \in {Own(w), NoTurn},
         slot.pc = "claim" => At(w, "claim") \/ lock = "free",
         slot.pc \in {"precheck", "run"} =>
           InRun(w) /\ slot.own = Own(w) /\ (wk[w].lost => slot.lost) /\ UNCHANGED turnVars,
         UNCHANGED turnVars \/ \E from : \E to \in Settled : UpdateStatus(Own(w), from, to)
  PROVE  RunInv'
<1>. USE DEF TypeOK, TableTypeOK, WorkerTypeOK, Own
<1>1. \A v \in Workers : wk'[v] = IF v = w THEN slot ELSE wk[v] BY DEF Become
<1>2. /\ stale' \subseteq stale
      /\ \A u \in Turns \ {Own(w)} : status'[u] = status[u]
      /\ \A u \in Turns : status'[u] = status[u] \/ (status'[u] \in Settled /\ u \notin stale')
  <2>1. CASE UNCHANGED turnVars BY <2>1 DEF turnVars
  <2>2. ASSUME NEW from, NEW to \in Settled, UpdateStatus(Own(w), from, to)
        PROVE  /\ stale' \subseteq stale
               /\ \A u \in Turns \ {Own(w)} : status'[u] = status[u]
               /\ \A u \in Turns : status'[u] = status[u] \/ (status'[u] \in Settled /\ u \notin stale')
    BY <2>2 DEF UpdateStatus, turnVars
  <2>. QED BY <2>1, <2>2
<1>3. StaleActive' BY <1>2 DEF RunInv, StaleActive
<1>4. OwnersOK'
  <2>1. \A v \in Workers : wk'[v].own \in {wk[v].own, NoTurn} BY <1>1
  <2>2. \A v \in Workers : InRun(v)' => wk'[v].own # NoTurn
    BY <1>1 DEF InRun, At, RunInv, OwnersOK
  <2>3. \A v \in Workers : wk[v].own # NoTurn =>
          wk[v].own \in Agents /\ status'[wk[v].own] \notin {"absent", "queued"}
    BY <1>2 DEF RunInv, OwnersOK, Settled, Agents
  <2>4. \A u, v \in Workers : wk[u].own = wk[v].own /\ wk[v].own # NoTurn => u = v
    BY DEF RunInv, OwnersOK
  <2>. QED BY <2>1, <2>2, <2>3, <2>4 DEF OwnersOK
<1>5. ASSUME NEW v \in Workers, Undisturbed(v)'
      PROVE  Undisturbed(v) /\ wk'[v].own = wk[v].own /\ lock = v
  <2>1. Undisturbed(v) /\ wk'[v].own = wk[v].own
    BY <1>1, <1>5 DEF Undisturbed, InRun, At
  <2>. QED BY <2>1 DEF HealthyHolds, Healthy, Holding, Undisturbed, InRun, At
<1>6. QuietClaim'
  <2>. SUFFICES ASSUME NEW u \in Workers, NEW v \in Workers, At(u, "claim")', Undisturbed(v)'
                PROVE  wk'[v].own \notin stale'
    BY DEF QuietClaim
  <2>1. lock \in Workers BY <1>5
  <2>2. At(u, "claim")
    BY <1>1, <2>1, SessionAssumption DEF At, SessionAssumption
  <2>3. wk[v].own \notin stale BY <1>5, <2>2 DEF RunInv, QuietClaim
  <2>. QED BY <1>2, <1>5, <2>3
<1>7. ASSUME NEW v \in Workers, Undisturbed(v)' PROVE Kept(Own(v))'
  <2>1. Undisturbed(v) /\ wk'[v].own = wk[v].own BY <1>5, <1>7
  <2>2. Kept(wk[v].own) /\ wk[v].own \in Turns
    BY <2>1 DEF RunInv, OwnersOK, Undisturbed, Agents
  <2>3. status'[wk[v].own] = status[wk[v].own]
    <3>1. CASE v = w
      <4>1. UNCHANGED turnVars BY <1>1, <1>7, <3>1 DEF Undisturbed, InRun, At
      <4>. QED BY <4>1 DEF turnVars
    <3>2. CASE v # w
      <4>1. wk[v].own # wk[w].own BY <2>1, <3>2 DEF RunInv, OwnersOK, Undisturbed
      <4>. QED BY <1>2, <2>2, <4>1
    <3>. QED BY <3>1, <3>2
  <2>. QED BY <2>1, <2>2, <2>3 DEF Kept
<1>. QED BY <1>3, <1>4, <1>6, <1>7 DEF RunInv

(* What a worker does once it has claimed, and how it gets there. *)
LEMMA WorkKeepsRun ==
  ASSUME TypeOK, HealthyHolds, RunInv, NEW w \in Workers,
         \/ \E j \in Jobs : StartJob(w, j) \/ SkipLocked(w, j) \/ AcquireThrows(w, j)
         \/ ClaimBusy(w) \/ ClaimThrows(w)
         \/ AbortPrecheck(w) \/ BeginTurn(w) \/ DeliverAbort(w)
         \/ \E to \in Settled : Reply(w, to)
         \/ Settle(w) \/ AbortTurn(w)
         \/ \E o \in {"error", "unrecoverable"} : TurnThrows(w, o)
         \/ PersistThrows(w) \/ CatchError(w) \/ CatchUnsaved(w) \/ Finalize(w)
         \/ ReleaseLock(w) \/ Drain(w) \/ DrainThrows(w) \/ FinishJob(w)
         \/ LoseLease(w) \/ WorkerCrash(w)
  PROVE  RunInv'
<1>0. wk[w] \in Slots /\ {"failed", "completed", "interrupted"} \subseteq Settled
  BY DEF TypeOK, WorkerTypeOK, Settled
<1>. USE DEF Slots, InRun, At, Go
<1>o. Own(w) = wk[w].own BY DEF Own
<1>. DEFINE Writes == \E f : \E x \in Settled : UpdateStatus(Own(w), f, x)
<1>u. ASSUME NEW from, NEW to \in Settled, UpdateStatus(Own(w), from, to)
      PROVE  Writes
  BY <1>u
<1>1. UNCHANGED sub
  BY DEF StartJob, SkipLocked, AcquireThrows, ClaimBusy, ClaimThrows, AbortPrecheck, BeginTurn, DeliverAbort,
         Reply, Settle, AbortTurn, TurnThrows, PersistThrows, CatchError, CatchUnsaved, Finalize,
         ReleaseLock, Drain, DrainThrows, FinishJob, LoseLease, WorkerCrash, apiVars
<1>2. ASSUME NEW j \in Jobs, StartJob(w, j) \/ SkipLocked(w, j) \/ AcquireThrows(w, j) PROVE RunInv'
  BY <1>0, <1>1, <1>o, <1>2, SlotKeepsRun DEF StartJob, SkipLocked, AcquireThrows
<1>3. CASE ClaimBusy(w) \/ ClaimThrows(w)
  BY <1>0, <1>1, <1>o, <1>3, SlotKeepsRun DEF ClaimBusy, ClaimThrows
<1>4. CASE AbortPrecheck(w) \/ AbortTurn(w)
  <2>1. Writes BY <1>0, <1>4, <1>u DEF AbortPrecheck, AbortTurn, InterruptTurn
  <2>. HIDE DEF Writes
  <2>2. PICK slot : slot = [wk[w] EXCEPT !.pc = "release", !.aborted = FALSE] OBVIOUS
  <2>3. Become(w, slot) BY <1>4, <2>2 DEF AbortPrecheck, AbortTurn
  <2>4. slot.own = Own(w) /\ slot.pc = "release" BY <1>0, <1>o, <2>2
  <2>. QED BY <1>1, <2>1, <2>3, <2>4, SlotKeepsRun DEF Writes
<1>5. CASE BeginTurn(w) \/ DeliverAbort(w) \/ Settle(w)
  BY <1>0, <1>1, <1>o, <1>5, SlotKeepsRun DEF BeginTurn, DeliverAbort, Settle
<1>6. ASSUME NEW to \in Settled, Reply(w, to) PROVE RunInv'
  <2>1. Writes BY <1>6, <1>u DEF Reply, FinalizeTurn
  <2>. HIDE DEF Writes
  <2>2. PICK slot : slot = [wk[w] EXCEPT !.pc = "replied"] OBVIOUS
  <2>3. Become(w, slot) BY <1>6, <2>2 DEF Reply
  <2>4. slot.own = Own(w) /\ slot.pc = "replied" BY <1>0, <1>o, <2>2
  <2>. QED BY <1>1, <2>1, <2>3, <2>4, SlotKeepsRun DEF Writes
<1>7. ASSUME NEW o, TurnThrows(w, o) PROVE RunInv'
  BY <1>0, <1>1, <1>o, <1>7, SlotKeepsRun DEF TurnThrows
<1>8. CASE PersistThrows(w)
  <2>1. Writes \/ UNCHANGED turnVars BY <1>0, <1>8, <1>u DEF PersistThrows, FinalizeTurn
  <2>. HIDE DEF Writes
  <2>2. PICK slot : slot = [wk[w] EXCEPT !.pc = "unsaved", !.outcome = "error", !.aborted = FALSE] OBVIOUS
  <2>3. Become(w, slot) BY <1>8, <2>2 DEF PersistThrows
  <2>4. slot.own = Own(w) /\ slot.pc = "unsaved" BY <1>0, <1>o, <2>2
  <2>. QED BY <1>1, <2>1, <2>3, <2>4, SlotKeepsRun DEF Writes
<1>9. CASE CatchError(w) \/ CatchUnsaved(w) \/ Finalize(w)
  <2>1. Writes \/ UNCHANGED turnVars
    BY <1>0, <1>9, <1>u DEF CatchError, CatchUnsaved, Finalize, FailTurn
  <2>. HIDE DEF Writes
  <2>2. \E slot : Become(w, slot) /\ slot.own = Own(w) /\ slot.pc \in {"release", "finally", "end"}
    <3>1. \A pc : [wk[w] EXCEPT !.pc = pc].own = Own(w) /\ [wk[w] EXCEPT !.pc = pc].pc = pc
      BY <1>0, <1>o
    <3>2. /\ [wk[w] EXCEPT !.pc = "end", !.lost = FALSE].own = Own(w)
          /\ [wk[w] EXCEPT !.pc = "end", !.lost = FALSE].pc = "end"
      BY <1>0, <1>o
    <3>3. \/ Become(w, [wk[w] EXCEPT !.pc = "release"])
          \/ Become(w, [wk[w] EXCEPT !.pc = "finally"])
          \/ Become(w, [wk[w] EXCEPT !.pc = "end", !.lost = FALSE])
      BY <1>9 DEF CatchError, CatchUnsaved, Finalize
    <3>. HIDE DEF Become
    <3>. QED BY <3>1, <3>2, <3>3
  <2>. QED BY <1>1, <2>1, <2>2, SlotKeepsRun DEF Writes
<1>10. CASE ReleaseLock(w) \/ Drain(w) \/ DrainThrows(w)
  BY <1>0, <1>1, <1>o, <1>10, SlotKeepsRun DEF ReleaseLock, Drain, DrainThrows
<1>11. CASE FinishJob(w) \/ WorkerCrash(w)
  BY <1>0, <1>1, <1>11, SlotKeepsRun DEF FinishJob, WorkerCrash, IdleWorker
<1>12. CASE LoseLease(w)
  BY <1>0, <1>1, <1>o, <1>12, SlotKeepsRun DEF LoseLease
<1>. QED BY <1>2, <1>3, <1>4, <1>5, <1>6, <1>7, <1>8, <1>9, <1>10, <1>11, <1>12

(* A claim that commits recovers a stale turn at most and takes queued      *)
(* ones, so it takes none from a worker that holds its lease.               *)
LEMMA ClaimKeepsRun ==
  ASSUME TypeOK, RunInv, NEW w \in Workers, At(w, "claim"), NEW r, NEW b, NEW slot, Become(w, slot),
         slot.pc # "claim", slot.own \in {Own(w)} \cup b,
         slot.pc \in {"precheck", "run"} => slot.own \in b /\ Kept(slot.own)',
         slot.own \in b => status'[slot.own] \notin {"absent", "queued"},
         \A u \in b : u \in Agents /\ status[u] = "queued",
         \A u \in Turns \ b : status'[u] = status[u] \/ (u = r /\ r \in stale /\ status'[u] = "interrupted"),
         \A u \in Turns : sub[u] = "done" => sub'[u] = "done",
         stale' \subseteq stale, \A u \in stale' : status'[u] = status[u]
  PROVE  RunInv'
<1>. USE DEF TypeOK, TableTypeOK, WorkerTypeOK, Own
<1>1. \A v \in Workers : wk'[v] = IF v = w THEN slot ELSE wk[v] BY DEF Become
<1>2. StaleActive' BY DEF RunInv, StaleActive
<1>3. \A v \in Workers : wk[v].own # NoTurn => wk[v].own \in Agents \ b
  BY DEF RunInv, OwnersOK
<1>4. NoTurn \notin b BY TableAssumption DEF Agents, TableAssumption
<1>5. OwnersOK'
  <2>1. ASSUME NEW v \in Workers, InRun(v)' PROVE wk'[v].own # NoTurn
    BY <1>1, <1>4, <2>1 DEF InRun, At, RunInv, OwnersOK
  <2>2. ASSUME NEW v \in Workers, wk'[v].own # NoTurn
        PROVE  wk'[v].own \in Agents /\ status'[wk'[v].own] \notin {"absent", "queued"}
    <3>1. CASE wk'[v].own \in b
      <4>1. wk'[v].own = slot.own BY <1>1, <1>3, <1>4, <3>1
      <4>. QED BY <3>1, <4>1
    <3>2. CASE wk'[v].own = wk[v].own
      <4>1. wk[v].own \in Agents \ b /\ status[wk[v].own] \notin {"absent", "queued"}
        BY <1>3, <2>2, <3>2 DEF RunInv, OwnersOK
      <4>2. wk[v].own \in Turns \ b BY <4>1 DEF Agents
      <4>. QED BY <3>2, <4>1, <4>2
    <3>. QED BY <1>1, <3>1, <3>2
  <2>3. ASSUME NEW u \in Workers, NEW v \in Workers, wk'[u].own = wk'[v].own, wk'[v].own # NoTurn
        PROVE  u = v
    <3>1. CASE wk'[v].own \in b
      <4>1. \A x \in Workers \ {w} : wk'[x].own \notin b BY <1>1, <1>3, <1>4
      <4>. QED BY <2>3, <3>1, <4>1
    <3>2. CASE wk'[v].own \notin b
      <4>1. wk'[u].own = wk[u].own /\ wk'[v].own = wk[v].own BY <1>1, <2>3, <3>2
      <4>2. wk[u].own = wk[v].own /\ wk[v].own # NoTurn BY <2>3, <4>1
      <4>3. \A x, y \in Workers : wk[x].own = wk[y].own /\ wk[y].own # NoTurn => x = y
        BY DEF RunInv, OwnersOK
      <4>. QED BY <4>2, <4>3
    <3>. QED BY <3>1, <3>2
  <2>. QED BY <2>1, <2>2, <2>3 DEF OwnersOK
<1>6. ASSUME NEW v \in Workers \ {w}, Undisturbed(v)'
      PROVE  Undisturbed(v) /\ wk'[v] = wk[v] /\ wk[v].own \notin stale /\ wk[v].own \in Turns \ b
  <2>1. Undisturbed(v) /\ wk'[v] = wk[v] BY <1>1, <1>6 DEF Undisturbed, InRun, At
  <2>2. wk[v].own \notin stale BY <2>1 DEF RunInv, QuietClaim
  <2>. QED BY <1>3, <2>1, <2>2 DEF RunInv, OwnersOK, Undisturbed, Agents
<1>7. QuietClaim'
  <2>. SUFFICES ASSUME NEW u \in Workers, NEW v \in Workers, At(u, "claim")', Undisturbed(v)'
                PROVE  wk'[v].own \notin stale'
    BY DEF QuietClaim
  <2>1. CASE v # w BY <1>6, <2>1
  <2>2. CASE v = w
    <3>1. slot.own \in b BY <1>1, <2>2 DEF Undisturbed, InRun, At
    <3>2. slot.own \notin stale BY <3>1 DEF RunInv, StaleActive, Active
    <3>. QED BY <1>1, <2>2, <3>2
  <2>. QED BY <2>1, <2>2
<1>8. ASSUME NEW v \in Workers, Undisturbed(v)' PROVE Kept(Own(v))'
  <2>1. CASE v # w
    <3>1. Kept(wk[v].own) /\ status'[wk[v].own] = status[wk[v].own] /\ wk[v].own \in Turns
      BY <1>6, <1>8, <2>1 DEF RunInv
    <3>. QED BY <1>6, <1>8, <2>1, <3>1 DEF Kept
  <2>2. CASE v = w
    <3>1. Kept(slot.own)' BY <1>1, <1>8, <2>2 DEF Undisturbed, InRun, At
    <3>2. Own(v)' = slot.own BY <1>1, <2>2
    <3>. QED BY <3>1, <3>2 DEF Kept
  <2>. QED BY <2>1, <2>2
<1>. QED BY <1>2, <1>5, <1>7, <1>8 DEF RunInv

(* The outcomes of a claim, and a turn that grows stale while nobody claims. *)
LEMMA ClaimsKeepRun ==
  ASSUME TypeInv, HealthyHolds, RunInv, NEW w \in Workers, ClaimStep(w)
  PROVE  RunInv'
<1>. USE DEF TypeInv, TypeOK, TableTypeOK
<1>0. wk[w] \in Slots /\ At(w, "claim") /\ NoTurn \notin Turns
  BY TableAssumption DEF WorkerTypeOK, ClaimStep, TableAssumption
<1>a. \A u \in stale : status[u] \in Active BY DEF RunInv, StaleActive
<1>1. ASSUME NEW o \in Turns, NEW b \in SUBSET Turns, NEW d, NEW r \in Turns \cup {NoTurn}, Claim(w, o, b, d, r)
      PROVE  RunInv'
  <2>. DEFINE slot == [wk[w] EXCEPT !.pc = "precheck", !.own = o]
  <2>1. Recoverable(r) /\ NextBatch(o, b, d) BY <1>1 DEF Claim, ClaimBatch
  <2>2. /\ o \in b
        /\ \A u \in b : u \in Agents /\ status[u] = "queued"
        /\ r = NoTurn \/ (status[r] \in Active /\ r \in stale)
    BY <2>1, BatchIsQueued DEF ActiveAgents
  <2>3. r \notin b /\ r # o BY <1>0, <2>2 DEF Active
  <2>4. slot.pc = "precheck" /\ slot.own = o BY <1>0 DEF Slots
  <2>5. Become(w, slot) BY <1>1 DEF Claim
  <2>6. status'[o] = "running" BY <1>1, <2>3 DEF Claim, ClaimBatch
  <2>7. \A u \in Turns \ b : status'[u] = status[u] \/ (u = r /\ r \in stale /\ status'[u] = "interrupted")
    BY <1>0, <1>1, <2>2 DEF Claim, ClaimBatch
  <2>8. stale' \subseteq stale /\ \A u \in stale' : u # r /\ u \notin b
    BY <1>1, <1>a, <2>2 DEF Claim, ClaimBatch, Active
  <2>9. \A u \in stale' : status'[u] = status[u] BY <2>7, <2>8
  <2>10. UNCHANGED sub BY <1>1 DEF Claim, apiVars
  <2>11. Kept(o)' BY <2>6 DEF Kept, Active
  <2>. HIDE DEF slot
  <2>. QED BY <1>0, <2>2, <2>4, <2>5, <2>6, <2>7, <2>8, <2>9, <2>10, <2>11, ClaimKeepsRun
<1>2. ASSUME NEW o \in Turns, NEW b \in SUBSET Turns, NEW d, NEW r \in Turns \cup {NoTurn}, NEW t \in b,
             ClaimRaced(w, t, o, b, d, r)
      PROVE  RunInv'
  <2>1. Recoverable(r) /\ NextBatch(o, b, d) BY <1>2 DEF ClaimRaced, ClaimWithout
  <2>2. /\ \A u \in b : u \in Agents /\ status[u] = "queued"
        /\ r = NoTurn \/ (status[r] \in Active /\ r \in stale)
    BY <2>1, BatchIsQueued DEF ActiveAgents
  <2>3. PICK slot : slot = [wk[w] EXCEPT !.pc = "release", !.outcome = IF t = o THEN "done" ELSE "error"]
    OBVIOUS
  <2>4. slot.pc = "release" /\ slot.own = Own(w) BY <1>0, <2>3 DEF Slots, Own
  <2>5. Become(w, slot) BY <1>2, <2>3 DEF ClaimRaced
  <2>6. \A u \in Turns \ b : status'[u] = status[u] \/ (u = r /\ r \in stale /\ status'[u] = "interrupted")
    BY <1>0, <1>2, <2>2 DEF ClaimRaced, ClaimWithout
  <2>7. stale' \subseteq stale /\ \A u \in stale' : u \notin b
    BY <1>2, <1>a, <2>2 DEF ClaimRaced, ClaimWithout, Active
  <2>8. \A u \in stale' : status'[u] = status[u]
    <3>1. t \notin stale BY <1>a, <2>2 DEF Active
    <3>. QED BY <1>2, <2>7, <3>1 DEF ClaimRaced, ClaimWithout
  <2>9. \A u \in Turns : sub[u] = "done" => sub'[u] = "done"
    BY <1>2 DEF ClaimRaced, GoSub, ApiTypeOK
  <2>10. Own(w) \notin b
    BY <1>0, <2>2 DEF RunInv, OwnersOK, Agents
  <2>11. /\ slot.pc # "claim" /\ slot.pc \notin {"precheck", "run"}
         /\ slot.own \in {Own(w)} \cup b /\ slot.own \notin b
    BY <2>4, <2>10
  <2>12. TypeOK OBVIOUS
  <2>. HIDE DEF TypeOK
  <2>. QED BY <1>0, <2>2, <2>5, <2>6, <2>7, <2>8, <2>9, <2>11, <2>12, ClaimKeepsRun
<1>3. ASSUME NEW r \in Turns \cup {NoTurn}, ClaimNoop(w, r) PROVE RunInv'
  <2>1. Recoverable(r) BY <1>3 DEF ClaimNoop, ClaimNothing
  <2>2. r = NoTurn \/ (status[r] \in Active /\ r \in stale)
    BY <2>1 DEF Recoverable, Earliest, ActiveAgents
  <2>3. PICK slot : slot = [wk[w] EXCEPT !.pc = "release"] OBVIOUS
  <2>4. slot.pc = "release" /\ slot.own = Own(w) BY <1>0, <2>3 DEF Slots, Own
  <2>5. Become(w, slot) BY <1>3, <2>3 DEF ClaimNoop, Go
  <2>6. \A u \in Turns : status'[u] = status[u] \/ (u = r /\ r \in stale /\ status'[u] = "interrupted")
    BY <1>0, <1>3, <2>2 DEF ClaimNoop, ClaimNothing
  <2>7. stale' \subseteq stale /\ \A u \in stale' : status'[u] = status[u]
    BY <1>3 DEF ClaimNoop, ClaimNothing
  <2>8. UNCHANGED sub BY <1>3 DEF ClaimNoop, apiVars
  <2>9. PICK b : b = {} OBVIOUS
  <2>10. /\ slot.pc # "claim" /\ slot.pc \notin {"precheck", "run"}
         /\ slot.own \in {Own(w)} \cup b /\ slot.own \notin b
    BY <2>4, <2>9
  <2>11. \A u \in b : u \in Agents /\ status[u] = "queued" BY <2>9
  <2>12. TypeOK OBVIOUS
  <2>. HIDE DEF TypeOK
  <2>. QED BY <1>0, <2>5, <2>6, <2>7, <2>8, <2>10, <2>11, <2>12, ClaimKeepsRun
<1>. QED BY <1>1, <1>2, <1>3, ClaimStepCases, WorkKeepsRun

(* An open turn that becomes stale disturbs no worker that keeps its lease. *)
LEMMA StaleKeepsRun ==
  ASSUME TypeInv, RunInv, NEW t \in Turns, TurnGrowsStale(t)
  PROVE  RunInv'
<1>1. StaleActive' BY DEF RunInv, StaleActive, TurnGrowsStale, GrowStale, ActiveAgents
<1>2. OwnersOK' BY DEF RunInv, OwnersOK, InRun, At, Own, TurnGrowsStale, GrowStale
<1>3. QuietClaim' BY DEF QuietClaim, At, TurnGrowsStale
<1>4. \A w \in Workers : Undisturbed(w)' => Kept(Own(w))'
  BY DEF RunInv, Undisturbed, InRun, Kept, At, Own, TurnGrowsStale, GrowStale, apiVars
<1>. QED BY <1>1, <1>2, <1>3, <1>4 DEF RunInv

(* While a worker holds its lease, no second claim, stale recovery, stop or *)
(* steer takes the turn it runs out of execution: only the failure path of  *)
(* the turn's own submission, whose enqueue failed after the fact, may.     *)
THEOREM RunIsNotTakenAway == Spec => []RunKeepsItsTurn
<1>1. Init => RunInv
  BY DEF Init, TableInit, RunInv, StaleActive, OwnersOK, QuietClaim, Undisturbed, InRun, At, Own, IdleWorker
<1>2. TypeInv /\ HealthyHolds /\ RunInv /\ [Next]_vars => RunInv'
  <2>. SUFFICES ASSUME TypeInv, HealthyHolds, RunInv, [Next]_vars PROVE RunInv' OBVIOUS
  <2>0. TypeOK BY DEF TypeInv
  <2>1. CASE UNCHANGED vars BY <2>1, StillKeepsRun DEF vars, apiVars
  <2>2. CASE UserStep BY <2>2, CallsKeepRun DEF UserStep
  <2>3. CASE FaultStep
    <3>1. CASE LeakEnds BY <3>1, StillKeepsRun DEF LeakEnds, apiVars
    <3>. QED BY <2>0, <2>3, <3>1, CallsKeepRun, WorkKeepsRun DEF FaultStep
  <2>4. ASSUME NEW t \in Turns, SubmitStep(t) \/ PromoteStep(t) \/ TurnGrowsStale(t) PROVE RunInv'
    BY <2>4, CallsKeepRun, StaleKeepsRun
  <2>5. CASE PublishStop BY <2>5, StillKeepsRun DEF PublishStop
  <2>6. CASE TakeStep BY <2>0, <2>6, WorkKeepsRun DEF TakeStep
  <2>7. ASSUME NEW w \in Workers, WorkerStep(w) \/ DeliverAbort(w) PROVE RunInv'
    BY <2>0, <2>7, WorkKeepsRun, ClaimsKeepRun DEF WorkerStep
  <2>8. CASE LockExpires \/ WakeupForgotten
    BY <2>8, StillKeepsRun DEF LockExpires, WakeupForgotten, apiVars
  <2>. QED BY <2>1, <2>2, <2>3, <2>4, <2>5, <2>6, <2>7, <2>8 DEF Next
<1>3. RunInv => RunKeepsItsTurn
  BY DEF RunInv, RunKeepsItsTurn, Undisturbed, InRun, Kept
<1>. QED BY <1>1, <1>2, <1>3, LocksHold, PTL DEF Spec

=============================================================================
