------------------------------ MODULE TurnTable ------------------------------
(***************************************************************************)
(* The rows of v2.session_turns of one session, and the guarded UPDATEs    *)
(* and transactions that change them.  Every operator below is one SQL     *)
(* statement or one transaction, so it is one atomic step; who runs it,    *)
(* and when, is the business of SessionTurns.                              *)
(***************************************************************************)
EXTENDS Naturals, FiniteSets

CONSTANTS
  Turns,         \* identities of the turns the session may ever hold
  Generations,   \* those whose execution_kind is direct_generation
  NoTurn,        \* "no turn"
  ApprovalMode,  \* approvalMode of each turn's meta, a function on Turns
  BatchLimit     \* the most messages of one merged execution

ASSUME TableAssumption ==
  /\ Generations \subseteq Turns
  /\ NoTurn \notin Turns
  /\ BatchLimit \in Nat \ {0}

VARIABLES
  status,      \* status column; "absent" before the row is inserted
  intent,      \* intent column
  seq,         \* sequence column, 0 before the row is inserted
  lastSeq,     \* max(sequence) of the session: sequences never decrease
  mergedInto,  \* meta.mergedIntoTurnId
  stale        \* turns whose updated_at is older than STALE_ACTIVE_TURN_MS

turnVars == <<status, intent, seq, lastSeq, mergedInto, stale>>

Active   == {"running", "abort_requested"}
Settled  == {"completed", "failed", "interrupted", "merged", "cancelled"}
Statuses == {"absent", "queued"} \cup Active \cup Settled
Intents  == {"followup", "steer"}
Agents   == Turns \ Generations

TableTypeOK ==
  /\ status \in [Turns -> Statuses]
  /\ intent \in [Turns -> Intents]
  /\ seq \in [Turns -> Nat]
  /\ lastSeq \in Nat
  /\ mergedInto \in [Turns -> Turns \cup {NoTurn}]
  /\ stale \subseteq Turns

TableInit ==
  /\ status = [t \in Turns |-> "absent"]
  /\ intent = [t \in Turns |-> "followup"]
  /\ seq = [t \in Turns |-> 0]
  /\ lastSeq = 0
  /\ mergedInto = [t \in Turns |-> NoTurn]
  /\ stale = {}

ActiveAgents == {t \in Agents : status[t] \in Active}

(* The newest active agent turn, as the API reads it. *)
NewestActive(a) ==
  \/ a = NoTurn /\ ActiveAgents = {}
  \/ a \in ActiveAgents /\ \A u \in ActiveAgents : seq[u] <= seq[a]

(* An UPDATE ... WHERE id = t AND status IN from: a no-op when no row matches. *)
UpdateStatus(t, from, to) ==
  IF status[t] \in from
    THEN /\ status' = [status EXCEPT ![t] = to]
         /\ stale' = stale \ {t}
         /\ UNCHANGED <<intent, seq, lastSeq, mergedInto>>
    ELSE UNCHANGED turnVars

InsertTurn(t, i) ==
  /\ status[t] = "absent"
  /\ status' = [status EXCEPT ![t] = "queued"]
  /\ intent' = [intent EXCEPT ![t] = i]
  /\ seq' = [seq EXCEPT ![t] = lastSeq + 1]
  /\ lastSeq' = lastSeq + 1
  /\ UNCHANGED <<mergedInto, stale>>

RequestAbort(t) == UpdateStatus(t, Active, "abort_requested")

FailTurn(t) == UpdateStatus(t, {"queued"} \cup Active \cup {"interrupted"}, "failed")

FailSubmittedTurn(t) == UpdateStatus(t, {"queued"} \cup Active, "failed")

FinalizeTurn(t, to) == UpdateStatus(t, Active \cup {"interrupted"}, to)

(* Mutant of InterruptTurn: a stopped turn goes back to the queue. *)
RequeueStoppedTurn(t) == UpdateStatus(t, Active \cup {"interrupted"}, "queued")

(* The row is read before it is written, and the UPDATE asks for a status   *)
(* of the kind that was read: when the status changed since, it finds no    *)
(* row, where this step writes at most the status the row already has.      *)
InterruptTurn(t) == UpdateStatus(t, Active \cup {"interrupted"}, "interrupted")

(* promoteQueuedTurnToSteer's transaction; the session row is locked, so    *)
(* the active turn read here is the one that is marked.                     *)
PromoteTurn(t, active) ==
  /\ t \in Agents
  /\ status[t] = "queued"
  /\ intent[t] = "followup"
  /\ NewestActive(active)
  /\ seq' = [seq EXCEPT ![t] = lastSeq + 1]
  /\ lastSeq' = lastSeq + 1
  /\ intent' = [intent EXCEPT ![t] = "steer"]
  /\ status' = [u \in Turns |-> IF u = active THEN "abort_requested" ELSE status[u]]
  /\ stale' = stale \ {active}
  /\ UNCHANGED mergedInto

CancelTurn(t) ==
  /\ status[t] = "queued"
  /\ intent[t] = "followup"
  /\ seq' = [seq EXCEPT ![t] = lastSeq + 1]
  /\ lastSeq' = lastSeq + 1
  /\ status' = [status EXCEPT ![t] = "cancelled"]
  /\ UNCHANGED <<intent, mergedInto, stale>>

-----------------------------------------------------------------------------
(* claimNextTurnBatch: one transaction under the session row lock.          *)

Earliest(t, S) == t \in S /\ \A u \in S : seq[t] <= seq[u]

(* A fresh active turn makes the claim busy; a stale one is recovered first. *)
Busy == \E t \in ActiveAgents : Earliest(t, ActiveAgents) /\ t \notin stale

(* Mutant of Recoverable: an active turn is taken over however fresh it is. *)
RecoverableAny(r) ==
  \/ r = NoTurn /\ ActiveAgents = {}
  \/ Earliest(r, ActiveAgents)

Recoverable(r) ==
  \/ r = NoTurn /\ ActiveAgents = {}
  \/ Earliest(r, ActiveAgents) /\ r \in stale

(* Mutant of BeforeGeneration: only a generation that runs blocks. *)
BeforeRunningGeneration(t) ==
  \A g \in Generations : status[g] \in Active => seq[t] < seq[g]

(* Nothing is claimed past an unfinished direct generation. *)
BeforeGeneration(t) ==
  \A g \in Generations : status[g] \in {"queued"} \cup Active => seq[t] < seq[g]

Claimable(i) ==
  {t \in Agents : status[t] = "queued" /\ intent[t] = i /\ BeforeGeneration(t)}

(* Mutant of UpTo: the batch is taken from the end of the queue. *)
From(owner, S) == {t \in S : seq[t] >= seq[owner]}

UpTo(owner, S) == {t \in S : seq[t] <= seq[owner]}

(* createExecutionBatch: the last turn owns the batch, the others merge     *)
(* into it.  Steers go one by one, by updated_at in the code: the statement *)
(* that made a turn a queued steer wrote it together with its sequence.     *)
(* "together" takes the follow-ups up to a change of approval mode or to    *)
(* the message budget; the byte budget may end the batch at any earlier     *)
(* turn.                                                                    *)
NextBatch(owner, batch, delivery) ==
  \/ /\ Earliest(owner, Claimable("steer"))
     /\ batch = {owner}
  \/ /\ Claimable("steer") = {}
     /\ owner \in Claimable("followup")
     /\ batch = UpTo(owner, Claimable("followup"))
     /\ IF delivery = "one_by_one"
          THEN batch = {owner}
          ELSE /\ \A t \in batch : ApprovalMode[t] = ApprovalMode[owner]
               /\ Cardinality(batch) <= BatchLimit

(* Mutant of ClaimBatch: the stale turn is left active. *)
ClaimBesides(owner, batch, delivery, r) ==
  /\ Recoverable(r)
  /\ NextBatch(owner, batch, delivery)
  /\ status' = [t \in Turns |-> CASE t = owner -> "running"
                                 [] t \in batch \ {owner} -> "merged"
                                 [] OTHER -> status[t]]
  /\ mergedInto' = [t \in Turns |-> IF t \in batch \ {owner} THEN owner ELSE mergedInto[t]]
  /\ stale' = stale \ {r}
  /\ UNCHANGED <<intent, seq, lastSeq>>

(* Mutant of ClaimBatch: the pointer to the owner is not written. *)
ClaimWithoutPointer(owner, batch, delivery, r) ==
  /\ Recoverable(r)
  /\ NextBatch(owner, batch, delivery)
  /\ status' = [t \in Turns |-> CASE t = owner -> "running"
                                 [] t \in batch \ {owner} -> "merged"
                                 [] t = r -> "interrupted"
                                 [] OTHER -> status[t]]
  /\ stale' = stale \ {r}
  /\ UNCHANGED <<intent, seq, lastSeq, mergedInto>>

ClaimBatch(owner, batch, delivery, r) ==
  /\ Recoverable(r)
  /\ NextBatch(owner, batch, delivery)
  /\ status' = [t \in Turns |-> CASE t = owner -> "running"
                                 [] t \in batch \ {owner} -> "merged"
                                 [] t = r -> "interrupted"
                                 [] OTHER -> status[t]]
  /\ mergedInto' = [t \in Turns |-> IF t \in batch \ {owner} THEN owner ELSE mergedInto[t]]
  /\ stale' = stale \ {r}
  /\ UNCHANGED <<intent, seq, lastSeq>>

(* Turn t of the batch is failed while the claim runs.  The owner's UPDATE   *)
(* then finds no row and the rest of the transaction commits; a merged      *)
(* turn's UPDATE throws and rolls it back.                                  *)
ClaimWithout(t, owner, batch, delivery, r) ==
  /\ Recoverable(r)
  /\ NextBatch(owner, batch, delivery)
  /\ t \in batch
  /\ LET recovered == IF t = owner THEN {r} ELSE {}
     IN /\ status' = [u \in Turns |-> CASE u = t -> "failed"
                                        [] u \in recovered -> "interrupted"
                                        [] OTHER -> status[u]]
        /\ stale' = stale \ recovered
  /\ UNCHANGED <<intent, seq, lastSeq, mergedInto>>

(* The transaction commits the recovery even when there is nothing to claim. *)
ClaimNothing(r) ==
  /\ Recoverable(r)
  /\ Claimable("steer") \cup Claimable("followup") = {}
  /\ status' = [t \in Turns |-> IF t = r THEN "interrupted" ELSE status[t]]
  /\ stale' = stale \ {r}
  /\ UNCHANGED <<intent, seq, lastSeq, mergedInto>>

-----------------------------------------------------------------------------
(* Half an hour passes without an update of an active row. *)
GrowStale(t) ==
  /\ t \in ActiveAgents
  /\ stale' = stale \cup {t}
  /\ UNCHANGED <<status, intent, seq, lastSeq, mergedInto>>

=============================================================================
