----------------------------- MODULE WalletTransfer --------------------------
(***************************************************************************)
(* createSpaceWalletTransfers: start() in the API and the recovery job of   *)
(* the worker move a user's purchased balance into a Space wallet.  Nothing *)
(* is stored locally: the ledger entries of the billing service, keyed by   *)
(* operation ids, are the state of a transfer.  A Redis lock of the user    *)
(* with a TTL keeps the actors apart, and each of them looks at it again    *)
(* before it moves money.                                                   *)
(***************************************************************************)
EXTENDS Integers, FiniteSetsExt, SequencesExt

CONSTANTS
  Calls,           \* calls of start()
  Transfers,       \* request ids
  TransferOf,      \* the request id of a call
  Amount,          \* the amount of a transfer
  Purchased,       \* what the user bought
  Free,            \* free credits, which the billing service spends first
  Denominations,   \* sets of credit benefits an administrator may publish
  MaxPieces,       \* MAX_PIECES
  CreditAttempts,  \* SPACE_WALLET_TRANSFER_CREDIT_ATTEMPTS
  Attempts,        \* SPACE_WALLET_TRANSFER_RECOVER_ATTEMPTS
  NoTransfer,      \* operations of nobody
  LateCalls,       \* an abandoned billing call may still be executed later
  Budgets          \* how many faults, crashes, publications and expenses a run may see

Actors == {"start", "job"} \X Calls
NoActor == <<"none", NoTransfer>>
Id(a) == TransferOf[a[2]]
Job(c) == <<"job", c>>

ASSUME TransferAssumption ==
  /\ TransferOf \in [Calls -> Transfers] /\ IsFiniteSet(Transfers)
  /\ Amount \in [Transfers -> Nat \ {0}]
  /\ Purchased \in Nat /\ Free \in Nat
  /\ Denominations \subseteq SUBSET (Nat \ {0})
  /\ MaxPieces \in Nat \ {0} /\ CreditAttempts \in Nat /\ Attempts \in Nat \ {0}
  /\ LateCalls \in BOOLEAN
  /\ Budgets \subseteq [{"fault", "crash", "change", "spend"} -> Nat]

VARIABLES
  debit,    \* what recordUsage consumed for a transfer
  covered,  \* the part of it that credits covered
  credit,   \* the amount granted under each operation index, 0 for none
  back,     \* what reverseUsage returned
  balance,  \* the user's net credits, below zero after an overage
  denoms,   \* the published denominations
  lock,     \* the user's lock in Redis
  pc,       \* where an actor stands
  ok,       \* how its run ends: ok, none, error, busy
  todo,     \* the billing operations it is about to issue
  tries,    \* job.attemptsMade
  late,     \* abandoned billing calls that may still be executed
  left      \* what is left of the budget

money == <<debit, covered, credit, back, balance>>
locals == <<ok, todo>>
vars == <<money, denoms, lock, pc, locals, tries, late, left>>

Pieces == 0..(MaxPieces - 1)

Spend(kind) ==
  /\ left[kind] > 0
  /\ left' = [left EXCEPT ![kind] = left[kind] - 1]

(* What the first n pieces of a transfer granted. *)
FirstPieces(t, n) ==
  LET sum[k \in 0..n] == IF k = 0 THEN 0 ELSE sum[k - 1] + credit[t][k - 1] IN sum[n]

Credited(t) == FirstPieces(t, MaxPieces)
Moved == MapThenSumSet(LAMBDA t : debit[t] - back[t], Transfers)

(* landed() reads piece by piece up to the first missing one.  Pieces never *)
(* disappear: it is the prefix at the moment of its last read.              *)
LandedCount(t) == CHOOSE n \in 0..MaxPieces :
  /\ \A i \in 0..(n - 1) : credit[t][i] > 0
  /\ n = MaxPieces \/ credit[t][n] = 0
LandedUsd(t) == FirstPieces(t, LandedCount(t))

(* planSpaceWalletTransfer takes the largest denomination as long as it     *)
(* fits; what is left when none fits makes the plan void.                   *)
Fit(n) == {d \in denoms : d <= n}

Plan(amount) ==
  LET cut[n \in 0..amount] ==
        IF Fit(n) = {}
          THEN [pieces |-> <<>>, rest |-> n]
          ELSE [cut[n - Max(Fit(n))] EXCEPT !.pieces = <<Max(Fit(n))>> \o @]
  IN  cut[amount]

Planned(amount, from) ==
  /\ Plan(amount).pieces # <<>>
  /\ Plan(amount).rest = 0
  /\ from + Len(Plan(amount).pieces) <= MaxPieces

(* allowance(): free credits are spent first, so the purchased part of the  *)
(* balance is what remains of it.                                           *)
Allowance == Min({balance, Purchased, Purchased - Moved})

(* The guard before each kind of billing call, and the call. *)
Guarded == [guardDebit |-> "debit", guardGrant |-> "grant", guardReverse |-> "reverse"]
InCall(a) == pc[a] \in {"debit", "grant", "reverse"}
Calling == DOMAIN Guarded \cup {"debit", "grant", "reverse"}

TransferTypeOK ==
  /\ debit \in [Transfers -> Nat] /\ covered \in [Transfers -> Nat] /\ back \in [Transfers -> Nat]
  /\ credit \in [Transfers -> [Pieces -> Nat]]
  /\ balance \in Int /\ denoms \in Denominations
  /\ lock \in Actors \cup {NoActor}
  /\ \A a \in Actors : /\ ok[a] \in {"ok", "none", "error", "busy"}
                       /\ todo[a] = <<>> <=> pc[a] \notin Calling
                       /\ \A n \in DOMAIN todo[a] : todo[a][n].i \in Pieces /\ todo[a][n].amount > 0
  /\ tries \in [Calls -> 0..Attempts]

Init ==
  /\ debit = [t \in Transfers |-> 0] /\ covered = debit /\ back = debit
  /\ credit = [t \in Transfers |-> [i \in Pieces |-> 0]]
  /\ balance = Purchased + Free
  /\ denoms \in Denominations
  /\ lock = NoActor
  /\ pc = [a \in Actors |-> IF a[1] = "job" THEN "none" ELSE "idle"]
  /\ ok = [a \in Actors |-> "ok"]
  /\ todo = [a \in Actors |-> <<>>]
  /\ tries = [c \in Calls |-> 0]
  /\ late = {}
  /\ left \in Budgets

-----------------------------------------------------------------------------
(* The billing service: an operation id takes effect once. *)

Operation(kind, t, i, amount) == [kind |-> kind, t |-> t, i |-> i, amount |-> amount]

Consume(t, amount) ==
  /\ debit' = [debit EXCEPT ![t] = amount]
  /\ covered' = [covered EXCEPT ![t] = Min({amount, Max({balance, 0})})]
  /\ balance' = balance - amount
  /\ UNCHANGED <<credit, back>>

Grant(t, i, amount) ==
  /\ credit' = [credit EXCEPT ![t][i] = amount]
  /\ UNCHANGED <<debit, covered, back, balance>>

ReturnDebit(t, amount) ==
  /\ back' = [back EXCEPT ![t] = amount]
  /\ balance' = balance + amount
  /\ UNCHANGED <<debit, covered, credit>>

Known(op) == CASE op.kind = "debit" -> debit[op.t] > 0
               [] op.kind = "grant" -> credit[op.t][op.i] > 0
               [] OTHER -> back[op.t] > 0

Execute(op) ==
  \/ Known(op) /\ UNCHANGED money
  \/ ~Known(op) /\ op.kind = "debit" /\ Consume(op.t, op.amount)
  \/ ~Known(op) /\ op.kind = "grant" /\ Grant(op.t, op.i, op.amount)
  \/ ~Known(op) /\ op.kind = "reverse" /\ ReturnDebit(op.t, op.amount)

-----------------------------------------------------------------------------
(* Steps of an actor *)

Go(a, from, to) ==
  /\ pc[a] = from
  /\ pc' = [pc EXCEPT ![a] = to]

(* Through Go alone an actor keeps its locals. *)
Move(a, from, to) == Go(a, from, to) /\ UNCHANGED locals

Prepare(a, from, to, ops) ==
  /\ Go(a, from, to)
  /\ todo' = [todo EXCEPT ![a] = ops]
  /\ UNCHANGED ok

End(a, from, result) ==
  /\ Go(a, from, "release")
  /\ ok' = [ok EXCEPT ![a] = result]
  /\ todo' = [todo EXCEPT ![a] = <<>>]

CreditMode(a) == a[1] = "start" \/ tries[a[2]] < CreditAttempts

(* SET key token PX ttl NX.  A call of start() that finds the lock taken    *)
(* throws and changes nothing.                                              *)
Acquire(a) ==
  /\ lock = NoActor
  /\ Move(a, "idle", "existing") \/ Move(a, "waiting", "consumption")
  /\ lock' = a
  /\ UNCHANGED <<money, denoms, tries, late, left>>

(* The recovery found the lock taken six times in a row. *)
StayBusy(c) ==
  /\ lock # NoActor
  /\ Go(Job(c), "waiting", IF tries[c] + 1 >= Attempts THEN "failed" ELSE "waiting")
  /\ tries' = [tries EXCEPT ![c] = tries[c] + 1]
  /\ Spend("fault")
  /\ UNCHANGED <<money, denoms, lock, locals, late>>

FindDebit(a) ==
  /\ \/ debit[Id(a)] = 0 /\ Move(a, "existing", "allowance")
     \/ debit[Id(a)] > 0 /\ back[Id(a)] = 0 /\ Move(a, "existing", "resume")
     \/ back[Id(a)] > 0 /\ End(a, "existing", "ok")
  /\ UNCHANGED <<money, denoms, lock, tries, late, left>>

(* A wallet that takes no transfer is the same refusal as a void plan. *)
CheckAllowance(a) ==
  /\ pc[a] = "allowance"
  /\ \/ /\ Planned(Amount[Id(a)], 0)
        /\ Amount[Id(a)] <= Allowance
        /\ Move(a, "allowance", "schedule")
     \/ End(a, "allowance", "error")
  /\ UNCHANGED <<money, denoms, lock, tries, late, left>>

(* Mutant of ScheduleRecovery: a new transfer is debited first. *)
ScheduleResumed(a) ==
  /\ \/ /\ pc[a] = "resume"
        /\ pc' = [pc EXCEPT ![a] = "consumption", ![Job(a[2])] = "waiting"]
        /\ UNCHANGED locals
     \/ Prepare(a, "schedule", "guardDebit", <<Operation("debit", Id(a), 0, Amount[Id(a)])>>)
  /\ UNCHANGED <<money, denoms, lock, tries, late, left>>

(* scheduleRecovery, in front of the debit or of a resumed transfer. *)
ScheduleRecovery(a) ==
  /\ \/ /\ pc[a] = "resume"
        /\ pc' = [pc EXCEPT ![a] = "consumption", ![Job(a[2])] = "waiting"]
        /\ UNCHANGED locals
     \/ /\ pc[a] = "schedule"
        /\ pc' = [pc EXCEPT ![a] = "guardDebit", ![Job(a[2])] = "waiting"]
        /\ todo' = [todo EXCEPT ![a] = <<Operation("debit", Id(a), 0, Amount[Id(a)])>>]
        /\ UNCHANGED ok
  /\ UNCHANGED <<money, denoms, lock, tries, late, left>>

ScheduleThrows(a) ==
  /\ End(a, "schedule", "error") \/ End(a, "resume", "error")
  /\ Spend("fault")
  /\ UNCHANGED <<money, denoms, lock, tries, late>>

(* Mutant of Guard: the lock is not read. *)
GuardNothing(a) ==
  /\ \E from \in DOMAIN Guarded : Move(a, from, Guarded[from])
  /\ UNCHANGED <<money, denoms, lock, tries, late, left>>

(* guard(): the lock is read again just before money moves.  Who lost it    *)
(* throws transfer_busy; recover() goes for the lock again in the same      *)
(* attempt, until its rounds are used up.                                   *)
Guard(a) ==
  /\ \E from \in DOMAIN Guarded :
       \/ lock = a /\ Move(a, from, Guarded[from]) /\ UNCHANGED left
       \/ lock # a /\ End(a, from, "error") /\ UNCHANGED left
       \/ lock # a /\ a[1] = "job" /\ End(a, from, "busy") /\ Spend("fault")
  /\ UNCHANGED <<money, denoms, lock, tries, late>>

(* Mutant of ReadConsumption: the coverage of the debit is not looked at. *)
ReadAnyConsumption(a) ==
  /\ pc[a] = "consumption"
  /\ LET t == Id(a) IN
       \/ debit[t] = 0 /\ End(a, "consumption", "none")
       \/ back[t] > 0 /\ End(a, "consumption", "ok")
       \/ /\ debit[t] > 0 /\ back[t] = 0
          /\ Move(a, "consumption", IF CreditMode(a) THEN "landed" ELSE "remainder")
  /\ UNCHANGED <<money, denoms, lock, tries, late, left>>

(* settle(): what to do with the debit. *)
ReadConsumption(a) ==
  /\ pc[a] = "consumption"
  /\ LET t == Id(a) IN
       \/ debit[t] = 0 /\ End(a, "consumption", "none")
       \/ back[t] > 0 /\ End(a, "consumption", "ok")
       \/ /\ debit[t] > 0 /\ back[t] = 0
          /\ Move(a, "consumption",
                  IF CreditMode(a) /\ covered[t] >= debit[t] THEN "landed" ELSE "remainder")
  /\ UNCHANGED <<money, denoms, lock, tries, late, left>>

PlanPieces(a) ==
  /\ pc[a] = "landed"
  /\ LET t == Id(a)
         n == LandedCount(t)
         remaining == debit[t] - LandedUsd(t)
         pieces == Plan(remaining).pieces
         ops == [k \in DOMAIN pieces |-> Operation("grant", t, n + k - 1, pieces[k])]
     IN  \/ remaining <= 0 /\ End(a, "landed", "ok")
         \/ remaining > 0 /\ Planned(remaining, n) /\ Prepare(a, "landed", "guardGrant", ops)
         \/ remaining > 0 /\ ~Planned(remaining, n) /\ Move(a, "landed", "remainder")
  /\ UNCHANGED <<money, denoms, lock, tries, late, left>>

(* Mutant of ReadRemainder: the whole debit is returned. *)
ReadWholeDebit(a) ==
  /\ pc[a] = "remainder"
  /\ Prepare(a, "remainder", "guardReverse", <<Operation("reverse", Id(a), 0, debit[Id(a)])>>)
  /\ UNCHANGED <<money, denoms, lock, tries, late, left>>

(* refund(): only what no piece covers. *)
ReadRemainder(a) ==
  /\ pc[a] = "remainder"
  /\ LET rest == debit[Id(a)] - LandedUsd(Id(a)) IN
       \/ rest > 0 /\ Prepare(a, "remainder", "guardReverse", <<Operation("reverse", Id(a), 0, rest)>>)
       \/ rest <= 0 /\ End(a, "remainder", "ok")
  /\ UNCHANGED <<money, denoms, lock, tries, late, left>>

(* The billing call an actor is in is answered: it was executed. *)
Answered(a) ==
  /\ \/ Prepare(a, "debit", "consumption", <<>>)
     \/ Len(todo[a]) > 1 /\ Prepare(a, "grant", "guardGrant", Tail(todo[a]))
     \/ Len(todo[a]) = 1 /\ End(a, "grant", "ok")
     \/ End(a, "reverse", "ok")
  /\ Execute(Head(todo[a]))
  /\ UNCHANGED <<denoms, lock, tries, late, left>>

(* isPermanent: the service refuses the call.  A refused piece turns the    *)
(* transfer back.                                                           *)
Refused(a) ==
  /\ \/ End(a, "debit", "error")
     \/ Prepare(a, "grant", "remainder", <<>>)
     \/ End(a, "reverse", "error")
  /\ Spend("fault")
  /\ UNCHANGED <<money, denoms, lock, tries, late>>

(* No answer: the call was executed, was not, or will be.  start() leaves   *)
(* the transfer to the recovery, which tries again.                         *)
Unanswered(a) ==
  /\ InCall(a)
  /\ End(a, pc[a], "error")
  /\ \/ Execute(Head(todo[a])) /\ UNCHANGED late
     \/ UNCHANGED <<money, late>>
     \/ LateCalls /\ late' = late \cup {Head(todo[a])} /\ UNCHANGED money
  /\ Spend("fault")
  /\ UNCHANGED <<denoms, lock, tries>>

(* A read of the billing service throws. *)
ReadThrows(a) ==
  /\ \E from \in {"existing", "allowance", "consumption", "landed", "remainder"} : End(a, from, "error")
  /\ Spend("fault")
  /\ UNCHANGED <<money, denoms, lock, tries, late>>

(* Mutant of NextTry: a deferred credit counts as the end of the job. *)
NextTryMissing(c) ==
  IF ok[Job(c)] = "none" /\ tries[c] < 2
    THEN IF tries[c] + 1 >= Attempts THEN "failed" ELSE "waiting"
    ELSE "done"

(* Where a job goes: to the lock again within an attempt, or to the next    *)
(* attempt.  A missing debit is looked for by two more attempts.           *)
NextTry(c) ==
  CASE ok[Job(c)] = "busy" -> "waiting"
    [] ok[Job(c)] = "error" \/ (ok[Job(c)] = "none" /\ tries[c] < 2) ->
         IF tries[c] + 1 >= Attempts THEN "failed" ELSE "waiting"
    [] OTHER -> "done"

(* The lock is released by its token, or its release fails silently. *)
Release(a) ==
  /\ Go(a, "release", IF a[1] = "start" THEN "end" ELSE NextTry(a[2]))
  /\ ok' = [ok EXCEPT ![a] = "ok"]
  /\ tries' = IF pc'[a] \in {"waiting", "failed"} /\ ok[a] # "busy"
                THEN [tries EXCEPT ![a[2]] = tries[a[2]] + 1] ELSE tries
  /\ \/ lock' = (IF lock = a THEN NoActor ELSE lock) /\ UNCHANGED left
     \/ lock = a /\ UNCHANGED lock /\ Spend("fault")
  /\ UNCHANGED <<money, denoms, todo, late>>

-----------------------------------------------------------------------------
(* The environment *)

Resting == {"none", "idle", "waiting", "end", "done", "failed"}

(* A process dies.  BullMQ delivers the job of a dead worker again. *)
Crash(a) ==
  /\ pc[a] \notin Resting
  /\ pc' = [pc EXCEPT ![a] = IF a[1] = "start" THEN "end" ELSE "waiting"]
  /\ ok' = [ok EXCEPT ![a] = "ok"]
  /\ todo' = [todo EXCEPT ![a] = <<>>]
  /\ Spend("crash")
  /\ UNCHANGED <<money, denoms, lock, tries, late>>

(* The TTL ends.  Unless calls may be late, a single billing call is taken  *)
(* to end within what its guard found left of the TTL.                      *)
Expire ==
  /\ lock # NoActor
  /\ LateCalls \/ ~InCall(lock)
  /\ lock' = NoActor
  /\ UNCHANGED <<money, denoms, pc, locals, tries, late, left>>

LateEffect ==
  /\ \E op \in late : Execute(op) /\ late' = late \ {op}
  /\ UNCHANGED <<denoms, lock, pc, locals, tries, left>>

Publish ==
  /\ denoms' \in Denominations \ {denoms}
  /\ Spend("change")
  /\ UNCHANGED <<money, lock, pc, locals, tries, late>>

(* The user's agents consume credits meanwhile. *)
UseCredits ==
  /\ balance' = balance - 1
  /\ Spend("spend")
  /\ UNCHANGED <<debit, covered, credit, back, denoms, lock, pc, locals, tries, late>>

ActorStep(a) ==
  \/ FindDebit(a) \/ CheckAllowance(a) \/ ScheduleRecovery(a) \/ Guard(a) \/ ReadConsumption(a)
  \/ PlanPieces(a) \/ ReadRemainder(a) \/ Answered(a) \/ Release(a)

Failure(a) == Refused(a) \/ Unanswered(a) \/ ReadThrows(a) \/ ScheduleThrows(a) \/ Crash(a)

Next ==
  \/ \E a \in Actors : Acquire(a) \/ ActorStep(a) \/ Failure(a)
  \/ \E c \in Calls : StayBusy(c)
  \/ Expire \/ LateEffect \/ Publish \/ UseCredits

Spec == Init /\ [][Next]_vars

(* Processes go on, queued jobs are delivered, and a TTL ends. *)
Fairness ==
  /\ \A a \in Actors : WF_vars(ActorStep(a))
  /\ \A c \in Calls : SF_vars(Acquire(Job(c)))
  /\ WF_vars(Expire)

FairSpec == Spec /\ Fairness

-----------------------------------------------------------------------------
(* Properties *)

Ledger == INSTANCE TransferLedger WITH
  taken <- debit, paid <- [t \in Transfers |-> Credited(t)], back <- back

(* settle, refund and their guards: credits and refund never exceed the     *)
(* debit, and after a refund nothing is credited.                           *)
ImplementsLedger == Ledger!LedgerSpec

(* "Once a reversal exists nothing credits that transfer again."            *)
ReversalIsFinal == [][\A t \in Transfers : back[t] > 0 => credit'[t] = credit[t]]_vars

(* The recovery is queued before the debit: money that was taken and not    *)
(* passed on is in the hands of an actor or of a job that will run, or the  *)
(* job has reported the transfer as unrecovered.                            *)
NothingStranded == \A t \in Transfers :
  debit[t] > Credited(t) + back[t] =>
    \E a \in Actors : Id(a) = t /\ a[1] = "job" /\ pc[a] \notin {"none", "done"}

(* A debit that credits did not cover never funds a wallet. *)
OverageNeverFunds == \A t \in Transfers : Credited(t) > 0 => covered[t] = debit[t]

(* The allowance under the user's lock: what a user's transfers moved never *)
(* exceeds what the user bought, so free credits do not leak into wallets.  *)
OnlyPurchasedMoves == Moved <= Purchased

(* Every transfer whose debit was taken ends with the money in one of the   *)
(* two places, unless its jobs used up their attempts.                      *)
TransferEnds == \A t \in Transfers :
  debit[t] > 0 ~> \/ debit[t] = Credited(t) + back[t]
                  \/ \E c \in Calls : TransferOf[c] = t /\ pc[Job(c)] = "failed"

=============================================================================
