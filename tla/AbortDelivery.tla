---------------------------- MODULE AbortDelivery ----------------------------
(* How a request to stop a turn reaches the process that executes it.        *)
(* The requesters write the stop key of the turn and publish an event        *)
(* (packages/core/src/sessions/turn-abort.ts); the agent process registers   *)
(* an AbortController, reads the key once more, and listens to the channel   *)
(* (apps/agent/src/active-turns.ts, abort.ts, processor.ts). One turn is     *)
(* followed from its claim to its end, with one background command that it   *)
(* started. The event of a requester is named by the requester.              *)
EXTENDS Naturals, Sequences

CONSTANTS
  Stoppers,   \* users who stop the turn (reason "abort")
  Steerers,   \* turns promoted to steer it (reason "interrupt")
  Payers,     \* billing stops, one per overdrawn round (reason "billing")
  Kinds,      \* what the turn may be: "agent" rounds or a direct "shell" command
  MaxRounds,  \* bound on the rounds of the turn
  MaxFaults,  \* bound on the failures below
  None

ASSUME RequestersAreApart ==
  /\ Stoppers \cap Steerers = {}
  /\ (Stoppers \cup Steerers) \cap Payers = {}
  /\ None \notin Stoppers \cup Steerers \cup Payers

VARIABLES
  status, reason,        \* the row of the turn and its summary's reason
  key, mail,             \* the stop key and the channel, in Redis
  req,                   \* the step each requester is at
  ex, kind, got, caught, \* the executor: step, kind, last GET, event at the catch
  rounds,
  cmd, cmdGot,           \* the background command and its last GET
  armed, aborted,        \* controllers registered and controllers aborted
  active, noted,         \* activeAbortEvents and roundBoundaryAbortEvents
  faults

row    == <<status, reason>>
redis  == <<key, mail>>
host   == <<ex, kind, got, caught, rounds>>
command == <<cmd, cmdGot>>
memory == <<armed, aborted, active, noted>>
vars   == <<row, redis, req, host, command, memory, faults>>

Users      == Stoppers \cup Steerers
Requesters == Users \cup Payers
Event      == Requesters \cup {None}
Active     == {"running", "abort_requested"}

Reason(e) == IF e \in Steerers THEN "steer" ELSE IF e \in Payers THEN "billing" ELSE "abort"

(* The kinds of the state; a reason belongs to an interrupted turn, and     *)
(* clearActiveAbortController leaves no noted stop behind the last          *)
(* execution, where a later one of the same turn would find it.             *)
AbortTypeOK ==
  /\ status \in {"queued", "completed", "failed", "interrupted"} \cup Active
  /\ reason \in {"none", "abort", "steer", "billing"}
  /\ reason # "none" => status = "interrupted"
  /\ noted # None => armed # {}
  /\ key \in Event /\ active \in Event /\ noted \in Payers \cup {None}
  /\ mail \in Seq(Requesters)
  /\ req \in [Requesters -> {"idle", "fresh", "marked", "compare", "set", "sent", "done"}]
  /\ got \in Event /\ caught \in Event /\ cmdGot \in Event
  /\ kind \in Kinds
  /\ armed \subseteq {"turn", "cmd"} /\ aborted \subseteq {"turn", "cmd"}
  /\ rounds \in 0..MaxRounds /\ faults \in 0..MaxFaults

Init ==
  /\ status = "queued" /\ reason = "none"
  /\ key = None /\ mail = <<>>
  /\ req = [r \in Requesters |-> "idle"]
  /\ ex = "queued" /\ kind \in Kinds /\ got = None /\ caught = None /\ rounds = 0
  /\ cmd = "idle" /\ cmdGot = None
  /\ armed = {} /\ aborted = {} /\ active = None /\ noted = None
  /\ faults = 0

Fault == faults < MaxFaults /\ faults' = faults + 1

(***************************************************************************)
(* The requesters.                                                          *)
(***************************************************************************)

Go(r, to) == req' = [req EXCEPT ![r] = to]

(* A stop or a promotion marks the active turn, and only then asks for the  *)
(* stop. A promotion remembers whether the turn was still running.          *)
Mark(r) ==
  /\ req[r] = "idle"
  /\ status \in Active
  /\ Go(r, IF r \in Steerers /\ status = "running" THEN "fresh" ELSE "marked")
  /\ status' = "abort_requested"
  /\ UNCHANGED <<reason, redis, host, command, memory, faults>>

(* The promoted turn could not be enqueued: the turn it had marked is put   *)
(* back to running, and no stop is asked for.                               *)
RollBack(s) ==
  /\ req[s] \in {"fresh", "marked"}
  /\ Fault
  /\ Go(s, "done")
  /\ status' = IF req[s] = "fresh" /\ status = "abort_requested" THEN "running" ELSE status
  /\ UNCHANGED <<reason, redis, host, command, memory>>

(* The payer's running and queued turns, read before the gate blocks.       *)
SelectForBilling(p) ==
  /\ req[p] = "idle"
  /\ status \in {"queued", "running"}
  /\ Go(p, "marked")
  /\ UNCHANGED <<row, redis, host, command, memory, faults>>

(* Mutant of SetKey: the billing stop is written like any other. *)
SetKeyAlways(r) ==
  /\ req[r] \in {"fresh", "marked"}
  /\ key' = r /\ Go(r, "set")
  /\ UNCHANGED <<row, mail, host, command, memory, faults>>

(* SET for a user, SET NX for a billing stop. *)
SetKey(r) ==
  /\ req[r] \in {"fresh", "marked"}
  /\ IF r \in Payers /\ key # None
       THEN Go(r, "compare") /\ UNCHANGED key
       ELSE Go(r, "set") /\ key' = r
  /\ UNCHANGED <<row, mail, host, command, memory, faults>>

(* The key was taken: a billing stop is repeated, a user stop is left. *)
Compare(p) ==
  /\ req[p] = "compare"
  /\ Go(p, IF key \in Payers THEN "set" ELSE "done")
  /\ UNCHANGED <<row, redis, host, command, memory, faults>>

Publish(r) ==
  /\ req[r] = "set"
  /\ Go(r, "sent")
  /\ mail' = Append(mail, r)
  /\ UNCHANGED <<row, key, host, command, memory, faults>>

(* Redis refuses a command: the requester gives up. *)
RequestFails(r) ==
  /\ req[r] \in {"fresh", "marked", "compare", "set"}
  /\ Fault
  /\ Go(r, "done")
  /\ UNCHANGED <<row, redis, host, command, memory>>

(***************************************************************************)
(* The listener of the agent process.                                       *)
(***************************************************************************)

(* abortActiveTurnExecutions: the event is kept for ten minutes, and every  *)
(* registered controller is aborted.                                        *)
AbortExecutions(e) == active' = e /\ aborted' = aborted \cup armed

(* Mutant of Deliver: a billing stop is executed at once. *)
DeliverAtOnce ==
  /\ mail # <<>>
  /\ mail' = Tail(mail)
  /\ AbortExecutions(Head(mail))
  /\ UNCHANGED <<row, key, req, host, command, armed, noted, faults>>

(* Mutant of Deliver: nobody registered, nothing kept. *)
DeliverToRegistered ==
  /\ mail # <<>>
  /\ mail' = Tail(mail)
  /\ IF armed = {} THEN UNCHANGED <<active, aborted, noted>>
     ELSE IF Head(mail) \in Payers
       THEN /\ noted' = IF active = None THEN Head(mail) ELSE noted
            /\ UNCHANGED <<active, aborted>>
       ELSE AbortExecutions(Head(mail)) /\ UNCHANGED noted
  /\ UNCHANGED <<row, key, req, host, command, armed, faults>>

(* Mutant of Deliver: the event is kept, the controllers are not aborted. *)
DeliverQuietly ==
  /\ mail # <<>>
  /\ mail' = Tail(mail)
  /\ IF Head(mail) \in Payers
       THEN noted' = (IF armed # {} /\ active = None THEN Head(mail) ELSE noted) /\ UNCHANGED active
       ELSE active' = Head(mail) /\ UNCHANGED noted
  /\ UNCHANGED <<row, key, req, host, command, armed, aborted, faults>>

(* A billing stop is noted for the next round of a turn executing here; any *)
(* other stop is executed at once, and kept for a turn not yet registered.  *)
Deliver ==
  /\ mail # <<>>
  /\ mail' = Tail(mail)
  /\ IF Head(mail) \in Payers
       THEN /\ noted' = IF armed # {} /\ active = None THEN Head(mail) ELSE noted
            /\ UNCHANGED <<active, aborted>>
       ELSE AbortExecutions(Head(mail)) /\ UNCHANGED noted
  /\ UNCHANGED <<row, key, req, host, command, armed, faults>>

(* The subscriber reconnects and misses an event while nothing is           *)
(* registered: the read that follows each registration is there for it. One *)
(* that is missed later is not looked for again.                            *)
Lose ==
  /\ mail # <<>> /\ armed = {}
  /\ Fault
  /\ mail' = Tail(mail)
  /\ UNCHANGED <<row, key, req, host, command, memory>>

(* The timer of a kept event fires. *)
Forget ==
  /\ active # None
  /\ Fault
  /\ active' = None
  /\ UNCHANGED <<row, redis, req, host, command, armed, aborted, noted>>

(***************************************************************************)
(* The executor of the turn.                                                *)
(***************************************************************************)

Step(from, to) == ex = from /\ ex' = to

(* setActiveAbortController: an event already kept aborts the controller. *)
Arm(c) ==
  /\ armed' = armed \cup {c}
  /\ aborted' = IF active # None THEN aborted \cup {c} ELSE aborted

(* clearActiveAbortController: the last one takes the noted stop with it. *)
Disarm(c) ==
  /\ armed' = armed \ {c}
  /\ noted' = IF armed = {c} THEN None ELSE noted

(* getAbortEvent: an error counts as no stop. *)
GetKey(reply) ==
  \/ reply = key /\ UNCHANGED faults
  \/ reply = None /\ key # None /\ Fault

(* abortSessionTurn and interruptSessionTurn. *)
Interrupt(e) ==
  IF status \in Active \cup {"interrupted"}
    THEN status' = "interrupted" /\ reason' = Reason(e)
    ELSE UNCHANGED row

(* failSessionTurn *)
FailTurn ==
  IF status \in Active \cup {"interrupted"}
    THEN status' = "failed" /\ reason' = "none"
    ELSE UNCHANGED row

Claim ==
  /\ Step("queued", "precheck")
  /\ status' = "running"
  /\ UNCHANGED <<reason, redis, req, kind, got, caught, rounds, command, memory, faults>>

ReadBefore ==
  /\ Step("precheck", "prechecked")
  /\ \E reply \in Event : GetKey(reply) /\ got' = reply
  /\ UNCHANGED <<row, redis, req, kind, caught, rounds, command, memory>>

(* A stop found before the turn has begun settles it. *)
Precheck ==
  /\ Step("prechecked", IF got = None THEN "prepare" ELSE "ended")
  /\ IF got = None THEN UNCHANGED row ELSE Interrupt(got)
  /\ UNCHANGED <<redis, req, kind, got, caught, rounds, command, memory, faults>>

Register ==
  /\ Step("prepare", "read")
  /\ Arm("turn")
  /\ UNCHANGED <<row, redis, req, kind, got, caught, rounds, command, active, noted, faults>>

ReadAfter ==
  /\ Step("read", "apply")
  /\ \E reply \in Event : GetKey(reply) /\ got' = reply
  /\ UNCHANGED <<row, redis, req, kind, caught, rounds, command, memory>>

Begin == IF kind = "agent" THEN "boundary" ELSE "shell"

(* Mutant of Apply: a billing stop found in the key is left for the channel. *)
ApplyUserStops ==
  /\ Step("apply", Begin)
  /\ IF got \in Users
       THEN active' = got /\ aborted' = aborted \cup {"turn"}
       ELSE UNCHANGED <<active, aborted>>
  /\ UNCHANGED <<row, redis, req, kind, got, caught, rounds, command, armed, noted, faults>>

(* The reply of the GET is applied when the executor is resumed. *)
Apply ==
  /\ Step("apply", Begin)
  /\ IF got # None
       THEN active' = got /\ aborted' = aborted \cup {"turn"}
       ELSE UNCHANGED <<active, aborted>>
  /\ UNCHANGED <<row, redis, req, kind, got, caught, rounds, command, armed, noted, faults>>

(* prepareRequest: a noted billing stop is executed instead of the round. *)
StopAtBoundary ==
  /\ ex = "boundary" /\ "turn" \notin aborted
  /\ noted # None
  /\ noted' = None
  /\ IF active = None THEN AbortExecutions(noted) ELSE UNCHANGED <<active, aborted>>
  /\ UNCHANGED <<row, redis, req, host, command, armed, faults>>

BeginRound ==
  /\ Step("boundary", "round")
  /\ "turn" \notin aborted /\ noted = None
  /\ rounds' = rounds + 1
  /\ UNCHANGED <<row, redis, req, kind, got, caught, command, memory, faults>>

(* The round ends by itself: its tools have run, or it was the last one and *)
(* its message is on its way to the row.                                    *)
EndRound ==
  /\ "turn" \notin aborted
  /\ \/ Step("round", "boundary") /\ rounds < MaxRounds
     \/ Step("round", "final")
  /\ UNCHANGED <<row, redis, req, kind, got, caught, rounds, command, memory, faults>>

(* The promise of the abort wins the race: the event that explains it is    *)
(* taken now.                                                               *)
Catch ==
  /\ ex \in {"boundary", "round"} /\ ex' = "unwind"
  /\ "turn" \in aborted
  /\ caught' = active
  /\ UNCHANGED <<row, redis, req, kind, got, rounds, command, memory, faults>>

(* The message cut short, if there is one, interrupts the turn. *)
Snapshot ==
  /\ Step("unwind", "stopped")
  /\ status' \in {status, "interrupted"}
  /\ UNCHANGED <<reason, redis, req, kind, got, caught, rounds, command, memory, faults>>

SettleStopped ==
  /\ Step("stopped", "ended")
  /\ Interrupt(caught)
  /\ Disarm("turn")
  /\ UNCHANGED <<redis, req, kind, got, caught, rounds, command, aborted, active, faults>>

(* The direct shell command ends by itself, or because its signal did. *)
ShellEnds ==
  /\ "turn" \notin aborted
  /\ Step("shell", "final")
  /\ UNCHANGED <<row, redis, req, kind, got, caught, rounds, command, memory, faults>>

ShellCancelled ==
  /\ "turn" \in aborted
  /\ Step("shell", "cancelled")
  /\ UNCHANGED <<row, redis, req, kind, got, caught, rounds, command, memory, faults>>

(* finalizeSessionTurnFromMessage *)
PersistFinal ==
  /\ ex \in {"final", "cancelled"} /\ ex' = "settle"
  /\ status' = IF ex = "final" THEN "completed" ELSE "interrupted"
  /\ UNCHANGED <<reason, redis, req, kind, got, caught, rounds, command, memory, faults>>

(* terminalHandled is left unset when the signal is aborted by now, and the *)
(* finally block fails what has not been handled.                           *)
Settle ==
  /\ Step("settle", "ended")
  /\ IF "turn" \in aborted THEN FailTurn ELSE UNCHANGED row
  /\ Disarm("turn")
  /\ UNCHANGED <<redis, req, kind, got, caught, rounds, command, aborted, active, faults>>

(* An exception anywhere before the turn is settled. *)
Crumble ==
  /\ ex \notin {"queued", "ended"} /\ ex' = "ended"
  /\ Fault
  /\ FailTurn
  /\ Disarm("turn")
  /\ UNCHANGED <<redis, req, kind, got, caught, rounds, command, aborted, active>>

(* The lease of the session is lost: the controller is aborted, no event. *)
LoseLease ==
  /\ "turn" \in armed /\ "turn" \notin aborted
  /\ Fault
  /\ aborted' = aborted \cup {"turn"}
  /\ UNCHANGED <<row, redis, req, host, command, armed, active, noted>>

(***************************************************************************)
(* A background command that a round started (apps/agent/src/run-command.ts).*)
(***************************************************************************)

StartCommand ==
  /\ cmd = "idle" /\ rounds > 0
  /\ cmd' = "read"
  /\ Arm("cmd")
  /\ UNCHANGED <<row, redis, req, host, cmdGot, active, noted, faults>>

CommandReads ==
  /\ cmd = "read" /\ cmd' = "apply"
  /\ \E reply \in Event : GetKey(reply) /\ cmdGot' = reply
  /\ UNCHANGED <<row, redis, req, host, memory>>

(* A billing stop does not keep a command from starting. *)
CommandApplies ==
  /\ cmd = "apply" /\ cmd' = "running"
  /\ IF cmdGot \in Users
       THEN active' = cmdGot /\ aborted' = aborted \cup {"cmd"}
       ELSE UNCHANGED <<active, aborted>>
  /\ UNCHANGED <<row, redis, req, host, cmdGot, armed, noted, faults>>

CommandEnds ==
  /\ cmd = "running" /\ cmd' = "ended"
  /\ Disarm("cmd")
  /\ UNCHANGED <<row, redis, req, host, cmdGot, aborted, active, faults>>

ExecutorStep ==
  \/ ReadBefore \/ Precheck \/ Register \/ ReadAfter \/ Apply
  \/ StopAtBoundary \/ BeginRound \/ Catch \/ Snapshot \/ SettleStopped
  \/ ShellCancelled \/ PersistFinal \/ Settle

Requests ==
  \/ \E r \in Users : Mark(r)
  \/ \E s \in Steerers : RollBack(s)
  \/ \E p \in Payers : SelectForBilling(p) \/ Compare(p)
  \/ \E r \in Requesters : SetKey(r) \/ Publish(r) \/ RequestFails(r)

Next ==
  \/ Requests
  \/ Deliver \/ Lose \/ Forget
  \/ Claim \/ ExecutorStep \/ EndRound \/ ShellEnds \/ Crumble \/ LoseLease
  \/ StartCommand \/ CommandReads \/ CommandApplies \/ CommandEnds

Spec == Init /\ [][Next]_vars

(* The event loop of the agent runs what is ready and reads its socket. No  *)
(* round and no command is assumed to end by itself, and nobody to ask.     *)
Fairness == WF_vars(ExecutorStep) /\ WF_vars(Deliver)

FairSpec == Spec /\ Fairness

(***************************************************************************)
(* Properties.                                                              *)
(***************************************************************************)

(* The order SET, PUBLISH against register, GET, and the events kept for a  *)
(* turn not yet registered: a user stop that was sent and is not on its way *)
(* any more has aborted whatever executes, even if the one event was missed *)
(* before the registration, or the one read has failed.                     *)
StopIsHeard ==
  \A r \in Users :
    req[r] = "sent" /\ (\A i \in DOMAIN mail : mail[i] # r) =>
      /\ ex \in {"boundary", "round", "shell"} => "turn" \in aborted
      /\ cmd = "running" => "cmd" \in aborted

(* requestAgentTurnAbort: two requesters race on one key, and a user stop   *)
(* that is in it is replaced by no billing stop.                            *)
KeyKeepsUserStop == [][(key \in Users) => key' \notin Payers]_key

(* subscribeAbortEvents: a billing stop never cuts a running round short.   *)
BillingLetsRoundEnd ==
  [][ex = "round" /\ "turn" \notin aborted /\ "turn" \in aborted' => active' \notin Payers]_vars

(* The CHANGELOG's "the next LLM request never starts": without a failure,  *)
(* whichever stop was sent, before, during or after the registration, and   *)
(* none on its way between the key and the listener, no further round of    *)
(* the turn starts. (While a user stop is on its way, a command that read   *)
(* it from the key has it kept, and a billing stop is dropped meanwhile.)   *)
OnItsWay == mail # <<>> \/ \E r \in Requesters : req[r] = "set"
NextRoundNeverStarts ==
  [][faults = 0 /\ ex = "boundary" /\ ~OnItsWay /\ (\E r \in Requesters : req[r] = "sent")
       => ex' # "round"]_ex

(* A turn that was asked to stop is settled, even if its round or its shell *)
(* command would never end by itself, as long as nothing fails.             *)
StoppedTurnEnds ==
  \A r \in Users : (req[r] = "sent" /\ faults = 0) ~> (status \notin Active \/ faults > 0)

(* turn-abort.ts: "A billing stop never replaces a user stop", also not in  *)
(* the events the agent keeps and explains the end of the turn with.        *)
UserStopStays == [][(active \in Users) => active' \notin Payers]_active

(* A stopped turn is interrupted and stays so: a stop is no failure.        *)
StopIsNoFailure == [][status = "interrupted" => status' # "failed"]_status
=============================================================================
