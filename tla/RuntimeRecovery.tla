-------------------------- MODULE RuntimeRecovery --------------------------
(***************************************************************************)
(* One turn of a session that runs on a person's own machine, from the     *)
(* moment an agent has claimed it until it is settled.                     *)
(*                                                                         *)
(* The executor (the agent job that claimed the turn, apps/agent/src/      *)
(* processor.ts and runtime/remote-runtime.ts) dispatches it once through  *)
(* a gateway to the host (packages/cli/src/runtime/connection.ts), which   *)
(* keeps a receipt until the server has acknowledged the result.  When the *)
(* executor dies or gives up, a recovery job reads the saved result, and a *)
(* manager may confirm that the execution has stopped: the resolution note *)
(* then ends the turn (runtime/recovery.ts).  The jobs of one kind share   *)
(* one job id, so an enqueue while a job exists adds nothing.              *)
(*                                                                         *)
(* The executor and the two kinds of job hold the session's lock; the lock *)
(* of a process that died expires, and a live holder may lose its lease    *)
(* before it notices.  What fences a late writer is the row of the turn.   *)
(***************************************************************************)
EXTENDS Naturals, Sequences

CONSTANTS
    FaultPlans,   \* which kinds of fault a behaviour may have, and how many of them
    Attempts,     \* attempts of one job (8 for a recovery, 12 for a confirmation)
    MaxDials      \* bound on the connections of one exchange

FaultKinds == {"link", "host", "harness", "agent", "lease", "slots", "slow"}

ASSUME RecoveryAssumption ==
    /\ FaultPlans \subseteq [kinds: SUBSET FaultKinds, left: Nat]
    /\ Attempts \in Nat \ {0} /\ MaxDials \in Nat \ {0}

VARIABLES
    turn,      \* the row: [status, recovery, final]
    lock,      \* the holder of the session lock, or "free"
    lost,      \* the holders that noticed that their lease is gone
    agent,     \* per client of the lock: [pc, dials, completed, failure]
    job,       \* per kind of job: [state, left]
    link,      \* is the host connected to a gateway?
    peer,      \* per exchange: "closed", "open", or "acked" once an ack went through
    up,        \* frames from the gateway to the host
    down,      \* per exchange: frames from the gateway to the agent
    host,      \* the host's process: [entry, resume, detached, aborted, replay, seen, recovery]
    receipt,   \* the receipt on the host's disk: "none", "started" or "saved"
    native,    \* the harness's own transcript: "none", "unfinished", "finished" or "interrupted"
    runs,      \* how often the harness was started for this turn
    faults     \* what is left of the plan of faults drawn at the start

agentVars == <<turn, lock, lost, agent, job>>
wireVars  == <<link, peer, up, down>>
hostVars  == <<host, receipt, native, runs>>
vars      == <<agentVars, wireVars, hostVars, faults>>

Exchanges == {"executor", "recover"}
Jobs      == {"recover", "confirm"}
Clients   == Exchanges \union Jobs

\* runtimeRecoveryActive and runtimeResolutionOpen: what the updates of the row ask for.
Active == turn.status = "running"
Open   == turn.recovery # "confirmed_stopped"

\* A result or an error that a host sends about the turn.
Ends        == {"end", "aborted"}
HostEvents  == Ends \union {"unavailable", "error", "acknowledged"}
HostIdle    == [entry |-> "none", resume |-> FALSE, detached |-> FALSE, aborted |-> FALSE,
                replay |-> FALSE, seen |-> FALSE, recovery |-> "none"]

\* The host's execution has not settled yet.
Running == host.entry \in {"preparing", "running", "finished"}

\* A fault of a kind that the plan has, within its number.
Fault(kind) ==
    /\ kind \in faults.kinds /\ faults.left > 0
    /\ faults' = [faults EXCEPT !.left = faults.left - 1]

-----------------------------------------------------------------------------
(***************************************************************************)
(* The agent's side: small helpers.                                        *)
(***************************************************************************)
At(c, place)  == agent[c].pc = place
Goto(c, place) == agent' = [agent EXCEPT ![c].pc = place]
Redial(c) == agent' = [agent EXCEPT ![c].pc = "dial", ![c].failure = "none"]

\* The command of the exchange has been sent once.
Started(c) == agent[c].dials > 0

\* enqueueRuntimeRecovery: one job per turn and kind; a job that exists, even one
\* whose last attempt is running, absorbs the new one.
Enqueued(j) == IF job[j].state = "none" THEN [job EXCEPT ![j] = [state |-> "waiting", left |-> Attempts]]
                                        ELSE job

\* The end of an attempt that threw: the job waits for the next one or is removed.
Retried(j) == [job EXCEPT ![j] = IF job[j].left > 1 THEN [state |-> "waiting", left |-> job[j].left - 1]
                                                    ELSE [state |-> "none", left |-> 0]]
Removed(j) == [job EXCEPT ![j] = [state |-> "none", left |-> 0]]

\* The release compares the token: it frees only what the caller still holds.
Release(c) == lock' = IF lock = c THEN "free" ELSE lock

\* The client has nothing left to do.
Idle == [pc |-> "off", dials |-> 0, completed |-> FALSE, failure |-> "none"]
Leave(c) ==
    /\ Release(c)
    /\ lost' = lost \ {c}
    /\ agent' = [agent EXCEPT ![c] = Idle]

(* Mutant of RecoverAfter: the gateway leaves the recovery to the host. *)
RecoverLater(c, jobs) == jobs

\* The gateway's handler for the end of an agent's connection: an execution that was not
\* acknowledged is aborted on the host, and one that was started here gets a recovery job.
PeerGone(c) ==
    /\ peer' = [peer EXCEPT ![c] = "closed"]
    /\ down' = [down EXCEPT ![c] = <<>>]
    /\ up' = IF link /\ peer[c] = "open" THEN Append(up, [type |-> "abort", of |-> c, resume |-> FALSE]) ELSE up
RecoverAfter(c, jobs) ==
    IF peer[c] = "open" /\ c = "executor" /\ jobs["recover"].state = "none"
    THEN [jobs EXCEPT !["recover"] = [state |-> "waiting", left |-> Attempts]] ELSE jobs

-----------------------------------------------------------------------------
(***************************************************************************)
(* The executor before its exchange, and the exchange both it and a        *)
(* recovery job carry on with the host (exchange.ts).                      *)
(***************************************************************************)
\* executeRemoteHarnessTurn, up to the dispatch: without a registered host the turn
\* fails; otherwise the row says "executing" before anything is sent.
MarkExecuting ==
    /\ At("executor", "claimed")
    /\ IF link
       THEN /\ turn' = IF Active /\ Open THEN [turn EXCEPT !.recovery = "executing"] ELSE turn
            /\ Goto("executor", "dial")
       ELSE turn' = turn /\ Goto("executor", "failed")
    /\ UNCHANGED <<lock, lost, job, wireVars, hostVars, faults>>

\* One connection: the agent reads the registration, opens its socket and, once ready,
\* sends the command.  Only the first turn.start of an exchange may start work.
Connect(c) ==
    /\ At(c, "dial") /\ link /\ peer[c] = "closed"
    /\ Started(c) \/ c \notin lost
    /\ agent[c].dials < MaxDials
    /\ peer' = [peer EXCEPT ![c] = "open"]
    /\ LET command == [type |-> IF c = "executor" THEN "start" ELSE "recover",
                       of |-> c, resume |-> Started(c)]
           abort == [type |-> "abort", of |-> c, resume |-> FALSE] IN
       up' = IF c \in lost /\ ~agent[c].completed THEN Append(Append(up, command), abort)
                                                  ELSE Append(up, command)
    /\ agent' = [agent EXCEPT ![c].pc = "open", ![c].dials = @ + 1]
    /\ UNCHANGED <<turn, lock, lost, job, link, down, hostVars, faults>>

\* The host is not registered, or the lease is lost before anything was sent.
DialFails(c) ==
    /\ At(c, "dial") /\ ~Started(c)
    /\ ~link \/ c \in lost
    /\ agent' = [agent EXCEPT ![c].pc = "failed", ![c].failure = "plain"]
    /\ UNCHANGED <<turn, lock, lost, job, wireVars, hostVars, faults>>

\* The exchange has looked for the host long enough (60 s, 1 s for a recovery).
GiveUp(c) ==
    /\ At(c, "dial") /\ Started(c)
    /\ agent' = [agent EXCEPT ![c].pc = IF agent[c].completed THEN "done" ELSE "failed",
                              ![c].failure = IF agent[c].completed THEN "none" ELSE "uncertain"]
    /\ UNCHANGED <<turn, lock, lost, job, wireVars, hostVars, faults>>

\* The connection ends on the agent's side, after every frame that had arrived.
Disconnected(c) ==
    /\ At(c, "open") /\ peer[c] = "closed" /\ down[c] = <<>>
    /\ Redial(c)
    /\ UNCHANGED <<turn, lock, lost, job, wireVars, hostVars, faults>>

\* A timer of the exchange fires: no answer to turn.recover, to turn.ack or to turn.abort.
\* It fires before an answer that is on its way only when something is slow.
OnItsWay(c) ==
    \/ up # <<>> \/ down[c] # <<>>
    \/ c = "recover" /\ host.recovery = "waiting" /\ (~Running \/ host.aborted)
TimesOut(c) ==
    /\ At(c, "open") /\ peer[c] # "closed"
    /\ c = "recover" \/ agent[c].completed \/ c \in lost
    /\ IF OnItsWay(c) THEN Fault("slow") ELSE UNCHANGED faults
    /\ PeerGone(c)
    /\ job' = RecoverAfter(c, job)
    /\ Redial(c)
    /\ UNCHANGED <<turn, lock, lost, link, hostVars>>

\* The agent takes the next frame.
Receive(c) ==
    /\ At(c, "open") /\ down[c] # <<>>
    /\ LET event == Head(down[c])
           over == agent[c].completed IN
       \/ /\ event \in Ends
          /\ agent' = [agent EXCEPT ![c].pc = IF over THEN "ack" ELSE "check", ![c].failure = event]
          /\ down' = [down EXCEPT ![c] = Tail(@)]
          /\ UNCHANGED <<peer, up, job>>
       \/ /\ event \notin Ends
          /\ agent' = [agent EXCEPT ![c].pc = IF event = "acknowledged" \/ over THEN "done" ELSE "failed",
                                    ![c].failure = IF event = "error" THEN "plain" ELSE event]
          /\ PeerGone(c)
          /\ job' = RecoverAfter(c, job)
    /\ UNCHANGED <<turn, lock, lost, link, hostVars, faults>>

\* The handler of a result fails: its socket goes and the exchange dials again.
Drop(c) ==
    /\ PeerGone(c)
    /\ job' = RecoverAfter(c, job)
    /\ Redial(c)
    /\ UNCHANGED turn

(* Mutant of CheckStop: a result that is not wanted any more is acknowledged. *)
CheckStopAcknowledges(c) ==
    /\ At(c, "check")
    /\ Goto(c, IF c \in lost \/ ~Open THEN "ack" ELSE "persist")
    /\ UNCHANGED <<turn, job, peer, down, up>>
    /\ UNCHANGED <<lock, lost, link, hostVars, faults>>

\* The handler reads the row before it writes: a confirmed stop is not overwritten.
CheckStop(c) ==
    /\ At(c, "check")
    /\ IF c \in lost \/ ~Open THEN Drop(c)
       ELSE Goto(c, "persist") /\ UNCHANGED <<turn, job, peer, down, up>>
    /\ UNCHANGED <<lock, lost, link, hostVars, faults>>

(* Mutant of PersistResult: the check of the row before it is taken for enough. *)
PersistUnlocked(c) ==
    /\ At(c, "persist")
    /\ turn' = [turn EXCEPT !.final = "result", !.status = "completed"]
    /\ Goto(c, "ack")
    /\ UNCHANGED <<job, peer, down, up>>
    /\ UNCHANGED <<lock, lost, link, hostVars, faults>>

\* persistMessageNode and finalizeSessionTurnFromMessage of a result, in one transaction
\* that locks the row: the message exists already, or the row must be open and active.
PersistResult(c) ==
    /\ At(c, "persist")
    /\ IF turn.final = "result" /\ c \notin lost
       THEN Goto(c, "ack") /\ UNCHANGED <<turn, job, peer, down, up>>
       ELSE IF c \notin lost /\ Open /\ Active
       THEN /\ turn' = [turn EXCEPT !.final = "result",
                                    !.status = IF agent[c].failure = "aborted" THEN "interrupted" ELSE "completed"]
            /\ Goto(c, "ack")
            /\ UNCHANGED <<job, peer, down, up>>
       ELSE Drop(c)
    /\ UNCHANGED <<lock, lost, link, hostVars, faults>>

\* turn.ack once the result is durable.
Acknowledge(c) ==
    /\ At(c, "ack")
    /\ agent' = [agent EXCEPT ![c].pc = IF peer[c] = "closed" THEN "dial" ELSE "open", ![c].completed = TRUE]
    /\ peer' = [peer EXCEPT ![c] = IF @ = "closed" THEN @ ELSE "acked"]
    /\ up' = IF peer[c] = "closed" THEN up ELSE Append(up, [type |-> "ack", of |-> c, resume |-> FALSE])
    /\ UNCHANGED <<turn, lock, lost, job, link, down, hostVars, faults>>

-----------------------------------------------------------------------------
(***************************************************************************)
(* How the executor ends.                                                  *)
(***************************************************************************)
\* The exchange ended well, or it failed after the turn was settled by somebody.
ExecutorEnds ==
    /\ At("executor", "done") \/ (At("executor", "failed") /\ ~Active)
    /\ Leave("executor")
    /\ UNCHANGED <<turn, job, wireVars, hostVars, faults>>

\* An uncertain outcome: the turn stays active and asks for attention.
AskAttention ==
    /\ At("executor", "failed") /\ Active
    /\ agent["executor"].failure \in {"uncertain", "unavailable"}
    /\ turn' = IF Open THEN [turn EXCEPT !.recovery = "attention"] ELSE turn
    /\ Goto("executor", IF Open THEN "enqueue" ELSE "done")
    /\ UNCHANGED <<lock, lost, job, wireVars, hostVars, faults>>

EnqueueRecovery ==
    /\ At("executor", "enqueue")
    /\ job' = Enqueued("recover")
    /\ Leave("executor")
    /\ UNCHANGED <<turn, wireVars, hostVars, faults>>

(* Mutant of DecideFailure: an outcome that nobody knows is a failure too. *)
DecideAnyFailure ==
    /\ At("executor", "failed") /\ Active
    /\ Goto("executor", "fail")
    /\ UNCHANGED <<turn, lock, lost, job, wireVars, hostVars, faults>>

\* A definite failure of a turn that was still active when the exchange failed ...
DecideFailure ==
    /\ At("executor", "failed") /\ Active
    /\ agent["executor"].failure \in {"none", "plain"}
    /\ Goto("executor", "fail")
    /\ UNCHANGED <<turn, lock, lost, job, wireVars, hostVars, faults>>

\* ... is written by failSessionTurn, which takes an interrupted turn too.
FailTurn ==
    /\ At("executor", "fail")
    /\ turn' = IF turn.status \in {"running", "interrupted"} THEN [turn EXCEPT !.status = "failed"] ELSE turn
    /\ Leave("executor")
    /\ UNCHANGED <<job, wireVars, hostVars, faults>>

-----------------------------------------------------------------------------
(***************************************************************************)
(* Jobs: a recovery reads a saved result, a confirmation ends the turn.    *)
(***************************************************************************)
\* confirmRuntimeStopped: a manager answers a session that asks for attention.
Confirm ==
    /\ Active /\ turn.recovery = "attention" /\ job["confirm"].state = "none"
    /\ job' = Enqueued("confirm")
    /\ UNCHANGED <<turn, lock, lost, agent, wireVars, hostVars, faults>>

\* An attempt of a job: it needs the session's lock.  The attempts of a job (127 s of backoff
\* for a recovery) outlast the lock of a dead process, and they outlast a live holder (60 s of
\* reconnecting) unless something is slow.
TakeLock(j) ==
    /\ job[j].state = "waiting"
    /\ \/ /\ lock = "free"
          /\ lock' = j
          /\ job' = [job EXCEPT ![j].state = "active"]
          /\ Goto(j, "read")
          /\ UNCHANGED faults
       \/ /\ lock # "free" /\ ~At(lock, "off")
          /\ IF job[j].left = 1 THEN Fault("slow") ELSE UNCHANGED faults
          /\ job' = Retried(j)
          /\ UNCHANGED <<lock, agent>>
    /\ UNCHANGED <<turn, lost, wireVars, hostVars>>

(* Mutant of ReadTurn: a confirmed stop is taken for a settled turn. *)
ReadUnconfirmed(j) ==
    /\ At(j, "read")
    /\ \/ /\ ~Active \/ ~Open
          /\ job' = Removed(j)
          /\ Leave(j)
       \/ /\ Active /\ turn.recovery = "none"
          /\ job' = Retried(j)
          /\ Leave(j)
       \/ /\ Active /\ turn.recovery = "attention" /\ j = "confirm"
          /\ Goto(j, "stop")
          /\ UNCHANGED <<lock, lost, job>>
       \/ /\ Active /\ j = "recover" /\ turn.recovery \in {"executing", "attention"}
          /\ Goto(j, "dial")
          /\ UNCHANGED <<lock, lost, job>>
    /\ UNCHANGED <<turn, wireVars, hostVars, faults>>

\* recoverRuntime reads the row: a settled turn needs nothing, a row that never said
\* "executing" names no owner, a confirmed stop is finished, and the rest is asked of the host.
ReadTurn(j) ==
    /\ At(j, "read")
    /\ \/ /\ ~Active
          /\ job' = Removed(j)
          /\ Leave(j)
       \/ /\ Active /\ turn.recovery = "none"
          /\ job' = Retried(j)
          /\ Leave(j)
       \/ /\ Active /\ \/ turn.recovery = "confirmed_stopped"
                       \/ j = "confirm" /\ turn.recovery = "attention"
          /\ Goto(j, "stop")
          /\ UNCHANGED <<lock, lost, job>>
       \/ /\ Active /\ j = "recover" /\ turn.recovery \in {"executing", "attention"}
          /\ Goto(j, "dial")
          /\ UNCHANGED <<lock, lost, job>>
    /\ UNCHANGED <<turn, wireVars, hostVars, faults>>

\* recordConfirmedStop, first the row ...
MarkStopped(j) ==
    /\ At(j, "stop")
    /\ IF j \in lost THEN job' = Retried(j) /\ Leave(j) /\ UNCHANGED turn
       ELSE IF ~Active THEN job' = Removed(j) /\ Leave(j) /\ UNCHANGED turn
       ELSE /\ turn' = [turn EXCEPT !.recovery = "confirmed_stopped"]
            /\ Goto(j, "note")
            /\ UNCHANGED <<lock, lost, job>>
    /\ UNCHANGED <<wireVars, hostVars, faults>>

\* ... then the resolution note, which ends the turn in its own transaction.
WriteNote(j) ==
    /\ At(j, "note")
    /\ IF j \notin lost /\ ~Open /\ (turn.final = "note" \/ Active)
       THEN /\ turn' = IF turn.final = "note" THEN turn
                       ELSE [turn EXCEPT !.final = "note", !.status = "interrupted"]
            /\ job' = Removed(j)
       ELSE turn' = turn /\ job' = Retried(j)
    /\ Leave(j)
    /\ UNCHANGED <<wireVars, hostVars, faults>>

\* recoverOrphanTurn: recovered, no result (attention), or no answer (another attempt).
RecoveryEnds ==
    /\ At("recover", "done") \/ At("recover", "failed")
    /\ LET settled == At("recover", "done") \/ ~Active
           unavailable == agent["recover"].failure = "unavailable" IN
       /\ job' = IF settled \/ unavailable THEN Removed("recover") ELSE Retried("recover")
       /\ turn' = IF ~settled /\ unavailable /\ Open /\ "recover" \notin lost
                  THEN [turn EXCEPT !.recovery = "attention"] ELSE turn
    /\ Leave("recover")
    /\ UNCHANGED <<wireVars, hostVars, faults>>

-----------------------------------------------------------------------------
(***************************************************************************)
(* The host: one execution entry and one recovery entry (connection.ts),   *)
(* the receipt (native/results.ts) and the harness's transcript.           *)
(***************************************************************************)
\* An event goes out only while the host and the agent's connection are both there.
Sent(event, c) == IF link /\ peer[c] # "closed" THEN [down EXCEPT ![c] = Append(@, event)] ELSE down

NoEntry(h) == [h EXCEPT !.entry = "none", !.resume = FALSE, !.detached = FALSE, !.aborted = FALSE]

\* ExecutionResults.recover: a saved result, or one rebuilt from a finished transcript.
Recoverable == receipt = "saved" \/ (receipt = "started" /\ native = "finished")
SavedEnd    == IF native = "interrupted" THEN "aborted" ELSE "end"

(* Mutant of Replay: only what was saved before is replayed, whole or not. *)
ReplayNothing(c) ==
    /\ down' = Sent("unavailable", c)
    /\ UNCHANGED receipt

\* replaySaved: the result, or an explicit answer that there is none.
Replay(c) ==
    /\ down' = Sent(IF Recoverable THEN SavedEnd ELSE "unavailable", c)
    /\ receipt' = IF Recoverable THEN "saved" ELSE receipt

(* Mutant of TakeStart: a command sent again is prepared like a new one. *)
TakeStartAgain(frame) ==
    /\ frame.type = "start"
    /\ IF host.entry # "none"
       THEN host' = [host EXCEPT !.replay = TRUE] /\ UNCHANGED <<down, receipt>>
       ELSE /\ host' = [host EXCEPT !.entry = "preparing", !.resume = FALSE,
                                    !.detached = FALSE, !.aborted = FALSE]
            /\ UNCHANGED <<down, receipt>>

\* turn.start: a known execution replays its result once it settled; a recovery of the
\* same session makes the host refuse; anything else is prepared.
TakeStart(frame) ==
    /\ frame.type = "start"
    /\ IF host.entry # "none"
       THEN host' = [host EXCEPT !.replay = TRUE] /\ UNCHANGED <<down, receipt>>
       ELSE IF host.recovery # "none"
       THEN down' = Sent("error", "executor") /\ UNCHANGED <<host, receipt>>
       ELSE /\ host' = [host EXCEPT !.entry = "preparing", !.resume = frame.resume \/ host.seen,
                                    !.detached = FALSE, !.aborted = FALSE, !.seen = TRUE]
            /\ UNCHANGED <<down, receipt>>

\* turn.recover: an execution that this connection started is aborted first, a detached
\* one is waited for; a repeated request replays.
TakeRecover(frame) ==
    /\ frame.type = "recover"
    /\ IF host.recovery = "none"
       THEN /\ host' = [host EXCEPT !.recovery = "waiting", !.aborted = @ \/ (Running /\ ~host.detached)]
            /\ UNCHANGED <<down, receipt>>
       ELSE Replay("recover") /\ UNCHANGED host

TakeAbort(frame) ==
    /\ frame.type = "abort"
    /\ host' = IF frame.of = "executor" THEN [host EXCEPT !.aborted = @ \/ Running]
               ELSE [host EXCEPT !.recovery = IF @ = "waiting" THEN "none" ELSE @]
    /\ UNCHANGED <<down, receipt>>

\* turn.ack: the receipt goes, then the entry.
TakeAck(frame) ==
    /\ frame.type = "ack"
    /\ LET known == IF frame.of = "executor" THEN host.entry = "result" ELSE host.recovery = "result" IN
       /\ receipt' = IF known THEN "none" ELSE receipt
       /\ down' = IF known THEN Sent(IF receipt = "none" THEN "error" ELSE "acknowledged", frame.of) ELSE down
       /\ host' = IF ~known THEN host
                  ELSE IF frame.of = "executor" THEN NoEntry(host)
                  ELSE [host EXCEPT !.recovery = "none"]

HostTakes ==
    /\ link /\ up # <<>>
    /\ LET frame == Head(up) IN TakeStart(frame) \/ TakeRecover(frame) \/ TakeAbort(frame) \/ TakeAck(frame)
    /\ up' = Tail(up)
    /\ UNCHANGED <<agentVars, link, peer, native, runs, faults>>

\* The execution before its harness starts: a saved result is replayed, an execution that
\* may have run before is not run again, an aborted one ends, and any other starts once.
Prepare ==
    /\ host.entry = "preparing"
    /\ LET sent(event) == IF host.detached THEN down ELSE Sent(event, "executor") IN
       \/ /\ Recoverable
          /\ host' = [host EXCEPT !.entry = "result"]
          /\ receipt' = "saved"
          /\ down' = sent(SavedEnd)
          /\ UNCHANGED <<native, runs>>
       \/ /\ ~Recoverable /\ (host.resume \/ host.aborted)
          /\ host' = NoEntry(host)
          /\ down' = sent(IF host.resume THEN "unavailable" ELSE "error")
          /\ UNCHANGED <<receipt, native, runs>>
       \/ /\ ~Recoverable /\ ~host.resume /\ ~host.aborted
          /\ host' = [host EXCEPT !.entry = "running"]
          /\ receipt' = "started"
          /\ native' = "unfinished"
          /\ runs' = runs + 1
          /\ UNCHANGED down
    /\ UNCHANGED <<agentVars, link, peer, up, faults>>

\* The harness ends its turn, or the abort has stopped it.
HarnessEnds ==
    /\ host.entry = "running"
    /\ host' = [host EXCEPT !.entry = "finished"]
    /\ native' = IF host.aborted THEN "interrupted" ELSE "finished"
    /\ UNCHANGED <<agentVars, wireVars, receipt, runs, faults>>

\* The result is on the disk before anybody hears of it.  One whose connection has gone is
\* announced on the connection that is ready now.
SaveResult ==
    /\ host.entry = "finished"
    /\ receipt' = "saved"
    /\ host' = [host EXCEPT !.entry = "result"]
    /\ down' = IF host.detached THEN down ELSE Sent(SavedEnd, "executor")
    /\ job' = IF host.detached /\ link THEN Enqueued("recover") ELSE job
    /\ UNCHANGED <<turn, lock, lost, agent, link, peer, up, native, runs, faults>>

\* A resumed turn.start has waited for the execution to settle.
ReplayResult ==
    /\ host.replay /\ ~Running
    /\ Replay("executor")
    /\ host' = [host EXCEPT !.replay = FALSE]
    /\ UNCHANGED <<agentVars, link, peer, up, native, runs, faults>>

\* turn.recover has waited for the execution to settle: it takes over its result.
RecoverResult ==
    /\ host.recovery = "waiting" /\ ~Running
    /\ Replay("recover")
    /\ host' = NoEntry([host EXCEPT !.recovery = IF Recoverable THEN "result" ELSE "none"])
    /\ UNCHANGED <<agentVars, link, peer, up, native, runs, faults>>

-----------------------------------------------------------------------------
(***************************************************************************)
(* What goes wrong.                                                        *)
(***************************************************************************)
\* The host's connection ends.  The gateway closes every agent connection to it and
\* enqueues a recovery for an execution that was not acknowledged.
Cut ==
    /\ link' = FALSE
    /\ up' = <<>>
    /\ peer' = [c \in Exchanges |-> "closed"]
    /\ UNCHANGED down
    /\ job' = RecoverAfter("executor", job)

LinkDrops ==
    /\ link /\ Fault("link") /\ Cut
    /\ host' = [host EXCEPT !.detached = @ \/ host.entry # "none", !.replay = FALSE, !.recovery = "none"]
    /\ UNCHANGED <<turn, lock, lost, agent, receipt, native, runs>>

\* A host that connects reports every receipt it holds.
LinkReturns ==
    /\ ~link
    /\ link' = TRUE
    /\ job' = IF receipt # "none" THEN Enqueued("recover") ELSE job
    /\ UNCHANGED <<turn, lock, lost, agent, peer, up, down, hostVars, faults>>

\* The host's process ends; its receipt and the transcript are on the disk.
HostRestarts ==
    /\ Fault("host") /\ Cut
    /\ host' = HostIdle
    /\ UNCHANGED <<turn, lock, lost, agent, receipt, native, runs>>

\* The harness fails: the error is sent, nothing is recorded.
HarnessFails ==
    /\ host.entry = "running" /\ Fault("harness")
    /\ host' = NoEntry(host)
    /\ down' = IF host.detached THEN down ELSE Sent("error", "executor")
    /\ UNCHANGED <<agentVars, link, peer, up, receipt, native, runs>>

\* The process of a client dies: its lock stays, its connection ends, its job is redelivered.
AgentCrashes(c) ==
    /\ ~At(c, "off") /\ Fault("agent")
    /\ agent' = [agent EXCEPT ![c] = Idle]
    /\ lost' = lost \ {c}
    /\ LET jobs == IF c \in Jobs THEN [job EXCEPT ![c].state = "waiting"] ELSE job IN
       IF c \in Exchanges THEN job' = RecoverAfter(c, jobs) /\ PeerGone(c)
                          ELSE job' = jobs /\ UNCHANGED <<peer, down, up>>
    /\ UNCHANGED <<turn, lock, link, hostVars>>

\* The lock of a dead process expires.
LockExpires ==
    /\ lock # "free" /\ At(lock, "off")
    /\ lock' = "free"
    /\ UNCHANGED <<turn, lost, agent, job, wireVars, hostVars, faults>>

\* A live holder fails to renew its lease in time ...
LeaseExpires(c) ==
    /\ lock = c /\ ~At(c, "off") /\ Fault("lease")
    /\ lock' = "free"
    /\ UNCHANGED <<turn, lost, agent, job, wireVars, hostVars>>

\* ... and notices it later: the exchange asks the host to abort.
NoticeLoss(c) ==
    /\ ~At(c, "off") /\ lock # c /\ c \notin lost
    /\ lost' = lost \union {c}
    /\ up' = IF c \in Exchanges
             THEN IF At(c, "open") /\ link /\ peer[c] = "open" /\ ~agent[c].completed
                  THEN Append(up, [type |-> "abort", of |-> c, resume |-> FALSE]) ELSE up
             ELSE up
    /\ UNCHANGED <<turn, lock, agent, job, link, peer, down, hostVars, faults>>

\* Every slot of the gateway is taken by other exchanges of the space: the command is
\* answered with an error that does not say "uncertain".
ConnectRefused(c) ==
    /\ At(c, "dial") /\ link /\ peer[c] = "closed"
    /\ Started(c) \/ c \notin lost
    /\ agent[c].dials < MaxDials
    /\ Fault("slots")
    /\ agent' = [agent EXCEPT ![c].dials = @ + 1, ![c].failure = "plain",
                              ![c].pc = IF agent[c].completed THEN "done" ELSE "failed"]
    /\ UNCHANGED <<turn, lock, lost, job, wireVars, hostVars>>

-----------------------------------------------------------------------------
Init ==
    /\ turn = [status |-> "running", recovery |-> "none", final |-> "none"]
    /\ lock = "executor" /\ lost = {}
    /\ agent = [c \in Clients |-> IF c = "executor" THEN [Idle EXCEPT !.pc = "claimed"] ELSE Idle]
    /\ job = [j \in Jobs |-> [state |-> "none", left |-> 0]]
    /\ link \in BOOLEAN
    /\ peer = [c \in Exchanges |-> "closed"]
    /\ up = <<>>
    /\ down = [c \in Exchanges |-> <<>>]
    /\ host = HostIdle
    /\ receipt = "none" /\ native = "none"
    /\ runs = 0 /\ faults \in FaultPlans

ExchangeStep(c) ==
    \/ Connect(c) \/ DialFails(c) \/ GiveUp(c) \/ Disconnected(c) \/ TimesOut(c)
    \/ Receive(c) \/ CheckStop(c) \/ PersistResult(c) \/ Acknowledge(c)

ExecutorStep ==
    \/ ExchangeStep("executor") \/ MarkExecuting \/ ExecutorEnds
    \/ AskAttention \/ EnqueueRecovery \/ DecideFailure \/ FailTurn

JobStep(j) == TakeLock(j) \/ ReadTurn(j) \/ MarkStopped(j) \/ WriteNote(j)

RecoverStep == JobStep("recover") \/ ExchangeStep("recover") \/ RecoveryEnds

HostStep == HostTakes \/ Prepare \/ HarnessEnds \/ SaveResult \/ ReplayResult \/ RecoverResult

Next ==
    \/ ExecutorStep \/ RecoverStep \/ JobStep("confirm") \/ HostStep \/ Confirm
    \/ LinkReturns \/ LockExpires
    \/ LinkDrops \/ HostRestarts \/ HarnessFails
    \/ \E c \in Clients : AgentCrashes(c) \/ LeaseExpires(c) \/ NoticeLoss(c)
    \/ \E c \in Exchanges : ConnectRefused(c)

Spec == Init /\ [][Next]_vars

\* Processes and timers go on; a manager need not answer, nothing has to fail.
FairSpec ==
    /\ Spec
    /\ WF_vars(ExecutorStep) /\ WF_vars(RecoverStep) /\ WF_vars(JobStep("confirm"))
    /\ WF_vars(HostStep) /\ WF_vars(LinkReturns) /\ WF_vars(LockExpires)
    /\ WF_vars(\E c \in Clients : NoticeLoss(c))

-----------------------------------------------------------------------------
(***************************************************************************)
(* Properties.                                                             *)
(***************************************************************************)
\* The shape of the state, and how its parts belong together.
Places   == {"off", "claimed", "dial", "open", "check", "persist", "ack", "done", "failed",
             "enqueue", "fail", "read", "stop", "note"}
Failures == HostEvents \union {"none", "plain", "uncertain"}
Frames   == [type: {"start", "recover", "abort", "ack"}, of: Exchanges, resume: BOOLEAN]

Rows     == [status: {"running", "completed", "interrupted", "failed"},
             recovery: {"none", "executing", "attention", "confirmed_stopped"},
             final: {"none", "result", "note"}]
Progress == [pc: Places, dials: Nat, completed: BOOLEAN, failure: Failures]
JobRows  == [state: {"none", "waiting", "active"}, left: 0..Attempts]

SessionTypeOK ==
    /\ turn \in Rows
    /\ lock \in Clients \union {"free"} /\ lost \subseteq Clients
    /\ agent \in [Clients -> Progress]
    /\ job \in [Jobs -> JobRows]

WireTypeOK ==
    /\ link \in BOOLEAN
    /\ peer \in [Exchanges -> {"closed", "open", "acked"}]
    /\ up \in Seq(Frames)
    /\ down \in [Exchanges -> Seq(HostEvents)]
    /\ link \/ \A c \in Exchanges : peer[c] = "closed"

HostTypeOK ==
    /\ host \in [entry: {"none", "preparing", "running", "finished", "result"},
                 resume: BOOLEAN, detached: BOOLEAN, aborted: BOOLEAN,
                 replay: BOOLEAN, seen: BOOLEAN, recovery: {"none", "waiting", "result"}]
    /\ receipt \in {"none", "started", "saved"}
    /\ native \in {"none", "unfinished", "finished", "interrupted"}
    /\ runs \in Nat
    /\ faults \in [kinds: SUBSET FaultKinds, left: Nat]

RuntimeTypeOK == SessionTypeOK /\ WireTypeOK /\ HostTypeOK

\* The harness runs at most once for a turn, whatever is lost, resumed or restarted.
RunsOnce == runs <= 1

\* A confirmed stop and a late result exclude each other: the turn has one final message,
\* and it is the one its row says.  (An executor that lost its lease before failSessionTurn
\* may still turn an interrupted row into a failed one; the message stays.)
OneOutcome ==
    /\ turn.final = "result" => ~Active /\ turn.recovery # "confirmed_stopped"
    /\ turn.final = "note"   => ~Active /\ turn.recovery = "confirmed_stopped"

\* The host drops its receipt only once the result is in the session.
AckedIsDurable == [][receipt # "none" /\ receipt' = "none" => turn.final = "result"]_receipt

\* Unknown execution outcomes remain active: a turn does not fail while the host runs it
\* or holds its result (DecideFailure) ...
UnknownNeverFails == turn.status = "failed" => host.entry \notin {"running", "finished"} /\ ~Recoverable

\* ... as long as no second exchange is told "busy": no lease is lost and no gateway is full.
UnknownStaysActive == faults.kinds \intersect {"lease", "slots"} = {} => UnknownNeverFails

\* A turn that says "executing" when its executor is gone asks for attention or is settled ...
Silent   == turn.recovery = "executing" /\ Active /\ At("executor", "off")
Surfaced == Silent ~> ~Silent

\* ... at least when its harness has been started ...
StartedIsHeard == (Silent /\ runs > 0) ~> ~Silent

\* ... and nothing but it and the agent's
\* processes fails (the recovery job of the gateway, the resolution in recovery.ts).
OnlyProcessesFail == faults.kinds \subseteq {"agent", "harness"}
StartedSurfaces == (OnlyProcessesFail /\ Silent /\ runs > 0) ~> ~Silent

\* A confirmed stop ends the turn, whatever of these processes dies.
ConfirmedEnds == (OnlyProcessesFail /\ turn.recovery = "confirmed_stopped") ~> ~Active

\* A result that a connected host has saved reaches the session (connection.ts) ...
SavedReaches == (receipt = "saved" /\ link) ~> (~Active \/ ~link)

\* ... when nothing but the harness and the agent's processes fails.
SavedIsRecovered == (OnlyProcessesFail /\ receipt = "saved" /\ link) ~> (~Active \/ ~link)
=============================================================================
