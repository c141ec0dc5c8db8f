----------------------- MODULE RuntimeRecoveryProofs -----------------------
(***************************************************************************)
(* Proofs about a turn on a person's own machine, for any plan of faults,  *)
(* any number of attempts and any number of connections:                   *)
(*   - the types (RuntimeTypeOK);                                          *)
(*   - one final message, the one the row says (OneOutcome);               *)
(*   - the harness runs at most once (RunsOnce);                           *)
(*   - the host forgets its receipt only once the result is durable        *)
(*     (AckedIsDurable);                                                   *)
(*   - as long as no lease is lost and no gateway is full, a turn whose    *)
(*     outcome nobody knows does not fail (UnknownStaysActive).            *)
(***************************************************************************)
EXTENDS RuntimeRecovery, TLAPS

-----------------------------------------------------------------------------
(***************************************************************************)
(* Types.                                                                  *)
(***************************************************************************)
\* What the agent's side writes into the record of a client.
LEMMA MoveType ==
    ASSUME agent \in [Clients -> Progress], NEW c \in Clients, NEW place \in Places,
           NEW done \in BOOLEAN, NEW failure \in Failures, NEW n \in Nat
    PROVE  /\ [agent EXCEPT ![c].pc = place] \in [Clients -> Progress]
           /\ [agent EXCEPT ![c].pc = place, ![c].failure = failure] \in [Clients -> Progress]
           /\ [agent EXCEPT ![c].pc = place, ![c].completed = done] \in [Clients -> Progress]
           /\ [agent EXCEPT ![c].pc = place, ![c].dials = n] \in [Clients -> Progress]
           /\ [agent EXCEPT ![c].dials = n, ![c].failure = failure, ![c].pc = place] \in [Clients -> Progress]
           /\ [agent EXCEPT ![c] = Idle] \in [Clients -> Progress]
<1>1. [agent EXCEPT ![c].pc = place] \in [Clients -> Progress]
  BY DEF Progress
<1>2. [agent EXCEPT ![c].pc = place, ![c].failure = failure] \in [Clients -> Progress]
  BY DEF Progress
<1>3. [agent EXCEPT ![c].pc = place, ![c].completed = done] \in [Clients -> Progress]
  BY DEF Progress
<1>4. [agent EXCEPT ![c].pc = place, ![c].dials = n] \in [Clients -> Progress]
  BY DEF Progress
<1>5. [agent EXCEPT ![c].dials = n, ![c].failure = failure, ![c].pc = place] \in [Clients -> Progress]
  BY DEF Progress
<1>6. [agent EXCEPT ![c] = Idle] \in [Clients -> Progress]
  BY DEF Progress, Idle, Places, Failures
<1>. QED BY <1>1, <1>2, <1>3, <1>4, <1>5, <1>6

\* What the queue's helpers make of a job.
LEMMA JobType ==
    ASSUME job \in [Jobs -> JobRows], NEW j \in Jobs, NEW c \in Clients
    PROVE  /\ Enqueued(j) \in [Jobs -> JobRows]
           /\ Retried(j) \in [Jobs -> JobRows]
           /\ Removed(j) \in [Jobs -> JobRows]
           /\ RecoverAfter(c, job) \in [Jobs -> JobRows]
           /\ [job EXCEPT ![j].state = "active"] \in [Jobs -> JobRows]
           /\ [job EXCEPT ![j].state = "waiting"] \in [Jobs -> JobRows]
           /\ RecoverAfter(c, [job EXCEPT ![j].state = "waiting"]) \in [Jobs -> JobRows]
BY RecoveryAssumption DEF JobRows, Enqueued, Retried, Removed, RecoverAfter, Jobs

\* What an exchange makes of the next frame, and of a result that is durable.
LEMMA ExchangeType ==
    ASSUME agent \in [Clients -> Progress], down \in [Exchanges -> Seq(HostEvents)],
           NEW c \in Exchanges, Receive(c) \/ Acknowledge(c)
    PROVE  agent' \in [Clients -> Progress]
<1>. DEFINE event == Head(down[c])
<1>1. c \in Clients
  BY DEF Clients
<1>2. CASE Receive(c) /\ event \in Ends
  <2>. DEFINE place == IF agent[c].completed THEN "ack" ELSE "check"
  <2>1. agent' = [agent EXCEPT ![c].pc = place, ![c].failure = event]
    BY <1>2 DEF Receive
  <2>2. place \in Places /\ event \in Failures
    BY <1>2 DEF Places, Failures, HostEvents
  <2>. QED BY <2>1, <2>2, <1>1, MoveType
<1>3. CASE Receive(c) /\ event \notin Ends
  <2>. DEFINE place   == IF event = "acknowledged" \/ agent[c].completed THEN "done" ELSE "failed"
              failure == IF event = "error" THEN "plain" ELSE event
  <2>1. agent' = [agent EXCEPT ![c].pc = place, ![c].failure = failure]
    BY <1>3 DEF Receive
  <2>2. event \in HostEvents
    BY <1>3 DEF Receive
  <2>3. place \in Places /\ failure \in Failures
    BY <2>2 DEF Places, Failures
  <2>. QED BY <2>1, <2>3, <1>1, MoveType
<1>4. CASE Acknowledge(c)
  <2>. DEFINE place == IF peer[c] = "closed" THEN "dial" ELSE "open"
  <2>1. agent' = [agent EXCEPT ![c].pc = place, ![c].completed = TRUE]
    BY <1>4 DEF Acknowledge
  <2>2. place \in Places /\ TRUE \in BOOLEAN
    BY DEF Places
  <2>. HIDE DEF place
  <2>3. [agent EXCEPT ![c].pc = place, ![c].completed = TRUE] \in [Clients -> Progress]
    BY <2>2, <1>1 DEF Progress
  <2>. QED BY <2>1, <2>3
<1>. QED BY <1>2, <1>3, <1>4

\* A client leaves, or goes on with its lock.
LEMMA LeaveType ==
    ASSUME agent \in [Clients -> Progress], lock \in Clients \union {"free"}, lost \subseteq Clients,
           NEW c \in Clients, NEW place \in Places,
           Leave(c) \/ (Goto(c, place) /\ UNCHANGED <<lock, lost>>)
    PROVE  /\ agent' \in [Clients -> Progress]
           /\ lock' \in Clients \union {"free"} /\ lost' \subseteq Clients
<1>1. CASE Leave(c)
  <2>1. agent' = [agent EXCEPT ![c] = Idle] /\ lock' \in {lock, "free"} /\ lost' = lost \ {c}
    BY <1>1 DEF Leave, Release
  <2>2. Idle \in Progress
    BY DEF Idle, Progress, Places, Failures
  <2>. QED BY <2>1, <2>2
<1>2. CASE Goto(c, place) /\ UNCHANGED <<lock, lost>>
  BY <1>2 DEF Goto, Progress
<1>. QED BY <1>1, <1>2

\* The steps of a job after it has its lock.
LEMMA JobStepType ==
    ASSUME SessionTypeOK, NEW c \in Jobs, ReadTurn(c) \/ MarkStopped(c)
    PROVE  SessionTypeOK'
<1>1. c \in Clients /\ {"stop", "dial", "note"} \subseteq Places
  BY DEF Clients, Places
<1>2. \/ Leave(c)
      \/ \E place \in {"stop", "dial", "note"} : Goto(c, place) /\ UNCHANGED <<lock, lost>>
  BY DEF ReadTurn, MarkStopped
<1>3. /\ agent' \in [Clients -> Progress]
      /\ lock' \in Clients \union {"free"} /\ lost' \subseteq Clients
  BY <1>1, <1>2, LeaveType DEF SessionTypeOK
<1>4. job' \in {job, Removed(c), Retried(c)}
  BY DEF ReadTurn, MarkStopped
<1>5. job' \in [Jobs -> JobRows]
  BY <1>1, <1>4, JobType DEF SessionTypeOK
<1>6. turn' \in {turn, [turn EXCEPT !.recovery = "confirmed_stopped"]}
  BY DEF ReadTurn, MarkStopped
<1>7. turn' \in Rows
  BY <1>6 DEF SessionTypeOK, Rows
<1>. QED BY <1>3, <1>5, <1>7 DEF SessionTypeOK

\* The agent's side keeps its types.
LEMMA SessionStep ==
    ASSUME RuntimeTypeOK, Next \/ UNCHANGED vars
    PROVE  SessionTypeOK'
<1>. USE RecoveryAssumption DEF RuntimeTypeOK, SessionTypeOK, Rows, Progress, JobRows, Clients, Exchanges, Jobs,
         Places, Failures, HostEvents, Ends, At, Goto, Redial, Idle, Leave, Release, agentVars,
         Enqueued, Retried, Removed, RecoverAfter
<1>1. ASSUME NEW c \in Exchanges, Connect(c) PROVE SessionTypeOK'
  BY <1>1 DEF Connect
<1>2. ASSUME NEW c \in Exchanges, DialFails(c) PROVE SessionTypeOK'
  BY <1>2 DEF DialFails
<1>3. ASSUME NEW c \in Exchanges, GiveUp(c) PROVE SessionTypeOK'
  BY <1>3 DEF GiveUp
<1>4. ASSUME NEW c \in Exchanges, Disconnected(c) PROVE SessionTypeOK'
  BY <1>4 DEF Disconnected
<1>5. ASSUME NEW c \in Exchanges, TimesOut(c) PROVE SessionTypeOK'
  BY <1>5 DEF TimesOut
<1>6. ASSUME NEW c \in Exchanges, Receive(c) PROVE SessionTypeOK'
  <2>1. agent' \in [Clients -> Progress]
    BY <1>6, ExchangeType DEF WireTypeOK
  <2>2. job' \in {job, RecoverAfter(c, job)} /\ UNCHANGED <<turn, lock, lost>>
    BY <1>6 DEF Receive
  <2>. QED BY <2>1, <2>2
<1>7. ASSUME NEW c \in Exchanges, CheckStop(c) PROVE SessionTypeOK'
  BY <1>7 DEF CheckStop, Drop
<1>8. ASSUME NEW c \in Exchanges, PersistResult(c) PROVE SessionTypeOK'
  <2>1. turn' \in Rows
    BY <1>8 DEF PersistResult, Drop
  <2>2. agent' \in [Clients -> Progress]
    <3>1. Goto(c, "ack") \/ Redial(c)
      BY <1>8 DEF PersistResult, Drop
    <3>. QED BY <3>1
  <2>3. job' \in [Jobs -> JobRows]
    BY <1>8 DEF PersistResult, Drop
  <2>. QED BY <1>8, <2>1, <2>2, <2>3 DEF PersistResult
<1>9. ASSUME NEW c \in Exchanges, Acknowledge(c) PROVE SessionTypeOK'
  <2>1. agent' \in [Clients -> Progress]
    BY <1>9, ExchangeType DEF WireTypeOK
  <2>. QED BY <1>9, <2>1 DEF Acknowledge
<1>10. ASSUME NEW c \in Exchanges, ConnectRefused(c) PROVE SessionTypeOK'
  BY <1>10 DEF ConnectRefused
<1>11. ASSUME NEW c \in Jobs, TakeLock(c) PROVE SessionTypeOK'
  BY <1>11 DEF TakeLock
<1>12. ASSUME NEW c \in Jobs, ReadTurn(c) PROVE SessionTypeOK'
  BY <1>12, JobStepType
<1>13. ASSUME NEW c \in Jobs, MarkStopped(c) PROVE SessionTypeOK'
  BY <1>13, JobStepType
<1>14. ASSUME NEW c \in Jobs, WriteNote(c) PROVE SessionTypeOK'
  <2>1. turn' \in Rows
    BY <1>14 DEF WriteNote
  <2>2. agent' \in [Clients -> Progress] /\ lost' \subseteq Clients /\ lock' \in Clients \union {"free"}
    BY <1>14 DEF WriteNote
  <2>3. job' \in [Jobs -> JobRows]
    <3>1. job' \in {Removed(c), Retried(c)}
      BY <1>14 DEF WriteNote
    <3>. QED BY <3>1
  <2>. QED BY <2>1, <2>2, <2>3
<1>15. ASSUME NEW c \in Clients, AgentCrashes(c) PROVE SessionTypeOK'
  BY <1>15 DEF AgentCrashes
<1>16. ASSUME NEW c \in Clients, LeaseExpires(c) PROVE SessionTypeOK'
  BY <1>16 DEF LeaseExpires
<1>17. ASSUME NEW c \in Clients, NoticeLoss(c) PROVE SessionTypeOK'
  BY <1>17 DEF NoticeLoss
<1>18. CASE MarkExecuting
  BY <1>18 DEF MarkExecuting
<1>19. CASE ExecutorEnds
  BY <1>19 DEF ExecutorEnds
<1>20. CASE AskAttention
  BY <1>20 DEF AskAttention
<1>21. CASE EnqueueRecovery
  BY <1>21 DEF EnqueueRecovery
<1>22. CASE DecideFailure
  BY <1>22 DEF DecideFailure
<1>23. CASE FailTurn
  BY <1>23 DEF FailTurn
<1>24. CASE RecoveryEnds
  BY <1>24 DEF RecoveryEnds
<1>25. CASE HostTakes
  BY <1>25 DEF HostTakes
<1>26. CASE Prepare
  BY <1>26 DEF Prepare
<1>27. CASE HarnessEnds
  BY <1>27 DEF HarnessEnds
<1>28. CASE SaveResult
  BY <1>28 DEF SaveResult
<1>29. CASE ReplayResult
  BY <1>29 DEF ReplayResult
<1>30. CASE RecoverResult
  BY <1>30 DEF RecoverResult
<1>31. CASE Confirm
  BY <1>31 DEF Confirm
<1>32. CASE LinkReturns
  BY <1>32 DEF LinkReturns
<1>33. CASE LockExpires
  BY <1>33 DEF LockExpires
<1>34. CASE LinkDrops
  BY <1>34 DEF LinkDrops, Cut
<1>35. CASE HostRestarts
  BY <1>35 DEF HostRestarts, Cut
<1>36. CASE HarnessFails
  BY <1>36 DEF HarnessFails
<1>37. CASE UNCHANGED vars
  BY <1>37 DEF vars
<1>. QED BY <1>1, <1>2, <1>3, <1>4, <1>5, <1>6, <1>7, <1>8, <1>9, <1>10, <1>11, <1>12,
            <1>13, <1>14, <1>15, <1>16, <1>17, <1>18, <1>19, <1>20, <1>21, <1>22, <1>23, <1>24,
            <1>25, <1>26, <1>27, <1>28, <1>29, <1>30, <1>31, <1>32, <1>33, <1>34, <1>35, <1>36,
            <1>37
          DEF Next, ExecutorStep, ExchangeStep, RecoverStep, JobStep, HostStep, Clients, Exchanges, Jobs

\* The end of an agent's connection, and an event for it.
LEMMA GoneType ==
    ASSUME WireTypeOK, NEW c \in Exchanges, PeerGone(c), link' = link
    PROVE  WireTypeOK'
<1>1. [type |-> "abort", of |-> c, resume |-> FALSE] \in Frames
  BY DEF Frames
<1>2. up' \in Seq(Frames)
  BY <1>1 DEF WireTypeOK, PeerGone
<1>. QED BY <1>2 DEF WireTypeOK, PeerGone

LEMMA SentType ==
    ASSUME down \in [Exchanges -> Seq(HostEvents)], NEW c \in Exchanges, NEW event \in HostEvents
    PROVE  Sent(event, c) \in [Exchanges -> Seq(HostEvents)]
BY DEF Sent

LEMMA ReplayType ==
    ASSUME down \in [Exchanges -> Seq(HostEvents)], NEW c \in Exchanges, Replay(c)
    PROVE  down' \in [Exchanges -> Seq(HostEvents)]
<1>1. {SavedEnd, "unavailable"} \subseteq HostEvents
  BY DEF SavedEnd, HostEvents, Ends
<1>. QED BY <1>1, SentType DEF Replay

\* The wire keeps its types.
LEMMA WireStep ==
    ASSUME RuntimeTypeOK, Next \/ UNCHANGED vars
    PROVE  WireTypeOK'
<1>. /\ WireTypeOK
     /\ down \in [Exchanges -> Seq(HostEvents)]
     /\ {"executor", "recover"} = Exchanges
     /\ {"end", "aborted", "unavailable", "error", "acknowledged"} = HostEvents
     /\ SavedEnd \in HostEvents
  BY DEF RuntimeTypeOK, WireTypeOK, Exchanges, HostEvents, Ends, SavedEnd
<1>. USE DEF wireVars, hostVars
<1>1. ASSUME NEW c \in Exchanges, Connect(c) PROVE WireTypeOK'
  <2>. DEFINE command == [type |-> IF c = "executor" THEN "start" ELSE "recover", of |-> c, resume |-> Started(c)]
              abort   == [type |-> "abort", of |-> c, resume |-> FALSE]
  <2>1. command \in Frames /\ abort \in Frames
    <3>1. Started(c) \in BOOLEAN
      BY DEF Started
    <3>. QED BY <3>1 DEF Frames
  <2>2. up' \in Seq(Frames)
    <3>1. up' = Append(Append(up, command), abort) \/ up' = Append(up, command)
      BY <1>1 DEF Connect
    <3>. HIDE DEF command, abort
    <3>2. Append(up, command) \in Seq(Frames)
      BY <2>1 DEF WireTypeOK
    <3>3. Append(Append(up, command), abort) \in Seq(Frames)
      BY <2>1, <3>2
    <3>. QED BY <3>1, <3>2, <3>3
  <2>3. peer' = [peer EXCEPT ![c] = "open"] /\ link' = link /\ link /\ down' = down
    BY <1>1 DEF Connect
  <2>. QED BY <2>2, <2>3 DEF WireTypeOK
<1>2. ASSUME NEW c \in Exchanges, DialFails(c) PROVE WireTypeOK'
  BY <1>2 DEF DialFails, WireTypeOK
<1>3. ASSUME NEW c \in Exchanges, GiveUp(c) PROVE WireTypeOK'
  BY <1>3 DEF GiveUp, WireTypeOK
<1>4. ASSUME NEW c \in Exchanges, Disconnected(c) PROVE WireTypeOK'
  BY <1>4 DEF Disconnected, WireTypeOK
<1>5. ASSUME NEW c \in Exchanges, TimesOut(c) PROVE WireTypeOK'
  BY <1>5, GoneType DEF TimesOut
<1>6. ASSUME NEW c \in Exchanges, Receive(c) PROVE WireTypeOK'
  <2>1. CASE PeerGone(c)
    BY <1>6, <2>1, GoneType DEF Receive
  <2>2. CASE down' = [down EXCEPT ![c] = Tail(@)] /\ UNCHANGED <<peer, up>>
    BY <1>6, <2>2 DEF Receive, WireTypeOK
  <2>. QED BY <1>6, <2>1, <2>2 DEF Receive
<1>7. ASSUME NEW c \in Exchanges, CheckStop(c) PROVE WireTypeOK'
  <2>1. PeerGone(c) \/ UNCHANGED <<peer, down, up>>
    BY <1>7 DEF CheckStop, Drop
  <2>. QED BY <1>7, <2>1, GoneType DEF CheckStop, WireTypeOK
<1>8. ASSUME NEW c \in Exchanges, PersistResult(c) PROVE WireTypeOK'
  <2>1. PeerGone(c) \/ UNCHANGED <<peer, down, up>>
    BY <1>8 DEF PersistResult, Drop
  <2>. QED BY <1>8, <2>1, GoneType DEF PersistResult, WireTypeOK
<1>9. ASSUME NEW c \in Exchanges, Acknowledge(c) PROVE WireTypeOK'
  <2>1. up' \in Seq(Frames)
    <3>. DEFINE ack == [type |-> "ack", of |-> c, resume |-> FALSE]
    <3>1. up' \in {up, Append(up, ack)}
      BY <1>9 DEF Acknowledge
    <3>2. ack \in Frames
      BY DEF Frames
    <3>. HIDE DEF ack
    <3>. QED BY <3>1, <3>2 DEF WireTypeOK
  <2>. QED BY <1>9, <2>1 DEF Acknowledge, WireTypeOK
<1>10. ASSUME NEW c \in Exchanges, ConnectRefused(c) PROVE WireTypeOK'
  BY <1>10 DEF ConnectRefused, WireTypeOK
<1>11. ASSUME NEW c \in Jobs, TakeLock(c) PROVE WireTypeOK'
  BY <1>11 DEF TakeLock, WireTypeOK
<1>12. ASSUME NEW c \in Jobs, ReadTurn(c) PROVE WireTypeOK'
  BY <1>12 DEF ReadTurn, WireTypeOK
<1>13. ASSUME NEW c \in Jobs, MarkStopped(c) PROVE WireTypeOK'
  BY <1>13 DEF MarkStopped, WireTypeOK
<1>14. ASSUME NEW c \in Jobs, WriteNote(c) PROVE WireTypeOK'
  BY <1>14 DEF WriteNote, WireTypeOK
<1>15. ASSUME NEW c \in Clients, AgentCrashes(c) PROVE WireTypeOK'
  <2>1. CASE c \in Exchanges
    BY <1>15, <2>1, GoneType DEF AgentCrashes
  <2>2. CASE c \notin Exchanges
    BY <1>15, <2>2 DEF AgentCrashes, WireTypeOK
  <2>. QED BY <2>1, <2>2
<1>16. ASSUME NEW c \in Clients, LeaseExpires(c) PROVE WireTypeOK'
  BY <1>16 DEF LeaseExpires, WireTypeOK
<1>17. ASSUME NEW c \in Clients, NoticeLoss(c) PROVE WireTypeOK'
  <2>1. up' \in Seq(Frames)
    <3>. DEFINE abort == [type |-> "abort", of |-> c, resume |-> FALSE]
    <3>1. up' = up \/ (up' = Append(up, abort) /\ c \in Exchanges)
      BY <1>17 DEF NoticeLoss
    <3>2. c \in Exchanges => abort \in Frames
      BY DEF Frames
    <3>. HIDE DEF abort
    <3>. QED BY <3>1, <3>2 DEF WireTypeOK
  <2>. QED BY <1>17, <2>1 DEF NoticeLoss, WireTypeOK
<1>18. CASE MarkExecuting
  BY <1>18 DEF MarkExecuting, WireTypeOK
<1>19. CASE ExecutorEnds
  BY <1>19 DEF ExecutorEnds, WireTypeOK
<1>20. CASE AskAttention
  BY <1>20 DEF AskAttention, WireTypeOK
<1>21. CASE EnqueueRecovery
  BY <1>21 DEF EnqueueRecovery, WireTypeOK
<1>22. CASE DecideFailure
  BY <1>22 DEF DecideFailure, WireTypeOK
<1>23. CASE FailTurn
  BY <1>23 DEF FailTurn, WireTypeOK
<1>24. CASE RecoveryEnds
  BY <1>24 DEF RecoveryEnds, WireTypeOK
<1>25. CASE HostTakes
  <2>. DEFINE frame == Head(up)
  <2>1. down' \in [Exchanges -> Seq(HostEvents)]
    <3>1. frame.of \in Exchanges
      <4>1. frame \in Frames
        BY <1>25 DEF HostTakes, WireTypeOK
      <4>. QED BY <4>1 DEF Frames
    <3>2. CASE TakeStart(frame)
      BY <3>2, SentType DEF TakeStart
    <3>3. CASE TakeRecover(frame)
      BY <3>3, ReplayType DEF TakeRecover
    <3>4. CASE TakeAbort(frame)
      BY <3>4 DEF TakeAbort
    <3>5. CASE TakeAck(frame)
      BY <3>1, <3>5, SentType DEF TakeAck
    <3>. QED BY <1>25, <3>2, <3>3, <3>4, <3>5 DEF HostTakes
  <2>2. up' \in Seq(Frames)
    BY <1>25 DEF HostTakes, WireTypeOK
  <2>. QED BY <1>25, <2>1, <2>2 DEF HostTakes, WireTypeOK
<1>26. CASE Prepare
  <2>1. down' \in [Exchanges -> Seq(HostEvents)]
    <3>1. \/ down' = down
          \/ \E event \in HostEvents : down' = Sent(event, "executor")
      BY <1>26 DEF Prepare
    <3>. QED BY <3>1, SentType
  <2>. QED BY <1>26, <2>1 DEF Prepare, WireTypeOK
<1>27. CASE HarnessEnds
  BY <1>27 DEF HarnessEnds, WireTypeOK
<1>28. CASE SaveResult
  <2>1. down' \in [Exchanges -> Seq(HostEvents)]
    BY <1>28, SentType DEF SaveResult
  <2>. QED BY <1>28, <2>1 DEF SaveResult, WireTypeOK
<1>29. CASE ReplayResult
  <2>1. down' \in [Exchanges -> Seq(HostEvents)]
    BY <1>29, ReplayType DEF ReplayResult
  <2>. QED BY <1>29, <2>1 DEF ReplayResult, WireTypeOK
<1>30. CASE RecoverResult
  <2>1. down' \in [Exchanges -> Seq(HostEvents)]
    BY <1>30, ReplayType DEF RecoverResult
  <2>. QED BY <1>30, <2>1 DEF RecoverResult, WireTypeOK
<1>31. CASE Confirm
  BY <1>31 DEF Confirm, WireTypeOK
<1>32. CASE LinkReturns
  BY <1>32 DEF LinkReturns, WireTypeOK
<1>33. CASE LockExpires
  BY <1>33 DEF LockExpires, WireTypeOK
<1>34. CASE LinkDrops
  <2>1. link' = FALSE /\ up' = <<>> /\ down' = down /\ peer' = [c \in Exchanges |-> "closed"]
    BY <1>34 DEF LinkDrops, Cut
  <2>2. up' \in Seq(Frames)
    BY <2>1
  <2>3. peer' \in [Exchanges -> {"closed", "open", "acked"}] /\ \A c \in Exchanges : peer'[c] = "closed"
    BY <2>1
  <2>. QED BY <2>1, <2>2, <2>3 DEF WireTypeOK
<1>35. CASE HostRestarts
  <2>1. link' = FALSE /\ up' = <<>> /\ down' = down /\ peer' = [c \in Exchanges |-> "closed"]
    BY <1>35 DEF HostRestarts, Cut
  <2>2. up' \in Seq(Frames)
    BY <2>1
  <2>3. peer' \in [Exchanges -> {"closed", "open", "acked"}] /\ \A c \in Exchanges : peer'[c] = "closed"
    BY <2>1
  <2>. QED BY <2>1, <2>2, <2>3 DEF WireTypeOK
<1>36. CASE HarnessFails
  <2>1. down' \in [Exchanges -> Seq(HostEvents)]
    BY <1>36, SentType DEF HarnessFails
  <2>. QED BY <1>36, <2>1 DEF HarnessFails, WireTypeOK
<1>37. CASE UNCHANGED vars
  BY <1>37 DEF vars, WireTypeOK
<1>. QED BY <1>1, <1>2, <1>3, <1>4, <1>5, <1>6, <1>7, <1>8, <1>9, <1>10, <1>11, <1>12,
            <1>13, <1>14, <1>15, <1>16, <1>17, <1>18, <1>19, <1>20, <1>21, <1>22, <1>23, <1>24,
            <1>25, <1>26, <1>27, <1>28, <1>29, <1>30, <1>31, <1>32, <1>33, <1>34, <1>35, <1>36,
            <1>37
          DEF Next, ExecutorStep, ExchangeStep, RecoverStep, JobStep, HostStep, Clients, Exchanges, Jobs

\* The host keeps its types.
LEMMA HostStepType ==
    ASSUME RuntimeTypeOK, Next \/ UNCHANGED vars
    PROVE  HostTypeOK'
<1>. HostTypeOK
  BY DEF RuntimeTypeOK
<1>. USE DEF hostVars, HostTypeOK
<1>1. ASSUME NEW c \in Exchanges, Connect(c) PROVE HostTypeOK'
  BY <1>1 DEF Connect
<1>2. ASSUME NEW c \in Exchanges, DialFails(c) PROVE HostTypeOK'
  BY <1>2 DEF DialFails
<1>3. ASSUME NEW c \in Exchanges, GiveUp(c) PROVE HostTypeOK'
  BY <1>3 DEF GiveUp
<1>4. ASSUME NEW c \in Exchanges, Disconnected(c) PROVE HostTypeOK'
  BY <1>4 DEF Disconnected
<1>5. ASSUME NEW c \in Exchanges, TimesOut(c) PROVE HostTypeOK'
  BY <1>5 DEF TimesOut, Fault
<1>6. ASSUME NEW c \in Exchanges, Receive(c) PROVE HostTypeOK'
  BY <1>6 DEF Receive
<1>7. ASSUME NEW c \in Exchanges, CheckStop(c) PROVE HostTypeOK'
  BY <1>7 DEF CheckStop
<1>8. ASSUME NEW c \in Exchanges, PersistResult(c) PROVE HostTypeOK'
  BY <1>8 DEF PersistResult
<1>9. ASSUME NEW c \in Exchanges, Acknowledge(c) PROVE HostTypeOK'
  BY <1>9 DEF Acknowledge
<1>10. ASSUME NEW c \in Exchanges, ConnectRefused(c) PROVE HostTypeOK'
  BY <1>10 DEF ConnectRefused, Fault
<1>11. ASSUME NEW c \in Jobs, TakeLock(c) PROVE HostTypeOK'
  BY <1>11 DEF TakeLock, Fault
<1>12. ASSUME NEW c \in Jobs, ReadTurn(c) PROVE HostTypeOK'
  BY <1>12 DEF ReadTurn
<1>13. ASSUME NEW c \in Jobs, MarkStopped(c) PROVE HostTypeOK'
  BY <1>13 DEF MarkStopped
<1>14. ASSUME NEW c \in Jobs, WriteNote(c) PROVE HostTypeOK'
  BY <1>14 DEF WriteNote
<1>15. ASSUME NEW c \in Clients, AgentCrashes(c) PROVE HostTypeOK'
  BY <1>15 DEF AgentCrashes, Fault
<1>16. ASSUME NEW c \in Clients, LeaseExpires(c) PROVE HostTypeOK'
  BY <1>16 DEF LeaseExpires, Fault
<1>17. ASSUME NEW c \in Clients, NoticeLoss(c) PROVE HostTypeOK'
  BY <1>17 DEF NoticeLoss
<1>18. CASE MarkExecuting
  BY <1>18 DEF MarkExecuting
<1>19. CASE ExecutorEnds
  BY <1>19 DEF ExecutorEnds
<1>20. CASE AskAttention
  BY <1>20 DEF AskAttention
<1>21. CASE EnqueueRecovery
  BY <1>21 DEF EnqueueRecovery
<1>22. CASE DecideFailure
  BY <1>22 DEF DecideFailure
<1>23. CASE FailTurn
  BY <1>23 DEF FailTurn
<1>24. CASE RecoveryEnds
  BY <1>24 DEF RecoveryEnds
<1>25. CASE HostTakes
  <2>. DEFINE frame == Head(up)
  <2>1. frame.resume \in BOOLEAN
    <3>1. frame \in Frames
      BY <1>25 DEF HostTakes, RuntimeTypeOK, WireTypeOK
    <3>. QED BY <3>1 DEF Frames
  <2>2. CASE TakeStart(frame)
    BY <1>25, <2>1, <2>2 DEF HostTakes, TakeStart
  <2>3. CASE TakeRecover(frame)
    BY <1>25, <2>3 DEF HostTakes, TakeRecover, Replay, Running
  <2>4. CASE TakeAbort(frame)
    BY <1>25, <2>4 DEF HostTakes, TakeAbort, Running
  <2>5. CASE TakeAck(frame)
    BY <1>25, <2>5 DEF HostTakes, TakeAck, NoEntry
  <2>. QED BY <1>25, <2>2, <2>3, <2>4, <2>5 DEF HostTakes
<1>26. CASE Prepare
  <2>1. \/ host' = [host EXCEPT !.entry = "result"]
        \/ host' = NoEntry(host)
        \/ host' = [host EXCEPT !.entry = "running"]
    BY <1>26 DEF Prepare
  <2>2. receipt' \in {receipt, "saved", "started"} /\ native' \in {native, "unfinished"} /\ runs' \in {runs, runs + 1}
    BY <1>26 DEF Prepare
  <2>3. host' \in [entry: {"none", "preparing", "running", "finished", "result"},
                  resume: BOOLEAN, detached: BOOLEAN, aborted: BOOLEAN,
                  replay: BOOLEAN, seen: BOOLEAN, recovery: {"none", "waiting", "result"}]
    BY <2>1 DEF NoEntry
  <2>4. faults' = faults
    BY <1>26 DEF Prepare
  <2>. QED BY <2>2, <2>3, <2>4
<1>27. CASE HarnessEnds
  BY <1>27 DEF HarnessEnds
<1>28. CASE SaveResult
  BY <1>28 DEF SaveResult
<1>29. CASE ReplayResult
  BY <1>29 DEF ReplayResult, Replay
<1>30. CASE RecoverResult
  BY <1>30 DEF RecoverResult, Replay, NoEntry
<1>31. CASE Confirm
  BY <1>31 DEF Confirm
<1>32. CASE LinkReturns
  BY <1>32 DEF LinkReturns
<1>33. CASE LockExpires
  BY <1>33 DEF LockExpires
<1>34. CASE LinkDrops
  <2>1. (host.detached \/ host.entry # "none") \in BOOLEAN
    OBVIOUS
  <2>2. host' \in [entry: {"none", "preparing", "running", "finished", "result"},
                  resume: BOOLEAN, detached: BOOLEAN, aborted: BOOLEAN,
                  replay: BOOLEAN, seen: BOOLEAN, recovery: {"none", "waiting", "result"}]
    BY <1>34, <2>1 DEF LinkDrops
  <2>3. faults' \in [kinds: SUBSET FaultKinds, left: Nat]
    BY <1>34 DEF LinkDrops, Fault
  <2>. QED BY <1>34, <2>2, <2>3 DEF LinkDrops
<1>35. CASE HostRestarts
  BY <1>35 DEF HostRestarts, HostIdle, Fault
<1>36. CASE HarnessFails
  <2>1. host' \in [entry: {"none", "preparing", "running", "finished", "result"},
                  resume: BOOLEAN, detached: BOOLEAN, aborted: BOOLEAN,
                  replay: BOOLEAN, seen: BOOLEAN, recovery: {"none", "waiting", "result"}]
    BY <1>36 DEF HarnessFails, NoEntry
  <2>2. faults' \in [kinds: SUBSET FaultKinds, left: Nat]
    BY <1>36 DEF HarnessFails, Fault
  <2>. QED BY <1>36, <2>1, <2>2 DEF HarnessFails
<1>37. CASE UNCHANGED vars
  BY <1>37 DEF vars
<1>. QED BY <1>1, <1>2, <1>3, <1>4, <1>5, <1>6, <1>7, <1>8, <1>9, <1>10, <1>11, <1>12,
            <1>13, <1>14, <1>15, <1>16, <1>17, <1>18, <1>19, <1>20, <1>21, <1>22, <1>23, <1>24,
            <1>25, <1>26, <1>27, <1>28, <1>29, <1>30, <1>31, <1>32, <1>33, <1>34, <1>35, <1>36,
            <1>37
          DEF Next, ExecutorStep, ExchangeStep, RecoverStep, JobStep, HostStep, Clients, Exchanges, Jobs

\* RuntimeTypeOK: the state of a turn on a local runtime has the shape the code gives it.
THEOREM RuntimeTypes == Spec => []RuntimeTypeOK
<1>1. Init => RuntimeTypeOK
  <2>. SUFFICES ASSUME Init PROVE RuntimeTypeOK
    OBVIOUS
  <2>1. SessionTypeOK
    <3>1. agent \in [Clients -> Progress]
      <4>1. {Idle, [Idle EXCEPT !.pc = "claimed"]} \subseteq Progress
        <5>1. Idle \in Progress
          BY DEF Idle, Progress, Places, Failures
        <5>2. [Idle EXCEPT !.pc = "claimed"] \in Progress
          BY <5>1 DEF Progress, Places
        <5>. QED BY <5>1, <5>2
      <4>. QED BY <4>1 DEF Init
    <3>. QED BY <3>1, RecoveryAssumption DEF Init, SessionTypeOK, Rows, JobRows, Clients, Exchanges
  <2>2. WireTypeOK
    BY DEF Init, WireTypeOK
  <2>3. HostTypeOK
    BY RecoveryAssumption DEF Init, HostTypeOK, HostIdle
  <2>. QED BY <2>1, <2>2, <2>3 DEF RuntimeTypeOK
<1>2. RuntimeTypeOK /\ [Next]_vars => RuntimeTypeOK'
  BY SessionStep, WireStep, HostStepType DEF RuntimeTypeOK
<1>. QED BY <1>1, <1>2, PTL DEF Spec

-----------------------------------------------------------------------------
(***************************************************************************)
(* One final message.                                                      *)
(***************************************************************************)
\* A step keeps the message and the row together: a result is written only while the row is
\* open and active, and a note only under a confirmed stop.
LEMMA OutcomeStep ==
    ASSUME RuntimeTypeOK, OneOutcome, Next \/ UNCHANGED vars
    PROVE  OneOutcome'
<1>. turn \in Rows
  BY DEF RuntimeTypeOK, SessionTypeOK
<1>. USE DEF Rows, OneOutcome, Active, Open, agentVars
<1>1. ASSUME NEW c \in Exchanges, Connect(c) PROVE OneOutcome'
  BY <1>1 DEF Connect
<1>2. ASSUME NEW c \in Exchanges, DialFails(c) PROVE OneOutcome'
  BY <1>2 DEF DialFails
<1>3. ASSUME NEW c \in Exchanges, GiveUp(c) PROVE OneOutcome'
  BY <1>3 DEF GiveUp
<1>4. ASSUME NEW c \in Exchanges, Disconnected(c) PROVE OneOutcome'
  BY <1>4 DEF Disconnected
<1>5. ASSUME NEW c \in Exchanges, TimesOut(c) PROVE OneOutcome'
  BY <1>5 DEF TimesOut
<1>6. ASSUME NEW c \in Exchanges, Receive(c) PROVE OneOutcome'
  BY <1>6 DEF Receive
<1>7. ASSUME NEW c \in Exchanges, CheckStop(c) PROVE OneOutcome'
  BY <1>7 DEF CheckStop, Drop
<1>8. ASSUME NEW c \in Exchanges, PersistResult(c) PROVE OneOutcome'
  BY <1>8 DEF PersistResult, Drop
<1>9. ASSUME NEW c \in Exchanges, Acknowledge(c) PROVE OneOutcome'
  BY <1>9 DEF Acknowledge
<1>10. ASSUME NEW c \in Exchanges, ConnectRefused(c) PROVE OneOutcome'
  BY <1>10 DEF ConnectRefused
<1>11. ASSUME NEW c \in Jobs, TakeLock(c) PROVE OneOutcome'
  BY <1>11 DEF TakeLock
<1>12. ASSUME NEW c \in Jobs, ReadTurn(c) PROVE OneOutcome'
  BY <1>12 DEF ReadTurn
<1>13. ASSUME NEW c \in Jobs, MarkStopped(c) PROVE OneOutcome'
  BY <1>13 DEF MarkStopped
<1>14. ASSUME NEW c \in Jobs, WriteNote(c) PROVE OneOutcome'
  BY <1>14 DEF WriteNote
<1>15. ASSUME NEW c \in Clients, AgentCrashes(c) PROVE OneOutcome'
  BY <1>15 DEF AgentCrashes
<1>16. ASSUME NEW c \in Clients, LeaseExpires(c) PROVE OneOutcome'
  BY <1>16 DEF LeaseExpires
<1>17. ASSUME NEW c \in Clients, NoticeLoss(c) PROVE OneOutcome'
  BY <1>17 DEF NoticeLoss
<1>18. CASE MarkExecuting
  BY <1>18 DEF MarkExecuting
<1>19. CASE ExecutorEnds
  BY <1>19 DEF ExecutorEnds
<1>20. CASE AskAttention
  BY <1>20 DEF AskAttention
<1>21. CASE EnqueueRecovery
  BY <1>21 DEF EnqueueRecovery
<1>22. CASE DecideFailure
  BY <1>22 DEF DecideFailure
<1>23. CASE FailTurn
  BY <1>23 DEF FailTurn
<1>24. CASE RecoveryEnds
  BY <1>24 DEF RecoveryEnds
<1>25. CASE HostTakes
  BY <1>25 DEF HostTakes
<1>26. CASE Prepare
  BY <1>26 DEF Prepare
<1>27. CASE HarnessEnds
  BY <1>27 DEF HarnessEnds
<1>28. CASE SaveResult
  BY <1>28 DEF SaveResult
<1>29. CASE ReplayResult
  BY <1>29 DEF ReplayResult
<1>30. CASE RecoverResult
  BY <1>30 DEF RecoverResult
<1>31. CASE Confirm
  BY <1>31 DEF Confirm
<1>32. CASE LinkReturns
  BY <1>32 DEF LinkReturns
<1>33. CASE LockExpires
  BY <1>33 DEF LockExpires
<1>34. CASE LinkDrops
  BY <1>34 DEF LinkDrops
<1>35. CASE HostRestarts
  BY <1>35 DEF HostRestarts
<1>36. CASE HarnessFails
  BY <1>36 DEF HarnessFails
<1>37. CASE UNCHANGED vars
  BY <1>37 DEF vars
<1>. QED BY <1>1, <1>2, <1>3, <1>4, <1>5, <1>6, <1>7, <1>8, <1>9, <1>10, <1>11, <1>12,
            <1>13, <1>14, <1>15, <1>16, <1>17, <1>18, <1>19, <1>20, <1>21, <1>22, <1>23, <1>24,
            <1>25, <1>26, <1>27, <1>28, <1>29, <1>30, <1>31, <1>32, <1>33, <1>34, <1>35, <1>36,
            <1>37
          DEF Next, ExecutorStep, ExchangeStep, RecoverStep, JobStep, HostStep, Clients, Exchanges, Jobs

\* OneOutcome: a confirmed stop and a late result never both settle the turn (lockTurn, updateTurnRuntimeOutcome).
THEOREM OutcomeIsUnique == Spec => []OneOutcome
<1>1. Init => OneOutcome
  BY DEF Init, OneOutcome
<1>2. RuntimeTypeOK /\ OneOutcome /\ [Next]_vars => OneOutcome'
  BY OutcomeStep
<1>. QED BY <1>1, <1>2, RuntimeTypes, PTL DEF Spec

-----------------------------------------------------------------------------
(***************************************************************************)
(* The frames on their way to the host.                                    *)
(***************************************************************************)
\* Where a sequence of frames carries one of a kind.
Carried(frames, kind) == {i \in 1..Len(frames) : frames[i] \in kind}

FirstStarts == {f \in Frames : f.type = "start" /\ ~f.resume}
Acks        == {f \in Frames : f.type = "ack"}
AbortOf(c)  == [type |-> "abort", of |-> c, resume |-> FALSE]

LEMMA CarriedByAppend ==
    ASSUME NEW frames \in Seq(Frames), NEW f \in Frames, NEW kind
    PROVE  /\ f \notin kind => Carried(Append(frames, f), kind) = Carried(frames, kind)
           /\ f \in kind => Carried(Append(frames, f), kind) = Carried(frames, kind) \union {Len(frames) + 1}
BY DEF Carried

LEMMA CarriedByTail ==
    ASSUME NEW frames \in Seq(Frames), frames # <<>>, NEW kind, NEW i \in Carried(Tail(frames), kind)
    PROVE  i + 1 \in Carried(frames, kind) /\ i + 1 # 1 /\ i \in Nat
BY DEF Carried

LEMMA CarriedByHead ==
    ASSUME NEW frames \in Seq(Frames), frames # <<>>, NEW kind, Head(frames) \in kind
    PROVE  1 \in Carried(frames, kind)
BY DEF Carried

LEMMA AbortIsHarmless ==
    ASSUME NEW frames \in Seq(Frames), NEW c \in Exchanges
    PROVE  /\ AbortOf(c) \in Frames
           /\ Carried(Append(frames, AbortOf(c)), FirstStarts) = Carried(frames, FirstStarts)
           /\ Carried(Append(frames, AbortOf(c)), Acks) = Carried(frames, Acks)
<1>1. AbortOf(c) \in Frames /\ AbortOf(c).type = "abort"
  BY DEF AbortOf, Frames
<1>2. AbortOf(c) \notin FirstStarts /\ AbortOf(c) \notin Acks
  BY <1>1 DEF FirstStarts, Acks
<1>. HIDE DEF AbortOf
<1>. QED BY <1>1, <1>2, CarriedByAppend

-----------------------------------------------------------------------------
(***************************************************************************)
(* The harness runs at most once.                                          *)
(***************************************************************************)
\* The executor has sent no command yet; the host is about to start what nobody started before.
NewExecutor == agent["executor"].dials = 0 /\ ~At("executor", "off")
NewEntry    == host.entry = "preparing" /\ ~host.resume
NewStarts   == Carried(up, FirstStarts)

\* The right to start the harness is in one place at a time and is used up by the start.
OneStart ==
    /\ NewExecutor => NewStarts = {} /\ ~NewEntry /\ runs = 0
    /\ \A i \in NewStarts : ~NewEntry /\ runs = 0 /\ NewStarts = {i}
    /\ NewEntry => runs = 0
    /\ runs <= 1

\* A step that neither sends a command or an acknowledgement nor starts anything.
Harmless ==
    /\ runs' = runs
    /\ NewEntry' => NewEntry
    /\ NewExecutor' => NewExecutor
    /\ up' \in {up, <<>>} \/ \E c \in Exchanges : up' = Append(up, AbortOf(c))

\* The steps that do not concern the right to start.
LEMMA HarmlessSteps ==
    ASSUME RuntimeTypeOK, Next \/ UNCHANGED vars,
           ~HostTakes, ~Prepare, \A c \in Exchanges : ~Connect(c) /\ ~Acknowledge(c)
    PROVE  Harmless
<1>. /\ agent \in [Clients -> Progress]
     /\ host \in [entry: {"none", "preparing", "running", "finished", "result"},
                  resume: BOOLEAN, detached: BOOLEAN, aborted: BOOLEAN,
                  replay: BOOLEAN, seen: BOOLEAN, recovery: {"none", "waiting", "result"}]
  BY DEF RuntimeTypeOK, SessionTypeOK, HostTypeOK
<1>. USE DEF Harmless, NewEntry, NewExecutor, Progress, Clients, Exchanges, Jobs, At, Goto, Redial, Leave, Idle,
         PeerGone, AbortOf, agentVars, wireVars, hostVars
<1>1. ASSUME NEW c \in Exchanges, Connect(c) PROVE Harmless
  BY <1>1 DEF Connect
<1>2. ASSUME NEW c \in Exchanges, DialFails(c) PROVE Harmless
  BY <1>2 DEF DialFails
<1>3. ASSUME NEW c \in Exchanges, GiveUp(c) PROVE Harmless
  BY <1>3 DEF GiveUp
<1>4. ASSUME NEW c \in Exchanges, Disconnected(c) PROVE Harmless
  BY <1>4 DEF Disconnected
<1>5. ASSUME NEW c \in Exchanges, TimesOut(c) PROVE Harmless
  BY <1>5 DEF TimesOut
<1>6. ASSUME NEW c \in Exchanges, Receive(c) PROVE Harmless
  <2>1. up' = up \/ up' = Append(up, AbortOf(c))
    BY <1>6 DEF Receive
  <2>2. NewExecutor' => NewExecutor
    BY <1>6 DEF Receive
  <2>3. UNCHANGED <<runs, host>>
    BY <1>6 DEF Receive
  <2>. QED BY <2>1, <2>2, <2>3
<1>7. ASSUME NEW c \in Exchanges, CheckStop(c) PROVE Harmless
  <2>1. up' = up \/ up' = Append(up, AbortOf(c))
    BY <1>7 DEF CheckStop, Drop
  <2>2. NewExecutor' => NewExecutor
    BY <1>7 DEF CheckStop, Drop
  <2>3. UNCHANGED <<runs, host>>
    BY <1>7 DEF CheckStop
  <2>. QED BY <2>1, <2>2, <2>3
<1>8. ASSUME NEW c \in Exchanges, PersistResult(c) PROVE Harmless
  <2>1. up' = up \/ up' = Append(up, AbortOf(c))
    BY <1>8 DEF PersistResult, Drop
  <2>2. NewExecutor' => NewExecutor
    BY <1>8 DEF PersistResult, Drop
  <2>3. UNCHANGED <<runs, host>>
    BY <1>8 DEF PersistResult
  <2>. QED BY <2>1, <2>2, <2>3
<1>9. ASSUME NEW c \in Exchanges, Acknowledge(c) PROVE Harmless
  BY <1>9 DEF Acknowledge
<1>10. ASSUME NEW c \in Exchanges, ConnectRefused(c) PROVE Harmless
  BY <1>10 DEF ConnectRefused
<1>11. ASSUME NEW c \in Jobs, TakeLock(c) PROVE Harmless
  BY <1>11 DEF TakeLock
<1>12. ASSUME NEW c \in Jobs, ReadTurn(c) PROVE Harmless
  BY <1>12 DEF ReadTurn
<1>13. ASSUME NEW c \in Jobs, MarkStopped(c) PROVE Harmless
  BY <1>13 DEF MarkStopped
<1>14. ASSUME NEW c \in Jobs, WriteNote(c) PROVE Harmless
  BY <1>14 DEF WriteNote
<1>15. ASSUME NEW c \in Clients, AgentCrashes(c) PROVE Harmless
  BY <1>15 DEF AgentCrashes
<1>16. ASSUME NEW c \in Clients, LeaseExpires(c) PROVE Harmless
  BY <1>16 DEF LeaseExpires
<1>17. ASSUME NEW c \in Clients, NoticeLoss(c) PROVE Harmless
  BY <1>17 DEF NoticeLoss
<1>18. CASE MarkExecuting
  BY <1>18 DEF MarkExecuting
<1>19. CASE ExecutorEnds
  BY <1>19 DEF ExecutorEnds
<1>20. CASE AskAttention
  BY <1>20 DEF AskAttention
<1>21. CASE EnqueueRecovery
  BY <1>21 DEF EnqueueRecovery
<1>22. CASE DecideFailure
  BY <1>22 DEF DecideFailure
<1>23. CASE FailTurn
  BY <1>23 DEF FailTurn
<1>24. CASE RecoveryEnds
  BY <1>24 DEF RecoveryEnds
<1>25. CASE HostTakes
  BY <1>25 DEF HostTakes
<1>26. CASE Prepare
  BY <1>26 DEF Prepare
<1>27. CASE HarnessEnds
  BY <1>27 DEF HarnessEnds
<1>28. CASE SaveResult
  BY <1>28 DEF SaveResult
<1>29. CASE ReplayResult
  BY <1>29 DEF ReplayResult
<1>30. CASE RecoverResult
  BY <1>30 DEF RecoverResult, NoEntry
<1>31. CASE Confirm
  BY <1>31 DEF Confirm
<1>32. CASE LinkReturns
  BY <1>32 DEF LinkReturns
<1>33. CASE LockExpires
  BY <1>33 DEF LockExpires
<1>34. CASE LinkDrops
  BY <1>34 DEF LinkDrops, Cut
<1>35. CASE HostRestarts
  BY <1>35 DEF HostRestarts, Cut, HostIdle
<1>36. CASE HarnessFails
  BY <1>36 DEF HarnessFails, NoEntry
<1>37. CASE UNCHANGED vars
  BY <1>37 DEF vars
<1>. QED BY <1>1, <1>2, <1>3, <1>4, <1>5, <1>6, <1>7, <1>8, <1>9, <1>10, <1>11, <1>12,
            <1>13, <1>14, <1>15, <1>16, <1>17, <1>18, <1>19, <1>20, <1>21, <1>22, <1>23, <1>24,
            <1>25, <1>26, <1>27, <1>28, <1>29, <1>30, <1>31, <1>32, <1>33, <1>34, <1>35, <1>36,
            <1>37
          DEF Next, ExecutorStep, ExchangeStep, RecoverStep, JobStep, HostStep, Clients, Exchanges, Jobs

\* What a connection of the agent puts on the wire.
LEMMA ConnectSends ==
    ASSUME RuntimeTypeOK, NEW c \in Exchanges, Connect(c)
    PROVE  \E command \in Frames :
             /\ command.type = (IF c = "executor" THEN "start" ELSE "recover")
             /\ command.resume = (agent[c].dials > 0)
             /\ up' = Append(up, command) \/ up' = Append(Append(up, command), AbortOf(c))
<1>. DEFINE command == [type |-> IF c = "executor" THEN "start" ELSE "recover", of |-> c, resume |-> Started(c)]
<1>1. Started(c) = (agent[c].dials > 0)
  BY DEF Started
<1>2. command \in Frames
  BY <1>1 DEF Frames
<1>3. up' = Append(up, command) \/ up' = Append(Append(up, command), AbortOf(c))
  BY DEF Connect, AbortOf
<1>. QED BY <1>1, <1>2, <1>3

\* Only the first command of the executor is a first start.
LEMMA ConnectStarts ==
    ASSUME RuntimeTypeOK, NEW c \in Exchanges, Connect(c)
    PROVE  \/ c = "executor" /\ agent[c].dials = 0 /\ NewStarts' = NewStarts \union {Len(up) + 1}
           \/ ~(c = "executor" /\ agent[c].dials = 0) /\ NewStarts' = NewStarts
<1>1. up \in Seq(Frames) /\ agent[c].dials \in Nat
  BY DEF RuntimeTypeOK, WireTypeOK, SessionTypeOK, Progress, Clients
<1>2. PICK command \in Frames :
        /\ command.type = (IF c = "executor" THEN "start" ELSE "recover")
        /\ command.resume = (agent[c].dials > 0)
        /\ up' = Append(up, command) \/ up' = Append(Append(up, command), AbortOf(c))
  BY ConnectSends
<1>3. Append(up, command) \in Seq(Frames)
  BY <1>1
<1>4. NewStarts' = Carried(Append(up, command), FirstStarts)
  BY <1>2, <1>3, AbortIsHarmless DEF NewStarts
<1>5. (command \in FirstStarts) <=> (c = "executor" /\ agent[c].dials = 0)
  <2>1. (command \in FirstStarts) <=> (command.type = "start" /\ ~command.resume)
    BY DEF FirstStarts
  <2>2. command.type = "start" <=> c = "executor"
    BY <1>2
  <2>3. ~command.resume <=> agent[c].dials = 0
    <3>1. command.resume <=> agent[c].dials > 0
      BY <1>2, Zenon
    <3>2. agent[c].dials > 0 <=> agent[c].dials # 0
      BY <1>1
    <3>. QED BY <3>1, <3>2, Zenon
  <2>. QED BY <2>1, <2>2, <2>3
<1>. QED BY <1>1, <1>4, <1>5, CarriedByAppend DEF NewStarts

\* Every step keeps the right to start in one place.
LEMMA OneStartStep ==
    ASSUME RuntimeTypeOK, OneStart, Next \/ UNCHANGED vars
    PROVE  OneStart'
<1>1. /\ up \in Seq(Frames) /\ runs \in Nat
      /\ agent \in [Clients -> Progress] /\ "executor" \in Clients
      /\ host \in [entry: {"none", "preparing", "running", "finished", "result"},
                   resume: BOOLEAN, detached: BOOLEAN, aborted: BOOLEAN,
                   replay: BOOLEAN, seen: BOOLEAN, recovery: {"none", "waiting", "result"}]
  BY DEF RuntimeTypeOK, SessionTypeOK, WireTypeOK, HostTypeOK, Clients, Exchanges
<1>2. ASSUME Harmless PROVE OneStart'
  <2>1. NewStarts' \in {NewStarts, {}}
    <3>1. CASE up' = up
      BY <3>1 DEF NewStarts, Carried
    <3>2. CASE up' = <<>>
      BY <3>2 DEF NewStarts, Carried
    <3>3. ASSUME NEW c \in Exchanges, up' = Append(up, AbortOf(c)) PROVE NewStarts' = NewStarts
      BY <1>1, <3>3, AbortIsHarmless DEF NewStarts
    <3>. QED BY <1>2, <3>1, <3>2, <3>3 DEF Harmless
  <2>. QED BY <1>2, <2>1 DEF Harmless, OneStart
<1>3. ASSUME NEW c \in Exchanges, Acknowledge(c) PROVE OneStart'
  <2>1. NewStarts' = NewStarts
    <3>. DEFINE ack == [type |-> "ack", of |-> c, resume |-> FALSE]
    <3>1. up' \in {up, Append(up, ack)}
      BY <1>3 DEF Acknowledge
    <3>2. ack \in Frames /\ ack \notin FirstStarts
      BY DEF Frames, FirstStarts
    <3>. HIDE DEF ack
    <3>. QED BY <1>1, <3>1, <3>2, CarriedByAppend DEF NewStarts
  <2>2. NewExecutor' => NewExecutor
    BY <1>1, <1>3 DEF Acknowledge, NewExecutor, At, Progress, Clients
  <2>3. UNCHANGED <<runs, host>>
    BY <1>3 DEF Acknowledge, hostVars
  <2>. QED BY <2>1, <2>2, <2>3 DEF OneStart, NewEntry
<1>4. ASSUME NEW c \in Exchanges, Connect(c) PROVE OneStart'
  <2>1. UNCHANGED <<runs, host>>
    BY <1>4 DEF Connect, hostVars
  <2>2. NewExecutor' => NewExecutor /\ c # "executor"
    BY <1>1, <1>4 DEF Connect, NewExecutor, At, Progress, Clients
  <2>3. CASE c = "executor" /\ agent[c].dials = 0
    <3>1. NewExecutor
      BY <1>4, <2>3 DEF Connect, NewExecutor, At
    <3>2. NewStarts' = {Len(up) + 1}
      BY <1>4, <2>3, <3>1, ConnectStarts DEF OneStart
    <3>. QED BY <2>1, <2>2, <2>3, <3>1, <3>2 DEF OneStart, NewEntry
  <2>4. CASE ~(c = "executor" /\ agent[c].dials = 0)
    <3>1. NewStarts' = NewStarts
      BY <1>4, <2>4, ConnectStarts
    <3>. QED BY <2>1, <2>2, <3>1 DEF OneStart, NewEntry
  <2>. QED BY <2>3, <2>4
<1>5. CASE HostTakes
  <2>. DEFINE frame == Head(up)
  <2>1. up # <<>> /\ up' = Tail(up) /\ UNCHANGED <<agent, runs>>
    BY <1>5 DEF HostTakes, agentVars
  <2>2. NewExecutor' <=> NewExecutor
    BY <2>1 DEF NewExecutor, At
  <2>3. \A i \in NewStarts' : i + 1 \in NewStarts /\ i + 1 # 1 /\ i \in Nat
    BY <1>1, <2>1, CarriedByTail DEF NewStarts
  <2>4. frame \in Frames /\ (frame \in FirstStarts => 1 \in NewStarts)
    BY <1>1, <2>1, CarriedByHead DEF NewStarts
  <2>5. CASE frame \in FirstStarts
    <3>1. NewStarts = {1} /\ runs = 0 /\ ~NewExecutor
      BY <2>4, <2>5 DEF OneStart
    <3>2. NewStarts' = {}
      BY <2>3, <3>1
    <3>. QED BY <2>1, <2>2, <3>1, <3>2 DEF OneStart
  <2>6. CASE frame \notin FirstStarts
    <3>1. NewEntry' => NewEntry
      <4>1. CASE TakeStart(frame)
        <5>1. frame.resume
          BY <2>4, <2>6, <4>1 DEF FirstStarts, TakeStart, Frames
        <5>. QED BY <1>1, <4>1, <5>1 DEF TakeStart, NewEntry
      <4>2. CASE TakeRecover(frame)
        BY <1>1, <4>2 DEF TakeRecover, NewEntry
      <4>3. CASE TakeAbort(frame)
        BY <1>1, <4>3 DEF TakeAbort, NewEntry
      <4>4. CASE TakeAck(frame)
        BY <1>1, <4>4 DEF TakeAck, NoEntry, NewEntry
      <4>. QED BY <1>5, <4>1, <4>2, <4>3, <4>4 DEF HostTakes
    <3>2. \A i \in NewStarts' : NewStarts' = {i}
      BY <2>3 DEF OneStart
    <3>. QED BY <2>1, <2>2, <2>3, <3>1, <3>2 DEF OneStart
  <2>. QED BY <2>5, <2>6
<1>6. CASE Prepare
  <2>1. UNCHANGED <<agent, up>>
    BY <1>6 DEF Prepare, agentVars
  <2>2. NewStarts' = NewStarts /\ NewExecutor' = NewExecutor
    BY <2>1 DEF NewStarts, Carried, NewExecutor, At
  <2>3. ~NewEntry'
    BY <1>1, <1>6 DEF Prepare, NoEntry, NewEntry
  <2>4. runs' = runs \/ (NewEntry /\ runs' = runs + 1)
    BY <1>1, <1>6 DEF Prepare, NewEntry
  <2>. QED BY <1>1, <2>2, <2>3, <2>4 DEF OneStart
<1>. QED BY <1>2, <1>3, <1>4, <1>5, <1>6, HarmlessSteps

\* RunsOnce: the harness of a turn is started at most once, whatever is sent again, resumed, lost or
\* restarted (turn.start with resume, executionRetry, the receipts).
THEOREM HarnessRunsOnce == Spec => []RunsOnce
<1>1. Init => OneStart
  BY DEF Init, OneStart, NewStarts, NewExecutor, NewEntry, Carried, HostIdle, Idle, Clients, Exchanges, At
<1>2. RuntimeTypeOK /\ OneStart /\ [Next]_vars => OneStart'
  BY OneStartStep
<1>3. OneStart => RunsOnce
  BY DEF OneStart, RunsOnce
<1>. QED BY <1>1, <1>2, <1>3, RuntimeTypes, PTL DEF Spec

-----------------------------------------------------------------------------
(***************************************************************************)
(* The receipt is kept until the result is durable.                        *)
(***************************************************************************)
\* Whoever acknowledges, or has acknowledged, has seen the result in the session.
Certain(c) == At(c, "ack") \/ agent[c].completed

ResultInHand ==
    /\ \A c \in Exchanges : Certain(c) => turn.final = "result"
    /\ Carried(up, Acks) # {} => turn.final = "result"

\* A result stays the final message of the turn.
LEMMA ResultStays ==
    ASSUME RuntimeTypeOK, OneOutcome, turn.final = "result", Next \/ UNCHANGED vars
    PROVE  turn'.final = "result"
<1>. turn \in Rows
  BY DEF RuntimeTypeOK, SessionTypeOK
<1>. USE DEF Rows, OneOutcome, Active, Open, agentVars
<1>1. ASSUME NEW c \in Exchanges, Connect(c) PROVE turn'.final = "result"
  BY <1>1 DEF Connect
<1>2. ASSUME NEW c \in Exchanges, DialFails(c) PROVE turn'.final = "result"
  BY <1>2 DEF DialFails
<1>3. ASSUME NEW c \in Exchanges, GiveUp(c) PROVE turn'.final = "result"
  BY <1>3 DEF GiveUp
<1>4. ASSUME NEW c \in Exchanges, Disconnected(c) PROVE turn'.final = "result"
  BY <1>4 DEF Disconnected
<1>5. ASSUME NEW c \in Exchanges, TimesOut(c) PROVE turn'.final = "result"
  BY <1>5 DEF TimesOut
<1>6. ASSUME NEW c \in Exchanges, Receive(c) PROVE turn'.final = "result"
  BY <1>6 DEF Receive
<1>7. ASSUME NEW c \in Exchanges, CheckStop(c) PROVE turn'.final = "result"
  BY <1>7 DEF CheckStop, Drop
<1>8. ASSUME NEW c \in Exchanges, PersistResult(c) PROVE turn'.final = "result"
  BY <1>8 DEF PersistResult, Drop
<1>9. ASSUME NEW c \in Exchanges, Acknowledge(c) PROVE turn'.final = "result"
  BY <1>9 DEF Acknowledge
<1>10. ASSUME NEW c \in Exchanges, ConnectRefused(c) PROVE turn'.final = "result"
  BY <1>10 DEF ConnectRefused
<1>11. ASSUME NEW c \in Jobs, TakeLock(c) PROVE turn'.final = "result"
  BY <1>11 DEF TakeLock
<1>12. ASSUME NEW c \in Jobs, ReadTurn(c) PROVE turn'.final = "result"
  BY <1>12 DEF ReadTurn
<1>13. ASSUME NEW c \in Jobs, MarkStopped(c) PROVE turn'.final = "result"
  BY <1>13 DEF MarkStopped
<1>14. ASSUME NEW c \in Jobs, WriteNote(c) PROVE turn'.final = "result"
  BY <1>14 DEF WriteNote
<1>15. ASSUME NEW c \in Clients, AgentCrashes(c) PROVE turn'.final = "result"
  BY <1>15 DEF AgentCrashes
<1>16. ASSUME NEW c \in Clients, LeaseExpires(c) PROVE turn'.final = "result"
  BY <1>16 DEF LeaseExpires
<1>17. ASSUME NEW c \in Clients, NoticeLoss(c) PROVE turn'.final = "result"
  BY <1>17 DEF NoticeLoss
<1>18. CASE MarkExecuting
  BY <1>18 DEF MarkExecuting
<1>19. CASE ExecutorEnds
  BY <1>19 DEF ExecutorEnds
<1>20. CASE AskAttention
  BY <1>20 DEF AskAttention
<1>21. CASE EnqueueRecovery
  BY <1>21 DEF EnqueueRecovery
<1>22. CASE DecideFailure
  BY <1>22 DEF DecideFailure
<1>23. CASE FailTurn
  BY <1>23 DEF FailTurn
<1>24. CASE RecoveryEnds
  BY <1>24 DEF RecoveryEnds
<1>25. CASE HostTakes
  BY <1>25 DEF HostTakes
<1>26. CASE Prepare
  BY <1>26 DEF Prepare
<1>27. CASE HarnessEnds
  BY <1>27 DEF HarnessEnds
<1>28. CASE SaveResult
  BY <1>28 DEF SaveResult
<1>29. CASE ReplayResult
  BY <1>29 DEF ReplayResult
<1>30. CASE RecoverResult
  BY <1>30 DEF RecoverResult
<1>31. CASE Confirm
  BY <1>31 DEF Confirm
<1>32. CASE LinkReturns
  BY <1>32 DEF LinkReturns
<1>33. CASE LockExpires
  BY <1>33 DEF LockExpires
<1>34. CASE LinkDrops
  BY <1>34 DEF LinkDrops
<1>35. CASE HostRestarts
  BY <1>35 DEF HostRestarts
<1>36. CASE HarnessFails
  BY <1>36 DEF HarnessFails
<1>37. CASE UNCHANGED vars
  BY <1>37 DEF vars
<1>. QED BY <1>1, <1>2, <1>3, <1>4, <1>5, <1>6, <1>7, <1>8, <1>9, <1>10, <1>11, <1>12,
            <1>13, <1>14, <1>15, <1>16, <1>17, <1>18, <1>19, <1>20, <1>21, <1>22, <1>23, <1>24,
            <1>25, <1>26, <1>27, <1>28, <1>29, <1>30, <1>31, <1>32, <1>33, <1>34, <1>35, <1>36,
            <1>37
          DEF Next, ExecutorStep, ExchangeStep, RecoverStep, JobStep, HostStep, Clients, Exchanges, Jobs

\* An exchange becomes certain only by a transaction that leaves the result in the session.
LEMMA CertainStep ==
    ASSUME RuntimeTypeOK, Next \/ UNCHANGED vars, NEW e \in Exchanges, Certain(e)'
    PROVE  Certain(e) \/ turn'.final = "result"
<1>. /\ agent \in [Clients -> Progress] /\ e \in Clients
     /\ turn \in Rows
  BY DEF RuntimeTypeOK, SessionTypeOK, Clients
<1>. USE DEF Certain, Progress, Rows, Clients, Exchanges, Jobs, At, Goto, Redial, Leave, Idle, agentVars
<1>1. ASSUME NEW c \in Exchanges, Connect(c) PROVE Certain(e) \/ turn'.final = "result"
  BY <1>1 DEF Connect
<1>2. ASSUME NEW c \in Exchanges, DialFails(c) PROVE Certain(e) \/ turn'.final = "result"
  BY <1>2 DEF DialFails
<1>3. ASSUME NEW c \in Exchanges, GiveUp(c) PROVE Certain(e) \/ turn'.final = "result"
  BY <1>3 DEF GiveUp
<1>4. ASSUME NEW c \in Exchanges, Disconnected(c) PROVE Certain(e) \/ turn'.final = "result"
  BY <1>4 DEF Disconnected
<1>5. ASSUME NEW c \in Exchanges, TimesOut(c) PROVE Certain(e) \/ turn'.final = "result"
  BY <1>5 DEF TimesOut
<1>6. ASSUME NEW c \in Exchanges, Receive(c) PROVE Certain(e) \/ turn'.final = "result"
  BY <1>6 DEF Receive
<1>7. ASSUME NEW c \in Exchanges, CheckStop(c) PROVE Certain(e) \/ turn'.final = "result"
  BY <1>7 DEF CheckStop, Drop
<1>8. ASSUME NEW c \in Exchanges, PersistResult(c) PROVE Certain(e) \/ turn'.final = "result"
  <2>1. CASE turn'.final = "result"
    BY <2>1
  <2>2. CASE Drop(c)
    BY <2>2 DEF Drop
  <2>3. turn'.final = "result" \/ Drop(c)
    BY <1>8 DEF PersistResult
  <2>. QED BY <2>1, <2>2, <2>3
<1>9. ASSUME NEW c \in Exchanges, Acknowledge(c) PROVE Certain(e) \/ turn'.final = "result"
  BY <1>9 DEF Acknowledge
<1>10. ASSUME NEW c \in Exchanges, ConnectRefused(c) PROVE Certain(e) \/ turn'.final = "result"
  BY <1>10 DEF ConnectRefused
<1>11. ASSUME NEW c \in Jobs, TakeLock(c) PROVE Certain(e) \/ turn'.final = "result"
  BY <1>11 DEF TakeLock
<1>12. ASSUME NEW c \in Jobs, ReadTurn(c) PROVE Certain(e) \/ turn'.final = "result"
  BY <1>12 DEF ReadTurn
<1>13. ASSUME NEW c \in Jobs, MarkStopped(c) PROVE Certain(e) \/ turn'.final = "result"
  BY <1>13 DEF MarkStopped
<1>14. ASSUME NEW c \in Jobs, WriteNote(c) PROVE Certain(e) \/ turn'.final = "result"
  BY <1>14 DEF WriteNote
<1>15. ASSUME NEW c \in Clients, AgentCrashes(c) PROVE Certain(e) \/ turn'.final = "result"
  BY <1>15 DEF AgentCrashes
<1>16. ASSUME NEW c \in Clients, LeaseExpires(c) PROVE Certain(e) \/ turn'.final = "result"
  BY <1>16 DEF LeaseExpires
<1>17. ASSUME NEW c \in Clients, NoticeLoss(c) PROVE Certain(e) \/ turn'.final = "result"
  BY <1>17 DEF NoticeLoss
<1>18. CASE MarkExecuting
  BY <1>18 DEF MarkExecuting
<1>19. CASE ExecutorEnds
  BY <1>19 DEF ExecutorEnds
<1>20. CASE AskAttention
  BY <1>20 DEF AskAttention
<1>21. CASE EnqueueRecovery
  BY <1>21 DEF EnqueueRecovery
<1>22. CASE DecideFailure
  BY <1>22 DEF DecideFailure
<1>23. CASE FailTurn
  BY <1>23 DEF FailTurn
<1>24. CASE RecoveryEnds
  BY <1>24 DEF RecoveryEnds
<1>25. CASE HostTakes
  BY <1>25 DEF HostTakes
<1>26. CASE Prepare
  BY <1>26 DEF Prepare
<1>27. CASE HarnessEnds
  BY <1>27 DEF HarnessEnds
<1>28. CASE SaveResult
  BY <1>28 DEF SaveResult
<1>29. CASE ReplayResult
  BY <1>29 DEF ReplayResult
<1>30. CASE RecoverResult
  BY <1>30 DEF RecoverResult
<1>31. CASE Confirm
  BY <1>31 DEF Confirm
<1>32. CASE LinkReturns
  BY <1>32 DEF LinkReturns
<1>33. CASE LockExpires
  BY <1>33 DEF LockExpires
<1>34. CASE LinkDrops
  BY <1>34 DEF LinkDrops
<1>35. CASE HostRestarts
  BY <1>35 DEF HostRestarts
<1>36. CASE HarnessFails
  BY <1>36 DEF HarnessFails
<1>37. CASE UNCHANGED vars
  BY <1>37 DEF vars
<1>. QED BY <1>1, <1>2, <1>3, <1>4, <1>5, <1>6, <1>7, <1>8, <1>9, <1>10, <1>11, <1>12,
            <1>13, <1>14, <1>15, <1>16, <1>17, <1>18, <1>19, <1>20, <1>21, <1>22, <1>23, <1>24,
            <1>25, <1>26, <1>27, <1>28, <1>29, <1>30, <1>31, <1>32, <1>33, <1>34, <1>35, <1>36,
            <1>37
          DEF Next, ExecutorStep, ExchangeStep, RecoverStep, JobStep, HostStep, Clients, Exchanges, Jobs

\* Only an exchange that is certain sends an acknowledgement.
LEMMA AckStep ==
    ASSUME RuntimeTypeOK, Next \/ UNCHANGED vars, Carried(up, Acks)' # {}
    PROVE  Carried(up, Acks) # {} \/ \E c \in Exchanges : At(c, "ack") /\ Acknowledge(c)
<1>1. up \in Seq(Frames)
  BY DEF RuntimeTypeOK, WireTypeOK
<1>2. CASE Harmless
  <2>1. ASSUME NEW c \in Exchanges, up' = Append(up, AbortOf(c)) PROVE Carried(up, Acks)' = Carried(up, Acks)
    BY <1>1, <2>1, AbortIsHarmless
  <2>2. CASE up' = up
    BY <2>2 DEF Carried
  <2>3. CASE up' = <<>>
    BY <2>3 DEF Carried
  <2>. QED BY <1>2, <2>1, <2>2, <2>3 DEF Harmless
<1>3. ASSUME NEW c \in Exchanges, Acknowledge(c) PROVE At(c, "ack")
  BY <1>3 DEF Acknowledge
<1>4. ASSUME NEW c \in Exchanges, Connect(c) PROVE Carried(up, Acks)' = Carried(up, Acks)
  <2>1. PICK command \in Frames :
          /\ command.type = (IF c = "executor" THEN "start" ELSE "recover")
          /\ up' = Append(up, command) \/ up' = Append(Append(up, command), AbortOf(c))
    BY <1>4, ConnectSends
  <2>2. Append(up, command) \in Seq(Frames) /\ command \notin Acks
    BY <1>1, <2>1 DEF Acks
  <2>3. Carried(Append(up, command), Acks) = Carried(up, Acks)
    BY <1>1, <2>2, CarriedByAppend
  <2>. QED BY <2>1, <2>2, <2>3, AbortIsHarmless
<1>5. CASE HostTakes
  <2>1. up # <<>> /\ up' = Tail(up)
    BY <1>5 DEF HostTakes
  <2>2. PICK i : i \in Carried(Tail(up), Acks)
    BY <2>1
  <2>. QED BY <1>1, <2>1, <2>2, CarriedByTail
<1>6. CASE Prepare
  BY <1>6 DEF Prepare, Carried
<1>. QED BY <1>2, <1>3, <1>4, <1>5, <1>6, HarmlessSteps

LEMMA ResultInHandStep ==
    ASSUME RuntimeTypeOK, OneOutcome, ResultInHand, Next \/ UNCHANGED vars
    PROVE  ResultInHand'
<1>1. turn.final = "result" => turn'.final = "result"
  BY ResultStays
<1>2. ASSUME NEW c \in Exchanges, Certain(c)' PROVE turn'.final = "result"
  BY <1>1, <1>2, CertainStep DEF ResultInHand
<1>3. ASSUME Carried(up, Acks)' # {} PROVE turn'.final = "result"
  BY <1>1, <1>3, AckStep DEF ResultInHand, Certain
<1>. QED BY <1>2, <1>3 DEF ResultInHand

\* Only an acknowledgement takes the receipt away.
LEMMA ReceiptStep ==
    ASSUME RuntimeTypeOK, Next \/ UNCHANGED vars, receipt # "none", receipt' = "none"
    PROVE  HostTakes /\ Head(up).type = "ack"
<1>. SUFFICES ASSUME ~(HostTakes /\ Head(up).type = "ack") PROVE receipt' # "none"
  OBVIOUS
<1>. USE DEF hostVars
<1>1. ASSUME NEW c \in Exchanges, Connect(c) PROVE receipt' # "none"
  BY <1>1 DEF Connect
<1>2. ASSUME NEW c \in Exchanges, DialFails(c) PROVE receipt' # "none"
  BY <1>2 DEF DialFails
<1>3. ASSUME NEW c \in Exchanges, GiveUp(c) PROVE receipt' # "none"
  BY <1>3 DEF GiveUp
<1>4. ASSUME NEW c \in Exchanges, Disconnected(c) PROVE receipt' # "none"
  BY <1>4 DEF Disconnected
<1>5. ASSUME NEW c \in Exchanges, TimesOut(c) PROVE receipt' # "none"
  BY <1>5 DEF TimesOut
<1>6. ASSUME NEW c \in Exchanges, Receive(c) PROVE receipt' # "none"
  BY <1>6 DEF Receive
<1>7. ASSUME NEW c \in Exchanges, CheckStop(c) PROVE receipt' # "none"
  BY <1>7 DEF CheckStop
<1>8. ASSUME NEW c \in Exchanges, PersistResult(c) PROVE receipt' # "none"
  BY <1>8 DEF PersistResult
<1>9. ASSUME NEW c \in Exchanges, Acknowledge(c) PROVE receipt' # "none"
  BY <1>9 DEF Acknowledge
<1>10. ASSUME NEW c \in Exchanges, ConnectRefused(c) PROVE receipt' # "none"
  BY <1>10 DEF ConnectRefused
<1>11. ASSUME NEW c \in Jobs, TakeLock(c) PROVE receipt' # "none"
  BY <1>11 DEF TakeLock
<1>12. ASSUME NEW c \in Jobs, ReadTurn(c) PROVE receipt' # "none"
  BY <1>12 DEF ReadTurn
<1>13. ASSUME NEW c \in Jobs, MarkStopped(c) PROVE receipt' # "none"
  BY <1>13 DEF MarkStopped
<1>14. ASSUME NEW c \in Jobs, WriteNote(c) PROVE receipt' # "none"
  BY <1>14 DEF WriteNote
<1>15. ASSUME NEW c \in Clients, AgentCrashes(c) PROVE receipt' # "none"
  BY <1>15 DEF AgentCrashes
<1>16. ASSUME NEW c \in Clients, LeaseExpires(c) PROVE receipt' # "none"
  BY <1>16 DEF LeaseExpires
<1>17. ASSUME NEW c \in Clients, NoticeLoss(c) PROVE receipt' # "none"
  BY <1>17 DEF NoticeLoss
<1>18. CASE MarkExecuting
  BY <1>18 DEF MarkExecuting
<1>19. CASE ExecutorEnds
  BY <1>19 DEF ExecutorEnds
<1>20. CASE AskAttention
  BY <1>20 DEF AskAttention
<1>21. CASE EnqueueRecovery
  BY <1>21 DEF EnqueueRecovery
<1>22. CASE DecideFailure
  BY <1>22 DEF DecideFailure
<1>23. CASE FailTurn
  BY <1>23 DEF FailTurn
<1>24. CASE RecoveryEnds
  BY <1>24 DEF RecoveryEnds
<1>25. CASE HostTakes
  BY <1>25 DEF HostTakes, TakeStart, TakeRecover, TakeAbort, TakeAck, Replay
<1>26. CASE Prepare
  BY <1>26 DEF Prepare
<1>27. CASE HarnessEnds
  BY <1>27 DEF HarnessEnds
<1>28. CASE SaveResult
  BY <1>28 DEF SaveResult
<1>29. CASE ReplayResult
  BY <1>29 DEF ReplayResult, Replay
<1>30. CASE RecoverResult
  BY <1>30 DEF RecoverResult, Replay
<1>31. CASE Confirm
  BY <1>31 DEF Confirm
<1>32. CASE LinkReturns
  BY <1>32 DEF LinkReturns
<1>33. CASE LockExpires
  BY <1>33 DEF LockExpires
<1>34. CASE LinkDrops
  BY <1>34 DEF LinkDrops
<1>35. CASE HostRestarts
  BY <1>35 DEF HostRestarts
<1>36. CASE HarnessFails
  BY <1>36 DEF HarnessFails
<1>37. CASE UNCHANGED vars
  BY <1>37 DEF vars
<1>. QED BY <1>1, <1>2, <1>3, <1>4, <1>5, <1>6, <1>7, <1>8, <1>9, <1>10, <1>11, <1>12,
            <1>13, <1>14, <1>15, <1>16, <1>17, <1>18, <1>19, <1>20, <1>21, <1>22, <1>23, <1>24,
            <1>25, <1>26, <1>27, <1>28, <1>29, <1>30, <1>31, <1>32, <1>33, <1>34, <1>35, <1>36,
            <1>37
          DEF Next, ExecutorStep, ExchangeStep, RecoverStep, JobStep, HostStep, Clients, Exchanges, Jobs

\* AckedIsDurable: the host deletes a receipt only when the result is the final message of the turn
\* (persistMessageNode before turn.ack, NativeResults.acknowledge).
THEOREM ReceiptOutlivesResult == Spec => AckedIsDurable
<1>1. Init => OneOutcome /\ ResultInHand
  BY DEF Init, OneOutcome, ResultInHand, Certain, Carried, At, Idle, Exchanges, Clients
<1>2. RuntimeTypeOK /\ OneOutcome /\ ResultInHand /\ [Next]_vars => OneOutcome' /\ ResultInHand'
  BY OutcomeStep, ResultInHandStep
<1>3. RuntimeTypeOK /\ ResultInHand /\ [Next]_vars
        => [receipt # "none" /\ receipt' = "none" => turn.final = "result"]_receipt
  <2>. SUFFICES ASSUME RuntimeTypeOK, ResultInHand, [Next]_vars, receipt # "none", receipt' = "none"
                PROVE  turn.final = "result"
    OBVIOUS
  <2>1. HostTakes /\ Head(up).type = "ack"
    BY ReceiptStep
  <2>2. up \in Seq(Frames) /\ up # <<>> /\ Head(up) \in Acks
    BY <2>1 DEF RuntimeTypeOK, WireTypeOK, HostTakes, Acks
  <2>. QED BY <2>2, CarriedByHead DEF ResultInHand
<1>. QED BY <1>1, <1>2, <1>3, RuntimeTypes, PTL DEF Spec, AckedIsDurable

-----------------------------------------------------------------------------
(***************************************************************************)
(* A turn whose outcome nobody knows does not fail.                        *)
(***************************************************************************)
HostEvent == HostStep \/ LinkDrops \/ HostRestarts \/ HarnessFails

\* No lease is lost and no gateway is full.
Sober == faults.kinds \intersect {"lease", "slots"} = {}

\* Then whoever is at work holds the lock.
Exclusive == lost = {} /\ \A c \in Clients : ~At(c, "off") => lock = c

\* The host neither runs the turn nor holds its result, and nothing can make it start.
Over ==
    /\ NewStarts = {} /\ ~NewEntry
    /\ host.entry \notin {"running", "finished"} /\ ~Recoverable

ExecutorOn    == ~At("executor", "off")
Refused       == At("executor", "failed") /\ agent["executor"].failure \in {"none", "plain"}
ErrorWaits    == Carried(down["executor"], {"error"}) # {} /\ ~agent["executor"].completed
RecoveryAsked == Carried(up, {f \in Frames : f.type = "recover"}) # {}
ExecutorAcks  == Carried(up, {f \in Acks : f.of = "executor"}) # {}

\* While the executor is at work no recovery has begun, and it acknowledges only after the result.
Alone ==
    ExecutorOn => /\ host.recovery = "none" /\ ~RecoveryAsked
                  /\ ExecutorAcks => agent["executor"].completed

\* What the executor takes for a definite failure is one: it sent nothing, or the host refused.
FailuresAreDefinite ==
    ExecutorOn => /\ At("executor", "claimed") => agent["executor"].dials = 0
                  /\ agent["executor"].dials = 0 =>
                       Over /\ down["executor"] = <<>> /\ peer["executor"] = "closed"
                  /\ ErrorWaits \/ Refused \/ At("executor", "fail") => Over

RunsUnfinished == host.entry = "running" => receipt # "saved" /\ native # "finished" /\ runs # 0
FailedIsOver   == turn.status = "failed" => Over /\ ~ExecutorOn

FenceInv == Exclusive /\ Alone /\ FailuresAreDefinite /\ FailedIsOver

\* The host and the plan of faults while clients of the lock move.
LEMMA HostRests ==
    ASSUME RuntimeTypeOK, Next \/ UNCHANGED vars, ~HostEvent
    PROVE  /\ UNCHANGED hostVars
           /\ faults'.kinds = faults.kinds
           /\ \/ down'["executor"] \in {down["executor"], <<>>}
              \/ down["executor"] # <<>> /\ down'["executor"] = Tail(down["executor"])
<1>. DEFINE Goal == /\ UNCHANGED hostVars
                    /\ faults'.kinds = faults.kinds
                    /\ \/ down'["executor"] \in {down["executor"], <<>>}
                       \/ down["executor"] # <<>> /\ down'["executor"] = Tail(down["executor"])
<1>. SUFFICES Goal
  OBVIOUS
<1>. /\ faults \in [kinds: SUBSET FaultKinds, left: Nat]
     /\ down \in [Exchanges -> Seq(HostEvents)]
  BY DEF RuntimeTypeOK, HostTypeOK, WireTypeOK
<1>. USE DEF wireVars, hostVars, Fault, PeerGone, Exchanges, Clients
<1>1. ASSUME NEW c \in Exchanges, Connect(c) PROVE Goal
  BY <1>1 DEF Connect
<1>2. ASSUME NEW c \in Exchanges, DialFails(c) PROVE Goal
  BY <1>2 DEF DialFails
<1>3. ASSUME NEW c \in Exchanges, GiveUp(c) PROVE Goal
  BY <1>3 DEF GiveUp
<1>4. ASSUME NEW c \in Exchanges, Disconnected(c) PROVE Goal
  BY <1>4 DEF Disconnected
<1>5. ASSUME NEW c \in Exchanges, TimesOut(c) PROVE Goal
  BY <1>5 DEF TimesOut
<1>6. ASSUME NEW c \in Exchanges, Receive(c) PROVE Goal
  BY <1>6 DEF Receive
<1>7. ASSUME NEW c \in Exchanges, CheckStop(c) PROVE Goal
  BY <1>7 DEF CheckStop, Drop
<1>8. ASSUME NEW c \in Exchanges, PersistResult(c) PROVE Goal
  BY <1>8 DEF PersistResult, Drop
<1>9. ASSUME NEW c \in Exchanges, Acknowledge(c) PROVE Goal
  BY <1>9 DEF Acknowledge
<1>10. ASSUME NEW c \in Exchanges, ConnectRefused(c) PROVE Goal
  BY <1>10 DEF ConnectRefused
<1>11. ASSUME NEW c \in Jobs, TakeLock(c) PROVE Goal
  BY <1>11 DEF TakeLock
<1>12. ASSUME NEW c \in Jobs, ReadTurn(c) PROVE Goal
  BY <1>12 DEF ReadTurn
<1>13. ASSUME NEW c \in Jobs, MarkStopped(c) PROVE Goal
  BY <1>13 DEF MarkStopped
<1>14. ASSUME NEW c \in Jobs, WriteNote(c) PROVE Goal
  BY <1>14 DEF WriteNote
<1>15. ASSUME NEW c \in Clients, AgentCrashes(c) PROVE Goal
  BY <1>15 DEF AgentCrashes
<1>16. ASSUME NEW c \in Clients, LeaseExpires(c) PROVE Goal
  BY <1>16 DEF LeaseExpires
<1>17. ASSUME NEW c \in Clients, NoticeLoss(c) PROVE Goal
  BY <1>17 DEF NoticeLoss
<1>18. CASE MarkExecuting
  BY <1>18 DEF MarkExecuting
<1>19. CASE ExecutorEnds
  BY <1>19 DEF ExecutorEnds
<1>20. CASE AskAttention
  BY <1>20 DEF AskAttention
<1>21. CASE EnqueueRecovery
  BY <1>21 DEF EnqueueRecovery
<1>22. CASE DecideFailure
  BY <1>22 DEF DecideFailure
<1>23. CASE FailTurn
  BY <1>23 DEF FailTurn
<1>24. CASE RecoveryEnds
  BY <1>24 DEF RecoveryEnds
<1>25. CASE Confirm
  BY <1>25 DEF Confirm
<1>26. CASE LinkReturns
  BY <1>26 DEF LinkReturns
<1>27. CASE LockExpires
  BY <1>27 DEF LockExpires
<1>28. CASE UNCHANGED vars
  BY <1>28 DEF vars
<1>. QED BY <1>1, <1>2, <1>3, <1>4, <1>5, <1>6, <1>7, <1>8, <1>9, <1>10, <1>11, <1>12, <1>13,
            <1>14, <1>15, <1>16, <1>17, <1>18, <1>19, <1>20, <1>21, <1>22, <1>23, <1>24, <1>25,
            <1>26, <1>27, <1>28
          DEF HostEvent, Next, ExecutorStep, ExchangeStep, RecoverStep, JobStep, HostStep, Clients, Exchanges, Jobs

\* The session while the host moves.
LEMMA SessionRests ==
    ASSUME RuntimeTypeOK, HostEvent
    PROVE  UNCHANGED <<turn, lock, lost, agent>> /\ faults'.kinds = faults.kinds
<1>. faults \in [kinds: SUBSET FaultKinds, left: Nat]
  BY DEF RuntimeTypeOK, HostTypeOK
<1>. QED BY DEF HostEvent, HostStep, HostTakes, Prepare, HarnessEnds, SaveResult, ReplayResult, RecoverResult,
                LinkDrops, HostRestarts, HarnessFails, Cut, Fault, agentVars

\* The lock keeps the clients apart.
LEMMA ExclusiveStep ==
    ASSUME RuntimeTypeOK, Sober, Exclusive, Next \/ UNCHANGED vars
    PROVE  Exclusive'
<1>. /\ agent \in [Clients -> Progress] /\ "executor" \in Clients /\ "recover" \in Clients
     /\ faults \in [kinds: SUBSET FaultKinds, left: Nat]
  BY DEF RuntimeTypeOK, SessionTypeOK, HostTypeOK, Clients, Exchanges, Jobs
<1>0. CASE HostEvent
  BY <1>0, SessionRests DEF Exclusive, At
<1>. SUFFICES ASSUME ~HostEvent PROVE Exclusive'
  BY <1>0
<1>. USE DEF Exclusive, Progress, At, Goto, Redial, Leave, Release, Idle, agentVars, Fault, Sober
<1>1. ASSUME NEW c \in Exchanges, Connect(c) PROVE Exclusive'
  BY <1>1 DEF Connect
<1>2. ASSUME NEW c \in Exchanges, DialFails(c) PROVE Exclusive'
  BY <1>2 DEF DialFails
<1>3. ASSUME NEW c \in Exchanges, GiveUp(c) PROVE Exclusive'
  BY <1>3 DEF GiveUp
<1>4. ASSUME NEW c \in Exchanges, Disconnected(c) PROVE Exclusive'
  BY <1>4 DEF Disconnected
<1>5. ASSUME NEW c \in Exchanges, TimesOut(c) PROVE Exclusive'
  BY <1>5 DEF TimesOut
<1>6. ASSUME NEW c \in Exchanges, Receive(c) PROVE Exclusive'
  BY <1>6 DEF Receive
<1>7. ASSUME NEW c \in Exchanges, CheckStop(c) PROVE Exclusive'
  BY <1>7 DEF CheckStop, Drop
<1>8. ASSUME NEW c \in Exchanges, PersistResult(c) PROVE Exclusive'
  BY <1>8 DEF PersistResult, Drop
<1>9. ASSUME NEW c \in Exchanges, Acknowledge(c) PROVE Exclusive'
  BY <1>9 DEF Acknowledge
<1>10. ASSUME NEW c \in Exchanges, ConnectRefused(c) PROVE Exclusive'
  BY <1>10 DEF ConnectRefused
<1>11. ASSUME NEW c \in Jobs, TakeLock(c) PROVE Exclusive'
  BY <1>11 DEF TakeLock, Clients, Exchanges, Jobs
<1>12. ASSUME NEW c \in Jobs, ReadTurn(c) PROVE Exclusive'
  BY <1>12 DEF ReadTurn
<1>13. ASSUME NEW c \in Jobs, MarkStopped(c) PROVE Exclusive'
  BY <1>13 DEF MarkStopped
<1>14. ASSUME NEW c \in Jobs, WriteNote(c) PROVE Exclusive'
  BY <1>14 DEF WriteNote
<1>15. ASSUME NEW c \in Clients, AgentCrashes(c) PROVE Exclusive'
  BY <1>15 DEF AgentCrashes
<1>16. ASSUME NEW c \in Clients, LeaseExpires(c) PROVE Exclusive'
  BY <1>16 DEF LeaseExpires
<1>17. ASSUME NEW c \in Clients, NoticeLoss(c) PROVE Exclusive'
  BY <1>17 DEF NoticeLoss
<1>18. CASE MarkExecuting
  BY <1>18 DEF MarkExecuting
<1>19. CASE ExecutorEnds
  BY <1>19 DEF ExecutorEnds
<1>20. CASE AskAttention
  BY <1>20 DEF AskAttention
<1>21. CASE EnqueueRecovery
  BY <1>21 DEF EnqueueRecovery
<1>22. CASE DecideFailure
  BY <1>22 DEF DecideFailure
<1>23. CASE FailTurn
  BY <1>23 DEF FailTurn
<1>24. CASE RecoveryEnds
  BY <1>24 DEF RecoveryEnds
<1>25. CASE Confirm
  BY <1>25 DEF Confirm
<1>26. CASE LinkReturns
  BY <1>26 DEF LinkReturns
<1>27. CASE LockExpires
  BY <1>27 DEF LockExpires
<1>28. CASE UNCHANGED vars
  BY <1>28 DEF vars
<1>. QED BY <1>1, <1>2, <1>3, <1>4, <1>5, <1>6, <1>7, <1>8, <1>9, <1>10, <1>11, <1>12, <1>13,
            <1>14, <1>15, <1>16, <1>17, <1>18, <1>19, <1>20, <1>21, <1>22, <1>23, <1>24, <1>25,
            <1>26, <1>27, <1>28
          DEF HostEvent, Next, ExecutorStep, ExchangeStep, RecoverStep, JobStep, HostStep, Clients, Exchanges, Jobs

\* How the executor moves: it begins once, and what it takes for a definite failure it was told.
LEMMA ExecutorGoes ==
    ASSUME RuntimeTypeOK, Sober, Exclusive, ~HostEvent, Next \/ UNCHANGED vars, ExecutorOn'
    PROVE  /\ ExecutorOn
           /\ agent'["executor"].dials = agent["executor"].dials \/ Connect("executor")
           /\ agent["executor"].completed => agent'["executor"].completed
           /\ peer["executor"] = "closed" => peer'["executor"] = "closed" \/ Connect("executor")
           /\ Refused' => Refused \/ agent["executor"].dials = 0 \/ At("executor", "claimed") \/ ErrorWaits
           /\ At("executor", "fail")' => At("executor", "fail") \/ Refused
           /\ At("executor", "claimed")' => At("executor", "claimed")
<1>. DEFINE Goal == /\ ExecutorOn
                    /\ agent'["executor"].dials = agent["executor"].dials \/ Connect("executor")
                    /\ agent["executor"].completed => agent'["executor"].completed
                    /\ peer["executor"] = "closed" => peer'["executor"] = "closed" \/ Connect("executor")
                    /\ Refused' => Refused \/ agent["executor"].dials = 0 \/ At("executor", "claimed") \/ ErrorWaits
                    /\ At("executor", "fail")' => At("executor", "fail") \/ Refused
                    /\ At("executor", "claimed")' => At("executor", "claimed")
<1>. SUFFICES Goal
  OBVIOUS
<1>. /\ agent \in [Clients -> Progress] /\ "executor" \in Clients /\ "recover" \in Clients
     /\ faults \in [kinds: SUBSET FaultKinds, left: Nat]
     /\ down \in [Exchanges -> Seq(HostEvents)] /\ peer \in [Exchanges -> {"closed", "open", "acked"}]
     /\ turn \in Rows
  BY DEF RuntimeTypeOK, SessionTypeOK, HostTypeOK, WireTypeOK, Clients, Exchanges, Jobs
<1>. USE DEF Exclusive, Progress, ExecutorOn, Refused, At, Goto, Redial, Leave, Release, Idle, agentVars, wireVars,
             Fault, Sober, Started, PeerGone
<1>1. ASSUME NEW c \in Exchanges, Connect(c) PROVE Goal
  BY <1>1 DEF Connect
<1>2. ASSUME NEW c \in Exchanges, DialFails(c) PROVE Goal
  BY <1>2 DEF DialFails
<1>3. ASSUME NEW c \in Exchanges, GiveUp(c) PROVE Goal
  BY <1>3 DEF GiveUp
<1>4. ASSUME NEW c \in Exchanges, Disconnected(c) PROVE Goal
  BY <1>4 DEF Disconnected
<1>5. ASSUME NEW c \in Exchanges, TimesOut(c) PROVE Goal
  BY <1>5 DEF TimesOut
<1>6. ASSUME NEW c \in Exchanges, Receive(c) PROVE Goal
  <2>1. ErrorWaits \/ c # "executor" \/ Head(down[c]) # "error" \/ agent[c].completed
    <3>1. down[c] \in Seq(HostEvents) /\ down[c] # <<>>
      BY <1>6 DEF Receive
    <3>2. 1 \in 1..Len(down[c]) /\ Head(down[c]) = down[c][1]
      BY <3>1
    <3>. QED BY <3>2 DEF ErrorWaits, Carried
  <2>2. CASE Head(down[c]) \in Ends
    <3>1. agent' = [agent EXCEPT ![c].pc = IF agent[c].completed THEN "ack" ELSE "check", ![c].failure = Head(down[c])]
      BY <1>6, <2>2 DEF Receive
    <3>2. UNCHANGED peer /\ At(c, "open")
      BY <1>6, <2>2 DEF Receive
    <3>. QED BY <3>1, <3>2
  <2>3. CASE Head(down[c]) \notin Ends
    <3>1. agent' = [agent EXCEPT ![c].pc = IF Head(down[c]) = "acknowledged" \/ agent[c].completed THEN "done" ELSE "failed",
                                 ![c].failure = IF Head(down[c]) = "error" THEN "plain" ELSE Head(down[c])]
      BY <1>6, <2>3 DEF Receive
    <3>2. peer' = [peer EXCEPT ![c] = "closed"]
      BY <1>6, <2>3 DEF Receive
    <3>3. Head(down[c]) \in HostEvents
      BY <1>6 DEF Receive
    <3>. QED BY <1>6, <2>1, <3>1, <3>2, <3>3 DEF Receive, HostEvents, Ends
  <2>. QED BY <2>2, <2>3
<1>7. ASSUME NEW c \in Exchanges, CheckStop(c) PROVE Goal
  <2>1. CASE Drop(c)
    BY <1>7, <2>1 DEF CheckStop, Drop
  <2>2. CASE Goto(c, "persist") /\ UNCHANGED peer
    BY <1>7, <2>2 DEF CheckStop
  <2>. QED BY <1>7, <2>1, <2>2 DEF CheckStop
<1>8. ASSUME NEW c \in Exchanges, PersistResult(c) PROVE Goal
  <2>1. CASE Drop(c)
    BY <1>8, <2>1 DEF PersistResult, Drop
  <2>2. CASE Goto(c, "ack") /\ UNCHANGED peer
    BY <1>8, <2>2 DEF PersistResult
  <2>. QED BY <1>8, <2>1, <2>2 DEF PersistResult
<1>9. ASSUME NEW c \in Exchanges, Acknowledge(c) PROVE Goal
  BY <1>9 DEF Acknowledge
<1>10. ASSUME NEW c \in Exchanges, ConnectRefused(c) PROVE Goal
  BY <1>10 DEF ConnectRefused
<1>11. ASSUME NEW c \in Jobs, TakeLock(c) PROVE Goal
  BY <1>11 DEF TakeLock, Jobs
<1>12. ASSUME NEW c \in Jobs, ReadTurn(c) PROVE Goal
  BY <1>12 DEF ReadTurn, Jobs
<1>13. ASSUME NEW c \in Jobs, MarkStopped(c) PROVE Goal
  BY <1>13 DEF MarkStopped, Jobs
<1>14. ASSUME NEW c \in Jobs, WriteNote(c) PROVE Goal
  BY <1>14 DEF WriteNote, Jobs
<1>15. ASSUME NEW c \in Clients, AgentCrashes(c) PROVE Goal
  BY <1>15 DEF AgentCrashes
<1>16. ASSUME NEW c \in Clients, LeaseExpires(c) PROVE Goal
  BY <1>16 DEF LeaseExpires
<1>17. ASSUME NEW c \in Clients, NoticeLoss(c) PROVE Goal
  BY <1>17 DEF NoticeLoss
<1>18. CASE MarkExecuting
  <2>1. agent'["executor"].dials = agent["executor"].dials /\ UNCHANGED peer
    BY <1>18 DEF MarkExecuting
  <2>2. agent'["executor"].completed = agent["executor"].completed
    BY <1>18 DEF MarkExecuting
  <2>3. agent'["executor"].pc \in {"dial", "failed"} /\ agent["executor"].pc = "claimed"
    BY <1>18 DEF MarkExecuting
  <2>. QED BY <2>1, <2>2, <2>3
<1>19. CASE ExecutorEnds
  BY <1>19 DEF ExecutorEnds
<1>20. CASE AskAttention
  BY <1>20 DEF AskAttention
<1>21. CASE EnqueueRecovery
  BY <1>21 DEF EnqueueRecovery
<1>22. CASE DecideFailure
  BY <1>22 DEF DecideFailure
<1>23. CASE FailTurn
  BY <1>23 DEF FailTurn
<1>24. CASE RecoveryEnds
  BY <1>24 DEF RecoveryEnds
<1>25. CASE Confirm
  BY <1>25 DEF Confirm
<1>26. CASE LinkReturns
  BY <1>26 DEF LinkReturns
<1>27. CASE LockExpires
  BY <1>27 DEF LockExpires
<1>28. CASE UNCHANGED vars
  BY <1>28 DEF vars
<1>. QED BY <1>1, <1>2, <1>3, <1>4, <1>5, <1>6, <1>7, <1>8, <1>9, <1>10, <1>11, <1>12, <1>13,
            <1>14, <1>15, <1>16, <1>17, <1>18, <1>19, <1>20, <1>21, <1>22, <1>23, <1>24, <1>25,
            <1>26, <1>27, <1>28
          DEF HostEvent, Next, ExecutorStep, ExchangeStep, RecoverStep, JobStep, HostStep, Clients, Exchanges, Jobs

\* A turn fails when the executor writes a failure, and then the executor is gone.
LEMMA FailureIsWritten ==
    ASSUME RuntimeTypeOK, Next \/ UNCHANGED vars, turn'.status = "failed"
    PROVE  turn.status = "failed" \/ (At("executor", "fail") /\ ~ExecutorOn')
<1>. DEFINE Goal == turn.status = "failed" \/ (At("executor", "fail") /\ ~ExecutorOn')
<1>. SUFFICES Goal
  OBVIOUS
<1>. /\ agent \in [Clients -> Progress] /\ "executor" \in Clients
     /\ turn \in Rows
  BY DEF RuntimeTypeOK, SessionTypeOK, Clients, Exchanges, Jobs
<1>0. CASE HostEvent
  BY <1>0, SessionRests
<1>. SUFFICES ASSUME ~HostEvent PROVE Goal
  BY <1>0
<1>. USE DEF Rows, ExecutorOn, At, Goto, Leave, Idle, agentVars
<1>1. ASSUME NEW c \in Exchanges, Connect(c) PROVE Goal
  BY <1>1 DEF Connect
<1>2. ASSUME NEW c \in Exchanges, DialFails(c) PROVE Goal
  BY <1>2 DEF DialFails
<1>3. ASSUME NEW c \in Exchanges, GiveUp(c) PROVE Goal
  BY <1>3 DEF GiveUp
<1>4. ASSUME NEW c \in Exchanges, Disconnected(c) PROVE Goal
  BY <1>4 DEF Disconnected
<1>5. ASSUME NEW c \in Exchanges, TimesOut(c) PROVE Goal
  BY <1>5 DEF TimesOut
<1>6. ASSUME NEW c \in Exchanges, Receive(c) PROVE Goal
  BY <1>6 DEF Receive
<1>7. ASSUME NEW c \in Exchanges, CheckStop(c) PROVE Goal
  BY <1>7 DEF CheckStop, Drop
<1>8. ASSUME NEW c \in Exchanges, PersistResult(c) PROVE Goal
  BY <1>8 DEF PersistResult, Drop
<1>9. ASSUME NEW c \in Exchanges, Acknowledge(c) PROVE Goal
  BY <1>9 DEF Acknowledge
<1>10. ASSUME NEW c \in Exchanges, ConnectRefused(c) PROVE Goal
  BY <1>10 DEF ConnectRefused
<1>11. ASSUME NEW c \in Jobs, TakeLock(c) PROVE Goal
  BY <1>11 DEF TakeLock
<1>12. ASSUME NEW c \in Jobs, ReadTurn(c) PROVE Goal
  BY <1>12 DEF ReadTurn
<1>13. ASSUME NEW c \in Jobs, MarkStopped(c) PROVE Goal
  BY <1>13 DEF MarkStopped
<1>14. ASSUME NEW c \in Jobs, WriteNote(c) PROVE Goal
  BY <1>14 DEF WriteNote
<1>15. ASSUME NEW c \in Clients, AgentCrashes(c) PROVE Goal
  BY <1>15 DEF AgentCrashes
<1>16. ASSUME NEW c \in Clients, LeaseExpires(c) PROVE Goal
  BY <1>16 DEF LeaseExpires
<1>17. ASSUME NEW c \in Clients, NoticeLoss(c) PROVE Goal
  BY <1>17 DEF NoticeLoss
<1>18. CASE MarkExecuting
  BY <1>18 DEF MarkExecuting
<1>19. CASE ExecutorEnds
  BY <1>19 DEF ExecutorEnds
<1>20. CASE AskAttention
  BY <1>20 DEF AskAttention
<1>21. CASE EnqueueRecovery
  BY <1>21 DEF EnqueueRecovery
<1>22. CASE DecideFailure
  BY <1>22 DEF DecideFailure
<1>23. CASE FailTurn
  BY <1>23 DEF FailTurn
<1>24. CASE RecoveryEnds
  BY <1>24 DEF RecoveryEnds
<1>25. CASE Confirm
  BY <1>25 DEF Confirm
<1>26. CASE LinkReturns
  BY <1>26 DEF LinkReturns
<1>27. CASE LockExpires
  BY <1>27 DEF LockExpires
<1>28. CASE UNCHANGED vars
  BY <1>28 DEF vars
<1>. QED BY <1>1, <1>2, <1>3, <1>4, <1>5, <1>6, <1>7, <1>8, <1>9, <1>10, <1>11, <1>12, <1>13,
            <1>14, <1>15, <1>16, <1>17, <1>18, <1>19, <1>20, <1>21, <1>22, <1>23, <1>24, <1>25,
            <1>26, <1>27, <1>28
          DEF HostEvent, Next, ExecutorStep, ExchangeStep, RecoverStep, JobStep, HostStep, Clients, Exchanges, Jobs

\* Only a recovery asks for one, and only the executor acknowledges for the executor.
LEMMA FramesStep ==
    ASSUME RuntimeTypeOK, Next \/ UNCHANGED vars
    PROVE  /\ RecoveryAsked' => RecoveryAsked \/ Connect("recover")
           /\ ExecutorAcks' => ExecutorAcks \/ Acknowledge("executor")
<1>. DEFINE asks == {f \in Frames : f.type = "recover"}
            acks == {f \in Acks : f.of = "executor"}
<1>1. up \in Seq(Frames)
  BY DEF RuntimeTypeOK, WireTypeOK
<1>2. \A c \in Exchanges : AbortOf(c) \in Frames /\ AbortOf(c) \notin asks /\ AbortOf(c) \notin acks
  BY DEF AbortOf, Frames, Acks
<1>3. \A f \in Frames : /\ f.type # "recover" => f \notin asks
                        /\ f.type # "ack" \/ f.of # "executor" => f \notin acks
  BY DEF Acks
<1>. HIDE DEF asks, acks
<1>4. CASE Harmless
  <2>1. ASSUME NEW c \in Exchanges, up' = Append(up, AbortOf(c))
        PROVE  Carried(up', asks) = Carried(up, asks) /\ Carried(up', acks) = Carried(up, acks)
    BY <1>1, <1>2, <2>1, CarriedByAppend
  <2>2. CASE up' = up
    BY <2>2 DEF Carried, RecoveryAsked, ExecutorAcks
  <2>3. CASE up' = <<>>
    BY <2>3 DEF Carried, RecoveryAsked, ExecutorAcks
  <2>. QED BY <1>4, <2>1, <2>2, <2>3 DEF Harmless, RecoveryAsked, ExecutorAcks, asks, acks
<1>5. ASSUME NEW c \in Exchanges, Acknowledge(c)
      PROVE  /\ RecoveryAsked' => RecoveryAsked
             /\ ExecutorAcks' => ExecutorAcks \/ c = "executor"
  <2>. DEFINE ack == [type |-> "ack", of |-> c, resume |-> FALSE]
  <2>1. up' \in {up, Append(up, ack)}
    BY <1>5 DEF Acknowledge
  <2>2. ack \in Frames /\ ack.type = "ack" /\ ack.of = c
    BY DEF Frames
  <2>. HIDE DEF ack
  <2>3. ack \notin asks /\ (c # "executor" => ack \notin acks)
    BY <1>3, <2>2
  <2>4. Carried(up', asks) = Carried(up, asks)
    <3>1. Carried(Append(up, ack), asks) = Carried(up, asks)
      BY <1>1, <2>2, <2>3, CarriedByAppend
    <3>. QED BY <2>1, <3>1
  <2>5. c # "executor" => Carried(up', acks) = Carried(up, acks)
    <3>1. c # "executor" => Carried(Append(up, ack), acks) = Carried(up, acks)
      BY <1>1, <2>2, <2>3, CarriedByAppend
    <3>. QED BY <2>1, <3>1
  <2>. QED BY <2>4, <2>5 DEF RecoveryAsked, ExecutorAcks, asks, acks
<1>6. ASSUME NEW c \in Exchanges, Connect(c)
      PROVE  /\ RecoveryAsked' => RecoveryAsked \/ c = "recover"
             /\ ExecutorAcks' => ExecutorAcks
  <2>1. PICK command \in Frames :
          /\ command.type = (IF c = "executor" THEN "start" ELSE "recover")
          /\ up' = Append(up, command) \/ up' = Append(Append(up, command), AbortOf(c))
    BY <1>6, ConnectSends
  <2>2. Append(up, command) \in Seq(Frames)
    BY <1>1
  <2>3. command \notin acks /\ (c # "recover" => command \notin asks)
    BY <1>3, <2>1 DEF Exchanges
  <2>4. ASSUME NEW kind, command \notin kind, AbortOf(c) \notin kind
        PROVE  Carried(up', kind) = Carried(up, kind)
    <3>1. Carried(Append(up, command), kind) = Carried(up, kind)
      BY <1>1, <2>4, CarriedByAppend
    <3>2. Carried(Append(Append(up, command), AbortOf(c)), kind) = Carried(Append(up, command), kind)
      BY <1>2, <2>2, <2>4, CarriedByAppend
    <3>. QED BY <2>1, <3>1, <3>2
  <2>5. Carried(up', acks) = Carried(up, acks)
    BY <1>2, <2>3, <2>4
  <2>6. c # "recover" => Carried(up', asks) = Carried(up, asks)
    BY <1>2, <2>3, <2>4
  <2>. QED BY <2>5, <2>6 DEF RecoveryAsked, ExecutorAcks, asks, acks
<1>7. CASE HostTakes
  <2>1. up # <<>> /\ up' = Tail(up)
    BY <1>7 DEF HostTakes
  <2>2. \A kind : Carried(up, kind)' # {} => Carried(up, kind) # {}
    BY <1>1, <2>1, CarriedByTail
  <2>. QED BY <2>2 DEF RecoveryAsked, ExecutorAcks
<1>8. CASE Prepare
  BY <1>8 DEF Prepare, Carried, RecoveryAsked, ExecutorAcks
<1>. QED BY <1>4, <1>5, <1>6, <1>7, <1>8, HarmlessSteps

\* What is over stays over, unless the executor sends its first command.
LEMMA OverStep ==
    ASSUME RuntimeTypeOK, Over, Next \/ UNCHANGED vars,
           ~(Connect("executor") /\ agent["executor"].dials = 0)
    PROVE  Over'
<1>1. /\ up \in Seq(Frames)
      /\ host \in [entry: {"none", "preparing", "running", "finished", "result"},
                   resume: BOOLEAN, detached: BOOLEAN, aborted: BOOLEAN,
                   replay: BOOLEAN, seen: BOOLEAN, recovery: {"none", "waiting", "result"}]
  BY DEF RuntimeTypeOK, WireTypeOK, HostTypeOK
<1>2. NewStarts' = {}
  <2>1. CASE Harmless
    <3>1. ASSUME NEW c \in Exchanges, up' = Append(up, AbortOf(c)) PROVE NewStarts' = NewStarts
      BY <1>1, <3>1, AbortIsHarmless DEF NewStarts
    <3>2. CASE up' = up
      BY <3>2 DEF NewStarts, Carried, Over
    <3>3. CASE up' = <<>>
      BY <3>3 DEF NewStarts, Carried
    <3>. QED BY <2>1, <3>1, <3>2, <3>3 DEF Harmless, Over
  <2>2. ASSUME NEW c \in Exchanges, Acknowledge(c) PROVE NewStarts' = {}
    <3>. DEFINE ack == [type |-> "ack", of |-> c, resume |-> FALSE]
    <3>1. up' \in {up, Append(up, ack)}
      BY <2>2 DEF Acknowledge
    <3>2. ack \in Frames /\ ack \notin FirstStarts
      BY DEF Frames, FirstStarts
    <3>. HIDE DEF ack
    <3>3. NewStarts' = NewStarts
      BY <1>1, <3>1, <3>2, CarriedByAppend DEF NewStarts
    <3>. QED BY <3>3 DEF Over
  <2>3. ASSUME NEW c \in Exchanges, Connect(c) PROVE NewStarts' = {}
    BY <2>3, ConnectStarts DEF Over
  <2>4. CASE HostTakes
    BY <1>1, <2>4, CarriedByTail DEF HostTakes, NewStarts, Over
  <2>5. CASE Prepare
    BY <2>5 DEF Prepare, NewStarts, Carried, Over
  <2>. QED BY <2>1, <2>2, <2>3, <2>4, <2>5, HarmlessSteps
<1>3. CASE ~HostEvent
  BY <1>2, <1>3, HostRests DEF Over, NewEntry, Recoverable, hostVars
<1>4. CASE HostTakes
  <2>1. up # <<>> /\ Head(up) \in Frames /\ Head(up) \notin FirstStarts /\ native' = native
    BY <1>1, <1>4, CarriedByHead DEF HostTakes, Over, NewStarts
  <2>2. CASE TakeStart(Head(up))
    <3>1. Head(up).resume
      BY <2>1, <2>2 DEF TakeStart, FirstStarts, Frames
    <3>2. host'.resume = TRUE \/ (host'.entry = host.entry /\ host'.resume = host.resume)
      BY <1>1, <2>2, <3>1 DEF TakeStart
    <3>3. host'.entry \in {host.entry, "preparing"} /\ receipt' = receipt
      BY <1>1, <2>2 DEF TakeStart
    <3>. QED BY <1>1, <1>2, <2>1, <3>2, <3>3 DEF Over, NewEntry, Recoverable
  <2>3. CASE TakeRecover(Head(up))
    BY <1>1, <1>2, <2>1, <2>3 DEF TakeRecover, Replay, Over, NewEntry, Recoverable
  <2>4. CASE TakeAbort(Head(up))
    BY <1>1, <1>2, <2>1, <2>4 DEF TakeAbort, Over, NewEntry, Recoverable
  <2>5. CASE TakeAck(Head(up))
    BY <1>1, <1>2, <2>1, <2>5 DEF TakeAck, NoEntry, Over, NewEntry, Recoverable
  <2>. QED BY <1>4, <2>2, <2>3, <2>4, <2>5 DEF HostTakes
<1>. USE DEF Over, NewEntry, Recoverable, hostVars
<1>5. CASE Prepare
  BY <1>1, <1>2, <1>5 DEF Prepare, NoEntry
<1>6. CASE HarnessEnds
  BY <1>6 DEF HarnessEnds
<1>7. CASE SaveResult
  BY <1>7 DEF SaveResult
<1>8. CASE ReplayResult
  BY <1>1, <1>2, <1>8 DEF ReplayResult, Replay
<1>9. CASE RecoverResult
  BY <1>1, <1>2, <1>9 DEF RecoverResult, Replay, NoEntry
<1>10. CASE LinkDrops
  BY <1>1, <1>2, <1>10 DEF LinkDrops
<1>11. CASE HostRestarts
  BY <1>1, <1>2, <1>11 DEF HostRestarts, HostIdle
<1>12. CASE HarnessFails
  BY <1>12 DEF HarnessFails
<1>. QED BY <1>3, <1>4, <1>5, <1>6, <1>7, <1>8, <1>9, <1>10, <1>11, <1>12 DEF HostEvent, HostStep

\* A harness that runs has not finished its transcript, and nothing of it is saved.
LEMMA RunsUnfinishedStep ==
    ASSUME RuntimeTypeOK, RunsUnfinished, Next \/ UNCHANGED vars
    PROVE  RunsUnfinished'
<1>. /\ up # <<>> => Head(up) \in Frames
     /\ host \in [entry: {"none", "preparing", "running", "finished", "result"},
                  resume: BOOLEAN, detached: BOOLEAN, aborted: BOOLEAN,
                  replay: BOOLEAN, seen: BOOLEAN, recovery: {"none", "waiting", "result"}]
  BY DEF RuntimeTypeOK, WireTypeOK, HostTypeOK
<1>. USE DEF RunsUnfinished, hostVars
<1>1. CASE ~HostEvent
  BY <1>1, HostRests
<1>2. CASE HostTakes
  <2>1. native' = native /\ runs' = runs
    BY <1>2 DEF HostTakes
  <2>2. host'.entry = "running" => host.entry = "running"
    BY <1>2 DEF HostTakes, TakeStart, TakeRecover, TakeAbort, TakeAck, NoEntry
  <2>3. host.entry = "running" => receipt' \in {receipt, "none"}
    BY <1>2 DEF HostTakes, TakeStart, TakeRecover, TakeAbort, TakeAck, Replay, Recoverable
  <2>. QED BY <2>1, <2>2, <2>3
<1>3. CASE Prepare
  <2>1. runs \in Nat
    BY DEF RuntimeTypeOK, HostTypeOK
  <2>2. host'.entry = "running" => receipt' = "started" /\ native' = "unfinished" /\ runs' = runs + 1
    BY <1>3 DEF Prepare, NoEntry
  <2>. QED BY <2>1, <2>2
<1>4. CASE HarnessEnds
  BY <1>4 DEF HarnessEnds
<1>5. CASE SaveResult
  BY <1>5 DEF SaveResult
<1>6. CASE ReplayResult
  BY <1>6 DEF ReplayResult, Running
<1>7. CASE RecoverResult
  BY <1>7 DEF RecoverResult, NoEntry
<1>8. CASE LinkDrops
  BY <1>8 DEF LinkDrops
<1>9. CASE HostRestarts
  BY <1>9 DEF HostRestarts, HostIdle
<1>10. CASE HarnessFails
  BY <1>10 DEF HarnessFails, NoEntry
<1>. QED BY <1>1, <1>2, <1>3, <1>4, <1>5, <1>6, <1>7, <1>8, <1>9, <1>10 DEF HostEvent, HostStep

\* Another frame does not say that there was an error.
LEMMA ErrorByAppend ==
    ASSUME NEW frames \in Seq(HostEvents), NEW event \in HostEvents \ {"error"}
    PROVE  Carried(Append(frames, event), {"error"}) = Carried(frames, {"error"})
BY DEF Carried

\* The host sends the executor an error only when nothing of the turn runs or can be recovered.
LEMMA ErrorStep ==
    ASSUME RuntimeTypeOK, OneStart, RunsUnfinished, HostEvent,
           host.recovery = "none", ExecutorAcks => agent["executor"].completed
    PROVE  /\ ErrorWaits' => ErrorWaits \/ Over'
           /\ peer["executor"] = "closed" => peer'["executor"] = peer["executor"] /\ down'["executor"] = down["executor"]
<1>1. /\ up \in Seq(Frames)
      /\ down \in [Exchanges -> Seq(HostEvents)] /\ "executor" \in Exchanges /\ "recover" \in Exchanges
      /\ peer \in [Exchanges -> {"closed", "open", "acked"}]
      /\ host \in [entry: {"none", "preparing", "running", "finished", "result"},
                   resume: BOOLEAN, detached: BOOLEAN, aborted: BOOLEAN,
                   replay: BOOLEAN, seen: BOOLEAN, recovery: {"none", "waiting", "result"}]
  BY DEF RuntimeTypeOK, WireTypeOK, HostTypeOK, Exchanges
<1>2. agent' = agent
  BY SessionRests
<1>. DEFINE Goal == /\ ErrorWaits' => ErrorWaits \/ Over'
                    /\ peer["executor"] = "closed" => peer'["executor"] = peer["executor"] /\ down'["executor"] = down["executor"]
<1>. SUFFICES Goal
  OBVIOUS
<1>3. ASSUME peer'["executor"] = peer["executor"], down'["executor"] = down["executor"] PROVE Goal
  BY <1>2, <1>3 DEF ErrorWaits, Carried
<1>4. ASSUME NEW event \in HostEvents, down' = Sent(event, "executor"), UNCHANGED peer PROVE
        /\ peer["executor"] = "closed" => peer'["executor"] = peer["executor"] /\ down'["executor"] = down["executor"]
        /\ event # "error" => (ErrorWaits' => ErrorWaits)
  <2>1. CASE link /\ peer["executor"] # "closed"
    <3>1. down'["executor"] = Append(down["executor"], event)
      BY <1>1, <1>4, <2>1 DEF Sent
    <3>2. event # "error" => Carried(down'["executor"], {"error"}) = Carried(down["executor"], {"error"})
      BY <1>1, <3>1, ErrorByAppend
    <3>. QED BY <1>2, <2>1, <3>2 DEF ErrorWaits
  <2>2. CASE ~(link /\ peer["executor"] # "closed")
    BY <1>2, <1>4, <2>2 DEF Sent, ErrorWaits
  <2>. QED BY <2>1, <2>2
<1>5. {SavedEnd, "unavailable"} \subseteq HostEvents \ {"error"} /\ "error" \in HostEvents
  BY DEF SavedEnd, HostEvents, Ends
<1>. HIDE DEF Goal
<1>6. CASE HostTakes
  <2>1. up # <<>> /\ Head(up) \in Frames /\ peer' = peer
    BY <1>1, <1>6 DEF HostTakes
  <2>2. ASSUME NEW event, down' = Sent(event, "recover") PROVE Goal
    BY <1>1, <1>3, <2>1, <2>2 DEF Sent
  <2>3. CASE down' = down
    BY <1>3, <2>1, <2>3
  <2>4. CASE TakeAck(Head(up)) /\ Head(up).of = "executor"
    <3>1. ExecutorAcks
      BY <1>1, <2>1, <2>4, CarriedByHead DEF TakeAck, Acks, ExecutorAcks
    <3>2. ~ErrorWaits'
      BY <1>2, <3>1 DEF ErrorWaits
    <3>3. down' \in {down, Sent("error", "executor"), Sent("acknowledged", "executor")}
      BY <2>4 DEF TakeAck
    <3>. QED BY <1>4, <2>1, <3>2, <3>3 DEF Goal, HostEvents
  <2>5. CASE TakeAck(Head(up)) /\ Head(up).of # "executor"
    <3>1. Head(up).of = "recover"
      BY <2>1, <2>5 DEF Frames, Exchanges
    <3>. QED BY <2>2, <2>3, <2>5, <3>1 DEF TakeAck
  <2>6. CASE TakeStart(Head(up))
    BY <2>3, <2>6 DEF TakeStart
  <2>7. CASE TakeRecover(Head(up))
    BY <2>2, <2>3, <2>7 DEF TakeRecover, Replay
  <2>8. CASE TakeAbort(Head(up))
    BY <2>3, <2>8 DEF TakeAbort
  <2>. QED BY <1>6, <2>4, <2>5, <2>6, <2>7, <2>8 DEF HostTakes
<1>7. CASE Prepare
  <2>2. CASE down' = down
    <3>1. peer' = peer
      BY <1>7 DEF Prepare
    <3>. QED BY <1>3, <2>2, <3>1
  <2>3. CASE down' = Sent(SavedEnd, "executor") \/ down' = Sent("unavailable", "executor")
    BY <1>4, <1>5, <1>7, <2>3 DEF Prepare, Goal
  <2>4. CASE /\ ~Recoverable /\ ~host.resume /\ host' = NoEntry(host)
             /\ down' = Sent("error", "executor") /\ UNCHANGED <<receipt, native>>
    <3>1. NewEntry /\ UNCHANGED up
      BY <1>7, <2>4 DEF Prepare, NewEntry
    <3>2. NewStarts' = {}
      BY <3>1 DEF OneStart, NewStarts, Carried
    <3>3. Over'
      BY <1>1, <2>4, <3>2 DEF Over, NewEntry, NoEntry, Recoverable
    <3>. QED BY <1>4, <1>5, <1>7, <2>4, <3>3 DEF Prepare, Goal
  <2>. QED BY <1>7, <2>2, <2>3, <2>4 DEF Prepare
<1>8. CASE HarnessEnds
  <2>1. peer' = peer /\ down' = down
    BY <1>8 DEF HarnessEnds, wireVars
  <2>. QED BY <1>3, <2>1
<1>9. CASE SaveResult
  <2>1. down' \in {down, Sent(SavedEnd, "executor")} /\ UNCHANGED peer
    BY <1>9 DEF SaveResult
  <2>. QED BY <1>3, <1>4, <1>5, <2>1 DEF Goal
<1>10. CASE ReplayResult
  <2>1. down' \in {Sent("unavailable", "executor"), Sent(SavedEnd, "executor")} /\ UNCHANGED peer
    BY <1>10 DEF ReplayResult, Replay
  <2>. QED BY <1>4, <1>5, <2>1 DEF Goal
<1>11. CASE RecoverResult
  BY <1>11 DEF RecoverResult
<1>12. CASE LinkDrops \/ HostRestarts
  <2>1. down' = down /\ peer'["executor"] = "closed"
    BY <1>1, <1>12 DEF LinkDrops, HostRestarts, Cut
  <2>. QED BY <1>2, <2>1 DEF Goal, ErrorWaits, Carried
<1>13. CASE HarnessFails
  <2>1. /\ host.entry = "running" /\ host' = NoEntry(host)
        /\ down' \in {down, Sent("error", "executor")}
        /\ UNCHANGED <<peer, up, receipt, native>>
    BY <1>13 DEF HarnessFails
  <2>2. Over'
    <3>1. NewStarts' = NewStarts
      BY <2>1 DEF NewStarts, Carried
    <3>2. NewStarts = {}
      BY <2>1 DEF OneStart, RunsUnfinished
    <3>3. receipt # "saved" /\ native # "finished"
      BY <2>1 DEF RunsUnfinished
    <3>. QED BY <1>1, <2>1, <3>1, <3>2, <3>3 DEF Over, NewEntry, NoEntry, Recoverable
  <2>. QED BY <1>3, <1>4, <1>5, <2>1, <2>2 DEF Goal
<1>. QED BY <1>6, <1>7, <1>8, <1>9, <1>10, <1>11, <1>12, <1>13 DEF HostEvent, HostStep

\* The executor alone: no recovery begins before it has ended.
LEMMA AloneStep ==
    ASSUME RuntimeTypeOK, Sober, Exclusive, Alone, Next \/ UNCHANGED vars
    PROVE  Alone'
<1>1. SUFFICES ASSUME ExecutorOn' PROVE Alone'
  BY DEF Alone
<1>2. ExecutorOn /\ (agent["executor"].completed => agent'["executor"].completed)
  BY <1>1, ExecutorGoes, SessionRests DEF ExecutorOn, At
<1>3. host.recovery = "none" /\ ~RecoveryAsked /\ (ExecutorAcks => agent["executor"].completed)
  BY <1>2 DEF Alone
<1>4. ~Connect("recover")
  BY <1>2 DEF Connect, At, ExecutorOn, Exclusive, Clients, Exchanges
<1>5. ExecutorAcks' => agent'["executor"].completed
  <2>1. CASE Acknowledge("executor")
    BY <2>1 DEF Acknowledge, RuntimeTypeOK, SessionTypeOK, Progress, Clients, Exchanges
  <2>. QED BY <1>2, <1>3, <2>1, FramesStep
<1>6. host'.recovery = "none"
  <2>. host \in [entry: {"none", "preparing", "running", "finished", "result"},
                resume: BOOLEAN, detached: BOOLEAN, aborted: BOOLEAN,
                replay: BOOLEAN, seen: BOOLEAN, recovery: {"none", "waiting", "result"}]
    BY DEF RuntimeTypeOK, HostTypeOK
  <2>1. CASE ~HostEvent
    BY <1>3, <2>1, HostRests DEF hostVars
  <2>2. CASE HostTakes
    <3>1. up \in Seq(Frames) /\ up # <<>> /\ Head(up) \in Frames
      BY <2>2 DEF HostTakes, RuntimeTypeOK, WireTypeOK
    <3>2. Head(up).type # "recover"
      BY <1>3, <3>1, CarriedByHead DEF RecoveryAsked
    <3>. QED BY <1>3, <2>2, <3>2 DEF HostTakes, TakeStart, TakeRecover, TakeAbort, TakeAck, NoEntry
  <2>3. CASE HostEvent /\ ~HostTakes
    <3>1. ~RecoverResult
      BY <1>3 DEF RecoverResult
    <3>2. CASE Prepare
      BY <1>3, <3>2 DEF Prepare, NoEntry
    <3>3. CASE HarnessEnds \/ SaveResult \/ ReplayResult
      BY <1>3, <3>3 DEF HarnessEnds, SaveResult, ReplayResult
    <3>4. CASE LinkDrops
      BY <3>4 DEF LinkDrops
    <3>5. CASE HostRestarts
      BY <3>5 DEF HostRestarts, HostIdle
    <3>6. CASE HarnessFails
      BY <1>3, <3>6 DEF HarnessFails, NoEntry
    <3>. QED BY <2>3, <3>1, <3>2, <3>3, <3>4, <3>5, <3>6 DEF HostEvent, HostStep
  <2>. QED BY <2>1, <2>2, <2>3
<1>. QED BY <1>3, <1>4, <1>5, <1>6, FramesStep DEF Alone

\* Whatever the executor takes for a definite failure stays one.
LEMMA DefiniteStep ==
    ASSUME RuntimeTypeOK, OneStart, RunsUnfinished, Sober, Exclusive, Alone, FailuresAreDefinite,
           Next \/ UNCHANGED vars
    PROVE  FailuresAreDefinite'
<1>1. SUFFICES ASSUME ExecutorOn' PROVE FailuresAreDefinite'
  BY DEF FailuresAreDefinite
<1>. /\ agent \in [Clients -> Progress] /\ "executor" \in Clients
     /\ down \in [Exchanges -> Seq(HostEvents)] /\ "executor" \in Exchanges
  BY DEF RuntimeTypeOK, SessionTypeOK, WireTypeOK, Clients, Exchanges
<1>2. CASE HostEvent
  <2>1. agent' = agent /\ ExecutorOn
    BY <1>1, <1>2, SessionRests DEF ExecutorOn, At
  <2>2. ~Connect("executor") \/ agent["executor"].dials # 0
    <3>1. Connect("executor") => agent'["executor"].dials # agent["executor"].dials
      BY DEF Connect, Progress
    <3>. QED BY <2>1, <3>1
  <2>3. Over => Over'
    BY <2>2, OverStep
  <2>4. /\ ErrorWaits' => ErrorWaits \/ Over'
        /\ peer["executor"] = "closed" =>
             peer'["executor"] = peer["executor"] /\ down'["executor"] = down["executor"]
    BY <1>2, <2>1, ErrorStep DEF Alone
  <2>5. Refused' = Refused /\ At("executor", "fail")' = At("executor", "fail")
        /\ At("executor", "claimed")' = At("executor", "claimed")
    BY <2>1 DEF Refused, At
  <2>. QED BY <2>1, <2>3, <2>4, <2>5 DEF FailuresAreDefinite
<1>3. CASE ~HostEvent
  <2>1. /\ ExecutorOn
        /\ agent'["executor"].dials = agent["executor"].dials \/ Connect("executor")
        /\ agent["executor"].completed => agent'["executor"].completed
        /\ peer["executor"] = "closed" => peer'["executor"] = "closed" \/ Connect("executor")
        /\ Refused' => Refused \/ agent["executor"].dials = 0 \/ At("executor", "claimed") \/ ErrorWaits
        /\ At("executor", "fail")' => At("executor", "fail") \/ Refused
        /\ At("executor", "claimed")' => At("executor", "claimed")
    BY <1>1, <1>3, ExecutorGoes
  <2>2. \/ down'["executor"] \in {down["executor"], <<>>}
        \/ down["executor"] # <<>> /\ down'["executor"] = Tail(down["executor"])
    BY <1>3, HostRests
  <2>3. Connect("executor") => /\ agent'["executor"].dials = agent["executor"].dials + 1
                               /\ agent["executor"].dials + 1 # 0
                               /\ agent["executor"].pc = "dial" /\ agent'["executor"].pc = "open"
                               /\ down' = down
    BY DEF Connect, At, Progress
  <2>4. ErrorWaits' => ErrorWaits
    <3>1. down["executor"] # <<>> /\ down'["executor"] = Tail(down["executor"])
            => (Carried(down'["executor"], {"error"}) # {} => Carried(down["executor"], {"error"}) # {})
      BY DEF Carried
    <3>2. down'["executor"] = <<>> => Carried(down'["executor"], {"error"}) = {}
      BY DEF Carried
    <3>. QED BY <2>1, <2>2, <3>1, <3>2 DEF ErrorWaits
  <2>5. ErrorWaits => agent["executor"].dials # 0
    BY <2>1 DEF FailuresAreDefinite, ErrorWaits, Carried
  <2>6. Connect("executor") /\ agent["executor"].dials = 0
          => ~(ErrorWaits \/ Refused' \/ At("executor", "fail")')
    BY <2>3, <2>5 DEF Refused, At
  <2>7. CASE Connect("executor") /\ agent["executor"].dials = 0
    BY <2>3, <2>4, <2>6, <2>7 DEF FailuresAreDefinite, At
  <2>8. CASE ~(Connect("executor") /\ agent["executor"].dials = 0)
    <3>1. Over => Over'
      BY <2>8, OverStep
    <3>2. agent'["executor"].dials = 0 =>
            Over' /\ down'["executor"] = <<>> /\ peer'["executor"] = "closed"
      BY <2>1, <2>2, <2>3, <2>8, <3>1 DEF FailuresAreDefinite
    <3>3. ErrorWaits' \/ Refused' \/ At("executor", "fail")' => Over'
      BY <2>1, <2>4, <3>1 DEF FailuresAreDefinite
    <3>4. At("executor", "claimed")' => agent'["executor"].dials = 0
      BY <2>1, <2>3 DEF FailuresAreDefinite, At
    <3>. QED BY <3>2, <3>3, <3>4 DEF FailuresAreDefinite
  <2>. QED BY <2>7, <2>8
<1>. QED BY <1>2, <1>3

\* A turn that failed stays over.
LEMMA FailedIsOverStep ==
    ASSUME RuntimeTypeOK, Sober, Exclusive, FailuresAreDefinite, FailedIsOver, Next \/ UNCHANGED vars
    PROVE  FailedIsOver'
<1>1. SUFFICES ASSUME turn'.status = "failed" PROVE Over' /\ ~ExecutorOn'
  BY DEF FailedIsOver
<1>2. turn.status = "failed" \/ (At("executor", "fail") /\ ~ExecutorOn')
  BY <1>1, FailureIsWritten
<1>3. Over /\ ~ExecutorOn'
  <2>1. CASE turn.status = "failed"
    <3>1. Over /\ ~ExecutorOn
      BY <2>1 DEF FailedIsOver
    <3>2. ~ExecutorOn'
      BY <3>1, ExecutorGoes, SessionRests DEF ExecutorOn, At
    <3>. QED BY <3>1, <3>2
  <2>2. CASE At("executor", "fail") /\ ~ExecutorOn'
    BY <2>2 DEF FailuresAreDefinite, ExecutorOn, At
  <2>. QED BY <1>2, <2>1, <2>2
<1>4. ~Connect("executor")
  BY <1>3 DEF Connect, ExecutorOn, At, RuntimeTypeOK, SessionTypeOK, Progress, Clients, Exchanges
<1>. QED BY <1>3, <1>4, OverStep

\* UnknownStaysActive: as long as no lease is lost and no gateway is full, failSessionTurn is reached
\* only when the host does not run the turn, holds no result of it and will not start it any more
\* (processor.ts handles a RuntimeExecutionUncertainError apart and fails the turn on the other failures).
THEOREM UnknownOutcomeStays == Spec => []UnknownStaysActive
<1>. DEFINE Inv == RunsUnfinished /\ (Sober => FenceInv)
<1>1. Init => OneStart /\ Inv
  BY DEF Init, OneStart, NewStarts, NewExecutor, NewEntry, Carried, HostIdle, Idle, Clients, Exchanges, At, RunsUnfinished,
         FenceInv, Exclusive, Alone, FailuresAreDefinite, FailedIsOver, Over, Recoverable, ErrorWaits, Refused,
         ExecutorOn, RecoveryAsked, ExecutorAcks, Jobs
<1>2. RuntimeTypeOK /\ OneStart /\ Inv /\ [Next]_vars => OneStart' /\ Inv'
  <2>. SUFFICES ASSUME RuntimeTypeOK, OneStart, Inv, Next \/ UNCHANGED vars PROVE OneStart' /\ Inv'
    OBVIOUS
  <2>1. Sober' => Sober
    BY HostRests, SessionRests DEF Sober
  <2>2. Sober => FenceInv'
    BY ExclusiveStep, AloneStep, DefiniteStep, FailedIsOverStep DEF FenceInv
  <2>. QED BY <2>1, <2>2, OneStartStep, RunsUnfinishedStep
<1>3. Inv => UnknownStaysActive
  BY DEF FenceInv, FailedIsOver, Over, UnknownStaysActive, UnknownNeverFails, Sober
<1>. QED BY <1>1, <1>2, <1>3, RuntimeTypes, PTL DEF Spec

=============================================================================
