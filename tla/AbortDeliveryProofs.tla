------------------------ MODULE AbortDeliveryProofs ------------------------
(***************************************************************************)
(* Proofs about the stop of a turn, for any number of stops, promotions    *)
(* and billing stops, any number of rounds and any number of failures:     *)
(*   - a billing stop does not replace a user stop in the key              *)
(*     (KeyKeepsUserStop) and cuts no round short (BillingLetsRoundEnd);   *)
(*   - without a failure no round starts after a stop was sent             *)
(*     (NextRoundNeverStarts);                                             *)
(*   - with at most one failure a user stop that has arrived has aborted   *)
(*     whatever executes (StopIsHeard).                                    *)
(***************************************************************************)
EXTENDS AbortDelivery, TLAPS

\* The turn's controller is registered.
Registered == {"read", "apply", "boundary", "round", "shell", "unwind", "stopped", "final", "cancelled", "settle"}
Places     == Registered \cup {"queued", "precheck", "prechecked", "prepare", "ended"}

\* What the proofs need to know of the types.
DeliveryType ==
  /\ key \in Event /\ active \in Event /\ got \in Event /\ cmdGot \in Event
  /\ noted \in Payers \cup {None}
  /\ mail \in Seq(Requesters)
  /\ req \in [Requesters -> {"idle", "fresh", "marked", "compare", "set", "sent", "done"}]
  /\ armed \subseteq {"turn", "cmd"} /\ aborted \subseteq {"turn", "cmd"}
  /\ ex \in Places /\ kind \in Kinds
  /\ faults \in Nat
  /\ ex \in Registered => "turn" \in armed

LEMMA DeliveryTypeStep ==
  ASSUME DeliveryType, Next \/ UNCHANGED vars
  PROVE  DeliveryType'
<1>. USE RequestersAreApart DEF DeliveryType, Event, Requesters, Users, Registered, Places, Step, Go,
         row, redis, host, command, memory
<1>1. ASSUME NEW r \in Users, Mark(r) PROVE DeliveryType'
  BY <1>1 DEF Mark
<1>2. ASSUME NEW r \in Steerers, RollBack(r) PROVE DeliveryType'
  BY <1>2 DEF RollBack, Fault
<1>3. ASSUME NEW r \in Payers, SelectForBilling(r) PROVE DeliveryType'
  BY <1>3 DEF SelectForBilling
<1>4. ASSUME NEW r \in Payers, Compare(r) PROVE DeliveryType'
  BY <1>4 DEF Compare
<1>5. ASSUME NEW r \in Requesters, SetKey(r) PROVE DeliveryType'
  BY <1>5 DEF SetKey
<1>6. ASSUME NEW r \in Requesters, Publish(r) PROVE DeliveryType'
  BY <1>6 DEF Publish
<1>7. ASSUME NEW r \in Requesters, RequestFails(r) PROVE DeliveryType'
  BY <1>7 DEF RequestFails, Fault
<1>8. CASE Deliver
  <2>1. Head(mail) \in Requesters /\ mail' \in Seq(Requesters)
    BY <1>8 DEF Deliver
  <2>2. active' \in Event /\ aborted' \subseteq {"turn", "cmd"} /\ noted' \in Payers \cup {None}
    BY <1>8, <2>1 DEF Deliver, AbortExecutions
  <2>. QED BY <1>8, <2>1, <2>2 DEF Deliver
<1>9. CASE Lose
  BY <1>9 DEF Lose, Fault
<1>10. CASE Forget
  BY <1>10 DEF Forget, Fault
<1>11. CASE Claim
  BY <1>11 DEF Claim
<1>12. CASE ReadBefore
  BY <1>12 DEF ReadBefore, GetKey, Fault
<1>13. CASE Precheck
  BY <1>13 DEF Precheck, Interrupt
<1>14. CASE Register
  BY <1>14 DEF Register, Arm
<1>15. CASE ReadAfter
  BY <1>15 DEF ReadAfter, GetKey, Fault
<1>16. CASE Apply
  BY <1>16 DEF Apply, Begin
<1>17. CASE StopAtBoundary
  BY <1>17 DEF StopAtBoundary, AbortExecutions
<1>18. CASE BeginRound
  BY <1>18 DEF BeginRound
<1>19. CASE Catch
  BY <1>19 DEF Catch
<1>20. CASE Snapshot
  BY <1>20 DEF Snapshot
<1>21. CASE SettleStopped
  BY <1>21 DEF SettleStopped, Interrupt, Disarm
<1>22. CASE ShellCancelled
  BY <1>22 DEF ShellCancelled
<1>23. CASE PersistFinal
  BY <1>23 DEF PersistFinal
<1>24. CASE Settle
  BY <1>24 DEF Settle, FailTurn, Disarm
<1>25. CASE EndRound
  BY <1>25 DEF EndRound
<1>26. CASE ShellEnds
  BY <1>26 DEF ShellEnds
<1>27. CASE Crumble
  BY <1>27 DEF Crumble, Fault, FailTurn, Disarm
<1>28. CASE LoseLease
  BY <1>28 DEF LoseLease, Fault
<1>29. CASE StartCommand
  BY <1>29 DEF StartCommand, Arm
<1>30. CASE CommandReads
  BY <1>30 DEF CommandReads, GetKey, Fault
<1>31. CASE CommandApplies
  BY <1>31 DEF CommandApplies
<1>32. CASE CommandEnds
  BY <1>32 DEF CommandEnds, Disarm
<1>33. CASE UNCHANGED vars
  BY <1>33 DEF vars
<1>. QED BY <1>1, <1>2, <1>3, <1>4, <1>5, <1>6, <1>7, <1>8, <1>9, <1>10, <1>11, <1>12,
            <1>13, <1>14, <1>15, <1>16, <1>17, <1>18, <1>19, <1>20, <1>21, <1>22, <1>23, <1>24,
            <1>25, <1>26, <1>27, <1>28, <1>29, <1>30, <1>31, <1>32, <1>33
          DEF Next, Requests, ExecutorStep

\* KeyKeepsUserStop: a billing stop uses SET NX, so a user stop that is in the key is replaced by none
\* (requestAgentTurnAbort).
THEOREM UserStopKeepsKey == Spec => KeyKeepsUserStop
<1>1. [Next]_vars => [(key \in Users) => key' \notin Payers]_key
  <2>. SUFFICES ASSUME Next \/ UNCHANGED vars, key \in Users PROVE key' = key \/ key' \in Users
    BY RequestersAreApart DEF Users
  <2>1. (\E r \in Requesters : SetKey(r)) \/ key' = key
    BY DEF Next, Requests, ExecutorStep, Mark, RollBack, SelectForBilling, Compare, Publish, RequestFails, Deliver,
       Lose, Forget, Claim, ReadBefore, Precheck, Register, ReadAfter, Apply, StopAtBoundary, BeginRound, Catch,
       Snapshot, SettleStopped, ShellCancelled, PersistFinal, Settle, EndRound, ShellEnds, Crumble, LoseLease,
       StartCommand, CommandReads, CommandApplies, CommandEnds, redis, vars
  <2>. QED BY <2>1, RequestersAreApart DEF SetKey, Requesters, Users
<1>. QED BY <1>1, PTL DEF Spec, KeyKeepsUserStop

-----------------------------------------------------------------------------
(***************************************************************************)
(* A billing stop waits for the end of the round.                          *)
(***************************************************************************)
\* A billing stop is kept as the explaining event only together with the abort of the turn.
BillingAborts == active \in Payers => "turn" \in aborted

LEMMA BillingStep ==
  ASSUME DeliveryType, BillingAborts, Next \/ UNCHANGED vars
  PROVE  /\ BillingAborts'
         /\ ex = "round" /\ "turn" \notin aborted /\ "turn" \in aborted' => active' \notin Payers
<1>. DEFINE Kept == ex = "round" /\ "turn" \notin aborted /\ "turn" \in aborted' => active' \notin Payers
<1>. USE RequestersAreApart DEF DeliveryType, BillingAborts, Event, Requesters, Users, Registered, Step,
         row, redis, host, command, memory
<1>1. ASSUME NEW r \in Users, Mark(r) PROVE BillingAborts' /\ Kept
  BY <1>1 DEF Mark
<1>2. ASSUME NEW r \in Steerers, RollBack(r) PROVE BillingAborts' /\ Kept
  BY <1>2 DEF RollBack, Fault
<1>3. ASSUME NEW r \in Payers, SelectForBilling(r) PROVE BillingAborts' /\ Kept
  BY <1>3 DEF SelectForBilling
<1>4. ASSUME NEW r \in Payers, Compare(r) PROVE BillingAborts' /\ Kept
  BY <1>4 DEF Compare
<1>5. ASSUME NEW r \in Requesters, SetKey(r) PROVE BillingAborts' /\ Kept
  BY <1>5 DEF SetKey
<1>6. ASSUME NEW r \in Requesters, Publish(r) PROVE BillingAborts' /\ Kept
  BY <1>6 DEF Publish
<1>7. ASSUME NEW r \in Requesters, RequestFails(r) PROVE BillingAborts' /\ Kept
  BY <1>7 DEF RequestFails, Fault
<1>8. CASE Deliver
  BY <1>8 DEF Deliver, AbortExecutions
<1>9. CASE Lose
  BY <1>9 DEF Lose, Fault
<1>10. CASE Forget
  BY <1>10 DEF Forget, Fault
<1>11. CASE Claim
  BY <1>11 DEF Claim
<1>12. CASE ReadBefore
  BY <1>12 DEF ReadBefore, GetKey, Fault
<1>13. CASE Precheck
  BY <1>13 DEF Precheck, Interrupt
<1>14. CASE Register
  BY <1>14 DEF Register, Arm
<1>15. CASE ReadAfter
  BY <1>15 DEF ReadAfter, GetKey, Fault
<1>16. CASE Apply
  BY <1>16 DEF Apply, Begin
<1>17. CASE StopAtBoundary
  BY <1>17 DEF StopAtBoundary, AbortExecutions
<1>18. CASE BeginRound
  BY <1>18 DEF BeginRound
<1>19. CASE Catch
  BY <1>19 DEF Catch
<1>20. CASE Snapshot
  BY <1>20 DEF Snapshot
<1>21. CASE SettleStopped
  BY <1>21 DEF SettleStopped, Interrupt, Disarm
<1>22. CASE ShellCancelled
  BY <1>22 DEF ShellCancelled
<1>23. CASE PersistFinal
  BY <1>23 DEF PersistFinal
<1>24. CASE Settle
  BY <1>24 DEF Settle, FailTurn, Disarm
<1>25. CASE EndRound
  BY <1>25 DEF EndRound
<1>26. CASE ShellEnds
  BY <1>26 DEF ShellEnds
<1>27. CASE Crumble
  BY <1>27 DEF Crumble, Fault, FailTurn, Disarm
<1>28. CASE LoseLease
  BY <1>28 DEF LoseLease, Fault
<1>29. CASE StartCommand
  BY <1>29 DEF StartCommand, Arm
<1>30. CASE CommandReads
  BY <1>30 DEF CommandReads, GetKey, Fault
<1>31. CASE CommandApplies
  BY <1>31 DEF CommandApplies
<1>32. CASE CommandEnds
  BY <1>32 DEF CommandEnds, Disarm
<1>33. CASE UNCHANGED vars
  BY <1>33 DEF vars
<1>. QED BY <1>1, <1>2, <1>3, <1>4, <1>5, <1>6, <1>7, <1>8, <1>9, <1>10, <1>11, <1>12,
            <1>13, <1>14, <1>15, <1>16, <1>17, <1>18, <1>19, <1>20, <1>21, <1>22, <1>23, <1>24,
            <1>25, <1>26, <1>27, <1>28, <1>29, <1>30, <1>31, <1>32, <1>33
          DEF Next, Requests, ExecutorStep

\* BillingLetsRoundEnd: a billing stop does not abort the turn within a round; it is noted and executed
\* at the next round boundary (subscribeAbortEvents, prepareRequest).
THEOREM BillingWaits == Spec => BillingLetsRoundEnd
<1>1. Init => DeliveryType /\ BillingAborts
  BY RequestersAreApart DEF Init, DeliveryType, BillingAborts, Event, Requesters, Users, Places, Registered
<1>2. DeliveryType /\ BillingAborts /\ [Next]_vars => DeliveryType' /\ BillingAborts'
  BY DeliveryTypeStep, BillingStep
<1>3. DeliveryType /\ BillingAborts /\ [Next]_vars
        => [ex = "round" /\ "turn" \notin aborted /\ "turn" \in aborted' => active' \notin Payers]_vars
  BY BillingStep
<1>. QED BY <1>1, <1>2, <1>3, PTL DEF Spec, BillingLetsRoundEnd

-----------------------------------------------------------------------------
(***************************************************************************)
(* No round starts after a stop was sent.                                  *)
(***************************************************************************)
InMail(r) == \E i \in 1..Len(mail) : mail[i] = r
UserOnItsWay == \E u \in Users : req[u] = "set" \/ InMail(u)

\* Whoever has written the key finds it written; a user stop that was read from it is on its way or there.
KeyIsKept ==
  /\ \A r \in Requesters : req[r] \in {"set", "sent"} => key # None
  /\ \A r \in Users : key = r \/ cmdGot = r => req[r] \in {"set", "sent"}

\* A user stop that has arrived is kept, and it has aborted the turn that is registered.
UserStopIsKept ==
  \A r \in Users : req[r] = "sent" /\ ~InMail(r) => active # None /\ ("turn" \in armed => "turn" \in aborted)

\* A kept stop that has not aborted the turn was read by a command, ahead of its event.
KeptIsOnItsWay == active # None /\ "turn" \in armed /\ "turn" \notin aborted => UserOnItsWay

\* Once the executor has read the key, a billing stop that has arrived aborts the turn or is noted.
Looked == ex \in {"boundary", "round"} \/ (ex = "apply" /\ got = None)
BillingIsNoted ==
  \A r \in Payers : Looked /\ req[r] = "sent" /\ ~InMail(r)
                      => "turn" \in aborted \/ noted # None \/ UserOnItsWay

StopsReach == faults = 0 => KeyIsKept /\ UserStopIsKept /\ KeptIsOnItsWay /\ BillingIsNoted

LEMMA MailStays ==
  ASSUME mail' = mail
  PROVE  \A r : InMail(r)' <=> InMail(r)
BY DEF InMail

LEMMA MailGrows ==
  ASSUME mail \in Seq(Requesters), NEW e \in Requesters, mail' = Append(mail, e)
  PROVE  \A r : InMail(r)' <=> InMail(r) \/ r = e
BY DEF InMail

LEMMA MailShrinks ==
  ASSUME mail \in Seq(Requesters), mail # <<>>, mail' = Tail(mail)
  PROVE  \A r : (InMail(r) => InMail(r)' \/ r = Head(mail)) /\ (InMail(r)' => InMail(r))
<1>1. ASSUME NEW r, InMail(r) PROVE InMail(r)' \/ r = Head(mail)
  <2>1. PICK i \in 1..Len(mail) : mail[i] = r
    BY <1>1 DEF InMail
  <2>2. CASE i # 1
    <3>1. i - 1 \in 1..Len(Tail(mail)) /\ Tail(mail)[i - 1] = r
      BY <2>1, <2>2
    <3>. QED BY <3>1 DEF InMail
  <2>. QED BY <2>1, <2>2
<1>2. ASSUME NEW r, InMail(r)' PROVE InMail(r)
  <2>1. PICK i \in 1..Len(Tail(mail)) : Tail(mail)[i] = r
    BY <1>2 DEF InMail
  <2>2. i + 1 \in 1..Len(mail) /\ mail[i + 1] = r
    BY <2>1
  <2>. QED BY <2>2 DEF InMail
<1>. QED BY <1>1, <1>2

LEMMA StopsReachStep ==
  ASSUME DeliveryType, StopsReach, Next \/ UNCHANGED vars
  PROVE  StopsReach'
<1>. USE RequestersAreApart, MailStays DEF DeliveryType, StopsReach, KeyIsKept, UserStopIsKept, KeptIsOnItsWay, BillingIsNoted,
         UserOnItsWay, Looked, Event, Requesters, Users, Registered, Step, Go, row, redis, host, command, memory
<1>1. ASSUME NEW r \in Users, Mark(r) PROVE StopsReach'
  BY <1>1 DEF Mark
<1>2. ASSUME NEW r \in Steerers, RollBack(r) PROVE StopsReach'
  BY <1>2 DEF RollBack, Fault
<1>3. ASSUME NEW r \in Payers, SelectForBilling(r) PROVE StopsReach'
  BY <1>3 DEF SelectForBilling
<1>4. ASSUME NEW r \in Payers, Compare(r) PROVE StopsReach'
  BY <1>4 DEF Compare
<1>5. ASSUME NEW r \in Requesters, SetKey(r) PROVE StopsReach'
  BY <1>5 DEF SetKey
<1>6. ASSUME NEW r \in Requesters, Publish(r) PROVE StopsReach'
  BY <1>6, MailGrows DEF Publish
<1>7. ASSUME NEW r \in Requesters, RequestFails(r) PROVE StopsReach'
  BY <1>7 DEF RequestFails, Fault
<1>8. CASE Deliver
  BY <1>8, MailShrinks DEF Deliver, AbortExecutions
<1>9. CASE Lose
  BY <1>9 DEF Lose, Fault
<1>10. CASE Forget
  BY <1>10 DEF Forget, Fault
<1>11. CASE Claim
  BY <1>11 DEF Claim
<1>12. CASE ReadBefore
  BY <1>12 DEF ReadBefore, GetKey, Fault
<1>13. CASE Precheck
  BY <1>13 DEF Precheck, Interrupt
<1>14. CASE Register
  BY <1>14 DEF Register, Arm
<1>15. CASE ReadAfter
  BY <1>15 DEF ReadAfter, GetKey, Fault
<1>16. CASE Apply
  BY <1>16 DEF Apply, Begin
<1>17. CASE StopAtBoundary
  BY <1>17 DEF StopAtBoundary, AbortExecutions
<1>18. CASE BeginRound
  BY <1>18 DEF BeginRound
<1>19. CASE Catch
  BY <1>19 DEF Catch
<1>20. CASE Snapshot
  BY <1>20 DEF Snapshot
<1>21. CASE SettleStopped
  BY <1>21 DEF SettleStopped, Interrupt, Disarm
<1>22. CASE ShellCancelled
  BY <1>22 DEF ShellCancelled
<1>23. CASE PersistFinal
  BY <1>23 DEF PersistFinal
<1>24. CASE Settle
  BY <1>24 DEF Settle, FailTurn, Disarm
<1>25. CASE EndRound
  BY <1>25 DEF EndRound
<1>26. CASE ShellEnds
  BY <1>26 DEF ShellEnds
<1>27. CASE Crumble
  BY <1>27 DEF Crumble, Fault, FailTurn, Disarm
<1>28. CASE LoseLease
  BY <1>28 DEF LoseLease, Fault
<1>29. CASE StartCommand
  BY <1>29 DEF StartCommand, Arm
<1>30. CASE CommandReads
  BY <1>30 DEF CommandReads, GetKey, Fault
<1>31. CASE CommandApplies
  BY <1>31 DEF CommandApplies
<1>32. CASE CommandEnds
  BY <1>32 DEF CommandEnds, Disarm
<1>33. CASE UNCHANGED vars
  BY <1>33 DEF vars
<1>. QED BY <1>1, <1>2, <1>3, <1>4, <1>5, <1>6, <1>7, <1>8, <1>9, <1>10, <1>11, <1>12,
            <1>13, <1>14, <1>15, <1>16, <1>17, <1>18, <1>19, <1>20, <1>21, <1>22, <1>23, <1>24,
            <1>25, <1>26, <1>27, <1>28, <1>29, <1>30, <1>31, <1>32, <1>33
          DEF Next, Requests, ExecutorStep

\* NextRoundNeverStarts: without a failure no round starts once a stop was sent and none is between the
\* key and the listener (turn-abort.ts, active-turns.ts, prepareRequest; the CHANGELOG's claim).
THEOREM StopEndsRounds == Spec => NextRoundNeverStarts
<1>1. Init => DeliveryType /\ StopsReach
  BY RequestersAreApart DEF Init, DeliveryType, StopsReach, KeyIsKept, UserStopIsKept, KeptIsOnItsWay, BillingIsNoted, Looked,
     Event, Requesters, Users, Places, Registered
<1>2. DeliveryType /\ StopsReach /\ [Next]_vars => DeliveryType' /\ StopsReach'
  BY DeliveryTypeStep, StopsReachStep
<1>3. DeliveryType /\ StopsReach /\ [Next]_vars
        => [faults = 0 /\ ex = "boundary" /\ ~OnItsWay /\ (\E r \in Requesters : req[r] = "sent") => ex' # "round"]_ex
  <2>. SUFFICES ASSUME DeliveryType, StopsReach, Next \/ UNCHANGED vars,
                       faults = 0, ex = "boundary", ~OnItsWay, NEW r \in Requesters, req[r] = "sent", ex' = "round"
                PROVE  FALSE
    OBVIOUS
  <2>1. ~UserOnItsWay /\ ~InMail(r)
    BY DEF OnItsWay, UserOnItsWay, InMail, Users, Requesters
  <2>2. "turn" \in aborted \/ noted # None
    BY <2>1 DEF StopsReach, UserStopIsKept, BillingIsNoted, Looked, DeliveryType, Registered, Requesters
  <2>3. BeginRound
    BY DEF Next, Requests, ExecutorStep, Mark, RollBack, SelectForBilling, Compare, SetKey, Publish, RequestFails, Deliver,
       Lose, Forget, Claim, ReadBefore, Precheck, Register, ReadAfter, Apply, StopAtBoundary, BeginRound, Catch,
       Snapshot, SettleStopped, ShellCancelled, PersistFinal, Settle, EndRound, ShellEnds, Crumble, LoseLease,
       StartCommand, CommandReads, CommandApplies, CommandEnds, host, vars, Step
  <2>. QED BY <2>2, <2>3 DEF BeginRound
<1>. QED BY <1>1, <1>2, <1>3, PTL DEF Spec, NextRoundNeverStarts

-----------------------------------------------------------------------------
(***************************************************************************)
(* A user stop is heard, even if one thing fails.                          *)
(***************************************************************************)
CommandType ==
  /\ cmd \in {"idle", "read", "apply", "running", "ended"}
  /\ cmd \in {"read", "apply", "running"} => "cmd" \in armed

\* What executes is aborted, or it has still to read the key or to act on what it read.
TurnHears    == /\ ex \in {"boundary", "round", "shell"} => "turn" \in aborted
                /\ ex = "apply" => "turn" \in aborted \/ got # None
CommandHears == /\ cmd = "running" => "cmd" \in aborted
                /\ cmd = "apply" => "cmd" \in aborted \/ cmdGot \in Users

\* The event is kept and has aborted what is registered.
Kept == active # None /\ \A c \in armed : c \in aborted

UserStopIsHeard ==
  /\ \A r \in Users : req[r] \in {"set", "sent"} => key \in Users
  /\ \A r \in Users : req[r] = "sent" /\ ~InMail(r) => TurnHears /\ CommandHears /\ (Kept \/ faults = 1)

LEMMA UserStopIsHeardStep ==
  ASSUME DeliveryType, CommandType, UserStopIsHeard, Next \/ UNCHANGED vars, MaxFaults \in {0, 1}
  PROVE  CommandType' /\ UserStopIsHeard'
<1>. USE RequestersAreApart, MailStays DEF DeliveryType, CommandType, UserStopIsHeard, TurnHears, CommandHears, Kept,
         Event, Requesters, Users, Registered, Step, Go, row, redis, host, command, memory
<1>1. ASSUME NEW r \in Users, Mark(r) PROVE CommandType' /\ UserStopIsHeard'
  BY <1>1 DEF Mark
<1>2. ASSUME NEW r \in Steerers, RollBack(r) PROVE CommandType' /\ UserStopIsHeard'
  BY <1>2 DEF RollBack, Fault
<1>3. ASSUME NEW r \in Payers, SelectForBilling(r) PROVE CommandType' /\ UserStopIsHeard'
  BY <1>3 DEF SelectForBilling
<1>4. ASSUME NEW r \in Payers, Compare(r) PROVE CommandType' /\ UserStopIsHeard'
  BY <1>4 DEF Compare
<1>5. ASSUME NEW r \in Requesters, SetKey(r) PROVE CommandType' /\ UserStopIsHeard'
  BY <1>5 DEF SetKey
<1>6. ASSUME NEW r \in Requesters, Publish(r) PROVE CommandType' /\ UserStopIsHeard'
  BY <1>6, MailGrows DEF Publish
<1>7. ASSUME NEW r \in Requesters, RequestFails(r) PROVE CommandType' /\ UserStopIsHeard'
  BY <1>7 DEF RequestFails, Fault
<1>8. CASE Deliver
  BY <1>8, MailShrinks DEF Deliver, AbortExecutions
<1>9. CASE Lose
  BY <1>9, MailShrinks DEF Lose, Fault
<1>10. CASE Forget
  BY <1>10 DEF Forget, Fault
<1>11. CASE Claim
  BY <1>11 DEF Claim
<1>12. CASE ReadBefore
  BY <1>12 DEF ReadBefore, GetKey, Fault
<1>13. CASE Precheck
  BY <1>13 DEF Precheck, Interrupt
<1>14. CASE Register
  BY <1>14 DEF Register, Arm
<1>15. CASE ReadAfter
  BY <1>15 DEF ReadAfter, GetKey, Fault
<1>16. CASE Apply
  BY <1>16 DEF Apply, Begin
<1>17. CASE StopAtBoundary
  BY <1>17 DEF StopAtBoundary, AbortExecutions
<1>18. CASE BeginRound
  BY <1>18 DEF BeginRound
<1>19. CASE Catch
  BY <1>19 DEF Catch
<1>20. CASE Snapshot
  BY <1>20 DEF Snapshot
<1>21. CASE SettleStopped
  BY <1>21 DEF SettleStopped, Interrupt, Disarm
<1>22. CASE ShellCancelled
  BY <1>22 DEF ShellCancelled
<1>23. CASE PersistFinal
  BY <1>23 DEF PersistFinal
<1>24. CASE Settle
  BY <1>24 DEF Settle, FailTurn, Disarm
<1>25. CASE EndRound
  BY <1>25 DEF EndRound
<1>26. CASE ShellEnds
  BY <1>26 DEF ShellEnds
<1>27. CASE Crumble
  BY <1>27 DEF Crumble, Fault, FailTurn, Disarm
<1>28. CASE LoseLease
  BY <1>28 DEF LoseLease, Fault
<1>29. CASE StartCommand
  BY <1>29 DEF StartCommand, Arm
<1>30. CASE CommandReads
  BY <1>30 DEF CommandReads, GetKey, Fault
<1>31. CASE CommandApplies
  BY <1>31 DEF CommandApplies
<1>32. CASE CommandEnds
  BY <1>32 DEF CommandEnds, Disarm
<1>33. CASE UNCHANGED vars
  BY <1>33 DEF vars
<1>. QED BY <1>1, <1>2, <1>3, <1>4, <1>5, <1>6, <1>7, <1>8, <1>9, <1>10, <1>11, <1>12,
            <1>13, <1>14, <1>15, <1>16, <1>17, <1>18, <1>19, <1>20, <1>21, <1>22, <1>23, <1>24,
            <1>25, <1>26, <1>27, <1>28, <1>29, <1>30, <1>31, <1>32, <1>33
          DEF Next, Requests, ExecutorStep

\* StopIsHeard: the order SET, PUBLISH against register, GET, and the events kept for a turn not yet
\* registered, lose no user stop, even if any one thing fails (active-turns.ts, abort.ts).
THEOREM OneFailureLosesNoStop == ASSUME MaxFaults \in {0, 1} PROVE Spec => []StopIsHeard
<1>1. Init => DeliveryType /\ CommandType /\ UserStopIsHeard
  BY RequestersAreApart DEF Init, DeliveryType, CommandType, UserStopIsHeard, Event, Requesters, Users, Places, Registered
<1>2. DeliveryType /\ CommandType /\ UserStopIsHeard /\ [Next]_vars
        => DeliveryType' /\ CommandType' /\ UserStopIsHeard'
  BY DeliveryTypeStep, UserStopIsHeardStep
<1>3. UserStopIsHeard => StopIsHeard
  BY DEF UserStopIsHeard, StopIsHeard, InMail, TurnHears, CommandHears
<1>. QED BY <1>1, <1>2, <1>3, PTL DEF Spec

=============================================================================
