--------------------------- MODULE SessionLeaseProofs --------------------------
(***************************************************************************)
(* Proofs about SessionLease for any number of acquisitions, any TTL and    *)
(* any renewal interval, as long as timers run less late than the margin;   *)
(* and, where Redis answers in time (MCSessionLease), that a lease outlives *)
(* one failed renewal.                                                      *)
(***************************************************************************)
EXTENDS MCSessionLease, TLAPS

(* The margin lies between the lateness of a timer and the TTL. *)
LEMMA Numbers ==
  /\ Ttl \in Nat /\ Margin \in Nat /\ Margin <= Ttl /\ Period \in Nat
  /\ Lag \in Nat /\ Lag < Margin /\ MaxFaults \in Nat
BY LeaseAssumption DEF LeaseAssumption, Margin, Period, AtMost

-----------------------------------------------------------------------------
(* The inductive invariant.                                                 *)

(* No command comes from the future, and no TTL is longer than Ttl. *)
ClockOK ==
  /\ \A k \in Tokens : sentAt[k] <= now
  /\ expireAt <= now + Ttl

(* A key that was set stays until Ttl after the SET was dispatched. *)
SetAnswered(k) ==
  st[k] = "acquiring" /\ req[k] = "yes" /\ now < sentAt[k] + Ttl
    => key = k /\ sentAt[k] + Ttl <= expireAt

(* The key outlives the deadline of a healthy lease by Margin, and so does   *)
(* the one that a renewal answered with "yes" is about to set.              *)
LeaseHeld(k) ==
  Healthy(k) =>
    /\ key = k
    /\ deadline[k] + Margin <= expireAt
    /\ now <= deadline[k] + Lag
    /\ req[k] = "yes" => sentAt[k] + Ttl <= expireAt

LeaseInv ==
  /\ LeaseTypeOK
  /\ ClockOK
  /\ \A k \in Tokens : SetAnswered(k) /\ LeaseHeld(k)

(* A key that someone may rely on is stored. *)
LEMMA HeldIsStored ==
  ASSUME LeaseInv, NEW k \in Tokens,
         \/ Healthy(k)
         \/ st[k] = "acquiring" /\ req[k] = "yes" /\ now < sentAt[k] + Ttl
  PROVE  Stored(k)
BY Numbers DEF LeaseInv, LeaseTypeOK, SetAnswered, LeaseHeld, Stored

(* Nothing is acquired at first. *)
LEMMA InitLease == Init => LeaseInv
BY Numbers
DEF Init, LeaseInv, LeaseTypeOK, ClockOK, SetAnswered, LeaseHeld, Healthy

-----------------------------------------------------------------------------
(* Every step keeps it. *)

(* The steps of the acquisition. *)
LEMMA AcquireKeeps ==
  ASSUME LeaseInv, NEW k \in Tokens,
         SendSet(k) \/ ExecuteSet(k) \/ Acquired(k) \/ NotAcquired(k)
  PROVE  LeaseInv'
<1>. USE Numbers DEF LeaseInv, LeaseTypeOK, ClockOK, Step
<1>1. CASE SendSet(k)
  <2>1. LeaseTypeOK' /\ ClockOK' BY <1>1 DEF SendSet
  <2>2. ASSUME NEW j \in Tokens PROVE SetAnswered(j)' /\ LeaseHeld(j)'
    BY <1>1 DEF SendSet, SetAnswered, LeaseHeld, Healthy
  <2>. QED BY <2>1, <2>2
<1>2. CASE ExecuteSet(k)
  <2>1. LeaseTypeOK' /\ ClockOK' BY <1>2 DEF ExecuteSet
  <2>2. ASSUME NEW j \in Tokens PROVE SetAnswered(j)' /\ LeaseHeld(j)'
    <3>1. CASE Free
      <4>1. ~Healthy(j) /\ ~(st[j] = "acquiring" /\ req[j] = "yes" /\ now < sentAt[j] + Ttl)
        BY <3>1, HeldIsStored DEF Free
      <4>. QED BY <1>2, <3>1, <4>1 DEF ExecuteSet, SetAnswered, LeaseHeld, Healthy
    <3>2. CASE ~Free
      BY <1>2, <3>2 DEF ExecuteSet, SetAnswered, LeaseHeld, Healthy
    <3>. QED BY <3>1, <3>2
  <2>. QED BY <2>1, <2>2
<1>3. CASE Acquired(k)
  <2>1. LeaseTypeOK' /\ ClockOK' BY <1>3 DEF Acquired
  <2>2. ASSUME NEW j \in Tokens PROVE SetAnswered(j)' /\ LeaseHeld(j)'
    BY <1>3 DEF Acquired, SetAnswered, LeaseHeld, Healthy
  <2>. QED BY <2>1, <2>2
<1>4. CASE NotAcquired(k)
  <2>1. LeaseTypeOK' /\ ClockOK' BY <1>4 DEF NotAcquired, Fault
  <2>2. ASSUME NEW j \in Tokens PROVE SetAnswered(j)' /\ LeaseHeld(j)'
    BY <1>4 DEF NotAcquired, SetAnswered, LeaseHeld, Healthy
  <2>. QED BY <2>1, <2>2
<1>. QED BY <1>1, <1>2, <1>3, <1>4

(* The steps of the monitor. *)
LEMMA MonitorKeeps ==
  ASSUME LeaseInv, NEW k \in Tokens,
         Tick(k) \/ Renewed(k) \/ RenewThrows(k) \/ Expire(k) \/ StopLease(k)
  PROVE  LeaseInv'
<1>. USE Numbers DEF LeaseInv, LeaseTypeOK, ClockOK, Step
<1>1. CASE Tick(k)
  <2>1. LeaseTypeOK' /\ ClockOK' BY <1>1 DEF Tick, Healthy
  <2>2. ASSUME NEW j \in Tokens PROVE SetAnswered(j)' /\ LeaseHeld(j)'
    BY <1>1 DEF Tick, SetAnswered, LeaseHeld, Healthy
  <2>. QED BY <2>1, <2>2
<1>2. CASE Renewed(k)
  <2>1. LeaseTypeOK' /\ ClockOK' BY <1>2 DEF Renewed
  <2>2. ASSUME NEW j \in Tokens PROVE SetAnswered(j)' /\ LeaseHeld(j)'
    BY <1>2 DEF Renewed, SetAnswered, LeaseHeld, Healthy
  <2>. QED BY <2>1, <2>2
<1>3. CASE RenewThrows(k)
  <2>1. LeaseTypeOK' /\ ClockOK' BY <1>3 DEF RenewThrows, Fault
  <2>2. ASSUME NEW j \in Tokens PROVE SetAnswered(j)' /\ LeaseHeld(j)'
    BY <1>3 DEF RenewThrows, SetAnswered, LeaseHeld, Healthy
  <2>. QED BY <2>1, <2>2
<1>4. CASE Expire(k)
  <2>1. LeaseTypeOK' /\ ClockOK' BY <1>4 DEF Expire
  <2>2. ASSUME NEW j \in Tokens PROVE SetAnswered(j)' /\ LeaseHeld(j)'
    BY <1>4 DEF Expire, SetAnswered, LeaseHeld, Healthy
  <2>. QED BY <2>1, <2>2
<1>5. CASE StopLease(k)
  <2>1. LeaseTypeOK' /\ ClockOK' BY <1>5 DEF StopLease
  <2>2. ASSUME NEW j \in Tokens PROVE SetAnswered(j)' /\ LeaseHeld(j)'
    BY <1>5 DEF StopLease, SetAnswered, LeaseHeld, Healthy
  <2>. QED BY <2>1, <2>2
<1>. QED BY <1>1, <1>2, <1>3, <1>4, <1>5

(* The steps of Redis, and time. *)
LEMMA RedisKeeps ==
  ASSUME LeaseInv,
         \/ \E k \in Tokens : ExecuteRenew(k) \/ ExecuteStray(k) \/ Release(k) \/ Resend(k)
         \/ TimePasses
  PROVE  LeaseInv'
<1>. USE Numbers DEF LeaseInv, LeaseTypeOK, ClockOK, Step
<1>1. ASSUME NEW k \in Tokens, ExecuteRenew(k) PROVE LeaseInv'
  <2>1. LeaseTypeOK' /\ ClockOK' BY <1>1 DEF ExecuteRenew
  <2>2. ASSUME NEW j \in Tokens PROVE SetAnswered(j)' /\ LeaseHeld(j)'
    BY <1>1 DEF ExecuteRenew, SetAnswered, LeaseHeld, Healthy, Stored
  <2>. QED BY <2>1, <2>2
<1>2. ASSUME NEW k \in Tokens, ExecuteStray(k) PROVE LeaseInv'
  <2>1. LeaseTypeOK' /\ ClockOK' BY <1>2 DEF ExecuteStray
  <2>2. ASSUME NEW j \in Tokens PROVE SetAnswered(j)' /\ LeaseHeld(j)'
    BY <1>2 DEF ExecuteStray, SetAnswered, LeaseHeld, Healthy, Stored
  <2>. QED BY <2>1, <2>2
<1>3. ASSUME NEW k \in Tokens, Release(k) PROVE LeaseInv'
  <2>1. LeaseTypeOK' /\ ClockOK' BY <1>3 DEF Release, Fault
  <2>2. ASSUME NEW j \in Tokens PROVE SetAnswered(j)' /\ LeaseHeld(j)'
    BY <1>3 DEF Release, SetAnswered, LeaseHeld, Healthy, Stored
  <2>. QED BY <2>1, <2>2
<1>4. ASSUME NEW k \in Tokens, Resend(k) PROVE LeaseInv'
  <2>1. LeaseTypeOK' /\ ClockOK' BY <1>4 DEF Resend, Fault
  <2>2. ASSUME NEW j \in Tokens PROVE SetAnswered(j)' /\ LeaseHeld(j)'
    BY <1>4 DEF Resend, SetAnswered, LeaseHeld, Healthy
  <2>. QED BY <2>1, <2>2
<1>5. CASE TimePasses
  <2>1. LeaseTypeOK' /\ ClockOK' BY <1>5 DEF TimePasses
  <2>2. ASSUME NEW j \in Tokens PROVE SetAnswered(j)' /\ LeaseHeld(j)'
    BY <1>5 DEF TimePasses, SetAnswered, LeaseHeld, Healthy
  <2>. QED BY <2>1, <2>2
<1>. QED BY <1>1, <1>2, <1>3, <1>4, <1>5

(* All steps together. *)
LEMMA LeaseStep ==
  ASSUME LeaseInv, [Next]_vars
  PROVE  LeaseInv'
<1>1. CASE UNCHANGED vars
  BY <1>1
  DEF vars, LeaseInv, LeaseTypeOK, ClockOK, SetAnswered, LeaseHeld, Healthy
<1>2. CASE TimePasses BY <1>2, RedisKeeps
<1>3. ASSUME NEW k \in Tokens, HolderStep(k) \/ RedisStep(k) PROVE LeaseInv'
  BY <1>3, AcquireKeeps, MonitorKeeps, RedisKeeps DEF HolderStep, RedisStep
<1>. QED BY <1>1, <1>2, <1>3 DEF Next

(* The invariant holds throughout. *)
LEMMA LeaseInvariant == Spec => []LeaseInv
<1>1. LeaseInv /\ [Next]_vars => LeaseInv'
  BY LeaseStep
<1>. QED BY InitLease, <1>1, PTL DEF Spec

-----------------------------------------------------------------------------
(* A lease whose signal is not aborted is still stored in Redis, whatever   *)
(* is late, lost or executed twice: the deadline counts from the dispatch   *)
(* of a command that was executed later, and is Margin before the TTL ends. *)
THEOREM HealthyLeaseIsStored == Spec => []HealthyHoldsKey
<1>1. LeaseInv => HealthyHoldsKey
  <2>. SUFFICES ASSUME LeaseInv, NEW k \in Tokens, Healthy(k) PROVE Stored(k)
    BY DEF HealthyHoldsKey
  <2>. QED BY HeldIsStored
<1>. QED BY <1>1, LeaseInvariant, PTL

(* Two acquisitions never both believe that the session is theirs.          *)
THEOREM OneHolder == Spec => []OneHealthyHolder
<1>1. LeaseInv => OneHealthyHolder
  <2>. SUFFICES ASSUME LeaseInv, NEW j \in Tokens, NEW k \in Tokens, Healthy(j), Healthy(k)
                PROVE  j = k
    BY DEF OneHealthyHolder
  <2>1. Stored(j) /\ Stored(k) BY HeldIsStored
  <2>. QED BY <2>1 DEF Stored
<1>. QED BY <1>1, LeaseInvariant, PTL

-----------------------------------------------------------------------------
(* Leases of a Redis that answers in time.                                  *)

(* When the command that the deadline counts from was dispatched. *)
Counted(k) == deadline[k] + Margin - Ttl

(* One period after the acquisition or the last success, or two once a      *)
(* renewal has failed.                                                      *)
Soon(k, t) ==
  \/ t <= Counted(k) + Period + 1
  \/ faults = 1 /\ t <= Counted(k) + 2 * Period + 1

(* The next renewal is due, or was dispatched, soon enough. *)
OnSchedule(k) ==
  st[k] = "held" =>
    IF req[k] = "none" THEN Soon(k, tickAt[k])
    ELSE Soon(k, sentAt[k]) /\ tickAt[k] = sentAt[k] + Period

PromptInv ==
  /\ LeaseInv
  /\ InTime
  /\ \A k \in Tokens :
       /\ st[k] \in {"idle", "acquiring", "held"} => k \notin aborted
       /\ st[k] = "held" => req[k] # "no"
       /\ OnSchedule(k)

(* A second renewal still comes before the deadline, and a timer is later   *)
(* than the answer to what it sent last.                                    *)
PeriodFits == MaxFaults <= 1 /\ 2 <= Period /\ 2 * Period + 2 < Ttl - Margin

(* A command is answered, and the renewal timer runs, before the deadline.  *)
LEMMA InTimeIsEarly ==
  ASSUME PeriodFits, PromptInv, NEW k \in Tokens, st[k] = "held"
  PROVE  /\ now < deadline[k]
         /\ req[k] # "none" => now < tickAt[k] /\ now < sentAt[k] + Ttl - Margin
BY Numbers
DEF PeriodFits, PromptInv, LeaseInv, LeaseTypeOK, InTime, OnSchedule, Soon, Counted, Healthy

(* The steps of the processes and of Redis keep the schedule. *)
LEMMA PromptSteps ==
  ASSUME PeriodFits, PromptInv, LeaseInv', InTime', NEW k \in Tokens, NEW j \in Tokens,
         HolderStep(k) \/ RedisStep(k)
  PROVE  /\ (st[j] \in {"idle", "acquiring", "held"} => j \notin aborted)'
         /\ (st[j] = "held" => req[j] # "no")'
         /\ OnSchedule(j)'
<1>. USE Numbers DEF PeriodFits, PromptInv, LeaseInv, LeaseTypeOK, OnSchedule, Soon, Counted, Step
<1>. now \in Nat OBVIOUS
<1>1. CASE SendSet(k)
  BY <1>1 DEF SendSet
<1>2. CASE ExecuteSet(k)
  BY <1>2 DEF ExecuteSet
<1>3. CASE Acquired(k)
  BY <1>3 DEF Acquired, InTime, ClockOK
<1>4. CASE NotAcquired(k)
  BY <1>4 DEF NotAcquired, Fault
<1>5. CASE Tick(k)
  BY <1>5, InTimeIsEarly DEF Tick, Healthy, InTime
<1>6. CASE Renewed(k)
  BY <1>6, InTimeIsEarly DEF Renewed, Healthy
<1>7. CASE RenewThrows(k)
  BY <1>7 DEF RenewThrows, Fault
<1>8. CASE Expire(k)
  BY <1>8, InTimeIsEarly DEF Expire, Healthy
<1>9. CASE StopLease(k)
  BY <1>9 DEF StopLease
<1>10. CASE ExecuteRenew(k)
  <2>1. st[k] = "held" => Stored(k)
    BY HeldIsStored DEF Healthy
  <2>. QED BY <1>10, <2>1 DEF ExecuteRenew
<1>11. CASE ExecuteStray(k) \/ Release(k) \/ Resend(k)
  BY <1>11 DEF ExecuteStray, Release, Resend, Fault
<1>. QED
  BY <1>1, <1>2, <1>3, <1>4, <1>5, <1>6, <1>7, <1>8, <1>9, <1>10, <1>11
  DEF HolderStep, RedisStep

(* A Redis that answers in time does not cost a lease, even when one renewal   *)
(* fails (monitorSessionLease): under PeriodFits the next renewal is sent and  *)
(* answered before the deadline, so no held lease is ever aborted.             *)
THEOREM LeaseOutlivesOneError ==
  ASSUME PeriodFits
  PROVE  PromptOrNotSpec => []PromptLeaseSurvives
<1>. DEFINE Inv == LeaseInv /\ (prompt => PromptInv)
<1>1. PromptOrNot => Inv
  BY InitLease DEF PromptOrNot, Init, PromptInv, InTime, Healthy, OnSchedule
<1>2. Inv /\ [PromptOrNotNext]_<<vars, prompt>> => Inv'
  <2>. SUFFICES ASSUME Inv, [PromptOrNotNext]_<<vars, prompt>> PROVE Inv' OBVIOUS
  <2>1. LeaseInv' /\ prompt' = prompt
    BY LeaseStep DEF PromptOrNotNext, vars
  <2>2. CASE prompt /\ UNCHANGED vars
    BY <2>1, <2>2
    DEF vars, PromptInv, LeaseInv, InTime, Healthy, OnSchedule, Soon, Counted
  <2>3. CASE prompt /\ PromptOrNotNext
    <3>1. InTime'
      BY <2>3 DEF PromptOrNotNext
    <3>2. ASSUME NEW k \in Tokens, HolderStep(k) \/ RedisStep(k) PROVE PromptInv'
      <4>. QED BY <2>1, <2>3, <3>1, <3>2, PromptSteps DEF PromptInv
    <3>3. CASE TimePasses
      BY <2>1, <2>3, <3>1, <3>3
      DEF TimePasses, PromptInv, OnSchedule, Soon, Counted
    <3>. QED BY <2>1, <2>3, <3>2, <3>3 DEF PromptOrNotNext, Next
  <2>. QED BY <2>1, <2>2, <2>3
<1>3. Inv => PromptLeaseSurvives
  BY DEF PromptInv, PromptLeaseSurvives, LeaseSurvivesOneError
<1>. QED BY <1>1, <1>2, <1>3, PTL DEF PromptOrNotSpec

=============================================================================
