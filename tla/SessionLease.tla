----------------------------- MODULE SessionLease ----------------------------
(***************************************************************************)
(* The lock of one session: acquireSessionLock, monitorSessionLease and     *)
(* release() of the agent processes on one side, the Redis key with its     *)
(* TTL on the other.  An acquisition has a fresh token, and only the token  *)
(* identifies its holder.  A command is dispatched, executed and answered   *)
(* at three different moments.                                              *)
(***************************************************************************)
EXTENDS Naturals

CONSTANTS
  Tokens,    \* acquisitions
  NoToken,   \* the key does not exist
  Ttl,       \* AGENT_SESSION_LOCK_TTL_MS
  Interval,  \* AGENT_SESSION_LOCK_RENEW_INTERVAL_MS
  Lag,       \* the most by which a process runs a due timer late
  Answer,    \* the most a command is in flight without an error
  MaxTime,   \* the clock stops here
  MaxFaults  \* errors and broken connections in a behaviour

AtMost(a, b) == IF a <= b THEN a ELSE b

Margin == AtMost(Interval, Ttl \div 4)
Period == AtMost(Interval, Ttl \div 3)

ASSUME LeaseAssumption ==
  /\ NoToken \notin Tokens
  /\ Ttl \in Nat \ {0} /\ Interval \in Nat \ {0}
  /\ Lag \in Nat /\ Lag < Margin
  /\ Answer \in Nat /\ MaxTime \in Nat /\ MaxFaults \in Nat

VARIABLES
  now,       \* the clock, which the processes and Redis count alike
  key,       \* the token stored in Redis
  expireAt,  \* when Redis drops the key
  st,        \* where an acquisition stands
  req,       \* its command in flight: SET NX, then renewals
  sentAt,    \* acquiredAt, then startedAt: when that command was dispatched
  stray,     \* tokens with a renewal whose answer nobody awaits any more
  deadline,  \* when the lease is given up
  tickAt,    \* when the renewal timer is due
  aborted,   \* acquisitions whose signal is aborted
  faults     \* what is used of MaxFaults

vars == <<now, key, expireAt, st, req, sentAt, stray, deadline, tickAt, aborted, faults>>

LeaseTypeOK ==
  /\ now \in Nat /\ expireAt \in Nat /\ faults \in 0..MaxFaults
  /\ key \in Tokens \cup {NoToken}
  /\ st \in [Tokens -> {"idle", "acquiring", "held", "releasing", "closed"}]
  /\ req \in [Tokens -> {"none", "sent", "yes", "no"}]
  /\ sentAt \in [Tokens -> Nat] /\ deadline \in [Tokens -> Nat] /\ tickAt \in [Tokens -> Nat]
  /\ stray \subseteq Tokens /\ aborted \subseteq Tokens
  /\ \A k \in Tokens : req[k] # "none" => st[k] \in {"acquiring", "held"}

Init ==
  /\ now = 0 /\ key = NoToken /\ expireAt = 0 /\ faults = 0
  /\ st = [k \in Tokens |-> "idle"]
  /\ req = [k \in Tokens |-> "none"]
  /\ sentAt = [k \in Tokens |-> 0]
  /\ deadline = [k \in Tokens |-> 0]
  /\ tickAt = [k \in Tokens |-> 0]
  /\ stray = {} /\ aborted = {}

(* Redis hides a key from the moment its TTL ends. *)
Stored(k) == key = k /\ now < expireAt
Free == \A k \in Tokens : ~Stored(k)

Healthy(k) == st[k] = "held" /\ k \notin aborted

Step(k, from, to) ==
  /\ st[k] = from
  /\ st' = [st EXCEPT ![k] = to]

Fault ==
  /\ faults < MaxFaults
  /\ faults' = faults + 1

-----------------------------------------------------------------------------
(* acquireSessionLock *)

SendSet(k) ==
  /\ Step(k, "idle", "acquiring")
  /\ req' = [req EXCEPT ![k] = "sent"]
  /\ sentAt' = [sentAt EXCEPT ![k] = now]
  /\ UNCHANGED <<now, key, expireAt, stray, deadline, tickAt, aborted, faults>>

(* SET key token PX ttl NX, in Redis. *)
ExecuteSet(k) ==
  /\ st[k] = "acquiring"
  /\ req[k] = "sent"
  /\ IF Free
       THEN /\ key' = k
            /\ expireAt' = now + Ttl
            /\ req' = [req EXCEPT ![k] = "yes"]
       ELSE /\ req' = [req EXCEPT ![k] = "no"]
            /\ UNCHANGED <<key, expireAt>>
  /\ UNCHANGED <<now, st, sentAt, stray, deadline, tickAt, aborted, faults>>

(* Mutant of Acquired: the lease is counted from the answer. *)
AcquiredOnAnswer(k) ==
  /\ req[k] = "yes"
  /\ Step(k, "acquiring", "held")
  /\ req' = [req EXCEPT ![k] = "none"]
  /\ deadline' = [deadline EXCEPT ![k] = now + Ttl - Margin]
  /\ tickAt' = [tickAt EXCEPT ![k] = now + Period]
  /\ UNCHANGED <<now, key, expireAt, sentAt, stray, aborted, faults>>

(* The monitor starts: the lease counts from the dispatch, and an answer    *)
(* that came too late is lost at once.                                      *)
Acquired(k) ==
  LET end == sentAt[k] + Ttl - Margin
  IN /\ req[k] = "yes"
     /\ Step(k, "acquiring", "held")
     /\ req' = [req EXCEPT ![k] = "none"]
     /\ deadline' = [deadline EXCEPT ![k] = end]
     /\ aborted' = IF end <= now THEN aborted \cup {k} ELSE aborted
     /\ tickAt' = [tickAt EXCEPT ![k] = now + Period]
     /\ UNCHANGED <<now, key, expireAt, sentAt, stray, faults>>

(* Another token holds the key, or the command throws, set or not. *)
NotAcquired(k) ==
  /\ Step(k, "acquiring", "closed")
  /\ \/ req[k] = "no" /\ UNCHANGED faults
     \/ Fault
  /\ req' = [req EXCEPT ![k] = "none"]
  /\ UNCHANGED <<now, key, expireAt, sentAt, stray, deadline, tickAt, aborted>>

-----------------------------------------------------------------------------
(* monitorSessionLease *)

(* The renewal timer: nothing while a renewal is in flight. *)
Tick(k) ==
  /\ Healthy(k)
  /\ tickAt[k] <= now
  /\ tickAt' = [tickAt EXCEPT ![k] = now + Period]
  /\ IF req[k] # "none"
       THEN UNCHANGED <<req, sentAt, aborted>>
       ELSE IF deadline[k] <= now
         THEN aborted' = aborted \cup {k} /\ UNCHANGED <<req, sentAt>>
         ELSE /\ req' = [req EXCEPT ![k] = "sent"]
              /\ sentAt' = [sentAt EXCEPT ![k] = now]
              /\ UNCHANGED aborted
  /\ UNCHANGED <<now, key, expireAt, st, stray, deadline, faults>>

(* RENEW_SCRIPT, in Redis: the TTL of our own key starts again. *)
ExecuteRenew(k) ==
  /\ st[k] # "acquiring"
  /\ req[k] = "sent"
  /\ req' = [req EXCEPT ![k] = IF Stored(k) THEN "yes" ELSE "no"]
  /\ expireAt' = IF Stored(k) THEN now + Ttl ELSE expireAt
  /\ UNCHANGED <<now, key, st, sentAt, stray, deadline, tickAt, aborted, faults>>

(* Mutant of Renewed: the lease is counted from the answer. *)
RenewedOnAnswer(k) ==
  /\ Healthy(k)
  /\ req[k] \in {"yes", "no"}
  /\ req' = [req EXCEPT ![k] = "none"]
  /\ IF req[k] = "no" \/ deadline[k] <= now
       THEN aborted' = aborted \cup {k} /\ UNCHANGED deadline
       ELSE deadline' = [deadline EXCEPT ![k] = now + Ttl - Margin] /\ UNCHANGED aborted
  /\ UNCHANGED <<now, key, expireAt, st, sentAt, stray, tickAt, faults>>

(* The answer extends the lease from the dispatch of its renewal, or ends it. *)
Renewed(k) ==
  LET end == sentAt[k] + Ttl - Margin
  IN /\ Healthy(k)
     /\ req[k] \in {"yes", "no"}
     /\ req' = [req EXCEPT ![k] = "none"]
     /\ IF req[k] = "no" \/ deadline[k] <= now
          THEN aborted' = aborted \cup {k} /\ UNCHANGED deadline
          ELSE /\ deadline' = [deadline EXCEPT ![k] = end]
               /\ aborted' = IF end <= now THEN aborted \cup {k} ELSE aborted
     /\ UNCHANGED <<now, key, expireAt, st, sentAt, stray, tickAt, faults>>

(* Mutant of RenewThrows: the lease is given up. *)
RenewThrowsAborts(k) ==
  /\ st[k] = "held"
  /\ req[k] # "none"
  /\ req' = [req EXCEPT ![k] = "none"]
  /\ aborted' = aborted \cup {k}
  /\ Fault
  /\ UNCHANGED <<now, key, expireAt, st, sentAt, stray, deadline, tickAt>>

(* A renewal that throws is only logged; Redis may still execute it later. *)
RenewThrows(k) ==
  /\ st[k] = "held"
  /\ req[k] # "none"
  /\ req' = [req EXCEPT ![k] = "none"]
  /\ stray' = IF req[k] = "sent" THEN stray \cup {k} ELSE stray
  /\ Fault
  /\ UNCHANGED <<now, key, expireAt, st, sentAt, deadline, tickAt, aborted>>

ExecuteStray(k) ==
  /\ k \in stray
  /\ stray' = stray \ {k}
  /\ expireAt' = IF Stored(k) THEN now + Ttl ELSE expireAt
  /\ UNCHANGED <<now, key, st, req, sentAt, deadline, tickAt, aborted, faults>>

(* The expiry timer. *)
Expire(k) ==
  /\ Healthy(k)
  /\ deadline[k] <= now
  /\ aborted' = aborted \cup {k}
  /\ UNCHANGED <<now, key, expireAt, st, req, sentAt, stray, deadline, tickAt, faults>>

-----------------------------------------------------------------------------
(* release(): the monitor stops, then RELEASE_SCRIPT is sent. *)

StopLease(k) ==
  /\ Step(k, "held", "releasing")
  /\ req' = [req EXCEPT ![k] = "none"]
  /\ stray' = IF req[k] = "sent" THEN stray \cup {k} ELSE stray
  /\ UNCHANGED <<now, key, expireAt, sentAt, deadline, tickAt, aborted, faults>>

(* An error of the release is logged, whether or not the script ran. *)
Release(k) ==
  /\ Step(k, "releasing", "closed")
  /\ \/ key' = (IF Stored(k) THEN NoToken ELSE key) /\ UNCHANGED faults
     \/ Fault /\ UNCHANGED key
  /\ UNCHANGED <<now, expireAt, req, sentAt, stray, deadline, tickAt, aborted>>

(* The client resends what was not answered when its connection broke. *)
Resend(k) ==
  /\ req[k] \in {"yes", "no"}
  /\ req' = [req EXCEPT ![k] = "sent"]
  /\ Fault
  /\ UNCHANGED <<now, key, expireAt, st, sentAt, stray, deadline, tickAt, aborted>>

(* Timers run at most Lag late, and a command ends within Answer. *)
TimePasses ==
  /\ now < MaxTime
  /\ \A k \in Tokens : Healthy(k) => now < deadline[k] + Lag /\ now < tickAt[k] + Lag
  /\ \A k \in Tokens : req[k] # "none" => now < sentAt[k] + Answer
  /\ now' = now + 1
  /\ UNCHANGED <<key, expireAt, st, req, sentAt, stray, deadline, tickAt, aborted, faults>>

-----------------------------------------------------------------------------
HolderStep(k) ==
  \/ SendSet(k) \/ Acquired(k) \/ NotAcquired(k)
  \/ Tick(k) \/ Renewed(k) \/ RenewThrows(k) \/ Expire(k)
  \/ StopLease(k)

RedisStep(k) ==
  ExecuteSet(k) \/ ExecuteRenew(k) \/ ExecuteStray(k) \/ Release(k) \/ Resend(k)

Next ==
  \/ \E k \in Tokens : HolderStep(k) \/ RedisStep(k)
  \/ TimePasses

Spec == Init /\ [][Next]_vars

-----------------------------------------------------------------------------
(* Properties *)

(* "Redis command completion is not a clock: even a hung renewal must       *)
(* expire locally": as long as the signal of a lease is not aborted, Redis   *)
(* still stores its token, however late commands execute or are answered.   *)
HealthyHoldsKey == \A k \in Tokens : Healthy(k) => Stored(k)

(* Two acquisitions never both believe that the session is theirs.          *)
OneHealthyHolder == \A j, k \in Tokens : Healthy(j) /\ Healthy(k) => j = k

(* A Redis that answers in time does not cost a lease, even when one renewal *)
(* fails: the next one still comes before the deadline.                      *)
LeaseSurvivesOneError == \A k \in Tokens : st[k] = "held" => k \notin aborted

=============================================================================
