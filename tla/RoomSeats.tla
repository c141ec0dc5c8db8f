------------------------------ MODULE RoomSeats ------------------------------
(***************************************************************************)
(* Seats of an app room: who holds them, and whom the other members see.   *)
(*                                                                         *)
(* A seat is a hash entry and a lease in Redis; the Lua scripts of         *)
(* app-room/scripts.ts claim, renew, leave and sweep it atomically.  What  *)
(* the members see (`shown`) changes only by the announcements that the    *)
(* callers make afterwards.  A node sends its commands over one Redis      *)
(* connection, so the announcements of a node keep their order (`due`),    *)
(* while those of different nodes interleave freely.                       *)
(*                                                                         *)
(* A client is one gateway connection, or a hosted seat of the HTTP API    *)
(* (an agent or the CLI).  A reconnecting client is a second connection    *)
(* with the same ticket, that is the same SeatOf.                          *)
(***************************************************************************)
EXTENDS Integers, Sequences, FiniteSets, SequencesExt

CONSTANTS
  Clients,         \* gateway connections and hosted seats
  Hosted,          \* those of the HTTP API
  Nodes,           \* processes that talk to Redis
  NodeOf,          \* the node that serves a client
  Seats,           \* participant ids
  SeatOf,          \* the participant id of a client's ticket
  UserOf,          \* the user a participant id was admitted for
  MaxParticipants, \* the room's capacity
  NoSeat,
  MaxLapses,       \* bound: leases that run out
  MaxErrors        \* bound: announcements that fail

ASSUME SeatsAssumption ==
  /\ Hosted \subseteq Clients
  /\ NodeOf \in [Clients -> Nodes] /\ SeatOf \in [Clients -> Seats]
  /\ NoSeat \notin Seats /\ NoSeat \notin [owner : Clients, lapsed : BOOLEAN]
  /\ {MaxParticipants, MaxLapses, MaxErrors} \subseteq Nat
  /\ \A c \in Hosted : \A d \in Clients \ {c} : SeatOf[c] # SeatOf[d]

VARIABLES
  room,       \* [state, seatPerUser]: "open", "ending" (the very millisecond of its
              \* expiry) or "gone", and the option it was created with
  seats,      \* seat -> NoSeat, or who claimed it last and whether its lease ran out
  status,     \* client -> "new", "joining", "in", "out"
  membership, \* client -> the seat its connection context names, or NoSeat
  due,        \* node -> what its callers still have to do, oldest first
  shown,      \* the participants a member of long standing sees
  told,       \* client -> the reason its membership was closed with
  faults

vars == <<room, seats, status, membership, due, shown, told, faults>>

Taken == {s \in Seats : seats[s] # NoSeat}
Lapsed == {s \in Taken : seats[s].lapsed}
Step(op, seat) == [op |-> op, seat |-> seat]
Task(c, steps) == [client |-> c, steps |-> steps]

SeatsTypeOK ==
  /\ room \in [state : {"open", "ending", "gone"}, seatPerUser : BOOLEAN]
  /\ seats \in [Seats -> {NoSeat} \cup [owner : Clients, lapsed : BOOLEAN]]
  /\ status \in [Clients -> {"new", "joining", "in", "out"}]
  /\ membership \in [Clients -> Seats \cup {NoSeat}]
  /\ shown \subseteq Seats
  /\ told \in [Clients -> {"none", "expired", "revoked", "superseded"}]
  /\ Cardinality(Taken) <= MaxParticipants

Init ==
  /\ room \in [state : {"open"}, seatPerUser : BOOLEAN]
  /\ seats = [s \in Seats |-> NoSeat]
  /\ status = [c \in Clients |-> "new"]
  /\ membership = [c \in Clients |-> NoSeat]
  /\ due = [n \in Nodes |-> <<>>]
  /\ shown = {}
  /\ told = [c \in Clients |-> "none"]
  /\ faults = [lapses |-> 0, errors |-> 0]

Busy(c) == \E i \in 1..Len(due[NodeOf[c]]) : due[NodeOf[c]][i].client = c

\* The rest of a caller's work goes behind what its node has sent already.
Sends(queue, c, steps) == IF steps = <<>> THEN queue ELSE Append(queue, Task(c, steps))
Then(c, steps) == due' = [due EXCEPT ![NodeOf[c]] = Sends(@, c, steps)]

\* announceLeft tells of one seat after the other.
Lefts(gone) == SetToSeq({Step("left", s) : s \in gone})

-----------------------------------------------------------------------------
(* CLAIM_SEAT *)

HeldBy(user, kept) ==
  {s \in kept : UserOf[s] = user /\ \A c \in Hosted : SeatOf[c] # s}

\* Mutant: a viewer's other seat is looked for under the ticket's own id only.
SeatForTicket(c, kept) == {SeatOf[c]}

\* seatPerUser hands a viewer the seat it holds already; hosted seats keep their own.
SeatFor(c, kept) ==
  LET mine == HeldBy(UserOf[SeatOf[c]], kept)
  IN  IF room.seatPerUser /\ c \notin Hosted /\ mine # {} THEN mine ELSE {SeatOf[c]}

HasRoom(s, kept) == s \in kept \/ Cardinality(kept) < MaxParticipants

\* Mutant: a lapsed seat claimed again counts as one the peers know.
EntryBeforeSweep(c, s, kept) ==
  IF s \notin Taken THEN "joined" ELSE IF c \in Hosted THEN "presence" ELSE "enter"

\* How the claimant announces itself: a takeover by a gateway connection is silent.
Entry(c, s, kept) ==
  IF s \notin kept THEN "joined" ELSE IF c \in Hosted THEN "presence" ELSE "enter"

Claim(c) ==
  /\ room.state = "open" /\ ~Busy(c)
  /\ status[c] = "new" \/ c \in Hosted
  /\ LET kept == Taken \ Lapsed
     IN  \E s \in SeatFor(c, kept) :
           /\ HasRoom(s, kept)
           /\ seats' = [t \in Seats |-> IF t = s THEN [owner |-> c, lapsed |-> FALSE]
                                        ELSE IF t \in Lapsed THEN NoSeat ELSE seats[t]]
           /\ Then(c, Append(Lefts(Lapsed), Step(Entry(c, s, kept), s)))
  /\ status' = [status EXCEPT ![c] = "joining"]
  /\ UNCHANGED <<room, membership, shown, told, faults>>

\* A full room: the sweep has found nothing, so nothing is left to announce.
ClaimFull(c) ==
  /\ room.state = "open" /\ status[c] = "new"
  /\ \A s \in SeatFor(c, Taken \ Lapsed) : ~HasRoom(s, Taken \ Lapsed)
  /\ seats' = [t \in Seats |-> IF t \in Lapsed THEN NoSeat ELSE seats[t]]
  /\ status' = [status EXCEPT ![c] = "out"]
  /\ UNCHANGED <<room, membership, due, shown, told, faults>>

-----------------------------------------------------------------------------
(* LEAVE, RENEW and SWEEP *)

\* Mutant: LEAVE does not compare the connection.
OwnsAny(c, s) == s # NoSeat /\ seats[s] # NoSeat

Owns(c, s) == s # NoSeat /\ seats[s] # NoSeat /\ seats[s].owner = c

\* Mutant: the seat goes without a word.
ReleaseQuietly(c, s) ==
  /\ seats' = IF Owns(c, s) THEN [seats EXCEPT ![s] = NoSeat] ELSE seats
  /\ UNCHANGED due

\* AppRoomStore.release: the seat goes if it is still this connection's, then its announcement.
Release(c, s) ==
  IF Owns(c, s)
    THEN /\ seats' = [seats EXCEPT ![s] = NoSeat]
         /\ Then(c, <<Step("left", s)>>)
    ELSE UNCHANGED <<seats, due>>

\* realtime.room.leave, or the cleanup of a closed socket, maybe during its join.
Depart(c) ==
  /\ c \notin Hosted /\ status[c] \in {"joining", "in"}
  /\ Release(c, membership[c])
  /\ membership' = [membership EXCEPT ![c] = NoSeat]
  /\ status' = [status EXCEPT ![c] = "out"]
  /\ UNCHANGED <<room, shown, told, faults>>

\* DELETE /rooms/:id/seat
LeaveHosted(c) ==
  /\ c \in Hosted /\ status[c] # "new" /\ ~Busy(c)
  /\ Release(c, SeatOf[c])
  /\ status' = [status EXCEPT ![c] = "out"]
  /\ UNCHANGED <<room, membership, shown, told, faults>>

\* closeAppRoomMembership: only a revoked seat is announced.
CloseMembership(c, reason) ==
  /\ membership' = [membership EXCEPT ![c] = NoSeat]
  /\ status' = [status EXCEPT ![c] = "out"]
  /\ told' = [told EXCEPT ![c] = reason]
  /\ IF reason = "revoked" THEN Then(c, <<Step("left", membership[c])>>) ELSE UNCHANGED due
  /\ UNCHANGED <<room, seats, shown, faults>>

\* Mutant: a renewed seat is not followed by a sweep.
RenewOnly(c, s) ==
  /\ seats' = [seats EXCEPT ![s].lapsed = FALSE]
  /\ UNCHANGED <<room, status, membership, due, shown, told, faults>>

RenewAndSweep(c, s) ==
  /\ seats' = [seats EXCEPT ![s].lapsed = FALSE]
  /\ Then(c, <<Step("sweep", NoSeat)>>)
  /\ UNCHANGED <<room, status, membership, shown, told, faults>>

\* A ping: renew the lease, then sweep the room, or close the membership.
Ping(c) ==
  /\ status[c] = "in" /\ membership[c] # NoSeat /\ ~Busy(c)
  /\ LET s == membership[c]
     IN  CASE room.state = "gone" -> CloseMembership(c, "revoked")
           [] room.state = "ending" -> CloseMembership(c, "expired")
           [] room.state = "open" /\ (s \notin Taken \/ s \in Lapsed) -> CloseMembership(c, "revoked")
           [] room.state = "open" /\ s \in Taken \ Lapsed /\ ~Owns(c, s) -> CloseMembership(c, "superseded")
           [] OTHER -> RenewAndSweep(c, s)

-----------------------------------------------------------------------------
(* What the callers do after their script. *)

Show(step) ==
  CASE step.op = "left" -> shown \ {step.seat}
    [] step.op \in {"joined", "presence"} -> shown \cup {step.seat}
    [] OTHER -> shown

\* The context names the seat once claim has returned, unless the socket is gone.
Enters(c, step) ==
  IF c \notin Hosted /\ step.op \in {"joined", "enter"} /\ status[c] = "joining"
    THEN /\ status' = [status EXCEPT ![c] = "in"]
         /\ membership' = [membership EXCEPT ![c] = step.seat]
    ELSE UNCHANGED <<status, membership>>

Announces(step) == step.op \in {"left", "joined", "presence"}

\* One command of a node's oldest caller; the caller's next one goes to the back.
Proceed(n) ==
  /\ due[n] # <<>>
  /\ LET task == Head(due[n])
         step == Head(task.steps)
         swept == IF step.op = "sweep" /\ room.state = "open" THEN Lapsed ELSE {}
     IN  /\ Announces(step) => room.state = "open"
         /\ due' = [due EXCEPT ![n] = Sends(Tail(@), task.client, Tail(task.steps) \o Lefts(swept))]
         /\ seats' = [s \in Seats |-> IF s \in swept THEN NoSeat ELSE seats[s]]
         /\ shown' = Show(step)
         /\ Enters(task.client, step)
  /\ UNCHANGED <<room, told, faults>>

\* An announcement fails, or its room has expired: that a seat is left goes unsaid,
\* a connection that joins gives its seat back.
AnnounceFails(n) ==
  /\ due[n] # <<>>
  /\ LET task == Head(due[n])
         step == Head(task.steps)
         gives == step.op = "joined" /\ task.client \notin Hosted
         lefts == IF gives /\ Owns(task.client, step.seat) THEN Lefts({step.seat}) ELSE <<>>
     IN  /\ Announces(step)
         /\ seats' = IF lefts # <<>> THEN [seats EXCEPT ![step.seat] = NoSeat] ELSE seats
         /\ status' = IF gives THEN [status EXCEPT ![task.client] = "out"] ELSE status
         /\ due' = [due EXCEPT ![n] = Sends(Tail(@), task.client, Tail(task.steps) \o lefts)]
  /\ IF room.state = "open"
       THEN faults.errors < MaxErrors /\ faults' = [faults EXCEPT !.errors = @ + 1]
       ELSE UNCHANGED faults
  /\ UNCHANGED <<room, membership, shown, told>>

\* A minute without a ping: a crashed gateway, a paused tab, an idle hosted seat.
Lapse(s) ==
  /\ room.state = "open" /\ s \in Taken \ Lapsed /\ faults.lapses < MaxLapses
  /\ seats' = [seats EXCEPT ![s].lapsed = TRUE]
  /\ faults' = [faults EXCEPT !.lapses = @ + 1]
  /\ UNCHANGED <<room, status, membership, due, shown, told>>

\* At expiresAtMs the scripts still find the room's record; a millisecond later Redis has dropped it.
Expire ==
  /\ room' = [room EXCEPT !.state = IF @ = "open" THEN "ending" ELSE "gone"]
  /\ room.state # "gone"
  /\ seats' = IF room'.state = "gone" THEN [s \in Seats |-> NoSeat] ELSE seats
  /\ UNCHANGED <<status, membership, due, shown, told, faults>>

Next ==
  \/ \E c \in Clients : Claim(c) \/ ClaimFull(c) \/ Depart(c) \/ LeaveHosted(c) \/ Ping(c)
  \/ \E n \in Nodes : Proceed(n) \/ AnnounceFails(n)
  \/ \E s \in Seats : Lapse(s)
  \/ Expire

Spec == Init /\ [][Next]_vars

\* Redis answers its clients, and one or the other of the open connections pings.
Fairness ==
  /\ \A n \in Nodes : WF_vars(Proceed(n) \/ AnnounceFails(n))
  /\ SF_vars(\E c \in Clients : Ping(c))

FairSpec == Spec /\ Fairness

-----------------------------------------------------------------------------
(* Properties. *)

AtRest == room.state = "open" /\ \A n \in Nodes : due[n] = <<>>

\* apps.md: seatPerUser gives each viewer one seat across tabs, however claims,
\* lapses and departures of its connections interleave (CLAIM_SEAT).
OneSeatPerUser ==
  room.seatPerUser => \A c \in Clients \ Hosted, d \in Clients \ Hosted :
    LET s == SeatOf[c] t == SeatOf[d]
    IN  s # t /\ UserOf[s] = UserOf[t] => s \notin Taken \/ t \notin Taken

\* A seat whose lease holds goes only when the connection that claimed it last
\* departs: the cleanup of an older connection spares its successor (LEAVE).
CleanupSparesSuccessor ==
  [][\A s \in Taken \ Lapsed : seats'[s] = NoSeat =>
       status'[seats[s].owner] = "out" \/ room'.state # "open"]_vars

\* touchAppRoomMemberships: once the callers have made their announcements, nobody
\* without a seat lingers in everyone's member list.
NoGhost == AtRest => shown \subseteq Taken

\* apps.md: room.members lists each member; no announcement of an old departure
\* hides one that came after it.
LiveIsShown == AtRest => Taken \ Lapsed \subseteq shown

\* One node serves everybody who ever came, every announcement succeeds, and at most one lease
\* has run out.
SoleNode == \E n \in Nodes : \A c \in Clients : status[c] # "new" => NodeOf[c] = n
Undisturbed == SoleNode /\ faults.errors = 0 /\ faults.lapses <= 1

\* NoGhost and LiveIsShown where nothing disturbs the order of the announcements.  Two nodes,
\* a failed announcement, or two seats that lapse together, since claim and sweep announce them
\* one by one and others come in between (announceLeft), refute them.
QuietNoGhost == Undisturbed => NoGhost
QuietLiveIsShown == Undisturbed => LiveIsShown

\* A lapsed seat leaves the member lists, or is claimed anew, as long as somebody else in the
\* room pings: touchAppRoomMemberships sweeps after every renewal and announceLeft tells of
\* what it swept.  Where that announcement fails nothing tells of the seat again, see NoGhost.
LapsedLeaves ==
  \A s \in Seats :
    s \in Lapsed /\ s \in shown ~>
      \/ s \notin shown \/ s \in Taken \ Lapsed
      \/ room.state # "open" \/ faults.errors > 0
      \/ \A c \in Clients : status[c] # "in" \/ membership[c] = s

\* app-rooms.ts: the record survives until the exact expiry, so that a natural
\* expiry is reported as expired rather than revoked.
ExpiryIsNotRevoked ==
  [][\A c \in Clients : room.state = "gone" /\ told'[c] = "revoked" => told[c] = "revoked"]_vars

=============================================================================
