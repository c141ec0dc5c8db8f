-------------------------- MODULE RoomSeatsProofs --------------------------
(***************************************************************************)
(* Proofs about the seats of a room, for any number of connections, nodes, *)
(* seats and users, any capacity, and any number of lapses and failures:   *)
(*   - a viewer has one seat in a room with seatPerUser (OneSeatPerUser);  *)
(*   - the cleanup of an old connection spares its successor               *)
(*     (CleanupSparesSuccessor);                                           *)
(*   - a room at rest that nothing disturbed lists its members exactly     *)
(*     (QuietNoGhost, QuietLiveIsShown).  Seats and lists meet only by the *)
(*     commands under way, so the invariant ListsInv is about these: the   *)
(*     last announcement of a seat that a node still has to send tells the *)
(*     truth about it, and where none is under way the list does.          *)
(***************************************************************************)
EXTENDS RoomSeats, FiniteSetTheorems, SequenceTheorems, TLAPS

\* The hash of seats and the states of the clients.
SeatRows  == [owner : Clients, lapsed : BOOLEAN]
SeatsType ==
  /\ room \in [state : {"open", "ending", "gone"}, seatPerUser : BOOLEAN]
  /\ seats \in [Seats -> {NoSeat} \cup SeatRows]
  /\ status \in [Clients -> {"new", "joining", "in", "out"}]

-----------------------------------------------------------------------------
(* What a step does to the seats. *)

\* A claim takes one seat and frees the lapsed ones.
ClaimEffect(c, s) ==
  /\ s \in SeatFor(c, Taken \ Lapsed) /\ s \in Seats
  /\ seats' = [t \in Seats |-> IF t = s THEN [owner |-> c, lapsed |-> FALSE]
                               ELSE IF t \in Lapsed THEN NoSeat ELSE seats[t]]

\* Somebody other than a claimant changes the seats: a departure frees the departing owner's,
\* a sweep frees lapsed ones, the end of the room frees all, and a lease is renewed or lapses.
Frees(c, s)  == Owns(c, s) /\ seats' = [seats EXCEPT ![s] = NoSeat]
Sweeps(gone) == gone \subseteq Lapsed /\ seats' = [t \in Seats |-> IF t \in gone THEN NoSeat ELSE seats[t]]
Marks(s)     == \E b \in BOOLEAN : s \in Taken /\ seats' = [seats EXCEPT ![s].lapsed = b]
Ends         == room'.state # "open" /\ seats' = [t \in Seats |-> NoSeat]

SeatEffect ==
  \/ seats' = seats
  \/ \E c \in Clients, s \in Seats : ClaimEffect(c, s) /\ c \notin Hosted
  \/ \E c \in Hosted : ClaimEffect(c, SeatOf[c])
  \/ \E c \in Clients, s \in Seats : Frees(c, s) /\ status'[c] = "out"
  \/ \E gone \in SUBSET Seats : Sweeps(gone)
  \/ \E s \in Seats : Marks(s)
  \/ Ends

\* A claim, as an effect on the hash of seats.
LEMMA ClaimTakes ==
  ASSUME SeatsType, NEW c \in Clients, Claim(c)
  PROVE  SeatEffect
<1>1. SeatFor(c, Taken \ Lapsed) \subseteq Seats
  BY SeatsAssumption DEF SeatFor, HeldBy, Taken
<1>2. PICK s \in SeatFor(c, Taken \ Lapsed) :
        seats' = [t \in Seats |-> IF t = s THEN [owner |-> c, lapsed |-> FALSE]
                                  ELSE IF t \in Lapsed THEN NoSeat ELSE seats[t]]
  BY DEF Claim
<1>3. ClaimEffect(c, s)
  BY <1>1, <1>2 DEF ClaimEffect
<1>4. c \in Hosted => s = SeatOf[c]
  BY DEF SeatFor
<1>. QED BY <1>1, <1>3, <1>4 DEF SeatEffect

\* AppRoomStore.release, likewise.
LEMMA ReleaseFrees ==
  ASSUME SeatsType, NEW c \in Clients, NEW s \in Seats \cup {NoSeat}, Release(c, s), status'[c] = "out"
  PROVE  SeatEffect
BY DEF Release, Owns, Frees, SeatEffect

\* Every step has one of the effects, and keeps the types.
LEMMA SeatSteps ==
  ASSUME SeatsType, Next \/ UNCHANGED vars
  PROVE  SeatEffect /\ SeatsType'
<1>. USE DEF SeatsType
<1>1. ASSUME NEW c \in Clients, Claim(c) PROVE SeatEffect /\ SeatsType'
  <2>1. SeatEffect
    BY <1>1, ClaimTakes
  <2>2. UNCHANGED room /\ status' = [status EXCEPT ![c] = "joining"]
    BY <1>1 DEF Claim
  <2>3. seats' \in [Seats -> {NoSeat} \cup SeatRows]
    BY <1>1 DEF Claim, SeatRows
  <2>. QED BY <2>1, <2>2, <2>3
<1>2. ASSUME NEW c \in Clients, ClaimFull(c) PROVE SeatEffect /\ SeatsType'
  <2>1. seats' = [t \in Seats |-> IF t \in Lapsed THEN NoSeat ELSE seats[t]] /\ Lapsed \in SUBSET Seats
    BY <1>2 DEF ClaimFull, Lapsed, Taken
  <2>. QED BY <1>2, <2>1 DEF ClaimFull, SeatEffect, Sweeps
<1>3. ASSUME NEW c \in Clients, Depart(c) PROVE SeatEffect /\ SeatsType'
  <2>1. CASE Owns(c, membership[c]) /\ membership[c] \in Seats
    BY <1>3, <2>1 DEF Depart, Release, SeatEffect, Frees
  <2>2. CASE ~(Owns(c, membership[c]) /\ membership[c] \in Seats)
    BY <1>3, <2>2 DEF Depart, Release, SeatEffect
  <2>. QED BY <2>1, <2>2
<1>4. ASSUME NEW c \in Clients, LeaveHosted(c) PROVE SeatEffect /\ SeatsType'
  BY <1>4, SeatsAssumption DEF LeaveHosted, Release, SeatEffect, Frees
<1>5. ASSUME NEW c \in Clients, Ping(c) PROVE SeatEffect /\ SeatsType'
  <2>. DEFINE s == membership[c]
  <2>1. CASE UNCHANGED <<room, seats>> /\ status' = [status EXCEPT ![c] = "out"]
    BY <2>1 DEF SeatEffect
  <2>2. CASE RenewAndSweep(c, s) /\ s \in Taken
    <3>1. s \in Seats /\ seats[s] \in SeatRows
      BY <2>2 DEF Taken
    <3>2. seats' \in [Seats -> {NoSeat} \cup SeatRows]
      BY <2>2, <3>1 DEF RenewAndSweep, SeatRows
    <3>. QED BY <2>2, <3>1, <3>2 DEF RenewAndSweep, SeatEffect, Marks
  <2>3. room.state \in {"open", "ending", "gone"}
    OBVIOUS
  <2>. QED BY <1>5, <2>1, <2>2, <2>3 DEF Ping, CloseMembership
<1>6. ASSUME NEW n \in Nodes, Proceed(n) PROVE SeatEffect /\ SeatsType'
  <2>. DEFINE step  == Head(Head(due[n]).steps)
              swept == IF step.op = "sweep" /\ room.state = "open" THEN Lapsed ELSE {}
  <2>1. seats' = [s \in Seats |-> IF s \in swept THEN NoSeat ELSE seats[s]]
    BY <1>6 DEF Proceed
  <2>2. swept \in SUBSET Seats /\ swept \subseteq Lapsed
    BY DEF Lapsed, Taken
  <2>3. UNCHANGED room /\ status' \in [Clients -> {"new", "joining", "in", "out"}]
    <3>1. Enters(Head(due[n]).client, step) /\ UNCHANGED room
      BY <1>6 DEF Proceed
    <3>. QED BY <3>1 DEF Enters
  <2>. QED BY <2>1, <2>2, <2>3 DEF SeatEffect, Sweeps
<1>7. ASSUME NEW n \in Nodes, AnnounceFails(n) PROVE SeatEffect /\ SeatsType'
  <2>. DEFINE client == Head(due[n]).client
              s      == Head(Head(due[n]).steps).seat
              gives  == Head(Head(due[n]).steps).op = "joined" /\ client \notin Hosted
  <2>1. /\ UNCHANGED room
        /\ status' = IF gives THEN [status EXCEPT ![client] = "out"] ELSE status
        /\ seats' = seats \/ (gives /\ Owns(client, s) /\ seats' = [seats EXCEPT ![s] = NoSeat])
    BY <1>7 DEF AnnounceFails
  <2>. HIDE DEF client, s, gives
  <2>2. CASE seats' = seats
    BY <2>1, <2>2 DEF SeatEffect
  <2>3. CASE s \in Seats /\ gives /\ Owns(client, s) /\ seats' = [seats EXCEPT ![s] = NoSeat]
    <3>1. client \in Clients
      BY <2>3 DEF Owns, SeatRows
    <3>. QED BY <2>1, <2>3, <3>1 DEF SeatEffect, Frees
  <2>4. CASE s \notin Seats /\ seats' = [seats EXCEPT ![s] = NoSeat]
    BY <2>2, <2>4
  <2>. QED BY <2>1, <2>2, <2>3, <2>4
<1>8. ASSUME NEW s \in Seats, Lapse(s) PROVE SeatEffect /\ SeatsType'
  <2>1. s \in Taken /\ seats[s] \in SeatRows
    BY <1>8 DEF Lapse, Taken
  <2>. QED BY <1>8, <2>1 DEF Lapse, SeatEffect, Marks, SeatRows
<1>9. CASE Expire
  BY <1>9 DEF Expire, SeatEffect, Ends
<1>10. CASE UNCHANGED vars
  BY <1>10 DEF vars, SeatEffect
<1>. QED BY <1>1, <1>2, <1>3, <1>4, <1>5, <1>6, <1>7, <1>8, <1>9, <1>10 DEF Next

\* A room keeps the option it was created with.
LEMMA OptionStays ==
  ASSUME Next \/ UNCHANGED vars
  PROVE  SeatsType => room'.seatPerUser = room.seatPerUser
<1>1. ASSUME Expire PROVE SeatsType => room'.seatPerUser = room.seatPerUser
  BY <1>1 DEF Expire, SeatsType
<1>2. ~Expire => room' = room
  BY DEF Next, vars, Claim, ClaimFull, Depart, LeaveHosted, Ping, CloseMembership, RenewAndSweep, Proceed, AnnounceFails, Lapse
<1>. QED BY <1>1, <1>2

-----------------------------------------------------------------------------
(* One seat per viewer. *)

\* No effect gives a viewer a second seat.
LEMMA OneSeatStep ==
  ASSUME SeatsType, OneSeatPerUser, SeatEffect, room'.seatPerUser = room.seatPerUser
  PROVE  OneSeatPerUser'
<1>1. CASE Taken' \subseteq Taken
  BY <1>1 DEF OneSeatPerUser
<1>2. ASSUME NEW c \in Clients, NEW s \in Seats, ClaimEffect(c, s), c \notin Hosted PROVE OneSeatPerUser'
  <2>1. Taken' \subseteq (Taken \ Lapsed) \cup {s}
    BY <1>2 DEF ClaimEffect, Taken, SeatsType
  <2>2. CASE s \in Taken
    BY <1>1, <2>1, <2>2
  <2>3. CASE ~room.seatPerUser
    BY <2>3 DEF OneSeatPerUser
  <2>4. CASE room.seatPerUser /\ s \notin Taken
    <3>1. s = SeatOf[c] /\ HeldBy(UserOf[SeatOf[c]], Taken \ Lapsed) = {}
      BY <1>2, <2>4 DEF ClaimEffect, SeatFor, HeldBy
    <3>2. ASSUME NEW d \in Clients \ Hosted, UserOf[SeatOf[d]] = UserOf[s]
          PROVE  SeatOf[d] \notin Taken \ Lapsed
      BY <3>1, <3>2, SeatsAssumption DEF HeldBy
    <3>. QED BY <2>1, <2>4, <3>1, <3>2 DEF OneSeatPerUser
  <2>. QED BY <2>2, <2>3, <2>4
<1>3. ASSUME NEW c \in Hosted, ClaimEffect(c, SeatOf[c]) PROVE OneSeatPerUser'
  <2>1. Taken' \subseteq Taken \cup {SeatOf[c]}
    BY <1>3 DEF ClaimEffect, Taken, SeatsType
  <2>2. \A d \in Clients \ Hosted : SeatOf[d] # SeatOf[c]
    BY SeatsAssumption
  <2>. QED BY <2>1, <2>2 DEF OneSeatPerUser
<1>4. SeatEffect => \/ Taken' \subseteq Taken
                    \/ \E c \in Clients, s \in Seats : ClaimEffect(c, s) /\ c \notin Hosted
                    \/ \E c \in Hosted : ClaimEffect(c, SeatOf[c])
  BY DEF SeatEffect, Frees, Sweeps, Marks, Ends, Taken, SeatsType
<1>. QED BY <1>1, <1>2, <1>3, <1>4

\* OneSeatPerUser: in a room with seatPerUser two participant ids of one viewer are never taken
\* together, whatever claims, lapses, sweeps and departures of its connections interleave (CLAIM_SEAT).
THEOREM ViewerHasOneSeat == Spec => []OneSeatPerUser
<1>1. Init => SeatsType /\ OneSeatPerUser
  BY DEF Init, SeatsType, OneSeatPerUser, Taken
<1>2. SeatsType /\ OneSeatPerUser /\ [Next]_vars => SeatsType' /\ OneSeatPerUser'
  BY SeatSteps, OneSeatStep, OptionStays
<1>. QED BY <1>1, <1>2, PTL DEF Spec

-----------------------------------------------------------------------------
(* The cleanup of an old connection. *)

\* Of the effects only a departure of its owner, or the end of the room, frees a seat that lives.
LEMMA CleanupStep ==
  ASSUME SeatsType, SeatEffect, NEW s \in Taken \ Lapsed, seats'[s] = NoSeat
  PROVE  status'[seats[s].owner] = "out" \/ room'.state # "open"
<1>1. s \in Seats /\ seats[s] \in SeatRows /\ seats[s] # NoSeat
  BY DEF Taken, SeatsType
<1>2. CASE seats' = seats
  BY <1>1, <1>2
<1>3. ASSUME NEW c \in Clients, NEW t \in Seats, ClaimEffect(c, t) PROVE FALSE
  <2>1. [owner |-> c, lapsed |-> FALSE] # NoSeat
    <3>1. [owner |-> c, lapsed |-> FALSE] \in SeatRows
      BY DEF SeatRows
    <3>. QED BY <3>1, SeatsAssumption DEF SeatRows
  <2>2. seats'[s] \in {[owner |-> c, lapsed |-> FALSE], seats[s]}
    BY <1>1, <1>3 DEF ClaimEffect
  <2>. QED BY <1>1, <2>1, <2>2
<1>4. ASSUME NEW c \in Clients, NEW t \in Seats, Frees(c, t), status'[c] = "out"
      PROVE  status'[seats[s].owner] = "out"
  BY <1>1, <1>4 DEF Frees, Owns, SeatsType
<1>5. ASSUME NEW gone \in SUBSET Seats, Sweeps(gone) PROVE FALSE
  BY <1>1, <1>5 DEF Sweeps
<1>6. ASSUME NEW t \in Seats, Marks(t) PROVE FALSE
  <2>1. PICK b \in BOOLEAN : seats' = [seats EXCEPT ![t].lapsed = b]
    BY <1>6 DEF Marks
  <2>2. CASE t # s
    BY <1>1, <2>1, <2>2 DEF SeatsType
  <2>3. CASE t = s
    <3>1. seats'[s] = [seats[s] EXCEPT !.lapsed = b]
      BY <1>1, <2>1, <2>3 DEF SeatsType
    <3>2. seats'[s] \in SeatRows
      BY <1>1, <3>1 DEF SeatRows
    <3>. QED BY <3>2, SeatsAssumption DEF SeatRows
  <2>. QED BY <2>2, <2>3
<1>7. Hosted \subseteq Clients /\ \A c \in Hosted : SeatOf[c] \in Seats
  BY SeatsAssumption
<1>8. CASE Ends
  BY <1>8 DEF Ends
<1>. QED BY <1>2, <1>3, <1>4, <1>5, <1>6, <1>7, <1>8 DEF SeatEffect

\* CleanupSparesSuccessor: a seat whose lease holds goes only when the connection that claimed it
\* last departs, or with the room (LEAVE, SWEEP).
THEOREM SuccessorIsSpared == Spec => CleanupSparesSuccessor
<1>1. Init => SeatsType
  BY DEF Init, SeatsType
<1>2. SeatsType /\ [Next]_vars => SeatsType'
  BY SeatSteps
<1>3. SeatsType /\ [Next]_vars
        => [\A s \in Taken \ Lapsed : seats'[s] = NoSeat =>
              status'[seats[s].owner] = "out" \/ room'.state # "open"]_vars
  BY SeatSteps, CleanupStep
<1>. QED BY <1>1, <1>2, <1>3, PTL DEF Spec, CleanupSparesSuccessor

-----------------------------------------------------------------------------
(* What the members see: the inductive invariant. *)

\* What holds of every room: the shape of what the clients and the nodes keep, and the capacity.
SeatsBase ==
  /\ SeatsType
  /\ membership = [c \in Clients |-> membership[c]]
  /\ due = [m \in Nodes |-> due[m]]
  /\ faults \in [lapses : Nat, errors : Nat]
  /\ IsFiniteSet(Taken) /\ Cardinality(Taken) <= MaxParticipants

\* All commands are sent by node n, all succeed, and one lease at most has run out.
Quiet(n) ==
  /\ room.state = "open" /\ faults.errors = 0 /\ faults.lapses <= 1
  /\ \A c \in Clients : status[c] # "new" => NodeOf[c] = n

\* What a caller sends: announcements of a seat, its own entry, and the sweep after a ping.
Commands == [op : {"left", "joined", "presence", "enter"}, seat : Seats] \cup [op : {"sweep"}, seat : {NoSeat}]
Tasks == [client : Clients, steps : Seq(Commands)]

\* A caller has one command to send, or the departure of the lapsed seat and then its entry.
TaskOK(task) ==
  /\ status[task.client] # "new"
  /\ Len(task.steps) \in {1, 2}
  /\ Len(task.steps) = 2 =>
       /\ task.steps[1].op = "left" /\ task.steps[2].op # "left"
       /\ faults.lapses = 1 /\ Lapsed = {}

\* Only node n has anything to send.
QueueOK(n) ==
  /\ due[n] \in Seq(Tasks)
  /\ \A i \in 1..Len(due[n]) : TaskOK(due[n][i])
  /\ \A m \in Nodes \ {n} : due[m] = <<>>

\* At most one seat has lapsed.
LapsesOK ==
  /\ faults.lapses = 0 => Lapsed = {}
  /\ \A s, t \in Lapsed : s = t

\* A seat only its hosted client takes, or a gateway connection that has not entered yet and has
\* nothing to send before this.
Waits(q, i, s) ==
  /\ s \in Taken
  /\ \A c \in Hosted : SeatOf[c] = s => q[i].client = c
  /\ LET o == seats[s].owner
     IN  o \notin Hosted =>
           /\ membership[o] = NoSeat
           /\ \A j \in 1..Len(q) : q[j].client = o => i <= j

\* An announcement of the seat, and whether it tells the truth of it: a lapsed seat may be listed or not.
About(step, s) == Announces(step) /\ step.seat = s
Fits(op, s) == IF op = "left" THEN s \notin Taken \ Lapsed ELSE s \in Taken

\* Caller i announces the seat next, or with its second command, which will go behind all that the
\* node has sent by then.
First(q, i, s) == About(q[i].steps[1], s)
Second(q, i, s) == Len(q[i].steps) = 2 /\ About(q[i].steps[2], s)

\* The last announcement of a seat under way tells the truth; if there is none, so do the lists.
LastFits(q, s) ==
  \A i \in 1..Len(q) :
    /\ First(q, i, s)
    /\ \A j \in 1..Len(q) : (First(q, j, s) => j <= i) /\ ~Second(q, j, s)
    => Fits(q[i].steps[1].op, s)

ListsFit(q, s) ==
  (\A i \in 1..Len(q) : ~First(q, i, s) /\ ~Second(q, i, s)) =>
    /\ s \in shown => s \in Taken
    /\ s \in Taken \ Lapsed => s \in shown

SecondWaits(q, s) == \A i \in 1..Len(q) : Second(q, i, s) => Waits(q, i, s)

SeatOK(n, s) == LastFits(due[n], s) /\ ListsFit(due[n], s) /\ SecondWaits(due[n], s)

\* What holds while the room is undisturbed and served by node n.
Calm(n) ==
  /\ membership \in [Clients -> Seats \cup {NoSeat}]
  /\ \A c \in Clients : status[c] = "new" => membership[c] = NoSeat
  /\ shown \subseteq Seats
  /\ LapsesOK
  /\ QueueOK(n)
  /\ \A s \in Seats : SeatOK(n, s)

ListsInv == SeatsBase /\ \A n \in Nodes : Quiet(n) => Calm(n)

-----------------------------------------------------------------------------
(* Queues that grow and shrink. *)

\* A queue with one more caller.
LEMMA Appends ==
  ASSUME NEW q \in Seq(Tasks), NEW t \in Tasks
  PROVE  /\ Append(q, t) \in Seq(Tasks) /\ Len(Append(q, t)) = Len(q) + 1
         /\ Append(q, t)[Len(q) + 1] = t
         /\ \A i \in 1..Len(q) : Append(q, t)[i] = q[i]
OBVIOUS

\* A queue without its oldest caller.
LEMMA Pops ==
  ASSUME NEW q \in Seq(Tasks), q # <<>>
  PROVE  /\ Tail(q) \in Seq(Tasks) /\ Len(Tail(q)) = Len(q) - 1 /\ Len(q) \in Nat \ {0}
         /\ Head(q) = q[1] /\ Head(q) \in Tasks
         /\ \A i \in 1..Len(q) - 1 : Tail(q)[i] = q[i + 1]
OBVIOUS

\* A caller with one command.
LEMMA Singles ==
  ASSUME NEW x \in Commands
  PROVE  /\ <<x>> \in Seq(Commands) /\ Len(<<x>>) = 1 /\ <<x>>[1] = x /\ <<x>> # <<>>
OBVIOUS

\* A caller with two commands.
LEMMA Pairs ==
  ASSUME NEW x \in Commands, NEW y \in Commands
  PROVE  /\ Append(<<x>>, y) \in Seq(Commands) /\ Len(Append(<<x>>, y)) = 2
         /\ Append(<<x>>, y)[1] = x /\ Append(<<x>>, y)[2] = y /\ Append(<<x>>, y) # <<>>
         /\ Append(<<>>, y) = <<y>>
OBVIOUS

\* What is left of a caller's commands when the first has been executed.
LEMMA TailOfOne ==
  ASSUME NEW s \in Seq(Commands), Len(s) = 1
  PROVE  Tail(s) = <<>>
<1>1. s # <<>>
  OBVIOUS
<1>2. Tail(s) \in Seq(Commands) /\ Len(Tail(s)) = 0
  BY <1>1, HeadTailProperties
<1>. QED BY <1>2, EmptySeq

\* One command is left of two.
LEMMA TailOfTwo ==
  ASSUME NEW s \in Seq(Commands), Len(s) = 2
  PROVE  Tail(s) = <<s[2]>> /\ s[2] \in Commands
<1>1. PICK t : t = Tail(s)
  OBVIOUS
<1>2. PICK u : u = <<s[2]>>
  OBVIOUS
<1>3. s # <<>> /\ s[2] \in Commands
  OBVIOUS
<1>4. t \in Seq(Commands) /\ Len(t) = 1 /\ t[1] = s[2]
  <2>1. t \in Seq(Commands) /\ Len(t) = 1 /\ \A i \in 1..Len(t) : t[i] = s[i + 1]
    BY <1>1, <1>3, HeadTailProperties
  <2>. QED BY <2>1
<1>5. u \in Seq(Commands) /\ Len(u) = 1 /\ u[1] = s[2]
  BY <1>2, <1>3, Singles
<1>6. t = u
  BY <1>4, <1>5, SeqEqual
<1>. QED BY <1>1, <1>2, <1>3, <1>6

\* announceLeft for no seat and for one seat.
LEMMA LeftsOfOne ==
  /\ Lefts({}) = <<>>
  /\ \A s \in Seats : Lefts({s}) = <<Step("left", s)>>
<1>1. Lefts({}) = <<>>
  <2>1. {Step("left", s) : s \in {}} = {} /\ Cardinality({}) = 0
    BY FS_EmptySet
  <2>2. <<>> \in [1..0 -> {}] /\ IsInjective(<<>>)
    BY DEF IsInjective
  <2>3. \A f \in [1..0 -> {}] : f = <<>>
    OBVIOUS
  <2>. QED BY <2>1, <2>2, <2>3 DEF Lefts, SetToSeq
<1>2. ASSUME NEW s \in Seats PROVE Lefts({s}) = <<Step("left", s)>>
  <2>. DEFINE x == Step("left", s)
  <2>1. {Step("left", t) : t \in {s}} = {x} /\ Cardinality({x}) = 1
    <3>1. {Step("left", t) : t \in {s}} = {x}
      OBVIOUS
    <3>2. Cardinality({x}) = 1
      BY FS_Singleton
    <3>. QED BY <3>1, <3>2
  <2>2. <<x>> \in [1..1 -> {x}] /\ IsInjective(<<x>>)
    BY DEF IsInjective
  <2>3. \A f \in [1..1 -> {x}] : f = <<x>>
    OBVIOUS
  <2>. QED BY <2>1, <2>2, <2>3 DEF Lefts, SetToSeq
<1>. QED BY <1>1, <1>2

\* A claim: its entry is the last word on the seat, and where it also has the departure of a lapsed
\* seat to announce, the entry waits for it while nobody else can say anything of the claimed seat.
LEMMA ClaimCalm ==
  ASSUME NEW n \in Nodes, SeatsBase, Quiet(n), Calm(n), NEW c \in Clients, Claim(c), Quiet(n)'
  PROVE  Calm(n)'
<1>1. PICK q : q = due[n]
  OBVIOUS
<1>2. PICK s \in SeatFor(c, Taken \ Lapsed) :
        /\ seats' = [t \in Seats |-> IF t = s THEN [owner |-> c, lapsed |-> FALSE]
                                     ELSE IF t \in Lapsed THEN NoSeat ELSE seats[t]]
        /\ Then(c, Append(Lefts(Lapsed), Step(Entry(c, s, Taken \ Lapsed), s)))
  BY DEF Claim
<1>3. PICK entry : entry = Step(Entry(c, s, Taken \ Lapsed), s)
  OBVIOUS
<1>4. PICK steps : steps = Append(Lefts(Lapsed), entry)
  OBVIOUS
<1>5. PICK t : t = Task(c, steps)
  OBVIOUS
<1>6. PICK r : r = due'[n]
  OBVIOUS
<1>7. s \in Seats /\ entry \in Commands /\ entry.seat = s /\ entry.op \in {"joined", "presence", "enter"}
  BY <1>3, SeatsAssumption DEF SeatFor, HeldBy, Taken, Entry, Step, Commands
<1>8. /\ status' = [status EXCEPT ![c] = "joining"] /\ UNCHANGED <<room, membership, shown, told, faults>>
      /\ \A i \in 1..Len(due[NodeOf[c]]) : due[NodeOf[c]][i].client # c
      /\ status[c] = "new" \/ c \in Hosted
  BY DEF Claim, Busy
<1>9. NodeOf[c] = n
  BY <1>8 DEF Quiet, SeatsBase, SeatsType
<1>10. /\ Lapsed = {} => steps = <<entry>>
       /\ \A a \in Lapsed : Lapsed = {a} /\ steps = Append(<<Step("left", a)>>, entry)
                            /\ Step("left", a) \in Commands /\ a \in Seats
  <2>1. Lapsed = {} => steps = <<entry>>
    BY <1>7, <1>4, LeftsOfOne, Pairs
  <2>2. ASSUME NEW a \in Lapsed
        PROVE  Lapsed = {a} /\ steps = Append(<<Step("left", a)>>, entry)
               /\ Step("left", a) \in Commands /\ a \in Seats
    <3>1. Lapsed = {a} /\ a \in Seats
      BY <2>2 DEF Calm, LapsesOK, Lapsed, Taken
    <3>. QED BY <1>4, <3>1, LeftsOfOne DEF Commands, Step
  <2>. QED BY <2>1, <2>2
<1>11. /\ Len(steps) \in {1, 2} /\ steps \in Seq(Commands) /\ steps # <<>>
       /\ Lapsed = {} => Len(steps) = 1 /\ steps[1] = entry
       /\ \A a \in Lapsed : Len(steps) = 2 /\ steps[1] = Step("left", a) /\ steps[2] = entry
  <2>1. CASE Lapsed = {}
    BY <1>7, <1>10, <2>1, Singles
  <2>2. ASSUME NEW a \in Lapsed
        PROVE  /\ Len(steps) = 2 /\ steps[1] = Step("left", a) /\ steps[2] = entry
               /\ steps \in Seq(Commands) /\ steps # <<>>
    <3>. DEFINE x == Step("left", a)
    <3>1. x \in Commands /\ steps = Append(<<x>>, entry)
      BY <1>10, <2>2
    <3>. HIDE DEF x
    <3>2. steps \in Seq(Commands) /\ Len(steps) = 2 /\ steps[1] = x /\ steps[2] = entry /\ steps # <<>>
      BY <1>7, <3>1, Pairs
    <3>. QED BY <3>2 DEF x
  <2>. QED BY <2>1, <2>2
<1>12. t \in Tasks /\ t.client = c /\ t.steps = steps
  BY <1>5, <1>11 DEF Task, Tasks
<1>13. r = Append(q, t) /\ \A m \in Nodes \ {n} : due'[m] = due[m]
  BY <1>1, <1>2, <1>3, <1>4, <1>5, <1>6, <1>9, <1>11 DEF Then, Sends, SeatsBase
<1>14. /\ q \in Seq(Tasks) /\ r \in Seq(Tasks) /\ Len(r) = Len(q) + 1
       /\ r[Len(q) + 1] = t /\ \A i \in 1..Len(q) : r[i] = q[i] /\ q[i].client # c
  BY <1>1, <1>8, <1>9, <1>12, <1>13, Appends DEF Calm, QueueOK
<1>15. /\ \A x \in Seats : x \in Taken' <=> x = s \/ x \in Taken \ Lapsed
       /\ Lapsed' = {}
       /\ seats'[s].owner = c
       /\ \A x \in Seats \ {s} : x \in Taken \ Lapsed => seats'[x] = seats[x]
  <2>1. [owner |-> c, lapsed |-> FALSE] # NoSeat
    <3>1. [owner |-> c, lapsed |-> FALSE] \in SeatRows
      BY DEF SeatRows
    <3>. QED BY <3>1, SeatsAssumption DEF SeatRows
  <2>. QED BY <1>2, <1>7, <2>1 DEF Taken, Lapsed
<1>16. membership' = membership /\ \A d \in Clients : status'[d] = "new" => membership'[d] = NoSeat
  BY <1>8 DEF Calm, SeatsBase, SeatsType
<1>17. LapsesOK'
  BY <1>15 DEF LapsesOK
<1>18. QueueOK(n)'
  <2>1. \A i \in 1..Len(q) : TaskOK(q[i])'
    BY <1>1, <1>8, <1>14, <1>15 DEF Calm, QueueOK, TaskOK, SeatsBase, SeatsType, Tasks
  <2>2. TaskOK(t)'
    <3>1. status'[c] # "new"
      BY <1>8 DEF SeatsBase, SeatsType
    <3>2. Len(steps) = 2 => faults.lapses = 1 /\ steps[1].op = "left"
      BY <1>11 DEF Calm, LapsesOK, Quiet, SeatsBase, Step
    <3>. QED BY <1>7, <1>8, <1>11, <1>12, <1>15, <3>1, <3>2 DEF TaskOK
  <2>. QED BY <1>6, <1>13, <1>14, <2>1, <2>2 DEF QueueOK, Calm
<1>19. \A d \in Hosted : SeatOf[d] = s => d = c
  BY SeatsAssumption DEF SeatFor, HeldBy
<1>20. /\ s \notin Taken \ Lapsed => entry.op = "joined"
       /\ entry.op = "enter" => s \in Taken \ Lapsed
  BY <1>3 DEF Entry, Step
<1>21. ASSUME NEW a \in Lapsed, NEW x \in Seats
       PROVE  /\ First(r, Len(q) + 1, x) <=> x = a
              /\ Second(r, Len(q) + 1, x) <=> x = s /\ entry.op # "enter"
              /\ r[Len(q) + 1].steps[1].op = "left"
  <2>1. /\ r[Len(q) + 1].steps[1] = Step("left", a) /\ r[Len(q) + 1].steps[2] = entry
        /\ Len(r[Len(q) + 1].steps) = 2
    BY <1>11, <1>12, <1>14, <1>21
  <2>. QED BY <1>7, <2>1 DEF First, Second, About, Announces, Step
<1>22. ASSUME NEW x \in Seats PROVE SeatOK(n, x)'
  <2>0. LastFits(q, x) /\ ListsFit(q, x) /\ SecondWaits(q, x)
    BY <1>1 DEF Calm, SeatOK
  <2>1. Lapsed # {} => \A i \in 1..Len(q) : ~Second(q, i, x)
    BY <1>1 DEF Calm, QueueOK, TaskOK, Second
  <2>2. SecondWaits(r, x)'
    <3>1. ASSUME NEW i \in 1..Len(q), Second(r, i, x) PROVE Waits(r, i, x)'
      <4>1. Second(q, i, x) /\ Waits(q, i, x) /\ Lapsed = {}
        BY <1>14, <2>0, <2>1, <3>1 DEF Second, SecondWaits
      <4>2. \A j \in 1..Len(r) : (j \in 1..Len(q) /\ r[j] = q[j]) \/ i <= j
        BY <1>14
      <4>3. CASE x = s
        BY <1>8, <1>14, <1>15, <1>16, <4>1, <4>2, <4>3 DEF Waits, Calm
      <4>4. CASE x # s
        BY <1>14, <1>15, <1>16, <4>1, <4>2, <4>4 DEF Waits
      <4>. QED BY <4>3, <4>4
    <3>2. ASSUME Second(r, Len(q) + 1, x) PROVE Waits(r, Len(q) + 1, x)'
      <4>1. x = s
        BY <1>7, <1>11, <1>12, <1>14, <3>2 DEF Second, About
      <4>2. \A j \in 1..Len(r) : r[j].client = c => Len(q) + 1 <= j
        BY <1>14
      <4>. QED BY <1>8, <1>12, <1>14, <1>15, <1>16, <1>19, <4>1, <4>2 DEF Waits, Calm
    <3>. QED BY <1>14, <3>1, <3>2 DEF SecondWaits
  <2>3. /\ \A i \in 1..Len(q) : (First(r, i, x) <=> First(q, i, x)) /\ (Second(r, i, x) <=> Second(q, i, x))
        /\ Len(q) + 1 \in 1..Len(r) /\ \A i \in 1..Len(r) : i \in 1..Len(q) \/ i = Len(q) + 1
    BY <1>14 DEF First, Second
  <2>4. ASSUME ~First(r, Len(q) + 1, x), ~Second(r, Len(q) + 1, x)
        PROVE  /\ x \in Taken' <=> x \in Taken
               /\ x \in (Taken \ Lapsed)' <=> x \in Taken \ Lapsed
    <3>1. CASE Lapsed = {}
      BY <1>7, <1>11, <1>12, <1>14, <1>15, <1>20, <2>4, <3>1 DEF First, Second, About, Announces
    <3>2. ASSUME NEW a \in Lapsed
          PROVE  /\ x \in Taken' <=> x \in Taken
                 /\ x \in (Taken \ Lapsed)' <=> x \in Taken \ Lapsed
      BY <1>10, <1>15, <1>20, <1>21, <2>4, <3>2
    <3>. QED BY <3>1, <3>2
  <2>5. ASSUME First(r, Len(q) + 1, x), ~Second(r, Len(q) + 1, x)
        PROVE  Fits(r[Len(q) + 1].steps[1].op, x)'
    <3>1. CASE Lapsed = {}
      BY <1>7, <1>11, <1>12, <1>14, <1>15, <2>5, <3>1 DEF First, About, Fits
    <3>2. ASSUME NEW a \in Lapsed
          PROVE  Fits(r[Len(q) + 1].steps[1].op, x)'
      BY <1>7, <1>10, <1>15, <1>20, <1>21, <2>5, <3>2 DEF Fits
    <3>. QED BY <3>1, <3>2
  <2>6. LastFits(r, x)'
    <3>. SUFFICES ASSUME NEW i \in 1..Len(r), First(r, i, x),
                         \A j \in 1..Len(r) : (First(r, j, x) => j <= i) /\ ~Second(r, j, x)
                  PROVE  Fits(r[i].steps[1].op, x)'
      BY DEF LastFits, First, Second, About, Announces
    <3>1. CASE i = Len(q) + 1
      BY <2>5, <3>1, <1>14
    <3>2. CASE i # Len(q) + 1
      <4>1. i \in 1..Len(q) /\ ~First(r, Len(q) + 1, x)
        BY <1>14, <3>2
      <4>2. Fits(q[i].steps[1].op, x)
        BY <1>14, <2>0, <2>3, <4>1 DEF LastFits
      <4>. QED BY <1>14, <2>3, <2>4, <4>1, <4>2 DEF Fits
    <3>. QED BY <3>1, <3>2
  <2>7. ListsFit(r, x)'
    BY <1>8, <1>14, <2>0, <2>3, <2>4 DEF ListsFit, First, Second, About, Announces
  <2>. QED BY <1>6, <2>2, <2>6, <2>7 DEF SeatOK
<1>23. shown' \subseteq Seats
  BY <1>8 DEF Calm
<1>. QED BY <1>16, <1>17, <1>18, <1>22, <1>23 DEF Calm

\* Nobody who came becomes new, and memberships only end.
OnlyLeave ==
  /\ membership' \in [Clients -> Seats \cup {NoSeat}]
  /\ \A c \in Clients : membership'[c] \in {membership[c], NoSeat}
  /\ \A c \in Clients : status'[c] = "new" => status[c] = "new"

\* A step that changes neither seats nor lists, and sends nothing.
LEMMA SilentCalm ==
  ASSUME NEW n \in Nodes, SeatsBase, Quiet(n), Calm(n), OnlyLeave,
         UNCHANGED <<room, seats, due, shown, faults>>
  PROVE  Calm(n)'
<1>. USE DEF Calm, OnlyLeave
<1>1. LapsesOK' /\ Taken' = Taken /\ Lapsed' = Lapsed
  BY DEF LapsesOK, Lapsed, Taken
<1>2. QueueOK(n)'
  <2>1. \A i \in 1..Len(due[n]) : due[n][i].client \in Clients
    <3>. SUFFICES ASSUME NEW i \in 1..Len(due[n]) PROVE due[n][i] \in Tasks
      BY DEF Tasks
    <3>. QED BY DEF QueueOK
  <2>. QED BY <1>1, <2>1 DEF QueueOK, TaskOK
<1>3. ASSUME NEW s \in Seats PROVE SeatOK(n, s)'
  <2>1. \A i \in 1..Len(due[n]) : Waits(due[n], i, s) => Waits(due[n], i, s)'
    <3>1. s \in Taken => seats[s].owner \in Clients
      BY DEF SeatsBase, SeatsType, SeatRows, Taken
    <3>. QED BY <1>1, <3>1 DEF Waits
  <2>. QED BY <1>1, <2>1 DEF SeatOK, LastFits, ListsFit, SecondWaits, First, Second, About, Announces, Fits
<1>. QED BY <1>1, <1>2, <1>3

\* A step that sends one command x: it may free the seat x is about, x tells the truth about it, and
\* no announcement of that seat is still second to come.
LEMMA OneMoreCalm ==
  ASSUME NEW n \in Nodes, SeatsBase, Quiet(n), Calm(n), OnlyLeave, UNCHANGED <<shown, faults>>,
         NEW c \in Clients, status[c] # "new", NEW x \in Commands,
         due' = [due EXCEPT ![n] = Append(@, Task(c, <<x>>))],
         \A s \in Seats : seats'[s] = seats[s] \/ (About(x, s) /\ seats'[s] = NoSeat),
         \A s \in Seats : About(x, s) =>
            Fits(x.op, s)' /\ \A i \in 1..Len(due[n]) : ~Second(due[n], i, s)
  PROVE  Calm(n)'
<1>1. PICK q : q = due[n]
  OBVIOUS
<1>2. PICK t : t = Task(c, <<x>>)
  OBVIOUS
<1>3. PICK r : r = due'[n]
  OBVIOUS
<1>4. t \in Tasks /\ t.client = c /\ Len(t.steps) = 1 /\ t.steps[1] = x
  BY <1>2, Singles DEF Task, Tasks
<1>5. r = Append(q, t) /\ \A m \in Nodes \ {n} : due'[m] = due[m]
  BY <1>1, <1>2, <1>3 DEF SeatsBase
<1>6. /\ q \in Seq(Tasks) /\ r \in Seq(Tasks) /\ Len(r) = Len(q) + 1 /\ r[Len(q) + 1] = t
      /\ \A i \in 1..Len(q) : r[i] = q[i]
  BY <1>1, <1>4, <1>5, Appends DEF Calm, QueueOK
<1>7. Taken' \subseteq Taken /\ Lapsed' \subseteq Lapsed
  BY DEF Taken, Lapsed
<1>8. LapsesOK'
  BY <1>7 DEF LapsesOK, Calm
<1>9. QueueOK(n)'
  <2>1. \A i \in 1..Len(q) : TaskOK(q[i])'
    <3>. SUFFICES ASSUME NEW i \in 1..Len(q) PROVE TaskOK(q[i])'
      BY DEF TaskOK
    <3>1. q[i] \in Tasks /\ TaskOK(q[i])
      BY <1>1, <1>6 DEF Calm, QueueOK
    <3>2. q[i].client \in Clients
      BY <3>1 DEF Tasks
    <3>. QED BY <1>7, <3>1, <3>2 DEF TaskOK, OnlyLeave
  <2>2. TaskOK(t)'
    BY <1>4 DEF TaskOK, OnlyLeave
  <2>3. \A i \in 1..Len(r) : TaskOK(r[i])'
    BY <1>6, <2>1, <2>2
  <2>4. \A m \in Nodes \ {n} : due'[m] = <<>>
    BY <1>5 DEF Calm, QueueOK
  <2>. QED BY <1>3, <1>6, <2>3, <2>4 DEF QueueOK
<1>10. ASSUME NEW s \in Seats PROVE SeatOK(n, s)'
  <2>0. LastFits(q, s) /\ ListsFit(q, s) /\ SecondWaits(q, s)
    BY <1>1 DEF Calm, SeatOK
  <2>1. /\ \A i \in 1..Len(q) : (First(r, i, s) <=> First(q, i, s)) /\ (Second(r, i, s) <=> Second(q, i, s))
        /\ Len(q) + 1 \in 1..Len(r) /\ \A i \in 1..Len(r) : i \in 1..Len(q) \/ i = Len(q) + 1
        /\ First(r, Len(q) + 1, s) <=> About(x, s)
        /\ ~Second(r, Len(q) + 1, s)
    BY <1>4, <1>6 DEF First, Second
  <2>2. ~About(x, s) => /\ s \in Taken' <=> s \in Taken
                        /\ s \in Lapsed' <=> s \in Lapsed
                        /\ seats'[s] = seats[s]
    BY DEF Taken, Lapsed
  <2>3. SecondWaits(r, s)'
    <3>1. ASSUME NEW i \in 1..Len(q), Second(q, i, s) PROVE Waits(r, i, s)'
      <4>1. ~About(x, s) /\ Waits(q, i, s)
        BY <1>1, <2>0, <3>1 DEF SecondWaits
      <4>2. seats[s].owner \in Clients
        BY <4>1 DEF SeatsBase, SeatsType, SeatRows, Taken, Waits
      <4>3. \A j \in 1..Len(r) : (j \in 1..Len(q) /\ r[j] = q[j]) \/ i <= j
        BY <1>6
      <4>. QED BY <1>6, <2>2, <4>1, <4>2, <4>3 DEF Waits, OnlyLeave
    <3>. QED BY <2>1, <3>1 DEF SecondWaits, Second, About, Announces
  <2>4. LastFits(r, s)'
    <3>. SUFFICES ASSUME NEW i \in 1..Len(r), First(r, i, s),
                         \A j \in 1..Len(r) : (First(r, j, s) => j <= i) /\ ~Second(r, j, s)
                  PROVE  Fits(r[i].steps[1].op, s)'
      BY DEF LastFits, First, Second, About, Announces
    <3>1. CASE i = Len(q) + 1
      BY <1>4, <1>6, <2>1, <3>1
    <3>2. CASE i # Len(q) + 1
      <4>1. i \in 1..Len(q) /\ ~About(x, s)
        BY <1>6, <2>1, <3>2
      <4>2. Fits(q[i].steps[1].op, s)
        BY <1>6, <2>0, <2>1, <4>1 DEF LastFits
      <4>. QED BY <1>6, <2>2, <4>1, <4>2 DEF Fits
    <3>. QED BY <3>1, <3>2
  <2>5. ListsFit(r, s)'
    BY <2>0, <2>1, <2>2 DEF ListsFit, First, Second, About, Announces
  <2>. QED BY <1>3, <2>3, <2>4, <2>5 DEF SeatOK
<1>11. OnlyLeave => /\ membership' \in [Clients -> Seats \cup {NoSeat}]
                    /\ \A d \in Clients : status'[d] = "new" => membership'[d] = NoSeat
  BY DEF OnlyLeave, Calm
<1>. QED BY <1>8, <1>9, <1>10, <1>11 DEF Calm

-----------------------------------------------------------------------------
(* The other steps. *)

\* A seat whose announcement is still second to come is taken, by its hosted client or by a
\* connection that has not entered.
LEMMA SecondIsKept ==
  ASSUME NEW n \in Nodes, SeatsBase, Calm(n), NEW i \in 1..Len(due[n]), NEW s \in Seats,
         Second(due[n], i, s)
  PROVE  /\ Lapsed = {} /\ s \in Taken
         /\ \A c \in Hosted : SeatOf[c] = s => due[n][i].client = c
         /\ \A c \in Clients \ Hosted : Owns(c, s) => membership[c] = NoSeat
BY DEF Calm, QueueOK, TaskOK, SeatOK, SecondWaits, Second, Waits, Owns

\* A release by the owner of a seat whose announcement is not second to come.
LEMMA ReleaseCalm ==
  ASSUME NEW n \in Nodes, SeatsBase, Quiet(n), Calm(n), OnlyLeave, UNCHANGED <<room, shown, faults>>,
         NEW c \in Clients, status[c] # "new", NEW s \in Seats \cup {NoSeat}, Release(c, s),
         Owns(c, s) => \A i \in 1..Len(due[n]) : ~Second(due[n], i, s)
  PROVE  Calm(n)'
<1>1. CASE ~Owns(c, s)
  BY <1>1, SilentCalm DEF Release
<1>2. CASE Owns(c, s)
  <2>. DEFINE x == Step("left", s)
  <2>1. s \in Seats /\ x \in Commands /\ \A t \in Seats : About(x, t) <=> t = s
    BY <1>2 DEF Owns, Step, Commands, About, Announces
  <2>2. due' = [due EXCEPT ![n] = Append(@, Task(c, <<x>>))]
    BY <1>2 DEF Release, Then, Sends, Quiet
  <2>3. seats' = [seats EXCEPT ![s] = NoSeat]
    BY <1>2 DEF Release
  <2>4. \A t \in Seats : seats'[t] = seats[t] \/ (About(x, t) /\ seats'[t] = NoSeat)
    BY <2>1, <2>3 DEF SeatsBase, SeatsType
  <2>5. Fits(x.op, s)'
    BY <2>1, <2>3 DEF Fits, Step, Taken, SeatsBase, SeatsType
  <2>. HIDE DEF x
  <2>. QED BY <1>2, <2>1, <2>2, <2>4, <2>5, OneMoreCalm
<1>. QED BY <1>1, <1>2

\* A connection that leaves: it owns the seat its context names, whose entry it has announced before.
LEMMA DepartCalm ==
  ASSUME NEW n \in Nodes, SeatsBase, Quiet(n), Calm(n), NEW c \in Clients, Depart(c)
  PROVE  Calm(n)'
<1>1. /\ c \notin Hosted /\ status[c] # "new" /\ Release(c, membership[c])
      /\ UNCHANGED <<room, shown, faults>> /\ OnlyLeave
  BY DEF Depart, OnlyLeave, Calm, SeatsBase, SeatsType
<1>2. membership[c] \in Seats \cup {NoSeat}
  BY DEF Calm
<1>3. Owns(c, membership[c]) => \A i \in 1..Len(due[n]) : ~Second(due[n], i, membership[c])
  BY <1>1, <1>2, SecondIsKept, SeatsAssumption DEF Owns
<1>. QED BY <1>1, <1>2, <1>3, ReleaseCalm

\* A hosted seat that leaves has nothing else to send.
LEMMA LeaveHostedCalm ==
  ASSUME NEW n \in Nodes, SeatsBase, Quiet(n), Calm(n), NEW c \in Clients, LeaveHosted(c)
  PROVE  Calm(n)'
<1>1. /\ c \in Hosted /\ status[c] # "new" /\ ~Busy(c) /\ Release(c, SeatOf[c])
      /\ UNCHANGED <<room, shown, faults>> /\ OnlyLeave
  BY DEF LeaveHosted, OnlyLeave, Calm, SeatsBase, SeatsType
<1>2. SeatOf[c] \in Seats /\ NodeOf[c] = n
  BY <1>1, SeatsAssumption DEF Quiet
<1>3. \A i \in 1..Len(due[n]) : ~Second(due[n], i, SeatOf[c])
  BY <1>1, <1>2, SecondIsKept DEF Busy
<1>. QED BY <1>1, <1>2, <1>3, ReleaseCalm

\* A ping: a lapsed or lost seat is announced as left, a renewed one is followed by a sweep.
LEMMA PingCalm ==
  ASSUME NEW n \in Nodes, SeatsBase, Quiet(n), Calm(n), NEW c \in Clients, Ping(c)
  PROVE  Calm(n)'
<1>0. PICK s : s = membership[c]
  OBVIOUS
<1>1. status[c] # "new" /\ s \in Seats /\ room.state = "open" /\ NodeOf[c] = n
  BY <1>0 DEF Ping, Calm, Quiet
<1>2. CASE (s \notin Taken \/ s \in Lapsed) /\ CloseMembership(c, "revoked")
  <2>. DEFINE x == Step("left", s)
  <2>1. x \in Commands /\ \A t \in Seats : About(x, t) <=> t = s
    BY <1>1 DEF Step, Commands, About, Announces
  <2>2. /\ due' = [due EXCEPT ![n] = Append(@, Task(c, <<x>>))]
        /\ OnlyLeave /\ UNCHANGED <<seats, shown, faults>>
    BY <1>0, <1>1, <1>2 DEF CloseMembership, Then, Sends, OnlyLeave, Calm, SeatsBase, SeatsType
  <2>3. Fits(x.op, s)'
    BY <1>2, <2>2 DEF Fits, Step, Taken, Lapsed
  <2>4. \A i \in 1..Len(due[n]) : ~Second(due[n], i, s)
    BY <1>1, <1>2, SecondIsKept
  <2>. HIDE DEF x
  <2>. QED BY <1>1, <2>1, <2>2, <2>3, <2>4, OneMoreCalm
<1>3. CASE CloseMembership(c, "superseded")
  <2>1. OnlyLeave /\ UNCHANGED <<room, seats, due, shown, faults>>
    BY <1>1, <1>3 DEF CloseMembership, OnlyLeave, Calm, SeatsBase, SeatsType
  <2>. QED BY <2>1, SilentCalm
<1>4. CASE s \in Taken \ Lapsed /\ RenewAndSweep(c, s)
  <2>. DEFINE x == Step("sweep", NoSeat)
  <2>1. x \in Commands /\ \A t \in Seats : ~About(x, t)
    BY SeatsAssumption DEF Step, Commands, About, Announces
  <2>2. seats[s] \in SeatRows /\ seats[s].lapsed = FALSE
    BY <1>4 DEF Taken, Lapsed, SeatsBase, SeatsType
  <2>3. seats' = seats
    BY <1>4, <2>2 DEF RenewAndSweep, SeatsBase, SeatsType, SeatRows
  <2>4. due' = [due EXCEPT ![n] = Append(@, Task(c, <<x>>))] /\ OnlyLeave /\ UNCHANGED <<shown, faults>>
    BY <1>1, <1>4 DEF RenewAndSweep, Then, Sends, OnlyLeave, Calm
  <2>. HIDE DEF x
  <2>. QED BY <1>1, <2>1, <2>3, <2>4, OneMoreCalm
<1>. QED BY <1>0, <1>1, <1>2, <1>3, <1>4 DEF Ping

\* A claim refused by a full room has found no lapsed seat: the capacity would have let it in.
LEMMA ClaimFullCalm ==
  ASSUME NEW n \in Nodes, SeatsBase, Quiet(n), Calm(n), NEW c \in Clients, ClaimFull(c)
  PROVE  Calm(n)'
<1>. DEFINE kept == Taken \ Lapsed
<1>1. SeatFor(c, kept) # {}
  BY DEF SeatFor
<1>2. ~(Cardinality(kept) < MaxParticipants)
  BY <1>1 DEF ClaimFull, HasRoom
<1>3. kept = Taken
  <2>1. Cardinality(kept) <= Cardinality(Taken) /\ (Cardinality(Taken) = Cardinality(kept) => Taken = kept)
    BY FS_Subset DEF SeatsBase
  <2>2. Cardinality(kept) \in Nat /\ Cardinality(Taken) \in Nat
    BY FS_Subset, FS_CardinalityType DEF SeatsBase
  <2>. HIDE DEF kept
  <2>. QED BY <1>2, <2>1, <2>2, SeatsAssumption DEF SeatsBase
<1>4. Lapsed = {}
  BY <1>3 DEF Lapsed
<1>5. seats' = seats
  BY <1>4 DEF ClaimFull, SeatsBase, SeatsType
<1>6. OnlyLeave /\ UNCHANGED <<room, due, shown, faults>>
  BY DEF ClaimFull, OnlyLeave, Calm, SeatsBase, SeatsType
<1>. QED BY <1>5, <1>6, SilentCalm

\* The one lease that runs out: its seat may still be listed, and is not hidden by that.
LEMMA LapseCalm ==
  ASSUME NEW n \in Nodes, SeatsBase, Quiet(n), Calm(n), NEW s \in Seats, Lapse(s), Quiet(n)'
  PROVE  Calm(n)'
<1>1. /\ faults.lapses = 0 /\ faults'.lapses = 1 /\ Lapsed = {}
      /\ UNCHANGED <<room, status, membership, due, shown>>
  BY DEF Lapse, Quiet, SeatsBase, Calm, LapsesOK
<1>2. /\ \A t \in Seats \ {s} : seats'[t] = seats[t]
      /\ s \in Taken /\ seats'[s].owner = seats[s].owner /\ seats'[s].lapsed = TRUE /\ seats'[s] # NoSeat
  <2>1. s \in Taken /\ seats[s] \in SeatRows /\ seats' = [seats EXCEPT ![s].lapsed = TRUE]
    BY DEF Lapse, Taken, SeatsBase, SeatsType
  <2>2. seats'[s] \in SeatRows
    BY <2>1 DEF SeatsBase, SeatsType, SeatRows
  <2>3. seats'[s] # NoSeat
    BY <2>2, SeatsAssumption DEF SeatRows
  <2>. QED BY <2>1, <2>3 DEF SeatsBase, SeatsType, SeatRows
<1>3. Taken' = Taken /\ Lapsed' = {s}
  BY <1>1, <1>2 DEF Taken, Lapsed
<1>4. \A i \in 1..Len(due[n]) : Len(due[n][i].steps) # 2
  BY <1>1 DEF Calm, QueueOK, TaskOK
<1>5. QueueOK(n)'
  BY <1>1, <1>4 DEF Calm, QueueOK, TaskOK
<1>6. ASSUME NEW t \in Seats PROVE SeatOK(n, t)'
  BY <1>1, <1>3, <1>4
  DEF Calm, SeatOK, LastFits, ListsFit, SecondWaits, First, Second, About, Announces, Fits
<1>. QED BY <1>1, <1>3, <1>5, <1>6 DEF Calm, LapsesOK

\* Node n executes command x, the oldest of its queue q, for caller c, who may have y to send then.
Executes(n, q, r, c, x, y) ==
  LET more == r = Append(Tail(q), Task(c, <<y>>))
  IN  /\ q = due[n] /\ q # <<>> /\ r = due'[n] /\ \A m \in Nodes \ {n} : due'[m] = due[m]
      /\ c = q[1].client /\ x = q[1].steps[1] /\ y \in Commands
      /\ \/ r = Tail(q) /\ Len(q[1].steps) = 1
         \/ more /\ (Len(q[1].steps) = 2 => y = q[1].steps[2])
      /\ \A s \in Seats :
           /\ \/ seats'[s] = seats[s]
              \/ more /\ About(y, s) /\ seats'[s] = NoSeat /\ \A i \in 1..Len(q) : ~Second(q, i, s)
           /\ About(y, s) /\ more => Fits(y.op, s)'
      /\ shown' = Show(x) /\ Enters(c, x) /\ UNCHANGED <<room, faults>>

\* Executing a command keeps what is said of every seat.
LEMMA PopCalm ==
  ASSUME NEW n \in Nodes, SeatsBase, Quiet(n), Calm(n),
         NEW q, NEW r, NEW c, NEW x, NEW y, Executes(n, q, r, c, x, y)
  PROVE  Calm(n)'
<1>. DEFINE more == r = Append(Tail(q), Task(c, <<y>>))
<1>1. /\ q = due[n] /\ q # <<>> /\ r = due'[n] /\ \A m \in Nodes \ {n} : due'[m] = due[m]
      /\ c = q[1].client /\ x = q[1].steps[1] /\ y \in Commands
  BY DEF Executes
<1>2. \/ r = Tail(q) /\ Len(q[1].steps) = 1
      \/ more /\ (Len(q[1].steps) = 2 => y = q[1].steps[2])
  BY DEF Executes
<1>3. \A s \in Seats :
        /\ \/ seats'[s] = seats[s]
           \/ more /\ About(y, s) /\ seats'[s] = NoSeat /\ \A i \in 1..Len(q) : ~Second(q, i, s)
        /\ About(y, s) /\ more => Fits(y.op, s)'
  BY DEF Executes
<1>4. shown' = Show(x) /\ Enters(c, x) /\ UNCHANGED <<room, faults>>
  BY DEF Executes
<1>5. /\ q \in Seq(Tasks) /\ Tail(q) \in Seq(Tasks) /\ Len(Tail(q)) = Len(q) - 1 /\ Len(q) \in Nat \ {0}
      /\ \A i \in 1..Len(q) - 1 : Tail(q)[i] = q[i + 1]
  BY <1>1, Pops DEF Calm, QueueOK
<1>6. q[1] \in Tasks /\ TaskOK(q[1])
  BY <1>1, <1>5 DEF Calm, QueueOK
<1>7. c \in Clients /\ x \in Commands /\ status[c] # "new"
  <2>1. c \in Clients /\ q[1].steps \in Seq(Commands) /\ Len(q[1].steps) \in {1, 2}
    BY <1>1, <1>6 DEF Tasks, TaskOK
  <2>. QED BY <1>1, <1>6, <2>1 DEF TaskOK
<1>8. PICK t : t = Task(c, <<y>>)
  OBVIOUS
<1>9. t \in Tasks /\ t.client = c /\ Len(t.steps) = 1 /\ t.steps[1] = y
  BY <1>1, <1>7, <1>8, Singles DEF Task, Tasks
<1>10. /\ r \in Seq(Tasks) /\ \A i \in 1..Len(q) - 1 : r[i] = q[i + 1]
       /\ \/ Len(r) = Len(q) - 1 /\ Len(q[1].steps) = 1 /\ ~more
          \/ /\ Len(r) = Len(q) /\ r[Len(q)] = t /\ more
             /\ Len(q[1].steps) = 2 => y = q[1].steps[2]
  <2>1. PICK u : u = Tail(q)
    OBVIOUS
  <2>2. PICK v : v = Append(u, t)
    OBVIOUS
  <2>3. /\ v \in Seq(Tasks) /\ Len(v) = Len(q) /\ v[Len(q)] = t
        /\ \A i \in 1..Len(q) - 1 : v[i] = q[i + 1]
    BY <1>5, <1>9, <2>1, <2>2, Appends
  <2>4. CASE r = u /\ Len(q[1].steps) = 1
    <3>1. u \in Seq(Tasks) /\ Len(u) = Len(q) - 1 /\ Len(q) \in Nat \ {0}
          /\ \A i \in 1..Len(q) - 1 : u[i] = q[i + 1]
      BY <1>5, <2>1
    <3>2. u # v
      BY <2>3, <3>1
    <3>3. ~more
      BY <1>8, <2>1, <2>2, <2>4, <3>2
    <3>. QED BY <2>4, <3>1, <3>3
  <2>5. CASE more /\ (Len(q[1].steps) = 2 => y = q[1].steps[2])
    BY <1>8, <2>1, <2>2, <2>3, <2>5
  <2>. QED BY <1>2, <2>1, <2>4, <2>5
<1>. HIDE DEF more
<1>11. /\ membership' \in [Clients -> Seats \cup {NoSeat}]
       /\ \A d \in Clients : /\ d # c => membership'[d] = membership[d]
                             /\ status'[d] = "new" <=> status[d] = "new"
                             /\ status'[d] = "new" => membership'[d] = NoSeat
  <2>1. x.seat \in Seats \cup {NoSeat}
    BY <1>7 DEF Commands
  <2>2. CASE UNCHANGED <<status, membership>>
    BY <2>2 DEF Calm
  <2>3. CASE /\ status[c] = "joining" /\ status' = [status EXCEPT ![c] = "in"]
             /\ membership' = [membership EXCEPT ![c] = x.seat]
    <3>1. status \in [Clients -> {"new", "joining", "in", "out"}]
      BY DEF SeatsBase, SeatsType
    <3>2. \A d \in Clients : status'[d] = IF d = c THEN "in" ELSE status[d]
      BY <1>7, <2>3, <3>1
    <3>3. \A d \in Clients : membership'[d] = IF d = c THEN x.seat ELSE membership[d]
      BY <1>7, <2>3 DEF Calm
    <3>4. membership' \in [Clients -> Seats \cup {NoSeat}]
      BY <1>7, <2>1, <2>3 DEF Calm
    <3>5. \A d \in Clients : status[d] = "new" => membership[d] = NoSeat
      BY DEF Calm
    <3>. QED BY <2>3, <3>2, <3>3, <3>4, <3>5
  <2>. QED BY <1>4, <2>2, <2>3 DEF Enters
<1>12. Taken' \subseteq Taken /\ Lapsed' \subseteq Lapsed
  BY <1>3 DEF Taken, Lapsed
<1>13. LapsesOK'
  BY <1>4, <1>12 DEF LapsesOK, Calm
<1>14. /\ \A i \in 1..Len(r) : i \in 1..Len(q) - 1 \/ (more /\ i = Len(q))
       /\ \A i \in 1..Len(q) - 1 : i + 1 \in 1..Len(q)
       /\ \A i \in 1..Len(q) : i = 1 \/ (i - 1 \in 1..Len(q) - 1 /\ i - 1 \in 1..Len(r) /\ (i - 1) + 1 = i)
       /\ 1 \in 1..Len(q)
       /\ more => Len(q) \in 1..Len(r) /\ r[Len(q)] = t
       /\ Len(q) \in Nat /\ Len(r) \in Nat
  <2>1. Len(q) \in Nat \ {0} /\ (Len(r) = Len(q) - 1 \/ (Len(r) = Len(q) /\ more))
    BY <1>5, <1>10
  <2>2. more => Len(r) = Len(q) /\ r[Len(q)] = t
    BY <1>10
  <2>. QED BY <2>1, <2>2
<1>15. QueueOK(n)'
  <2>1. ASSUME NEW i \in 1..Len(q) PROVE TaskOK(q[i])'
    <3>1. q[i] \in Tasks /\ TaskOK(q[i])
      BY <1>1, <1>5 DEF Calm, QueueOK
    <3>2. q[i].client \in Clients
      BY <3>1 DEF Tasks
    <3>. QED BY <1>4, <1>11, <1>12, <3>1, <3>2 DEF TaskOK
  <2>2. TaskOK(t)'
    BY <1>7, <1>9, <1>11 DEF TaskOK
  <2>3. \A i \in 1..Len(r) : TaskOK(r[i])'
    <3>. SUFFICES ASSUME NEW i \in 1..Len(r) PROVE TaskOK(r[i])'
      OBVIOUS
    <3>1. i \in 1..Len(q) - 1 \/ r[i] = t
      BY <1>14
    <3>2. i \in 1..Len(q) - 1 => i + 1 \in 1..Len(q) /\ r[i] = q[i + 1]
      BY <1>10, <1>14
    <3>. QED BY <2>1, <2>2, <3>1, <3>2
  <2>4. \A m \in Nodes \ {n} : due'[m] = <<>>
    BY <1>1 DEF Calm, QueueOK
  <2>. QED BY <1>1, <1>10, <2>3, <2>4 DEF QueueOK
<1>16. ASSUME NEW s \in Seats PROVE SeatOK(n, s)'
  <2>. DEFINE again == more /\ About(y, s)
  <2>1. LastFits(q, s) /\ ListsFit(q, s) /\ SecondWaits(q, s)
    BY <1>1 DEF Calm, SeatOK
  <2>2. ASSUME NEW i \in 1..Len(q) - 1
        PROVE  /\ r[i] = q[i + 1]
               /\ First(r, i, s) <=> First(q, i + 1, s)
               /\ Second(r, i, s) <=> Second(q, i + 1, s)
    BY <1>10 DEF First, Second
  <2>3. /\ First(q, 1, s) <=> About(x, s)
        /\ Second(q, 1, s) => again
    BY <1>1, <1>10 DEF First, Second
  <2>4. more => /\ First(r, Len(q), s) <=> About(y, s)
                /\ ~Second(r, Len(q), s)
    BY <1>9, <1>14 DEF First, Second
  <2>5. again => r[Len(q)].steps[1] = y /\ Fits(y.op, s)'
    BY <1>3, <1>9, <1>14
  <2>6. ~again => seats'[s] = seats[s] /\ (s \in Taken' <=> s \in Taken) /\ (s \in Lapsed' <=> s \in Lapsed)
    BY <1>3 DEF Taken, Lapsed
  <2>7. \A i \in 1..Len(q) : Second(q, i, s) => seats'[s] = seats[s]
    BY <1>3
  <2>. HIDE DEF again
  <2>8. SecondWaits(r, s)'
    <3>. SUFFICES ASSUME NEW i \in 1..Len(r), Second(r, i, s) PROVE Waits(r, i, s)'
      BY DEF SecondWaits, Second, About, Announces
    <3>1. i \in 1..Len(q) - 1 /\ i + 1 \in 1..Len(q) /\ Second(q, i + 1, s) /\ r[i] = q[i + 1]
      BY <1>14, <2>2, <2>4
    <3>2. Waits(q, i + 1, s)
      BY <2>1, <3>1 DEF SecondWaits
    <3>3. seats'[s] = seats[s] /\ s \in Taken'
      BY <2>7, <3>1, <3>2 DEF Waits, Taken
    <3>4. seats[s].owner \in Clients
      BY <3>2 DEF Waits, SeatsBase, SeatsType, SeatRows, Taken
    <3>5. ASSUME NEW j \in 1..Len(r) PROVE (j + 1 \in 1..Len(q) /\ r[j] = q[j + 1]) \/ i <= j
      BY <1>14, <2>2, <3>1
    <3>6. seats[s].owner \notin Hosted => seats[s].owner # c
      BY <1>1, <1>14, <3>1, <3>2 DEF Waits
    <3>7. \A d \in Hosted : SeatOf[d] = s => r[i].client = d
      BY <3>1, <3>2 DEF Waits
    <3>8. seats'[s].owner \notin Hosted => membership'[seats'[s].owner] = NoSeat
      BY <1>11, <3>2, <3>3, <3>4, <3>6 DEF Waits
    <3>9. seats'[s].owner \notin Hosted => \A j \in 1..Len(r) : r[j].client = seats'[s].owner => i <= j
      <4>. SUFFICES ASSUME seats[s].owner \notin Hosted, NEW j \in 1..Len(r), r[j].client = seats[s].owner
                    PROVE  i <= j
        BY <3>3
      <4>1. CASE j + 1 \in 1..Len(q) /\ r[j] = q[j + 1]
        BY <3>1, <3>2, <4>1 DEF Waits
      <4>. QED BY <3>5, <4>1
    <3>. QED BY <3>3, <3>7, <3>8, <3>9 DEF Waits
  <2>9. LastFits(r, s)'
    <3>. SUFFICES ASSUME NEW i \in 1..Len(r), First(r, i, s),
                         \A j \in 1..Len(r) : (First(r, j, s) => j <= i) /\ ~Second(r, j, s)
                  PROVE  Fits(r[i].steps[1].op, s)'
      BY DEF LastFits, First, Second, About, Announces
    <3>1. CASE again
      <4>1. i = Len(q)
        BY <1>14, <2>4, <3>1 DEF again
      <4>. QED BY <2>5, <3>1, <4>1
    <3>2. CASE ~again
      <4>1. i \in 1..Len(q) - 1 /\ i + 1 \in 1..Len(q) /\ First(q, i + 1, s) /\ r[i] = q[i + 1]
        BY <1>14, <2>2, <2>4, <3>2 DEF again
      <4>2. ASSUME NEW j \in 1..Len(q) PROVE (First(q, j, s) => j <= i + 1) /\ ~Second(q, j, s)
        <5>1. CASE j = 1
          BY <2>3, <3>2, <4>1, <5>1
        <5>2. CASE j # 1
          <6>1. PICK k : k = j - 1
            OBVIOUS
          <6>2. k \in 1..Len(q) - 1 /\ k \in 1..Len(r) /\ k + 1 = j
            BY <1>14, <5>2, <6>1
          <6>3. (First(q, j, s) => k <= i) /\ ~Second(q, j, s)
            BY <2>2, <6>2
          <6>. QED BY <4>1, <6>2, <6>3
        <5>. QED BY <5>1, <5>2
      <4>3. Fits(q[i + 1].steps[1].op, s)
        BY <2>1, <4>1, <4>2 DEF LastFits
      <4>. QED BY <2>6, <3>2, <4>1, <4>3 DEF Fits
    <3>. QED BY <3>1, <3>2
  <2>10. ListsFit(r, s)'
    <3>. SUFFICES ASSUME \A i \in 1..Len(r) : ~First(r, i, s) /\ ~Second(r, i, s)
                  PROVE  (s \in shown' => s \in Taken') /\ (s \in (Taken \ Lapsed)' => s \in shown')
      BY DEF ListsFit, First, Second, About, Announces
    <3>1. ~again
      BY <1>14, <2>4 DEF again
    <3>2. ASSUME NEW j \in 1..Len(q) PROVE ~Second(q, j, s) /\ (First(q, j, s) => j = 1)
      <4>1. CASE j = 1
        BY <2>3, <3>1, <4>1
      <4>2. CASE j # 1
        <5>1. PICK k : k = j - 1
          OBVIOUS
        <5>2. k \in 1..Len(q) - 1 /\ k \in 1..Len(r) /\ k + 1 = j
          BY <1>14, <4>2, <5>1
        <5>. QED BY <2>2, <5>2
      <4>. QED BY <4>1, <4>2
    <3>3. CASE First(q, 1, s)
      <4>1. Fits(x.op, s)
        BY <1>1, <2>1, <1>14, <3>2, <3>3 DEF LastFits
      <4>2. About(x, s)
        BY <2>3, <3>3
      <4>. QED BY <1>4, <2>6, <3>1, <4>1, <4>2 DEF Fits, About, Announces, Show
    <3>4. CASE ~First(q, 1, s)
      <4>1. (s \in shown => s \in Taken) /\ (s \in Taken \ Lapsed => s \in shown)
        BY <2>1, <3>2, <3>4 DEF ListsFit
      <4>2. s \in shown' <=> s \in shown
        BY <1>4, <2>3, <3>4 DEF About, Announces, Show
      <4>. QED BY <2>6, <3>1, <4>1, <4>2
    <3>. QED BY <3>3, <3>4
  <2>. QED BY <1>1, <2>8, <2>9, <2>10 DEF SeatOK
<1>17. shown' \subseteq Seats
  BY <1>4, <1>7 DEF Calm, Show, Commands
<1>. QED BY <1>11, <1>13, <1>15, <1>16, <1>17 DEF Calm

\* A node executes its oldest command: the entry behind a departure goes to the back of the queue, and
\* so does the departure of a seat that the command swept.
LEMMA ProceedCalm ==
  ASSUME NEW n \in Nodes, SeatsBase, Quiet(n), Calm(n), NEW m \in Nodes, Proceed(m)
  PROVE  Calm(n)'
<1>1. m = n
  BY DEF Proceed, Calm, QueueOK
<1>2. PICK q : q = due[n]
  OBVIOUS
<1>3. PICK r : r = due'[n]
  OBVIOUS
<1>4. /\ q # <<>> /\ q \in Seq(Tasks) /\ Head(q) = q[1] /\ q[1] \in Tasks /\ 1 \in 1..Len(q)
      /\ TaskOK(q[1])
  <2>1. q # <<>> /\ q \in Seq(Tasks)
    BY <1>1, <1>2 DEF Proceed, Calm, QueueOK
  <2>2. Head(q) = q[1] /\ q[1] \in Tasks /\ 1 \in 1..Len(q)
    BY <2>1, Pops
  <2>. QED BY <1>2, <2>1, <2>2 DEF Calm, QueueOK
<1>5. PICK c : c = q[1].client
  OBVIOUS
<1>6. PICK steps : steps = q[1].steps
  OBVIOUS
<1>7. PICK x : x = steps[1]
  OBVIOUS
<1>8. steps \in Seq(Commands) /\ Len(steps) \in {1, 2} /\ Head(steps) = x /\ x \in Commands /\ c \in Clients
  BY <1>4, <1>5, <1>6, <1>7 DEF Tasks, TaskOK
<1>9. PICK swept : swept = IF x.op = "sweep" THEN Lapsed ELSE {}
  OBVIOUS
<1>10. /\ due' = [due EXCEPT ![n] = Sends(Tail(@), c, Tail(steps) \o Lefts(swept))]
       /\ seats' = [s \in Seats |-> IF s \in swept THEN NoSeat ELSE seats[s]]
       /\ shown' = Show(x) /\ Enters(c, x) /\ UNCHANGED <<room, told, faults>>
  BY <1>1, <1>2, <1>4, <1>5, <1>6, <1>8, <1>9 DEF Proceed, Quiet
<1>11. r = Sends(Tail(q), c, Tail(steps) \o Lefts(swept)) /\ \A k \in Nodes \ {n} : due'[k] = due[k]
  BY <1>2, <1>3, <1>10 DEF SeatsBase
<1>12. Append(Tail(q), Task(c, <<x>>)) # Tail(q)
  <2>1. PICK u : u = Tail(q)
    OBVIOUS
  <2>2. PICK v : v = Append(u, Task(c, <<x>>))
    OBVIOUS
  <2>3. u \in Seq(Tasks) /\ Task(c, <<x>>) \in Tasks
    BY <1>4, <1>8, <2>1, Pops, Singles DEF Task, Tasks
  <2>4. Len(v) = Len(u) + 1 /\ Len(u) \in Nat
    BY <2>2, <2>3, Appends, LenProperties
  <2>5. v # u
    BY <2>4
  <2>. QED BY <2>1, <2>2, <2>5
<1>13. CASE Len(steps) = 2
  <2>1. PICK y : y = steps[2]
    OBVIOUS
  <2>2. Tail(steps) = <<y>> /\ y \in Commands
    BY <1>8, <1>13, <2>1, TailOfTwo
  <2>3. swept = {} /\ y.op # "left"
    BY <1>4, <1>6, <1>7, <1>9, <1>13, <2>1 DEF TaskOK
  <2>4. Tail(steps) \o Lefts(swept) = <<y>> /\ <<y>> # <<>>
    <3>1. Lefts(swept) = <<>> /\ <<y>> \in Seq(Commands) /\ <<y>> # <<>>
      BY <2>2, <2>3, LeftsOfOne, Singles
    <3>. QED BY <2>2, <3>1, ConcatEmptySeq
  <2>5. r = Append(Tail(q), Task(c, <<y>>))
    BY <1>11, <2>4 DEF Sends
  <2>6. seats' = seats
    BY <1>10, <2>3 DEF SeatsBase, SeatsType
  <2>7. ASSUME NEW s \in Seats, About(y, s) PROVE Fits(y.op, s)'
    <3>1. Second(q, 1, s)
      BY <1>6, <1>13, <2>1, <2>7 DEF Second
    <3>2. s \in Taken
      BY <1>2, <1>4, <3>1, SecondIsKept
    <3>. QED BY <2>3, <2>6, <3>2 DEF Fits, Taken
  <2>8. Len(q[1].steps) = 2 /\ y = q[1].steps[2] /\ y \in Commands /\ \A s \in Seats : seats'[s] = seats[s]
    BY <1>6, <1>13, <2>1, <2>2, <2>6
  <2>9. Executes(n, q, r, c, x, y)
    BY <1>2, <1>3, <1>4, <1>5, <1>6, <1>7, <1>10, <1>11, <2>5, <2>7, <2>8 DEF Executes
  <2>. QED BY <2>9, PopCalm
<1>14. CASE Len(steps) = 1 /\ swept = {}
  <2>1. Tail(steps) \o Lefts(swept) = <<>>
    BY <1>8, <1>14, LeftsOfOne, TailOfOne
  <2>2. r = Tail(q)
    BY <1>11, <2>1 DEF Sends
  <2>3. seats' = seats
    BY <1>10, <1>14 DEF SeatsBase, SeatsType
  <2>4. Len(q[1].steps) = 1 /\ r = Tail(q) /\ r # Append(Tail(q), Task(c, <<x>>)) /\ x \in Commands
        /\ \A s \in Seats : seats'[s] = seats[s]
    BY <1>6, <1>8, <1>12, <1>14, <2>2, <2>3
  <2>5. Executes(n, q, r, c, x, x)
    BY <1>2, <1>3, <1>4, <1>5, <1>6, <1>7, <1>10, <1>11, <2>4 DEF Executes
  <2>. QED BY <2>5, PopCalm
<1>15. ASSUME Len(steps) = 1, NEW a \in swept PROVE Calm(n)'
  <2>1. a \in Lapsed /\ Lapsed = {a} /\ swept = {a} /\ a \in Seats
    BY <1>9, <1>15 DEF Calm, LapsesOK, Lapsed, Taken
  <2>2. PICK y : y = Step("left", a)
    OBVIOUS
  <2>3. y \in Commands /\ y.op = "left" /\ \A s \in Seats : About(y, s) <=> s = a
    BY <2>1, <2>2 DEF Step, Commands, About, Announces
  <2>4. Tail(steps) \o Lefts(swept) = <<y>> /\ <<y>> # <<>>
    <3>1. Lefts(swept) = <<y>>
      BY <2>1, <2>2, LeftsOfOne
    <3>2. Tail(steps) = <<>>
      BY <1>8, <1>15, TailOfOne
    <3>3. <<y>> \in Seq(Commands) /\ <<y>> # <<>>
      BY <2>3, Singles
    <3>. QED BY <3>1, <3>2, <3>3, ConcatEmptySeq
  <2>5. r = Append(Tail(q), Task(c, <<y>>))
    BY <1>11, <2>4 DEF Sends
  <2>6. \A s \in Seats : seats'[s] = IF s = a THEN NoSeat ELSE seats[s]
    BY <1>10, <2>1
  <2>7. \A s \in Seats : \A i \in 1..Len(q) : ~Second(q, i, s)
    BY <1>2, <2>1, SecondIsKept
  <2>8. \A s \in Seats : About(y, s) => Fits(y.op, s)'
    BY <2>3, <2>6 DEF Fits, Taken
  <2>9. /\ Len(q[1].steps) # 2
        /\ \A s \in Seats :
             \/ seats'[s] = seats[s]
             \/ About(y, s) /\ seats'[s] = NoSeat /\ (\A i \in 1..Len(q) : ~Second(q, i, s))
    BY <1>6, <1>15, <2>3, <2>6, <2>7
  <2>10. Executes(n, q, r, c, x, y)
    BY <1>2, <1>3, <1>4, <1>5, <1>6, <1>7, <1>10, <1>11, <2>3, <2>5, <2>8, <2>9 DEF Executes
  <2>. QED BY <2>10, PopCalm
<1>. QED BY <1>8, <1>13, <1>14, <1>15

-----------------------------------------------------------------------------
(* The invariant, and what it says of a room at rest. *)

\* An undisturbed room has never been disturbed.
LEMMA QuietStays ==
  ASSUME NEW n \in Nodes, SeatsBase, Next \/ UNCHANGED vars, Quiet(n)'
  PROVE  Quiet(n)
<1>. DEFINE Backwards == /\ room'.state = "open" => room.state = "open"
                         /\ faults'.errors = 0 => faults.errors = 0
                         /\ faults'.lapses <= 1 => faults.lapses <= 1
                         /\ \A c \in Clients : status'[c] = "new" => status[c] = "new"
<1>1. Backwards
  <2>. USE DEF SeatsBase, SeatsType
  <2>1. ASSUME NEW c \in Clients, Claim(c) \/ ClaimFull(c) \/ Depart(c) \/ LeaveHosted(c) \/ Ping(c)
        PROVE  Backwards
    <3>1. UNCHANGED <<room, faults>> /\ \/ status' = status
                                        \/ status' = [status EXCEPT ![c] = "joining"]
                                        \/ status' = [status EXCEPT ![c] = "out"]
      BY <2>1 DEF Claim, ClaimFull, Depart, LeaveHosted, Ping, CloseMembership, RenewAndSweep
    <3>. QED BY <3>1
  <2>2. ASSUME NEW m \in Nodes, Proceed(m) PROVE Backwards
    <3>1. UNCHANGED <<room, faults>> /\ \E d, st : Enters(d, st)
      BY <2>2 DEF Proceed
    <3>2. PICK d, st : Enters(d, st)
      BY <3>1
    <3>. QED BY <3>1, <3>2 DEF Enters
  <2>3. ASSUME NEW m \in Nodes, AnnounceFails(m) PROVE Backwards
    <3>1. PICK d : status' = status \/ status' = [status EXCEPT ![d] = "out"]
      BY <2>3 DEF AnnounceFails
    <3>2. UNCHANGED room /\ (faults' = [faults EXCEPT !.errors = @ + 1] \/ faults' = faults)
      BY <2>3 DEF AnnounceFails
    <3>. QED BY <3>1, <3>2
  <2>4. ASSUME NEW s \in Seats, Lapse(s) PROVE Backwards
    BY <2>4 DEF Lapse
  <2>5. CASE Expire
    BY <2>5 DEF Expire
  <2>6. CASE UNCHANGED vars
    BY <2>6 DEF vars
  <2>. QED BY <2>1, <2>2, <2>3, <2>4, <2>5, <2>6 DEF Next
<1>. QED BY <1>1 DEF Quiet

\* A claim keeps to the capacity, and no other step takes a seat.
LEMMA BaseStays ==
  ASSUME SeatsBase, Next \/ UNCHANGED vars
  PROVE  SeatsBase'
<1>1. SeatsType' /\ SeatEffect
  BY SeatSteps DEF SeatsBase
<1>2. membership' = [c \in Clients |-> membership'[c]]
  BY DEF SeatsBase, Next, vars, Claim, ClaimFull, Depart, LeaveHosted, Ping, CloseMembership,
         RenewAndSweep, Proceed, Enters, AnnounceFails, Lapse, Expire
<1>3. due' = [m \in Nodes |-> due'[m]]
  BY DEF SeatsBase, Next, vars, Claim, ClaimFull, Depart, LeaveHosted, Release, Ping, CloseMembership,
         RenewAndSweep, Then, Proceed, AnnounceFails, Lapse, Expire
<1>4. faults' \in [lapses : Nat, errors : Nat]
  <2>1. \/ faults' = faults
        \/ faults' = [faults EXCEPT !.errors = @ + 1]
        \/ faults' = [faults EXCEPT !.lapses = @ + 1]
    BY DEF Next, vars, Claim, ClaimFull, Depart, LeaveHosted, Ping, CloseMembership, RenewAndSweep,
           Proceed, AnnounceFails, Lapse, Expire
  <2>. QED BY <2>1 DEF SeatsBase
<1>5. ASSUME Taken' \subseteq Taken
      PROVE  IsFiniteSet(Taken') /\ Cardinality(Taken') <= MaxParticipants
  <2>1. IsFiniteSet(Taken') /\ Cardinality(Taken') <= Cardinality(Taken)
    BY <1>5, FS_Subset DEF SeatsBase
  <2>2. Cardinality(Taken') \in Nat /\ Cardinality(Taken) \in Nat
    BY <2>1, FS_CardinalityType DEF SeatsBase
  <2>. QED BY <2>1, <2>2, SeatsAssumption DEF SeatsBase
<1>6. ASSUME NEW c \in Clients, Claim(c)
      PROVE  IsFiniteSet(Taken') /\ Cardinality(Taken') <= MaxParticipants
  <2>1. PICK kept : kept = Taken \ Lapsed
    OBVIOUS
  <2>2. PICK s \in SeatFor(c, kept) :
          /\ HasRoom(s, kept)
          /\ seats' = [t \in Seats |-> IF t = s THEN [owner |-> c, lapsed |-> FALSE]
                                       ELSE IF t \in Lapsed THEN NoSeat ELSE seats[t]]
    BY <1>6, <2>1 DEF Claim
  <2>3. Taken' \subseteq kept \cup {s}
    BY <2>1, <2>2 DEF Taken, SeatsBase, SeatsType
  <2>4. /\ IsFiniteSet(kept) /\ Cardinality(kept) <= MaxParticipants
        /\ Cardinality(kept) \in Nat
    <3>1. IsFiniteSet(kept) /\ Cardinality(kept) <= Cardinality(Taken)
      BY <2>1, FS_Subset DEF SeatsBase
    <3>2. Cardinality(kept) \in Nat /\ Cardinality(Taken) \in Nat
      BY <3>1, FS_CardinalityType DEF SeatsBase
    <3>. QED BY <3>1, <3>2, SeatsAssumption DEF SeatsBase
  <2>5. /\ IsFiniteSet(kept \cup {s})
        /\ Cardinality(kept \cup {s}) = IF s \in kept THEN Cardinality(kept) ELSE Cardinality(kept) + 1
    BY <2>4, FS_AddElement
  <2>6. Cardinality(kept \cup {s}) <= MaxParticipants /\ Cardinality(kept \cup {s}) \in Nat
    BY <2>2, <2>4, <2>5, SeatsAssumption DEF HasRoom
  <2>7. IsFiniteSet(Taken') /\ Cardinality(Taken') <= Cardinality(kept \cup {s})
    BY <2>3, <2>5, FS_Subset
  <2>8. Cardinality(Taken') \in Nat
    BY <2>7, FS_CardinalityType
  <2>. QED BY <2>6, <2>7, <2>8, SeatsAssumption
<1>7. ASSUME \A c \in Clients : ~Claim(c) PROVE Taken' \subseteq Taken
  <2>. SUFFICES ASSUME NEW s \in Seats, seats[s] = NoSeat PROVE seats'[s] = NoSeat
    BY DEF Taken
  <2>. USE DEF SeatsBase, SeatsType
  <2>1. ASSUME NEW c \in Clients, ClaimFull(c) PROVE seats'[s] = NoSeat
    BY <2>1 DEF ClaimFull
  <2>2. ASSUME NEW c \in Clients, Depart(c) \/ LeaveHosted(c) PROVE seats'[s] = NoSeat
    BY <2>2 DEF Depart, LeaveHosted, Release
  <2>3. ASSUME NEW c \in Clients, Ping(c) PROVE seats'[s] = NoSeat
    <3>1. UNCHANGED seats \/ (membership[c] \in Taken /\ RenewAndSweep(c, membership[c]))
      BY <2>3 DEF Ping, CloseMembership
    <3>. QED BY <3>1 DEF RenewAndSweep, Taken
  <2>4. ASSUME NEW m \in Nodes, Proceed(m) PROVE seats'[s] = NoSeat
    BY <2>4 DEF Proceed
  <2>5. ASSUME NEW m \in Nodes, AnnounceFails(m) PROVE seats'[s] = NoSeat
    <3>1. seats' = seats \/ \E t : seats' = [seats EXCEPT ![t] = NoSeat]
      BY <2>5 DEF AnnounceFails
    <3>. QED BY <3>1
  <2>6. ASSUME NEW t \in Seats, Lapse(t) PROVE seats'[s] = NoSeat
    BY <2>6 DEF Lapse, Taken
  <2>7. CASE Expire
    BY <2>7 DEF Expire
  <2>8. CASE UNCHANGED vars
    BY <2>8 DEF vars
  <2>. QED BY <1>7, <2>1, <2>2, <2>3, <2>4, <2>5, <2>6, <2>7, <2>8 DEF Next
<1>. QED BY <1>1, <1>2, <1>3, <1>4, <1>5, <1>6, <1>7 DEF SeatsBase

\* Every step keeps the invariant.
LEMMA ListsStep ==
  ASSUME ListsInv, Next \/ UNCHANGED vars
  PROVE  ListsInv'
<1>. SUFFICES ASSUME NEW n \in Nodes, Quiet(n)' PROVE Calm(n)'
  BY BaseStays DEF ListsInv
<1>1. SeatsBase /\ Quiet(n) /\ Calm(n)
  BY QuietStays DEF ListsInv
<1>2. ASSUME NEW m \in Nodes PROVE ~AnnounceFails(m)
  BY <1>1 DEF AnnounceFails, Quiet, SeatsBase
<1>3. ~Expire
  BY <1>1 DEF Expire, Quiet, SeatsBase, SeatsType
<1>4. CASE UNCHANGED vars
  <2>1. OnlyLeave
    BY <1>1, <1>4 DEF vars, OnlyLeave, Calm
  <2>. QED BY <1>1, <1>4, <2>1, SilentCalm DEF vars
<1>. QED
  BY <1>1, <1>2, <1>3, <1>4, ClaimCalm, ClaimFullCalm, DepartCalm, LeaveHostedCalm, PingCalm,
     ProceedCalm, LapseCalm DEF Next

\* The invariant holds of every state.
LEMMA ListsInvariant == Spec => []ListsInv
<1>1. Init => ListsInv
  <2>. SUFFICES ASSUME Init PROVE ListsInv
    OBVIOUS
  <2>1. Taken = {} /\ Lapsed = {}
    BY DEF Init, Taken, Lapsed
  <2>2. SeatsBase
    BY <2>1, FS_EmptySet, SeatsAssumption DEF Init, SeatsBase, SeatsType
  <2>3. ASSUME NEW n \in Nodes PROVE Calm(n)
    <3>1. due[n] = <<>> /\ Len(<<>>) = 0
      BY DEF Init
    <3>. QED BY <2>1, <3>1 DEF Init, Calm, LapsesOK, QueueOK, SeatOK, LastFits, ListsFit, SecondWaits
  <2>. QED BY <2>2, <2>3 DEF ListsInv
<1>2. ListsInv /\ [Next]_vars => ListsInv'
  BY ListsStep
<1>. QED BY <1>1, <1>2, PTL DEF Spec

\* At rest the lists of an undisturbed room are exact.
LEMMA RestIsExact ==
  ASSUME ListsInv, Undisturbed, AtRest
  PROVE  /\ shown \subseteq Seats
         /\ \A s \in Seats : (s \in shown => s \in Taken) /\ (s \in Taken \ Lapsed => s \in shown)
<1>1. PICK n \in Nodes : \A c \in Clients : status[c] # "new" => NodeOf[c] = n
  BY DEF Undisturbed, SoleNode
<1>2. Calm(n) /\ due[n] = <<>> /\ Len(<<>>) = 0
  BY <1>1 DEF Undisturbed, AtRest, Quiet, ListsInv
<1>. QED BY <1>2 DEF Calm, SeatOK, ListsFit

\* QuietNoGhost: where one node serves the room, every announcement succeeds and at most one lease runs
\* out, nobody without a seat is listed once the announcements are made (claim, release, announceLeft).
THEOREM QuietRoomHasNoGhost == Spec => []QuietNoGhost
<1>1. ListsInv => QuietNoGhost
  BY RestIsExact DEF QuietNoGhost, NoGhost
<1>. QED BY <1>1, ListsInvariant, PTL

\* QuietLiveIsShown: in such a room everybody whose lease holds is listed, whatever departures, returns
\* and takeovers of the same seat came before (claim, touchAppRoomMemberships).
THEOREM QuietRoomShowsLive == Spec => []QuietLiveIsShown
<1>1. ListsInv => QuietLiveIsShown
  BY RestIsExact DEF QuietLiveIsShown, LiveIsShown, Taken
<1>. QED BY <1>1, ListsInvariant, PTL
=============================================================================
