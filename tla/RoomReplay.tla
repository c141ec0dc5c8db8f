----------------------------- MODULE RoomReplay -----------------------------
(***************************************************************************)
(* What a member of an app room is told of the events it missed.           *)
(*                                                                         *)
(* Redis gives every event of a room one sequence number and keeps the     *)
(* recorded ones in a stream trimmed by count and by bytes (scripts.ts).   *)
(* The gateway forwards the published events of the rooms its connections  *)
(* are subscribed to, and answers a join with a snapshot and a first page  *)
(* of the history.  The SDK's AppRoom reads further pages, emits what it   *)
(* missed and reports what it could not read through onOutOfSync.          *)
(*                                                                         *)
(* Redis hands published messages and command replies to the gateway over  *)
(* two connections, so `outbound` (not yet forwarded) may lag a snapshot.  *)
(***************************************************************************)
EXTENDS Integers, Sequences, FiniteSets, SequencesExt, FiniteSetsExt

CONSTANTS
  HistorySize,     \* REALTIME_ROOM_HISTORY_SIZE
  HistoryBytes,    \* REALTIME_ROOM_HISTORY_BYTES
  HistoryPage,     \* REALTIME_ROOM_HISTORY_PAGE
  JoinBuffer,      \* APP_ROOM_MAX_JOIN_BUFFER
  Sizes,           \* the sizes a recorded event can have
  MaxEvents,       \* bound: the members' own events stop at this sequence number
  MaxDrops,        \* bound: connections the member loses
  MaxOutboundLost, \* bound: published messages the gateway never receives
  MaxPageErrors    \* bound: history requests that fail or time out

ASSUME ReplayAssumption ==
  /\ {HistorySize, HistoryBytes, HistoryPage} \subseteq Nat \ {0}
  /\ Sizes \subseteq 1..HistoryBytes
  /\ {JoinBuffer, MaxEvents, MaxDrops, MaxOutboundLost, MaxPageErrors} \subseteq Nat

None == -1

VARIABLES
  log,          \* every event of the room; its position is its sequence number
  stream,       \* the sequence numbers the history still holds
  floor,        \* the last sequence number trimmed off the history
  outbound,     \* published, not yet received by the gateway
  subscribed,   \* the member's connection is in the gateway's routing table
  request,      \* the join or history request the gateway works on
  wire,         \* frames on the member's socket
  room,         \* the member's AppRoom object
  emitted,      \* the events handed to the app, with how they came
  reported,     \* sequence numbers onOutOfSync has covered
  pagingLoss,   \* sequence numbers whose page failed, or trimmed while a catch-up was reading
  faults        \* how often each bounded fault has happened

vars == <<log, stream, floor, outbound, subscribed, request, wire, room, emitted,
          reported, pagingLoss, faults>>
serverVars == <<log, stream, floor>>
clientVars == <<room, emitted, reported, pagingLoss>>

Idle == [pc |-> "idle", after |-> None, sequence |-> None]

RoomTypeOK ==
  /\ log \in Seq([kind : {"publish", "send", "announce"}, size : Sizes \cup {0}])
  /\ stream \subseteq 1..Len(log)
  /\ floor \in 0..Len(log)
  /\ \A i \in 1..Len(outbound) : outbound[i] \in 1..Len(log)
  /\ subscribed \in BOOLEAN
  /\ request.pc \in {"idle", "claim", "announce", "snapshot", "history", "page"}
  /\ room.state \in {"new", "joining", "catching", "joined", "down", "closed"}
  /\ room.last \in 0..Len(log) /\ Len(room.buffer) <= JoinBuffer
  /\ reported \subseteq 1..Len(log)

Init ==
  /\ log = <<>> /\ stream = {} /\ floor = 0
  /\ outbound = <<>> /\ subscribed = FALSE /\ request = Idle /\ wire = <<>>
  /\ room = [state |-> "new", last |-> 0, after |-> None, base |-> None, sequence |-> 0,
             cursor |-> 0, truncated |-> FALSE, missed |-> <<>>, buffer |-> <<>>]
  /\ emitted = <<>> /\ reported = {} /\ pagingLoss = {}
  /\ faults = [drops |-> 0, outbound |-> 0, pages |-> 0]

-----------------------------------------------------------------------------
(* Sequences of sequence numbers. *)

\* The numbers in S from the smallest to the largest.
Ascending(S) ==
  [i \in 1..Cardinality(S) |-> CHOOSE n \in S : Cardinality({m \in S : m < n}) = i - 1]

\* The entries of s at these positions, in their order (a filter the provers can expand).
Picked(s, positions) ==
  LET order == Ascending(positions) IN [k \in DOMAIN order |-> s[order[k]]]

-----------------------------------------------------------------------------
(* The room in Redis. *)

Newest(held, k) == {n \in held : Cardinality({m \in held : m > n}) < k}
Bytes(events, held) == SumFunction([n \in held |-> events[n].size])

\* PUBLISH drops the oldest entries until both limits hold.
Trimmed(events, held) ==
  Newest(held, Max({k \in 0..HistorySize : Bytes(events, Newest(held, k)) <= HistoryBytes}))

\* A reader has its snapshot and not yet the last page.
Reading ==
  \/ room.state = "catching"
  \/ room.state = "joining" /\ request.pc \notin {"claim", "announce", "snapshot"}

\* PUBLISH with record: the HTTP route and publish() of another member.
Publish(size) ==
  LET n == Len(log) + 1
      events == Append(log, [kind |-> "publish", size |-> size])
      kept == Trimmed(events, stream \cup {n})
      gone == (stream \cup {n}) \ kept
  IN  /\ n <= MaxEvents
      /\ log' = events
      /\ stream' = kept
      /\ floor' = IF gone = {} THEN floor ELSE Max(gone)
      /\ outbound' = Append(outbound, n)
      /\ pagingLoss' = IF Reading THEN pagingLoss \cup gone ELSE pagingLoss
      /\ UNCHANGED <<subscribed, request, wire, room, emitted, reported, faults>>

\* Events nobody records: send() without an ack, and the announcements.
Number(kind) ==
  /\ log' = Append(log, [kind |-> kind, size |-> 0])
  /\ outbound' = Append(outbound, Len(log) + 1)
  /\ UNCHANGED <<stream, floor>>

Send ==
  /\ Len(log) < MaxEvents
  /\ Number("send")
  /\ UNCHANGED <<subscribed, request, wire, clientVars, faults>>

\* One page of `later`, the recorded events asked for, and the cursor after it.
PageOf(later, after, truncated) ==
  LET ordered == Ascending(later)
      events == SubSeq(ordered, 1, Min({HistoryPage, Len(ordered)}))
  IN  [events |-> events, truncated |-> truncated,
       cursor |-> IF Len(events) = HistoryPage THEN Last(events) ELSE Max({after, Len(log)})]

\* Mutant: the page starts at the cursor instead of after it.
HistoryFrom(after) == PageOf({n \in stream : n >= after}, after, floor > after)

\* Mutant: a reader one event behind the floor is not told.
HistoryNearFloor(after) == PageOf({n \in stream : n > after}, after, floor > after + 1)

\* READ_HISTORY and the cursor AppRoomStore.history makes of it.
History(after) == PageOf({n \in stream : n > after}, after, floor > after)

-----------------------------------------------------------------------------
(* The gateway. *)

FanOut ==
  /\ outbound # <<>>
  /\ wire' = IF subscribed THEN Append(wire, [type |-> "delta", n |-> Head(outbound)]) ELSE wire
  /\ outbound' = Tail(outbound)
  /\ UNCHANGED <<serverVars, subscribed, request, clientVars, faults>>

\* The gateway's subscriber reconnects: what was published meanwhile is gone.
LoseOutbound ==
  /\ outbound # <<>> /\ faults.outbound < MaxOutboundLost
  /\ outbound' = Tail(outbound)
  /\ faults' = [faults EXCEPT !.outbound = @ + 1]
  /\ UNCHANGED <<serverVars, subscribed, request, wire, clientVars>>

\* realtime.room.join: the seat, then the routing table, ...
JoinClaim ==
  /\ request.pc = "claim"
  /\ subscribed' = TRUE
  /\ \E next \in {"announce", "snapshot"} :
       /\ next = "snapshot" => log # <<>>    \* a seat already held was announced once
       /\ request' = [request EXCEPT !.pc = next]
  /\ UNCHANGED <<serverVars, outbound, wire, clientVars, faults>>

\* ... the announcement of a new seat or of dropped publications, ...
JoinAnnounce ==
  /\ request.pc = "announce"
  /\ Number("announce")
  /\ request' = [request EXCEPT !.pc = "snapshot"]
  /\ UNCHANGED <<subscribed, wire, clientVars, faults>>

Joined(sequence, missed) ==
  wire' = Append(wire, [type |-> "joined", sequence |-> sequence, missed |-> missed])

\* ... the snapshot, whose sequence is the client's baseline, ...
JoinSnapshot ==
  /\ request.pc = "snapshot"
  /\ IF request.after # None /\ request.after < Len(log)
       THEN /\ request' = [request EXCEPT !.pc = "history", !.sequence = Len(log)]
            /\ UNCHANGED wire
       ELSE /\ request' = Idle
            /\ Joined(Len(log), <<>>)
  /\ UNCHANGED <<serverVars, outbound, subscribed, clientVars, faults>>

\* ... and the first page of what the member missed.
JoinHistory ==
  /\ request.pc = "history"
  /\ request' = Idle
  /\ Joined(request.sequence, <<History(request.after)>>)
  /\ UNCHANGED <<serverVars, outbound, subscribed, clientVars, faults>>

\* realtime.room.history
ReadPage ==
  /\ request.pc = "page"
  /\ request' = Idle
  /\ wire' = Append(wire, [type |-> "page", page |-> History(request.after)])
  /\ UNCHANGED <<serverVars, outbound, subscribed, clientVars, faults>>

-----------------------------------------------------------------------------
(* The SDK's AppRoom. *)

Join ==
  /\ room.state \in {"new", "down"}
  /\ room' = [room EXCEPT !.state = "joining", !.buffer = <<>>, !.missed = <<>>,
                          !.after = IF room.state = "new" THEN None ELSE room.last]
  /\ request' = [Idle EXCEPT !.pc = "claim", !.after = room'.after]
  /\ UNCHANGED <<serverVars, outbound, subscribed, wire, emitted, reported, pagingLoss, faults>>

\* What the app is handed of these events: the announcements only change the members.
Messages(ns, how) ==
  LET shown == Picked(ns, {i \in DOMAIN ns : log[ns[i]].kind # "announce"})
  IN  [k \in DOMAIN shown |-> [n |-> shown[k], how |-> how]]

\* What handling these deltas in turn changes, after `last`: a number is told as missed
\* unless it was seen right after the one before it (0 stands for nothing seen).
Handled(last, ns) ==
  LET seen == ({last} \cup ToSet(ns)) \ {0}
      latest == Max({last} \cup ToSet(ns))
  IN  [last |-> latest,
       told |-> {m \in (last + 1)..latest : ~({m - 1, m} \subseteq seen) /\ \E n \in seen : n < m},
       out |-> Messages(ns, "live")]

\* Mutant: only a page that never came counts as a loss.
LostPage(after, sequence, cursor, truncated, kept) == (cursor + 1)..sequence

\* The range catchUp reports: up to the first event a truncated history still gave, or what no
\* page came for; and nothing where the two ends are one event.
LostRange(after, sequence, cursor, truncated, kept) ==
  LET first == IF truncated THEN after + 1 ELSE cursor + 1
      last == IF truncated /\ kept # <<>> THEN Head(kept) ELSE sequence
  IN  IF last > first THEN first..last ELSE {}

\* What joinOverWebsocket does once the catch-up is over.  Of the deltas held back, one that
\* is not newer than the snapshot and than those before it is skipped.
Finish(state, r) ==
  LET kept == Picked(r.missed, {i \in DOMAIN r.missed : r.missed[i] <= r.sequence})
      told == LostRange(r.after, r.sequence, r.cursor, r.truncated, kept)
      late == Picked(r.buffer, {i \in DOMAIN r.buffer :
                \A n \in {r.sequence} \cup {r.buffer[j] : j \in 1..(i - 1)} : r.buffer[i] > n})
      seen == Handled(r.sequence, late)
  IN  /\ room' = [r EXCEPT !.state = state, !.last = seen.last, !.buffer = <<>>, !.missed = <<>>,
                           !.base = IF @ = None THEN r.sequence ELSE @]
      /\ emitted' = emitted \o Messages(kept, "replay") \o seen.out
      /\ reported' = reported \cup told \cup seen.told

\* Mutant: the second page is never asked for.
CatchUpOnce(r) ==
  IF r.cursor < r.sequence
    THEN /\ room' = [r EXCEPT !.state = "catching"]
         /\ UNCHANGED <<request, emitted, reported>>
    ELSE Finish("joined", r) /\ UNCHANGED request

\* Go on reading, or finish.
CatchUp(r) ==
  IF r.cursor < r.sequence
    THEN /\ room' = [r EXCEPT !.state = "catching"]
         /\ request' = [Idle EXCEPT !.pc = "page", !.after = r.cursor]
         /\ UNCHANGED <<emitted, reported>>
    ELSE Finish("joined", r) /\ UNCHANGED request

ReceiveJoined ==
  /\ wire # <<>> /\ Head(wire).type = "joined" /\ room.state = "joining"
  /\ LET frame == Head(wire)
         first == IF frame.missed = <<>>
                    THEN [events |-> <<>>, truncated |-> FALSE, cursor |-> frame.sequence]
                    ELSE Head(frame.missed)
     IN  CatchUp([room EXCEPT !.sequence = frame.sequence, !.missed = first.events,
                              !.truncated = first.truncated, !.cursor = first.cursor])
  /\ wire' = Tail(wire)
  /\ UNCHANGED <<serverVars, outbound, subscribed, pagingLoss, faults>>

ReceivePage ==
  /\ wire # <<>> /\ Head(wire).type = "page" /\ room.state = "catching"
  /\ LET page == Head(wire).page
     IN  IF page.cursor <= room.cursor
           THEN Finish("joined", room) /\ UNCHANGED request
           ELSE CatchUp([room EXCEPT !.missed = @ \o page.events, !.cursor = page.cursor])
  /\ wire' = Tail(wire)
  /\ UNCHANGED <<serverVars, outbound, subscribed, pagingLoss, faults>>

\* The request timed out or was refused; a late answer finds nothing pending.
PageFails ==
  /\ room.state = "catching" /\ faults.pages < MaxPageErrors
  /\ Finish("joined", room)
  /\ request' = Idle
  /\ wire' = Picked(wire, {i \in DOMAIN wire : wire[i].type # "page"})
  /\ pagingLoss' = pagingLoss \cup ((room.cursor + 1)..room.sequence)
  /\ faults' = [faults EXCEPT !.pages = @ + 1]
  /\ UNCHANGED <<serverVars, outbound, subscribed>>

\* A delta that arrives during a join waits; beyond the ceiling it is dropped.
Held(n) == IF Len(room.buffer) < JoinBuffer THEN Append(room.buffer, n) ELSE room.buffer

ReceiveDelta ==
  /\ wire # <<>> /\ Head(wire).type = "delta"
  /\ LET n == Head(wire).n
         seen == Handled(room.last, <<n>>)
     IN  IF room.state = "joined"
           THEN /\ room' = [room EXCEPT !.last = seen.last]
                /\ emitted' = emitted \o seen.out
                /\ reported' = reported \cup seen.told
           ELSE /\ room' = [room EXCEPT !.buffer = Held(n)]
                /\ UNCHANGED <<emitted, reported>>
  /\ wire' = Tail(wire)
  /\ UNCHANGED <<serverVars, outbound, subscribed, request, pagingLoss, faults>>

\* The socket closes.  A pending join fails for good; a pending page only ends the catch-up.
Disconnect ==
  /\ room.state \in {"joining", "catching", "joined"} /\ faults.drops < MaxDrops
  /\ CASE room.state = "joining" -> /\ room' = [room EXCEPT !.state = "closed"]
                                    /\ UNCHANGED <<emitted, reported, pagingLoss>>
       [] room.state = "catching" -> /\ Finish("down", room)
                                     /\ pagingLoss' = pagingLoss \cup ((room.cursor + 1)..room.sequence)
       [] room.state = "joined" -> /\ room' = [room EXCEPT !.state = "down"]
                                   /\ UNCHANGED <<emitted, reported, pagingLoss>>
  /\ wire' = <<>> /\ subscribed' = FALSE /\ request' = Idle
  /\ faults' = [faults EXCEPT !.drops = @ + 1]
  /\ UNCHANGED <<serverVars, outbound>>

Next ==
  \/ \E size \in Sizes : Publish(size)
  \/ Send
  \/ FanOut \/ LoseOutbound
  \/ JoinClaim \/ JoinAnnounce \/ JoinSnapshot \/ JoinHistory \/ ReadPage
  \/ Join \/ ReceiveJoined \/ ReceivePage \/ ReceiveDelta \/ PageFails \/ Disconnect

Spec == Init /\ [][Next]_vars

\* The gateway serves its queue of requests and its sockets; nobody has to publish or fail.
Fairness ==
  /\ WF_vars(Join \/ ReceiveJoined \/ ReceivePage \/ ReceiveDelta)
  /\ WF_vars(JoinClaim \/ JoinAnnounce \/ JoinSnapshot \/ JoinHistory \/ ReadPage)

FairSpec == Spec /\ Fairness

-----------------------------------------------------------------------------
(* Properties. *)

Emitted == {emitted[i].n : i \in 1..Len(emitted)}

\* The recorded events since the first join that the app neither got nor was warned about.
Unaccounted ==
  IF room.state \in {"joined", "down"}
    THEN {n \in (room.base + 1)..room.last : log[n].kind = "publish"} \ (Emitted \cup reported)
    ELSE {}

\* docs/product/en/developers/apps.md:657: a reconnect replays what publish() sent
\* meanwhile, and onOutOfSync fires when more was missed than the history holds.
MissedIsReported == Unaccounted = {}

\* The same claim for gaps of more than one event: catchUp loses a gap of exactly one
\* in any case, its comparison of the range's ends being strict.
GapIsReported == Cardinality(Unaccounted) <= 1

\* What the catch-up of app-realtime.ts does guarantee: a recorded event is emitted
\* or reported as missed, unless a page read failed or was overtaken by the trimming.
MissedUnlessPaging == Unaccounted \subseteq pagingLoss

\* A replay (catchUp) emits in order, and only what is newer than everything the app
\* has seen: no page overlaps another page or what came before the connection dropped.
ReplayIsNew ==
  \A i \in 1..Len(emitted) : emitted[i].how = "replay" =>
    \A j \in 1..(i - 1) : emitted[j].n < emitted[i].n

\* app-realtime.ts:508: anything at or below the snapshot sequence is already
\* reflected and is dropped rather than replayed.
NoEventTwice == \A i, j \in 1..Len(emitted) : i # j => emitted[i].n # emitted[j].n

\* catchUp (app-realtime.ts) comes to an end however much is published meanwhile:
\* every page moves its cursor towards a sequence fixed when the join was answered.
CatchUpEnds == room.state \in {"joining", "catching"} ~> room.state \in {"joined", "down", "closed"}

\* The history never holds more than its limits, and a reader told its pages are
\* whole really has every recorded event after its cursor (READ_HISTORY's floor).
WholeUnlessTruncated ==
  /\ Cardinality(stream) <= HistorySize /\ Bytes(log, stream) <= HistoryBytes
  /\ \A after \in 0..Len(log) : ~History(after).truncated =>
       {n \in (after + 1)..Len(log) : log[n].kind = "publish"} \subseteq stream

=============================================================================
