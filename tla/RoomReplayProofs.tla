-------------------------- MODULE RoomReplayProofs --------------------------
(***************************************************************************)
(* Proofs about what the member of an app room is told of the events it     *)
(* missed, for every limit of the history, page size, join buffer and       *)
(* number of events and faults:                                             *)
(*   - the history is whole above its floor (WholeUnlessTruncated);         *)
(*   - a replay is new and in order (ReplayIsNew);                          *)
(*   - what was missed is emitted or reported, unless a page failed or was  *)
(*     overtaken by the trimming (MissedUnlessPaging).                      *)
(* They follow from one inductive invariant, ReplayInv: how the events that *)
(* a request, a frame or the AppRoom carries relate to the log, the stream  *)
(* and its floor.  The steps of the server are shown to keep it because     *)
(* what it says of a catch-up survives a growing log (Onward), the steps of *)
(* the member because the end of a catch-up accounts for its whole range    *)
(* (FinishKeeps).                                                           *)
(***************************************************************************)
EXTENDS RoomReplay, FiniteSetTheorems, WellFoundedInduction, TLAPS

-----------------------------------------------------------------------------
(***************************************************************************)
(* The inductive invariant.                                                *)
(***************************************************************************)
Rising(ns) == \A i, j \in 1..Len(ns) : i < j => ns[i] < ns[j]

\* The pages, frames and requests of a member, its room, and what its app is handed.
Pages    == [events : Seq(Nat), truncated : BOOLEAN, cursor : Nat]
Frames   == [type : {"delta"}, n : Nat]
              \cup [type : {"joined"}, sequence : Nat, missed : {<<>>} \cup {<<page>> : page \in Pages}]
              \cup [type : {"page"}, page : Pages]
Requests == [pc : {"idle", "claim", "announce", "snapshot", "history", "page"},
             after : Nat \cup {None}, sequence : Nat \cup {None}]
Rooms    == [state : {"new", "joining", "catching", "joined", "down", "closed"},
             last : Nat, after : Nat \cup {None}, base : Nat \cup {None}, sequence : Nat,
             cursor : Nat, truncated : BOOLEAN, missed : Seq(Nat), buffer : Seq(Nat)]
Entries  == [kind : {"publish", "send", "announce"}, size : Nat]
Items    == [n : Nat, how : {"live", "replay"}]

ServerTypes ==
  /\ log \in Seq(Entries) /\ stream \in SUBSET (1..Len(log)) /\ floor \in 0..Len(log)
  /\ outbound \in Seq(Nat)

MemberTypes ==
  /\ request \in Requests /\ wire \in Seq(Frames) /\ room \in Rooms
  /\ emitted \in Seq(Items) /\ reported \in SUBSET Nat /\ pagingLoss \in SUBSET Nat

Published(events, n) == events[n].kind = "publish"

\* The history is whole above its floor, and always has the newest event.
HistoryWhole ==
  /\ \A n \in stream : floor < n
  /\ \A n \in (floor + 1)..Len(log) : Published(log, n) => n \in stream
  /\ Len(log) > 0 /\ Published(log, Len(log)) => Len(log) \in stream
  /\ Cardinality(stream) <= HistorySize /\ Bytes(log, stream) <= HistoryBytes

(***************************************************************************)
(* What a catch-up relies on, stated of a record h of the server's state   *)
(* and what is known as lost, so that it can be compared with a later one. *)
(***************************************************************************)
now == [log |-> log, stream |-> stream, floor |-> floor, loss |-> pagingLoss]

\* These events are what was asked for after a cursor.
Extract(h, events, after, cursor) ==
  /\ Rising(events)
  /\ \A i \in 1..Len(events) : after < events[i] /\ events[i] <= cursor
  /\ after < cursor /\ cursor <= Len(h.log)

\* Every recorded event after a cursor is among these, or was trimmed during the catch-up;
\* of a truncated history only what is not older than all of them.
Covers(h, events, after, cursor, truncated) ==
  \A n \in (after + 1)..cursor : Published(h.log, n) =>
    \/ n \in ToSet(events) \cup h.loss
    \/ truncated /\ \A i \in 1..Len(events) : n < events[i]

\* Every recorded event after a cursor is still in the history, or was trimmed during the catch-up.
Kept(h, after) ==
  \A n \in (after + 1)..Len(h.log) : Published(h.log, n) => n \in h.stream \cup h.loss

\* What was read so far of a catch-up that began after `after`.
Progress(h, events, after, cursor, truncated) ==
  /\ Extract(h, events, after, cursor)
  /\ truncated => after < h.floor /\ \A i \in 1..Len(events) : after + 1 < events[i]
  /\ Covers(h, events, after, cursor, truncated) /\ Kept(h, cursor)

\* A snapshot the member q has not passed.
Snapshot(h, q, sequence) ==
  /\ 0 < sequence /\ sequence <= Len(h.log) /\ q.last <= sequence
  /\ Published(h.log, sequence) => sequence \in h.stream \cup h.loss

RoomOK(h, q) ==
  /\ q.last <= Len(h.log)
  /\ \A i \in 1..Len(q.buffer) : q.buffer[i] <= Len(h.log)
  /\ q.base = None => q.last = 0
  /\ q.base # None => q.last > 0
  /\ q.state = "new" => q.base = None
  /\ q.state \in {"catching", "joined", "down"} => q.base # None
  /\ q.state = "joining" => q.missed = <<>> /\ q.after = IF q.base = None THEN None ELSE q.last
  /\ q.state = "catching" =>
       /\ Snapshot(h, q, q.sequence) /\ q.after = q.last /\ q.cursor < q.sequence
       /\ Progress(h, q.missed, q.after, q.cursor, q.truncated)

RequestOK(h, q, r) ==
  /\ r.pc \in {"claim", "announce", "snapshot", "history"} => q.state = "joining" /\ r.after = q.after
  /\ r.pc = "page" => q.state = "catching" /\ r.after = q.cursor
  /\ r.pc \in {"snapshot", "history"} => Len(h.log) > 0
  /\ r.pc = "history" => r.after # None /\ r.after < r.sequence /\ Snapshot(h, q, r.sequence)

FrameOK(h, q, f) ==
  /\ f.type = "delta" => f.n <= Len(h.log)
  /\ f.type = "joined" =>
       /\ q.state = "joining" /\ Snapshot(h, q, f.sequence)
       /\ f.missed = <<>> => q.after = None \/ q.after = f.sequence
       /\ f.missed # <<>> =>
            /\ q.after # None /\ q.after < f.sequence
            /\ Progress(h, f.missed[1].events, q.after, f.missed[1].cursor, f.missed[1].truncated)
  /\ f.type = "page" =>
       /\ q.state = "catching" /\ Extract(h, f.page.events, q.cursor, f.page.cursor)
       /\ Covers(h, f.page.events, q.cursor, f.page.cursor, FALSE)

\* One request, one answer: of the join, or of the page the member waits for.
Answers == {i \in 1..Len(wire) : wire[i].type # "delta"}

WireOK ==
  /\ \A i \in 1..Len(outbound) : outbound[i] <= Len(log)
  /\ \A i \in 1..Len(wire) : FrameOK(now, room, wire[i])
  /\ \A i, j \in Answers : i = j
  /\ request.pc # "idle" => Answers = {}

\* The app was handed nothing newer than the last sequence number the member has seen.
AppOK ==
  /\ \A i \in 1..Len(emitted) : emitted[i].n <= room.last
  /\ room.base = None => emitted = <<>>

\* Nothing recorded since the first join is forgotten.
Accounted ==
  room.base # None => \A n \in (room.base + 1)..room.last :
    Published(log, n) => n \in Emitted \cup reported \cup pagingLoss

ReplayInv ==
  /\ ServerTypes /\ MemberTypes /\ HistoryWhole
  /\ RoomOK(now, room) /\ RequestOK(now, room, request) /\ WireOK
  /\ AppOK /\ Accounted /\ ReplayIsNew

-----------------------------------------------------------------------------
(***************************************************************************)
(* Numbers, in order.                                                      *)
(***************************************************************************)
\* A nonempty set of numbers has a least one.
LEMMA Least ==
  ASSUME NEW S \in SUBSET Nat, S # {}
  PROVE  \E m \in S : \A k \in S : m <= k
<1>. DEFINE R == {ss \in Nat \X Nat : ss[1] < ss[2]}
<1>1. IsWellFoundedOn(R, Nat)
  BY NatLessThanWellFounded, Zenon DEF OpToRel
<1>2. PICK m \in S : \A k \in S : ~(<<k, m>> \in R)
  <2>. HIDE DEF R
  <2>. QED BY <1>1, WFMin
<1>3. \A k \in S : ~(k < m)
  BY <1>2
<1>. QED BY <1>3

\* A nonempty set of numbers up to a bound has a largest one.
LEMMA Largest ==
  ASSUME NEW b \in Nat, NEW S \in SUBSET (0..b), S # {}
  PROVE  Max(S) \in S /\ \A k \in S : k <= Max(S)
<1>. DEFINE D == {b - k : k \in S}
<1>1. D \in SUBSET Nat /\ D # {}
  <2>. \A k \in S : b - k \in Nat
    OBVIOUS
  <2>. QED OBVIOUS
<1>2. PICK m \in D : \A k \in D : m <= k
  BY <1>1, Least
<1>3. PICK x \in S : m = b - x
  BY <1>2
<1>4. \A k \in S : x >= k
  <2>. TAKE k \in S
  <2>1. b - x <= b - k
    BY <1>2, <1>3
  <2>. QED BY <2>1
<1>. QED BY <1>4 DEF Max

Rank(S, n) == Cardinality({m \in S : m < n})

\* The ranks of the members of a finite set are 0, 1, ..., in the order of the members.
LEMMA Ranks ==
  ASSUME NEW S \in SUBSET Nat, IsFiniteSet(S)
  PROVE  /\ Cardinality(S) \in Nat
         /\ \A n \in S : Rank(S, n) \in Nat /\ Rank(S, n) < Cardinality(S)
         /\ \A m, n \in S : m < n => Rank(S, m) < Rank(S, n)
         /\ \A k \in Nat : k < Cardinality(S) => \E n \in S : Rank(S, n) = k
<1>. DEFINE N == Cardinality(S)
            Below(n) == {m \in S : m < n}
<1>1. N \in Nat
  BY FS_CardinalityType
<1>. HIDE DEF N
<1>2. ASSUME NEW n \in S
      PROVE  IsFiniteSet(Below(n)) /\ Rank(S, n) \in Nat /\ Rank(S, n) < N
  <2>1. Below(n) \in SUBSET (S \ {n}) /\ IsFiniteSet(S \ {n}) /\ Cardinality(S \ {n}) = N - 1
    BY FS_RemoveElement DEF N
  <2>2. IsFiniteSet(Below(n)) /\ Cardinality(Below(n)) <= N - 1
    BY <2>1, FS_Subset
  <2>3. Cardinality(Below(n)) \in Nat
    BY <2>2, FS_CardinalityType
  <2>. QED BY <2>2, <2>3, <1>1 DEF Rank
<1>3. ASSUME NEW m \in S, NEW n \in S, m < n
      PROVE  Rank(S, m) < Rank(S, n)
  <2>1. Cardinality(Below(m) \cup {m}) = Rank(S, m) + 1
    <3>1. IsFiniteSet(Below(m)) /\ m \notin Below(m) /\ Rank(S, m) = Cardinality(Below(m))
      BY <1>2 DEF Rank
    <3>. HIDE DEF Below
    <3>. QED BY <3>1, FS_AddElement
  <2>2. Below(m) \cup {m} \in SUBSET Below(n)
    <3>. \A k \in S : k < m => k < n
      BY <1>3
    <3>. QED BY <1>3
  <2>3. Cardinality(Below(m) \cup {m}) <= Rank(S, n)
    BY <1>2, <2>2, FS_Subset DEF Rank
  <2>4. Rank(S, m) \in Nat /\ Rank(S, n) \in Nat
    BY <1>2
  <2>. QED BY <2>1, <2>3, <2>4
<1>4. ASSUME NEW m \in S, NEW n \in S, Rank(S, m) = Rank(S, n)
      PROVE  m = n
  <2>1. Rank(S, m) \in Nat /\ m \in Nat /\ n \in Nat
    BY <1>2
  <2>2. ~(m < n) /\ ~(n < m)
    BY <1>3, <1>4, <2>1
  <2>. QED BY <2>1, <2>2
<1>5. \A k \in 0..(N - 1) : \E n \in S : Rank(S, n) = k
  <2>. DEFINE T == 0..(N - 1)
              f == [n \in S |-> Rank(S, n)]
  <2>1. \A n \in S : Rank(S, n) \in T
    <3>. SUFFICES ASSUME NEW n \in S
                  PROVE  Rank(S, n) \in T
      OBVIOUS
    <3>1. Rank(S, n) \in Nat /\ Rank(S, n) < N
      BY <1>2
    <3>. QED BY <1>1, <3>1
  <2>2. IsFiniteSet(T) /\ Cardinality(T) = N
    <3>1. 0 \in Int /\ N - 1 \in Int
      BY <1>1
    <3>2. IsFiniteSet(0..(N - 1)) /\ Cardinality(0..(N - 1)) = IF 0 > N - 1 THEN 0 ELSE N - 1 - 0 + 1
      BY <3>1, FS_Interval
    <3>. QED BY <1>1, <3>2
  <2>. HIDE DEF T
  <2>3. f \in [S -> T]
    BY <2>1
  <2>4. f \in Injection(S, T)
    BY <2>3, <1>4 DEF Injection, IsInjective
  <2>5. f \in Surjection(S, T)
    BY <2>4, <2>2, FS_Injection DEF N
  <2>6. \A k \in T : \E n \in S : Rank(S, n) = k
    BY <2>5 DEF Surjection
  <2>. QED BY <2>6 DEF T
<1>6. \A k \in Nat : k < N => \E n \in S : Rank(S, n) = k
  BY <1>1, <1>5
<1>. QED BY <1>1, <1>2, <1>3, <1>6 DEF N

\* Ascending: the members, each once, in order.
LEMMA AscendingRises ==
  ASSUME NEW S \in SUBSET Nat, IsFiniteSet(S)
  PROVE  /\ Ascending(S) \in Seq(S) /\ Len(Ascending(S)) = Cardinality(S)
         /\ DOMAIN Ascending(S) = 1..Cardinality(S)
         /\ Rising(Ascending(S))
         /\ \A n \in S : \E i \in 1..Cardinality(S) : Ascending(S)[i] = n
<1>. DEFINE N == Cardinality(S)
            a == Ascending(S)
<1>1. N \in Nat
  BY Ranks
<1>2. a = [i \in 1..N |-> CHOOSE n \in S : Rank(S, n) = i - 1]
  BY DEF Ascending, Rank
<1>3. \A k \in Nat : k < N => \E n \in S : Rank(S, n) = k
  BY Ranks
<1>4. \A n \in S : Rank(S, n) \in Nat /\ Rank(S, n) < N
  BY Ranks
<1>. HIDE DEF N, a
<1>5. ASSUME NEW i \in 1..N
      PROVE  a[i] \in S /\ Rank(S, a[i]) = i - 1
  <2>1. i - 1 \in Nat /\ i - 1 < N
    BY <1>1
  <2>2. \E n \in S : Rank(S, n) = i - 1
    BY <2>1, <1>3
  <2>3. a[i] = CHOOSE n \in S : Rank(S, n) = i - 1
    BY <1>2
  <2>. QED BY <2>2, <2>3
<1>6. a \in Seq(S) /\ Len(a) = N /\ DOMAIN a = 1..N
  <2>1. a \in [1..N -> S]
    BY <1>2, <1>5
  <2>. QED BY <1>1, <2>1
<1>7. ASSUME NEW i \in 1..N, NEW j \in 1..N, i < j
      PROVE  a[i] < a[j]
  <2>1. a[i] \in S /\ a[j] \in S /\ a[i] \in Nat /\ a[j] \in Nat /\ Rank(S, a[i]) < Rank(S, a[j])
    <3>1. a[i] \in S /\ a[j] \in S /\ Rank(S, a[i]) = i - 1 /\ Rank(S, a[j]) = j - 1
      BY <1>5
    <3>2. i - 1 < j - 1
      BY <1>1, <1>7
    <3>. QED BY <3>1, <3>2
  <2>2. ~(a[j] < a[i]) /\ a[i] # a[j]
    <3>1. a[j] < a[i] => Rank(S, a[j]) < Rank(S, a[i])
      BY <2>1, Ranks
    <3>. QED BY <1>4, <2>1, <3>1
  <2>. QED BY <2>1, <2>2
<1>8. ASSUME NEW n \in S
      PROVE  \E i \in 1..N : a[i] = n
  <2>1. Rank(S, n) + 1 \in 1..N
    BY <1>1, <1>4
  <2>2. a[Rank(S, n) + 1] \in S /\ Rank(S, a[Rank(S, n) + 1]) = Rank(S, n)
    BY <1>4, <1>5, <2>1
  <2>3. \A x \in S : Rank(S, x) = Rank(S, n) => x = n
    <3>. SUFFICES ASSUME NEW x \in S, Rank(S, x) = Rank(S, n)
                  PROVE  x = n
      OBVIOUS
    <3>1. (x < n => Rank(S, x) < Rank(S, n)) /\ (n < x => Rank(S, n) < Rank(S, x))
      BY Ranks
    <3>. QED BY <3>1, <1>4
  <2>. QED BY <2>1, <2>2, <2>3
<1>. QED BY <1>6, <1>7, <1>8 DEF N, a, Rising

\* p has the entries of s at the positions P, in their order.
Selects(p, s, P) ==
  /\ DOMAIN p = 1..Len(p)
  /\ \A k \in 1..Len(p) : \E i \in P : p[k] = s[i]
  /\ \A i \in P : \E k \in 1..Len(p) : p[k] = s[i]
  /\ \A k, l \in 1..Len(p) : k < l => \E i, j \in P : i < j /\ p[k] = s[i] /\ p[l] = s[j]

\* Picked: the entries at the positions, in their order.
LEMMA PickedKeeps ==
  ASSUME NEW T, NEW s \in Seq(T), NEW P \in SUBSET (1..Len(s))
  PROVE  Picked(s, P) \in Seq(T) /\ Selects(Picked(s, P), s, P)
<1>. DEFINE order == Ascending(P)
            p == Picked(s, P)
<1>1. P \in SUBSET Nat /\ IsFiniteSet(P)
  <2>1. IsFiniteSet(1..Len(s))
    BY FS_Interval, 1 \in Int, Len(s) \in Int
  <2>2. P \in SUBSET (1..Len(s)) /\ P \in SUBSET Nat
    OBVIOUS
  <2>. QED BY <2>1, <2>2, FS_Subset
<1>2. order \in Seq(P) /\ Rising(order) /\ DOMAIN order = 1..Len(order)
      /\ \A i \in P : \E k \in 1..Len(order) : order[k] = i
  BY <1>1, AscendingRises
<1>. HIDE DEF order
<1>3. p = [k \in 1..Len(order) |-> s[order[k]]]
  BY <1>2 DEF Picked, order
<1>4. \A k \in 1..Len(order) : order[k] \in P
  BY <1>2
<1>5. \A k \in 1..Len(order) : s[order[k]] \in T
  <2>1. \A i \in P : s[i] \in T
    OBVIOUS
  <2>. QED BY <1>4, <2>1
<1>. HIDE DEF p
<1>6. p \in Seq(T) /\ Len(p) = Len(order) /\ DOMAIN p = 1..Len(order)
  <2>1. Len(order) \in Nat
    BY <1>2
  <2>2. p \in [1..Len(order) -> T]
    BY <1>3, <1>5
  <2>. QED BY <2>1, <2>2
<1>7. \A k \in 1..Len(order) : p[k] = s[order[k]]
  BY <1>3
<1>8. \A k, l \in 1..Len(order) : k < l => order[k] < order[l]
  BY <1>2 DEF Rising
<1>9. ASSUME NEW i \in P PROVE \E k \in 1..Len(order) : p[k] = s[i]
  BY <1>2, <1>7
<1>10. \A k \in 1..Len(order) : \E i \in P : p[k] = s[i]
  BY <1>4, <1>7
<1>11. ASSUME NEW k \in 1..Len(order), NEW l \in 1..Len(order), k < l
       PROVE  \E i, j \in P : i < j /\ p[k] = s[i] /\ p[l] = s[j]
  <2>1. order[k] \in P /\ order[l] \in P /\ order[k] < order[l]
    BY <1>4, <1>8, <1>11
  <2>2. p[k] = s[order[k]] /\ p[l] = s[order[l]]
    BY <1>7
  <2>. QED BY <2>1, <2>2
<1>. QED BY <1>6, <1>9, <1>10, <1>11 DEF p, Selects

-----------------------------------------------------------------------------
(***************************************************************************)
(* What the room in Redis keeps.                                           *)
(***************************************************************************)
\* The sum of no sizes.
LEMMA SumOfNone ==
  ASSUME NEW f, DOMAIN f = {}
  PROVE  SumFunction(f) = 0
<1>. DEFINE Body(h) == [s \in SUBSET {} |-> IF s = {} THEN 0
                          ELSE f[CHOOSE x \in s : TRUE] + h[s \ {CHOOSE x \in s : TRUE}]]
            iter == CHOOSE h : h = Body(h)
<1>1. SumFunction(f) = iter[{}]
  BY DEF SumFunction, SumFunctionOnSet, FoldFunctionOnSet, MapThenFoldSet
<1>2. \E h : h = Body(h)
  <2>1. [s \in SUBSET {} |-> 0] = Body([s \in SUBSET {} |-> 0])
    OBVIOUS
  <2>. QED BY <2>1
<1>3. iter = Body(iter)
  BY <1>2
<1>4. Body(iter)[{}] = 0
  OBVIOUS
<1>. HIDE DEF iter
<1>. QED BY <1>1, <1>3, <1>4

\* The sum of one size.
LEMMA SumOfOne ==
  ASSUME NEW f, NEW e, DOMAIN f = {e}, f[e] \in Nat
  PROVE  SumFunction(f) = f[e]
<1>. DEFINE Body(h) == [s \in SUBSET {e} |-> IF s = {} THEN 0
                          ELSE f[CHOOSE x \in s : TRUE] + h[s \ {CHOOSE x \in s : TRUE}]]
            iter == CHOOSE h : h = Body(h)
            g == [s \in SUBSET {e} |-> IF s = {} THEN 0 ELSE f[e]]
<1>1. SumFunction(f) = iter[{e}]
  BY DEF SumFunction, SumFunctionOnSet, FoldFunctionOnSet, MapThenFoldSet
<1>2. (CHOOSE x \in {e} : TRUE) = e
  OBVIOUS
<1>3. \E h : h = Body(h)
  <2>1. ASSUME NEW s \in SUBSET {e}
        PROVE  Body(g)[s] = g[s]
    <3>1. CASE s = {}
      BY <3>1
    <3>2. CASE s = {e}
      <4>1. Body(g)[s] = f[e] + g[{}]
        BY <3>2, <1>2
      <4>2. g[{}] = 0 /\ g[s] = f[e]
        BY <3>2
      <4>. QED BY <4>1, <4>2
    <3>. QED BY <3>1, <3>2
  <2>2. g = Body(g)
    BY <2>1
  <2>. QED BY <2>2
<1>4. iter = Body(iter)
  BY <1>3
<1>. HIDE DEF iter
<1>5. Body(iter)[{e}] = f[e] + Body(iter)[{}]
  BY <1>2, <1>4
<1>6. Body(iter)[{}] = 0
  OBVIOUS
<1>. QED BY <1>1, <1>4, <1>5, <1>6

\* The bytes of a history do not change when the log grows.
LEMMA BytesStay ==
  ASSUME NEW T, NEW events \in Seq(T), NEW event, NEW held \in SUBSET (1..Len(events))
  PROVE  Bytes(Append(events, event), held) = Bytes(events, held)
<1>1. \A n \in held : Append(events, event)[n] = events[n]
  OBVIOUS
<1>2. [n \in held |-> Append(events, event)[n].size] = [n \in held |-> events[n].size]
  BY <1>1
<1>. QED BY <1>2 DEF Bytes

\* At most k members of a set are among its k newest.
LEMMA NewestFew ==
  ASSUME NEW b \in Nat, NEW held \in SUBSET (1..b), NEW k \in Nat
  PROVE  IsFiniteSet(Newest(held, k)) /\ Cardinality(Newest(held, k)) <= k
<1>. DEFINE N == Newest(held, k)
<1>1. IsFiniteSet(held)
  <2>1. IsFiniteSet(1..b)
    BY FS_Interval, 1 \in Int, b \in Int
  <2>. QED BY <2>1, FS_Subset
<1>2. N \in SUBSET held /\ IsFiniteSet(N)
  <2>1. N \in SUBSET held
    BY DEF Newest
  <2>. QED BY <1>1, <2>1, FS_Subset
<1>3. CASE N = {}
  BY <1>2, <1>3, FS_EmptySet
<1>4. CASE N # {}
  <2>1. PICK m \in N : \A n \in N : m <= n
    <3>1. N \in SUBSET Nat
      <4>1. \A n \in held : n \in Nat
        OBVIOUS
      <4>. QED BY <1>2, <4>1
    <3>. QED BY <1>4, <3>1, Least
  <2>. DEFINE Above == {n \in held : n > m}
  <2>2. IsFiniteSet(Above) /\ Cardinality(Above) < k /\ Cardinality(Above) \in Nat
    <3>1. Above \in SUBSET held
      OBVIOUS
    <3>2. Cardinality(Above) < k
      BY <2>1 DEF Newest
    <3>. QED BY <1>1, <3>1, <3>2, FS_Subset, FS_CardinalityType
  <2>3. N \in SUBSET (Above \cup {m})
    <3>. SUFFICES ASSUME NEW n \in N PROVE n \in Above \cup {m}
      OBVIOUS
    <3>1. n \in held /\ m \in held /\ m <= n
      BY <1>2, <2>1
    <3>2. n > m \/ n = m
      BY <3>1
    <3>. QED BY <3>1, <3>2
  <2>. HIDE DEF Above, N
  <2>4. IsFiniteSet(Above \cup {m}) /\ Cardinality(Above \cup {m}) <= Cardinality(Above) + 1
    <3>1. /\ IsFiniteSet(Above \cup {m})
          /\ Cardinality(Above \cup {m}) = IF m \in Above THEN Cardinality(Above) ELSE Cardinality(Above) + 1
      BY <2>2, FS_AddElement
    <3>. QED BY <2>2, <3>1
  <2>5. Cardinality(N) <= Cardinality(Above \cup {m}) /\ Cardinality(N) \in Nat
        /\ Cardinality(Above \cup {m}) \in Nat
    BY <1>2, <2>3, <2>4, FS_Subset, FS_CardinalityType
  <2>. QED BY <1>2, <2>2, <2>4, <2>5 DEF N
<1>. QED BY <1>3, <1>4

\* Trimming keeps the newest events, among them the last one, within both limits.
LEMMA TrimmedKeeps ==
  ASSUME NEW events \in Seq(Entries), NEW held \in SUBSET (1..Len(events)),
         Len(events) \in held, events[Len(events)].size \in 1..HistoryBytes
  PROVE  LET kept == Trimmed(events, held)
         IN  /\ kept \in SUBSET held /\ Len(events) \in kept
             /\ Cardinality(kept) <= HistorySize /\ Bytes(events, kept) <= HistoryBytes
             /\ \A n \in kept, m \in held : m \notin kept => m < n
<1>. DEFINE K == {k \in 0..HistorySize : Bytes(events, Newest(held, k)) <= HistoryBytes}
            last == Len(events)
            kept == Trimmed(events, held)
<1>1. HistorySize \in Nat \ {0} /\ HistoryBytes \in Nat \ {0} /\ last \in Nat
  BY ReplayAssumption
<1>. HIDE DEF K
<1>2. \A n \in held : n \in Nat /\ n <= last
  BY <1>1
<1>3. IsFiniteSet(held)
  <2>1. IsFiniteSet(1..last)
    BY FS_Interval, 1 \in Int, last \in Int
  <2>. QED BY <2>1, FS_Subset
<1>4. \A n \in held : IsFiniteSet({m \in held : m > n}) /\ Cardinality({m \in held : m > n}) \in Nat
  <2>. TAKE n \in held
  <2>. DEFINE Above == {m \in held : m > n}
  <2>1. Above \in SUBSET held
    OBVIOUS
  <2>. HIDE DEF Above
  <2>2. IsFiniteSet(Above) /\ Cardinality(Above) \in Nat
    BY <1>3, <2>1, FS_Subset, FS_CardinalityType
  <2>. QED BY <2>2 DEF Above
<1>5. Cardinality({m \in held : m > last}) = 0
  <2>. DEFINE Above == {m \in held : m > last}
  <2>1. Above = {}
    <3>1. \A n \in held : ~(n > last)
      BY <1>1, <1>2
    <3>. QED BY <3>1
  <2>. HIDE DEF Above
  <2>2. Cardinality(Above) = 0
    BY <2>1, FS_EmptySet
  <2>. QED BY <2>2 DEF Above
<1>6. Newest(held, 1) = {last}
  <2>2. last \in Newest(held, 1)
    BY <1>5 DEF Newest
  <2>3. ASSUME NEW n \in held, n # last
        PROVE  n \notin Newest(held, 1)
    <3>. DEFINE Above == {m \in held : m > n}
    <3>1. last \in Above
      BY <1>1, <1>2, <2>3
    <3>2. IsFiniteSet(Above) /\ Cardinality(Above) \in Nat
      BY <1>4
    <3>3. Cardinality(Above) # 0
      <4>. HIDE DEF Above
      <4>. QED BY <3>1, <3>2, FS_EmptySet
    <3>4. ~(Cardinality(Above) < 1)
      <4>. HIDE DEF Above
      <4>. QED BY <3>2, <3>3
    <3>. QED BY <3>4 DEF Newest
  <2>. QED BY <2>2, <2>3 DEF Newest
<1>7. 1 \in K
  <2>. DEFINE f == [n \in {last} |-> events[n].size]
  <2>1. DOMAIN f = {last} /\ f[last] = events[last].size /\ f[last] \in Nat
    BY DEF Entries
  <2>. HIDE DEF f
  <2>2. SumFunction(f) = events[last].size
    BY <2>1, SumOfOne
  <2>3. Bytes(events, {last}) = events[last].size
    BY <2>2 DEF Bytes, f
  <2>4. Bytes(events, Newest(held, 1)) <= HistoryBytes
    <3>1. events[last].size <= HistoryBytes
      BY <1>1
    <3>. QED BY <1>6, <2>3, <3>1
  <2>. QED BY <1>1, <2>4 DEF K
<1>8. K \in SUBSET (0..HistorySize)
  BY DEF K
<1>9. Max(K) \in K /\ 1 <= Max(K) /\ Max(K) \in 0..HistorySize
  BY <1>1, <1>7, <1>8, Largest
<1>10. kept = Newest(held, Max(K))
  BY DEF Trimmed, K
<1>11. kept \in SUBSET held
  BY <1>10 DEF Newest
<1>12. last \in kept
  BY <1>5, <1>9, <1>10 DEF Newest
<1>13. Cardinality(kept) <= HistorySize
  <2>1. Max(K) \in Nat /\ Max(K) <= HistorySize
    BY <1>1, <1>9
  <2>2. IsFiniteSet(kept) /\ Cardinality(kept) <= Max(K)
    BY <1>1, <1>10, <2>1, NewestFew
  <2>. QED BY <1>1, <2>1, <2>2, FS_CardinalityType
<1>14. Bytes(events, kept) <= HistoryBytes
  BY <1>9, <1>10 DEF K
<1>15. ASSUME NEW n \in kept, NEW m \in held, m \notin kept
       PROVE  m < n
  <2>. DEFINE Above(x) == {y \in held : y > x}
  <2>1. SUFFICES ASSUME n <= m PROVE FALSE
    BY <1>11, <1>15
  <2>2. Above(m) \in SUBSET Above(n)
    <3>. SUFFICES ASSUME NEW y \in held, y > m PROVE y > n
      OBVIOUS
    <3>1. n \in Nat /\ m \in Nat /\ y \in Nat
      BY <1>2, <1>11, <1>15
    <3>. QED BY <2>1, <3>1
  <2>3. IsFiniteSet(Above(n)) /\ Cardinality(Above(n)) \in Nat /\ Cardinality(Above(m)) \in Nat
    BY <1>4, <1>11
  <2>4. Cardinality(Above(n)) < Max(K)
    BY <1>10 DEF Newest
  <2>. HIDE DEF Above
  <2>5. Cardinality(Above(m)) <= Cardinality(Above(n))
    BY <2>2, <2>3, FS_Subset
  <2>6. Cardinality(Above(m)) < Max(K)
    BY <1>9, <2>3, <2>4, <2>5
  <2>7. m \in Newest(held, Max(K))
    BY <2>6 DEF Newest, Above
  <2>. QED BY <1>10, <1>15, <2>7
<1>. QED BY <1>11, <1>12, <1>13, <1>14, <1>15

\* PageOf: the oldest of the events asked for, and a cursor with nothing left out before it.
LEMMA PageReads ==
  ASSUME NEW later \in SUBSET (1..Len(log)), NEW after \in Nat, NEW truncated \in BOOLEAN,
         Len(log) \in Nat, after < Len(log), \A n \in later : after < n
  PROVE  LET page == PageOf(later, after, truncated)
         IN  /\ page \in Pages /\ page.truncated = truncated
             /\ Extract(now, page.events, after, page.cursor)
             /\ \A i \in 1..Len(page.events) : page.events[i] \in later
             /\ \A n \in later : n <= page.cursor => n \in ToSet(page.events)
             /\ page.cursor \in later \/ page.cursor = Len(log)
<1>. DEFINE N == Cardinality(later)
            ordered == Ascending(later)
            k == Min({HistoryPage, N})
            events == SubSeq(ordered, 1, k)
            page == PageOf(later, after, truncated)
<1>1. HistoryPage \in Nat \ {0}
  BY ReplayAssumption
<1>2. later \in SUBSET Nat /\ IsFiniteSet(later) /\ \A n \in later : n \in Nat /\ after < n /\ n <= Len(log)
  <2>1. IsFiniteSet(1..Len(log))
    BY FS_Interval, 1 \in Int, Len(log) \in Int
  <2>2. \A n \in later : n \in Nat /\ n <= Len(log)
    OBVIOUS
  <2>. QED BY <2>1, <2>2, FS_Subset
<1>3. /\ N \in Nat /\ ordered \in Seq(later) /\ Len(ordered) = N /\ Rising(ordered)
      /\ \A n \in later : \E i \in 1..N : ordered[i] = n
  BY <1>2, AscendingRises, FS_CardinalityType
<1>. HIDE DEF N, ordered
<1>4. k \in 0..N /\ k <= HistoryPage /\ (k = HistoryPage \/ k = N)
  <2>1. \E x \in {HistoryPage, N} : \A y \in {HistoryPage, N} : x =< y
    BY <1>1, <1>3
  <2>2. k \in {HistoryPage, N} /\ \A y \in {HistoryPage, N} : k =< y
    BY <2>1 DEF Min
  <2>. QED BY <1>1, <1>3, <2>2
<1>. HIDE DEF k
<1>5. /\ events \in Seq(later) /\ Len(events) = k
      /\ \A i \in 1..k : events[i] = ordered[i] /\ events[i] \in later
  BY <1>3, <1>4
<1>6. page = [events |-> events, truncated |-> truncated,
              cursor |-> IF Len(events) = HistoryPage THEN Last(events) ELSE Max({after, Len(log)})]
  BY <1>3 DEF PageOf, ordered, k, N
<1>. HIDE DEF events, page
<1>7. /\ page.events = events /\ page.truncated = truncated
      /\ page.cursor = IF Len(events) = HistoryPage THEN Last(events) ELSE Max({after, Len(log)})
  BY <1>6
<1>8. events \in Seq(Nat)
  <2>1. \A i \in 1..k : events[i] \in Nat
    BY <1>2, <1>5
  <2>2. k \in Nat
    BY <1>3, <1>4
  <2>3. events \in [1..k -> Nat]
    BY <1>5, <2>1, <2>2
  <2>. QED BY <2>2, <2>3
<1>9. Rising(events)
  BY <1>3, <1>4, <1>5 DEF Rising
<1>10. \A i \in 1..Len(events) : events[i] \in later
  BY <1>5
<1>11. ASSUME page.cursor \in Nat, after < page.cursor, page.cursor <= Len(log),
              \A i \in 1..k : events[i] <= page.cursor,
              \A n \in later : n <= page.cursor => n \in ToSet(events),
              page.cursor \in later \/ page.cursor = Len(log)
       PROVE  /\ page \in Pages /\ page.truncated = truncated
              /\ Extract(now, page.events, after, page.cursor)
              /\ \A i \in 1..Len(page.events) : page.events[i] \in later
              /\ \A n \in later : n <= page.cursor => n \in ToSet(page.events)
              /\ page.cursor \in later \/ page.cursor = Len(log)
  <2>1. page \in Pages
    BY <1>6, <1>7, <1>8, <1>11 DEF Pages
  <2>2. \A i \in 1..Len(events) : after < events[i] /\ events[i] <= page.cursor
    BY <1>2, <1>5, <1>11
  <2>3. Extract(now, events, after, page.cursor)
    BY <1>9, <1>11, <2>2 DEF Extract, now
  <2>. QED BY <1>7, <1>10, <1>11, <2>1, <2>3
<1>12. CASE k = HistoryPage
  <2>1. k \in 1..N /\ page.cursor = events[k] /\ events[k] \in later
    BY <1>1, <1>3, <1>4, <1>5, <1>7, <1>12 DEF Last
  <2>2. page.cursor \in Nat /\ after < page.cursor /\ page.cursor <= Len(log)
    BY <1>2, <2>1
  <2>3. ASSUME NEW i \in 1..k PROVE events[i] <= page.cursor
    <3>1. events[i] \in Nat /\ (i < k => events[i] < events[k])
      BY <1>5, <1>8, <1>9, <2>1 DEF Rising
    <3>. QED BY <1>3, <2>1, <2>2, <3>1
  <2>4. ASSUME NEW n \in later, n <= page.cursor PROVE n \in ToSet(events)
    <3>1. PICK i \in 1..N : ordered[i] = n
      BY <1>3
    <3>2. n \in Nat
      BY <1>2
    <3>3. ~(k < i)
      <4>1. ordered[k] = page.cursor
        BY <1>5, <2>1
      <4>2. k < i => ordered[k] < ordered[i]
        BY <1>3, <2>1 DEF Rising
      <4>. QED BY <2>2, <2>4, <3>1, <3>2, <4>1, <4>2
    <3>4. i \in 1..k
      BY <1>3, <2>1, <3>3
    <3>5. events[i] = n /\ i \in DOMAIN events
      BY <1>5, <3>1, <3>4
    <3>. QED BY <3>5 DEF ToSet
  <2>. QED BY <1>11, <2>1, <2>2, <2>3, <2>4 DEF page
<1>13. CASE k # HistoryPage
  <2>1. Max({after, Len(log)}) = Len(log)
    <3>. DEFINE b == Len(log)
    <3>1. {after, b} \in SUBSET (0..b) /\ b \in Nat
      OBVIOUS
    <3>2. Max({after, b}) \in {after, b} /\ b <= Max({after, b})
      <4>. HIDE DEF b
      <4>. QED BY <3>1, Largest
    <3>. QED BY <3>2
  <2>2. k = N /\ page.cursor = Len(log)
    BY <1>4, <1>5, <1>7, <1>13, <2>1
  <2>3. ASSUME NEW i \in 1..k PROVE events[i] <= page.cursor
    BY <1>2, <1>5, <2>2
  <2>4. ASSUME NEW n \in later PROVE n \in ToSet(events)
    <3>1. PICK i \in 1..N : ordered[i] = n
      BY <1>3
    <3>2. events[i] = n /\ i \in DOMAIN events
      BY <1>5, <2>2, <3>1
    <3>. QED BY <3>2 DEF ToSet
  <2>. QED BY <1>11, <2>2, <2>3, <2>4 DEF page
<1>. QED BY <1>12, <1>13

-----------------------------------------------------------------------------
(***************************************************************************)
(* What the app is handed.                                                 *)
(***************************************************************************)
\* Messages: every event of the list but the announcements, in its order.
LEMMA MessagesCarry ==
  ASSUME NEW ns \in Seq(Nat), NEW how \in {"live", "replay"}
  PROVE  LET items == Messages(ns, how)
         IN  /\ items \in Seq(Items)
             /\ \A k \in 1..Len(items) : items[k].how = how /\ \E i \in 1..Len(ns) : items[k].n = ns[i]
             /\ \A i \in 1..Len(ns) : Published(log, ns[i]) => \E k \in 1..Len(items) : items[k].n = ns[i]
             /\ Rising(ns) => \A k, l \in 1..Len(items) : k < l => items[k].n < items[l].n
<1>. DEFINE P == {i \in DOMAIN ns : log[ns[i]].kind # "announce"}
            shown == Picked(ns, P)
            items == Messages(ns, how)
<1>1. P \in SUBSET (1..Len(ns)) /\ \A i \in 1..Len(ns) : Published(log, ns[i]) => i \in P
  BY DEF Published
<1>. HIDE DEF P
<1>2. /\ shown \in Seq(Nat) /\ DOMAIN shown = 1..Len(shown)
      /\ \A k \in 1..Len(shown) : \E i \in P : shown[k] = ns[i]
      /\ \A i \in P : \E k \in 1..Len(shown) : shown[k] = ns[i]
      /\ \A k, l \in 1..Len(shown) : k < l =>
           \E i, j \in P : i < j /\ shown[k] = ns[i] /\ shown[l] = ns[j]
  <2>1. shown \in Seq(Nat) /\ Selects(shown, ns, P)
    BY <1>1, PickedKeeps
  <2>. HIDE DEF shown
  <2>. QED BY <2>1 DEF Selects
<1>3. items = [k \in 1..Len(shown) |-> [n |-> shown[k], how |-> how]]
  BY <1>2 DEF Messages, P
<1>. HIDE DEF shown, items
<1>4. items \in Seq(Items) /\ Len(items) = Len(shown)
      /\ \A k \in 1..Len(shown) : items[k].n = shown[k] /\ items[k].how = how
  BY <1>2, <1>3 DEF Items
<1>5. ASSUME Rising(ns), NEW k \in 1..Len(shown), NEW l \in 1..Len(shown), k < l
      PROVE  items[k].n < items[l].n
  <2>1. PICK i \in P, j \in P : i < j /\ shown[k] = ns[i] /\ shown[l] = ns[j]
    BY <1>2, <1>5
  <2>. QED BY <1>1, <1>4, <1>5, <2>1 DEF Rising
<1>6. ASSUME NEW k \in 1..Len(shown) PROVE \E i \in 1..Len(ns) : items[k].n = ns[i]
  <2>1. PICK i \in P : shown[k] = ns[i]
    BY <1>2
  <2>. QED BY <1>1, <1>4, <2>1
<1>7. ASSUME NEW i \in 1..Len(ns), Published(log, ns[i]) PROVE \E k \in 1..Len(shown) : items[k].n = ns[i]
  <2>1. PICK k \in 1..Len(shown) : shown[k] = ns[i]
    BY <1>1, <1>2, <1>7
  <2>. QED BY <1>4, <2>1
<1>. QED BY <1>4, <1>5, <1>6, <1>7 DEF items

\* Handled: afterwards each number up to the latest was seen or told, if anything was seen before.
LEMMA HandledTells ==
  ASSUME NEW last \in Nat, NEW ns \in Seq(Nat), NEW b \in Nat,
         last <= b, \A i \in 1..Len(ns) : ns[i] <= b
  PROVE  LET seen == Handled(last, ns)
         IN  /\ seen.last \in Nat /\ last <= seen.last /\ seen.last <= b
             /\ \A i \in 1..Len(ns) : ns[i] <= seen.last
             /\ seen.told \in SUBSET Nat /\ seen.out = Messages(ns, "live")
             /\ last > 0 => \A m \in (last + 1)..seen.last : m \in seen.told \/ \E i \in 1..Len(ns) : ns[i] = m
<1>. DEFINE all == {last} \cup ToSet(ns)
            seen == all \ {0}
            latest == Max(all)
            h == Handled(last, ns)
<1>1. ToSet(ns) = {ns[i] : i \in 1..Len(ns)}
  BY DEF ToSet
<1>2. all \in SUBSET (0..b) /\ all # {} /\ last \in all /\ \A i \in 1..Len(ns) : ns[i] \in all
  BY <1>1
<1>3. \A m \in Nat : m \in all => m = last \/ \E i \in 1..Len(ns) : ns[i] = m
  BY <1>1
<1>4. h = [last |-> latest,
           told |-> {m \in (last + 1)..latest : ~({m - 1, m} \subseteq seen) /\ \E n \in seen : n < m},
           out |-> Messages(ns, "live")]
  BY DEF Handled
<1>. HIDE DEF all
<1>5. latest \in all /\ latest \in Nat /\ latest <= b /\ \A m \in all : m <= latest
  <2>1. latest \in all /\ \A m \in all : m <= latest
    BY <1>2, Largest
  <2>2. \A m \in 0..b : m \in Nat /\ m <= b
    OBVIOUS
  <2>. QED BY <1>2, <2>1, <2>2
<1>. HIDE DEF latest
<1>6. h.told \in SUBSET Nat
  BY <1>4, <1>5
<1>7. ASSUME last > 0, NEW m \in (last + 1)..latest, \A i \in 1..Len(ns) : ns[i] # m
      PROVE  m \in h.told
  <2>1. m \in Nat /\ last < m
    BY <1>5
  <2>2. m \notin all
    BY <1>3, <1>7, <2>1
  <2>3. last \in seen
    BY <1>2, <1>7
  <2>. QED BY <1>4, <2>1, <2>2, <2>3
<1>. HIDE DEF h
<1>8. h.last = latest /\ h.out = Messages(ns, "live")
  BY <1>4
<1>. QED BY <1>2, <1>5, <1>6, <1>7, <1>8 DEF h

-----------------------------------------------------------------------------
(***************************************************************************)
(* What a catch-up relies on stays true while the log grows.               *)
(***************************************************************************)
Longer(h, g) ==
  /\ {Len(h.log), Len(g.log), h.floor, g.floor} \subseteq Nat
  /\ Len(h.log) <= Len(g.log) /\ h.floor <= g.floor /\ h.loss \subseteq g.loss
  /\ \A n \in 1..Len(h.log) : Published(g.log, n) = Published(h.log, n)

\* Nothing is trimmed that is not noted as a loss of the catch-up.
Saved(h, g) ==
  /\ h.stream \subseteq g.stream \cup g.loss
  /\ \A n \in (Len(h.log) + 1)..Len(g.log) : Published(g.log, n) => n \in g.stream

\* What a page holds of the log stays so.
LEMMA ExtractStays ==
  ASSUME NEW h, NEW g, Longer(h, g), NEW events, NEW after \in Nat, NEW cursor \in Nat,
         Extract(h, events, after, cursor)
  PROVE  Extract(g, events, after, cursor)
BY DEF Extract, Longer

\* A page that left nothing recorded out goes on leaving nothing out.
LEMMA CoversStays ==
  ASSUME NEW h, NEW g, Longer(h, g), NEW events, NEW after \in Nat, NEW cursor \in Nat, NEW truncated,
         Extract(h, events, after, cursor), Covers(h, events, after, cursor, truncated)
  PROVE  Covers(g, events, after, cursor, truncated)
<1>. SUFFICES ASSUME NEW n \in (after + 1)..cursor, Published(g.log, n)
              PROVE  \/ n \in ToSet(events) \cup g.loss
                     \/ truncated /\ \A i \in 1..Len(events) : n < events[i]
  BY DEF Covers
<1>1. n \in 1..Len(h.log)
  BY DEF Extract, Longer
<1>2. Published(h.log, n)
  BY <1>1 DEF Longer
<1>. QED BY <1>2 DEF Covers, Longer

\* What a reader has still to read stays in the history, or becomes a known loss.
LEMMA KeptStays ==
  ASSUME NEW h, NEW g, Longer(h, g), Saved(h, g), NEW after \in Nat, Kept(h, after)
  PROVE  Kept(g, after)
<1>. SUFFICES ASSUME NEW n \in (after + 1)..Len(g.log), Published(g.log, n)
              PROVE  n \in g.stream \cup g.loss
  BY DEF Kept
<1>1. CASE n \in 1..Len(h.log)
  <2>1. Published(h.log, n) /\ n \in (after + 1)..Len(h.log)
    BY <1>1 DEF Longer
  <2>. QED BY <2>1 DEF Kept, Saved, Longer
<1>2. CASE n \in (Len(h.log) + 1)..Len(g.log)
  BY <1>2 DEF Saved
<1>. QED BY <1>1, <1>2 DEF Longer

\* What a catch-up has read so far, and what it has still to read, is not invalidated.
LEMMA ProgressStays ==
  ASSUME NEW h, NEW g, Longer(h, g), Saved(h, g),
         NEW events, NEW after \in Nat, NEW cursor \in Nat, NEW truncated,
         Progress(h, events, after, cursor, truncated)
  PROVE  Progress(g, events, after, cursor, truncated)
<1>1. Extract(g, events, after, cursor)
  BY ExtractStays DEF Progress
<1>2. Covers(g, events, after, cursor, truncated) /\ Kept(g, cursor)
  BY CoversStays, KeptStays DEF Progress
<1>3. truncated => after < g.floor
  BY DEF Progress, Longer
<1>. QED BY <1>1, <1>2, <1>3 DEF Progress

\* The newest event of a snapshot stays in the history, or becomes a known loss.
LEMMA SnapshotStays ==
  ASSUME NEW h, NEW g, Longer(h, g), Saved(h, g), NEW q, NEW sequence \in Nat,
         Snapshot(h, q, sequence)
  PROVE  Snapshot(g, q, sequence)
<1>1. sequence \in 1..Len(h.log)
  BY DEF Snapshot, Longer
<1>2. Published(g.log, sequence) => sequence \in g.stream \cup g.loss
  BY <1>1 DEF Snapshot, Longer, Saved
<1>. QED BY <1>1, <1>2 DEF Snapshot, Longer

\* A room that catches up, a snapshot that waits for its history and a page of a join
\* need Saved; the rest needs only that the log grows.
LEMMA RoomStays ==
  ASSUME NEW h, NEW g, Longer(h, g), NEW q \in Rooms, q.state = "catching" => Saved(h, g), RoomOK(h, q)
  PROVE  RoomOK(g, q)
<1>1. /\ q.last \in Nat /\ q.sequence \in Nat /\ q.cursor \in Nat
      /\ \A i \in 1..Len(q.buffer) : q.buffer[i] \in Nat
  BY DEF Rooms
<1>2. q.last <= Len(g.log) /\ \A i \in 1..Len(q.buffer) : q.buffer[i] <= Len(g.log)
  BY <1>1 DEF RoomOK, Longer
<1>3. ASSUME q.state = "catching"
      PROVE  Snapshot(g, q, q.sequence) /\ Progress(g, q.missed, q.after, q.cursor, q.truncated)
  <2>1. Saved(h, g) /\ Snapshot(h, q, q.sequence) /\ Progress(h, q.missed, q.after, q.cursor, q.truncated)
        /\ q.after \in Nat
    BY <1>1, <1>3 DEF RoomOK
  <2>. QED BY <1>1, <2>1, SnapshotStays, ProgressStays
<1>. QED BY <1>2, <1>3 DEF RoomOK

\* A request goes on being what the member waits for.
LEMMA RequestStays ==
  ASSUME NEW h, NEW g, Longer(h, g), NEW q \in Rooms, NEW r \in Requests,
         r.pc = "history" => Saved(h, g), RequestOK(h, q, r)
  PROVE  RequestOK(g, q, r)
<1>1. r.pc \in {"snapshot", "history"} => Len(g.log) > 0
  BY DEF RequestOK, Longer
<1>2. ASSUME r.pc = "history"
      PROVE  Snapshot(g, q, r.sequence)
  <2>1. Saved(h, g) /\ Snapshot(h, q, r.sequence) /\ r.after \in Nat /\ r.sequence \in Nat
    BY <1>2 DEF RequestOK, Requests, None
  <2>. QED BY <2>1, SnapshotStays
<1>. QED BY <1>1, <1>2 DEF RequestOK

\* An answer or a delta on the wire stays right.
LEMMA FrameStays ==
  ASSUME NEW h, NEW g, Longer(h, g), NEW q \in Rooms, NEW f \in Frames,
         f.type = "joined" => Saved(h, g), FrameOK(h, q, f)
  PROVE  FrameOK(g, q, f)
<1>1. f.type = "delta" => f.n <= Len(g.log)
  BY DEF FrameOK, Longer, Frames
<1>2. ASSUME f.type = "joined"
      PROVE  Snapshot(g, q, f.sequence) /\ (f.missed # <<>> =>
               Progress(g, f.missed[1].events, q.after, f.missed[1].cursor, f.missed[1].truncated))
  <2>1. f.sequence \in Nat /\ (f.missed = <<>> \/ \E page \in Pages : f.missed = <<page>>)
    BY <1>2 DEF Frames
  <2>2. Saved(h, g) /\ Snapshot(g, q, f.sequence)
    BY <1>2, <2>1, SnapshotStays DEF FrameOK
  <2>3. ASSUME NEW page \in Pages, f.missed = <<page>>
        PROVE  Progress(g, page.events, q.after, page.cursor, page.truncated)
    <3>1. f.missed # <<>> /\ f.missed[1] = page
      BY <2>3
    <3>2. q.after \in Nat /\ page.cursor \in Nat /\ Progress(h, page.events, q.after, page.cursor, page.truncated)
      BY <1>2, <3>1 DEF FrameOK, Rooms, Pages
    <3>. QED BY <2>2, <3>2, ProgressStays
  <2>. QED BY <2>1, <2>2, <2>3
<1>3. ASSUME f.type = "page"
      PROVE  /\ Extract(g, f.page.events, q.cursor, f.page.cursor)
             /\ Covers(g, f.page.events, q.cursor, f.page.cursor, FALSE)
  <2>1. f.page.cursor \in Nat /\ q.cursor \in Nat
    BY <1>3 DEF Frames, Pages, Rooms
  <2>. QED BY <1>3, <2>1, ExtractStays, CoversStays DEF FrameOK
<1>. QED BY <1>1, <1>2, <1>3 DEF FrameOK

-----------------------------------------------------------------------------
(***************************************************************************)
(* The log.                                                                *)
(***************************************************************************)
\* The bounds of a range.
LEMMA Between ==
  ASSUME NEW a \in Nat, NEW b \in Nat
  PROVE  \A m \in (a + 1)..b : m \in Nat /\ a < m /\ m <= b
OBVIOUS

Unsent(events, ns) == \A i \in 1..Len(ns) : ns[i] <= Len(events)

\* A step that leaves Redis alone.
LEMMA NothingLogged ==
  ASSUME ServerTypes, HistoryWhole, UNCHANGED serverVars, pagingLoss \subseteq pagingLoss'
  PROVE  HistoryWhole' /\ Longer(now, now') /\ Saved(now, now')
<1>1. log' = log /\ stream' = stream /\ floor' = floor
  BY DEF serverVars
<1>2. HistoryWhole'
  BY <1>1 DEF HistoryWhole
<1>3. Len(log) \in Nat /\ floor \in Nat
  BY DEF ServerTypes
<1>4. Longer(now, now')
  BY <1>1, <1>3 DEF Longer, now, Published
<1>5. Saved(now, now')
  BY <1>1, <1>3 DEF Saved, now, Published
<1>. QED BY <1>2, <1>4, <1>5

\* An event that is numbered and not recorded: send() and the announcements.
LEMMA NumberGrows ==
  ASSUME ServerTypes, HistoryWhole, Unsent(log, outbound), NEW kind \in {"send", "announce"},
         Number(kind), pagingLoss' = pagingLoss
  PROVE  /\ ServerTypes' /\ HistoryWhole' /\ Unsent(log', outbound')
         /\ Longer(now, now') /\ Saved(now, now')
<1>. DEFINE event == [kind |-> kind, size |-> 0]
<1>1. log' = Append(log, event) /\ outbound' = Append(outbound, Len(log) + 1)
      /\ stream' = stream /\ floor' = floor
  BY DEF Number
<1>2. event \in Entries
  BY DEF Entries
<1>3. /\ log \in Seq(Entries) /\ Len(log) \in Nat /\ Len(log') = Len(log) + 1
      /\ stream \in SUBSET (1..Len(log)) /\ floor \in 0..Len(log)
  BY <1>1, <1>2 DEF ServerTypes
<1>4. (\A n \in 1..Len(log) : log'[n] = log[n]) /\ log'[Len(log')] = event
  BY <1>1, <1>2, <1>3
<1>5. ServerTypes'
  BY <1>1, <1>2, <1>3 DEF ServerTypes
<1>6. Unsent(log', outbound')
  BY <1>1, <1>3 DEF Unsent, ServerTypes
<1>7. ~Published(log', Len(log'))
  BY <1>4 DEF Published
<1>8. \A n \in 1..Len(log) : Published(log', n) = Published(log, n)
  BY <1>4 DEF Published
<1>9. HistoryWhole'
  <2>1. Bytes(log', stream) = Bytes(log, stream)
    BY <1>1, <1>3, BytesStay
  <2>2. \A n \in (floor + 1)..Len(log') : Published(log', n) => n \in stream
    <3>. SUFFICES ASSUME NEW n \in (floor + 1)..Len(log'), Published(log', n)
                  PROVE  n \in stream
      OBVIOUS
    <3>1. n \in (floor + 1)..Len(log) /\ n \in 1..Len(log)
      BY <1>3, <1>7
    <3>. QED BY <1>8, <3>1 DEF HistoryWhole
  <2>. QED BY <1>1, <1>7, <2>1, <2>2 DEF HistoryWhole
<1>10. Longer(now, now')
  BY <1>1, <1>3, <1>8 DEF Longer, now
<1>11. Saved(now, now')
  BY <1>1, <1>3, <1>7 DEF Saved, now
<1>. QED BY <1>5, <1>6, <1>9, <1>10, <1>11

\* PUBLISH: the event is recorded, and its trimming moves the floor to the last event that goes.
LEMMA PublishGrows ==
  ASSUME ServerTypes, HistoryWhole, Unsent(log, outbound), pagingLoss \in SUBSET Nat,
         NEW size \in Sizes, Publish(size)
  PROVE  /\ ServerTypes' /\ HistoryWhole' /\ Unsent(log', outbound') /\ pagingLoss' \in SUBSET Nat
         /\ Longer(now, now') /\ (Reading => Saved(now, now'))
<1>. DEFINE n == Len(log) + 1
            event == [kind |-> "publish", size |-> size]
            held == stream \cup {n}
            kept == Trimmed(Append(log, event), held)
            gone == held \ kept
<1>1. /\ log' = Append(log, event) /\ stream' = kept /\ outbound' = Append(outbound, n)
      /\ floor' = IF gone = {} THEN floor ELSE Max(gone)
      /\ pagingLoss' = IF Reading THEN pagingLoss \cup gone ELSE pagingLoss
  BY DEF Publish
<1>2. event \in Entries /\ size \in 1..HistoryBytes
  BY ReplayAssumption DEF Entries
<1>3. /\ log \in Seq(Entries) /\ Len(log) \in Nat /\ log' \in Seq(Entries) /\ Len(log') = n
      /\ stream \in SUBSET (1..Len(log)) /\ floor \in 0..Len(log)
  BY <1>1, <1>2 DEF ServerTypes
<1>4. (\A m \in 1..Len(log) : log'[m] = log[m]) /\ log'[n] = event
  BY <1>1, <1>2, <1>3
<1>5. held \in SUBSET (1..n) /\ n \in held
  <2>1. (\A m \in 1..Len(log) : m \in 1..n) /\ n \in 1..n
    BY <1>3
  <2>2. \A m \in stream : m \in 1..Len(log)
    BY <1>3
  <2>. HIDE DEF n
  <2>. QED BY <2>1, <2>2
<1>6. /\ kept \in SUBSET held /\ n \in kept
      /\ Cardinality(kept) <= HistorySize /\ Bytes(log', kept) <= HistoryBytes
      /\ \A a \in kept, b \in held : b \notin kept => b < a
  <2>. HIDE DEF held, event
  <2>1. log'[n].size \in 1..HistoryBytes
    BY <1>2, <1>4 DEF event
  <2>2. kept = Trimmed(log', held)
    BY <1>1
  <2>3. held \in SUBSET (1..Len(log')) /\ Len(log') \in held /\ log'[Len(log')].size \in 1..HistoryBytes
    BY <1>3, <1>5, <2>1
  <2>. HIDE DEF kept
  <2>. QED BY <1>3, <2>2, <2>3, TrimmedKeeps
<1>. HIDE DEF kept
<1>7. gone \in SUBSET (1..Len(log)) /\ gone \subseteq stream
  BY <1>3, <1>6
<1>8. /\ floor' \in 0..Len(log) /\ floor <= floor'
      /\ \A m \in gone : m <= floor'
      /\ \A m \in kept : floor' < m
  <2>1. CASE gone = {}
    <3>1. floor < n
      BY <1>3
    <3>. QED BY <1>1, <1>3, <1>6, <2>1, <3>1 DEF HistoryWhole
  <2>2. CASE gone # {}
    <3>1. gone \in SUBSET (0..Len(log))
      BY <1>3, <1>7
    <3>2. Max(gone) \in gone /\ \A m \in gone : m <= Max(gone)
      <4>. HIDE DEF gone
      <4>. QED BY <1>3, <2>2, <3>1, Largest
    <3>3. floor' = Max(gone)
      BY <1>1, <2>2
    <3>4. Max(gone) \in stream /\ Max(gone) \in held /\ Max(gone) \notin kept
      BY <1>7, <3>2
    <3>. HIDE DEF gone
    <3>5. \A m \in kept : floor' < m
      BY <1>6, <3>3, <3>4
    <3>6. floor < floor' /\ floor' \in 0..Len(log)
      <4>1. floor' \in stream
        BY <3>3, <3>4
      <4>2. floor' \in 1..Len(log)
        BY <1>3, <4>1
      <4>. QED BY <1>3, <4>1, <4>2 DEF HistoryWhole
    <3>. QED BY <1>3, <3>2, <3>3, <3>5, <3>6
  <2>. QED BY <2>1, <2>2
<1>9. \A m \in 1..Len(log) : Published(log', m) = Published(log, m)
  BY <1>4 DEF Published
<1>10. ServerTypes'
  <2>1. outbound' \in Seq(Nat)
    BY <1>1, <1>3 DEF ServerTypes
  <2>2. stream' \in SUBSET (1..Len(log')) /\ floor' \in 0..Len(log')
    BY <1>1, <1>3, <1>5, <1>6, <1>8
  <2>. QED BY <1>3, <2>1, <2>2 DEF ServerTypes
<1>11. Unsent(log', outbound')
  BY <1>1, <1>3 DEF Unsent, ServerTypes
<1>12. HistoryWhole'
  <2>1. ASSUME NEW m \in Nat, floor' < m, m <= n, Published(log', m)
        PROVE  m \in kept
    <3>1. floor < m
      <4>1. floor \in Nat /\ floor' \in Nat /\ floor <= floor'
        BY <1>3, <1>8
      <4>. QED BY <2>1, <4>1
    <3>2. m \in held
      <4>1. CASE m = n
        BY <4>1
      <4>2. CASE m # n
        <5>1. m \in (floor + 1)..Len(log) /\ m \in 1..Len(log)
          BY <1>3, <2>1, <3>1, <4>2
        <5>. QED BY <1>9, <2>1, <5>1 DEF HistoryWhole
      <4>. QED BY <4>1, <4>2
    <3>3. m \notin gone
      <4>. HIDE DEF gone
      <4>. QED BY <1>3, <1>8, <2>1
    <3>. QED BY <3>2, <3>3
  <2>2. \A m \in (floor' + 1)..Len(log') : m \in Nat /\ floor' < m /\ m <= n
    <3>1. floor' \in Nat /\ Len(log') = n /\ n \in Nat
      BY <1>3, <1>8
    <3>. HIDE DEF n
    <3>. QED BY <3>1, Between
  <2>. QED BY <1>1, <1>3, <1>6, <1>8, <2>1, <2>2 DEF HistoryWhole
<1>13. pagingLoss \subseteq pagingLoss' /\ pagingLoss' \in SUBSET Nat
       /\ (Reading => gone \subseteq pagingLoss')
  <2>1. gone \subseteq Nat
    BY <1>3, <1>7
  <2>. HIDE DEF gone
  <2>. QED BY <1>1, <2>1
<1>14. Longer(now, now')
  <2>1. Len(log) <= Len(log') /\ floor \in Nat /\ floor' \in Nat
    BY <1>3, <1>8
  <2>. QED BY <1>3, <1>8, <1>9, <1>13, <2>1 DEF Longer, now
<1>15. ASSUME Reading PROVE Saved(now, now')
  <2>1. stream \subseteq stream' \cup pagingLoss'
    BY <1>1, <1>13, <1>15
  <2>2. \A m \in (Len(log) + 1)..Len(log') : m \in stream'
    BY <1>1, <1>3, <1>6
  <2>. QED BY <2>1, <2>2 DEF Saved, now
<1>. QED BY <1>10, <1>11, <1>12, <1>13, <1>14, <1>15

-----------------------------------------------------------------------------
(***************************************************************************)
(* The end of a catch-up.                                                  *)
(***************************************************************************)
\* The three parts of what Finish emits.
LEMMA Joint ==
  ASSUME NEW T, NEW a \in Seq(T), NEW b \in Seq(T), NEW c \in Seq(T)
  PROVE  LET s == a \o b \o c
         IN  /\ s \in Seq(T) /\ Len(s) = Len(a) + Len(b) + Len(c)
             /\ \A i \in 1..Len(a) : s[i] = a[i]
             /\ \A i \in 1..Len(b) : s[Len(a) + i] = b[i]
             /\ \A i \in 1..Len(c) : s[Len(a) + Len(b) + i] = c[i]
OBVIOUS

\* What Finish does: the replay first, then the deltas held back; what is lost or skipped is told.
LEMMA FinishEffect ==
  ASSUME MemberTypes, NEW r \in Rooms, NEW state \in {"joined", "down"}, NEW b \in Nat,
         r.sequence <= b, \A i \in 1..Len(r.buffer) : r.buffer[i] <= b, Finish(state, r)
  PROVE  /\ room' = [r EXCEPT !.state = state, !.last = room'.last, !.buffer = <<>>, !.missed = <<>>,
                              !.base = IF r.base = None THEN r.sequence ELSE r.base]
         /\ room' \in Rooms /\ r.sequence <= room'.last /\ room'.last <= b
         /\ emitted' \in Seq(Items) /\ Len(emitted) <= Len(emitted')
         /\ \A i \in 1..Len(emitted) : emitted'[i] = emitted[i]
         /\ \A i \in (Len(emitted) + 1)..Len(emitted') :
              /\ emitted'[i].n <= room'.last
              /\ emitted'[i].how = "replay" => \E m \in 1..Len(r.missed) : emitted'[i].n = r.missed[m]
         /\ Rising(r.missed) => \A i, j \in (Len(emitted) + 1)..Len(emitted') :
              i < j /\ emitted'[j].how = "replay" => emitted'[i].n < emitted'[j].n
         /\ reported \subseteq reported' /\ reported' \in SUBSET Nat
         /\ \A m \in 1..Len(r.missed) : r.missed[m] <= r.sequence /\ Published(log, r.missed[m]) =>
              \E i \in 1..Len(emitted') : emitted'[i].n = r.missed[m]
         /\ r.sequence > 0 => \A n \in (r.sequence + 1)..room'.last : Published(log, n) =>
              n \in reported' \/ \E i \in 1..Len(emitted') : emitted'[i].n = n
         /\ r.after \in Nat /\ r.truncated /\ r.after + 1 < r.sequence
              /\ (\A m \in 1..Len(r.missed) : r.after + 1 < r.missed[m])
              => \A n \in (r.after + 1)..r.sequence :
                   (\A m \in 1..Len(r.missed) : n < r.missed[m]) => n \in reported'
<1>. DEFINE K == {i \in DOMAIN r.missed : r.missed[i] <= r.sequence}
            L == {i \in DOMAIN r.buffer :
                    \A n \in {r.sequence} \cup {r.buffer[j] : j \in 1..(i - 1)} : r.buffer[i] > n}
            kept == Picked(r.missed, K)
            late == Picked(r.buffer, L)
            told == LostRange(r.after, r.sequence, r.cursor, r.truncated, kept)
            seen == Handled(r.sequence, late)
            replay == Messages(kept, "replay")
            live == Messages(late, "live")
<1>1. /\ r.sequence \in Nat /\ r.after \in Nat \cup {None} /\ r.base \in Nat \cup {None}
      /\ r.missed \in Seq(Nat) /\ r.buffer \in Seq(Nat) /\ r.last \in Nat
  BY DEF Rooms
<1>2. /\ room' = [r EXCEPT !.state = state, !.last = seen.last, !.buffer = <<>>, !.missed = <<>>,
                           !.base = IF r.base = None THEN r.sequence ELSE r.base]
      /\ emitted' = emitted \o replay \o seen.out
      /\ reported' = reported \cup told \cup seen.told
  BY DEF Finish, Rooms
<1>3. K \in SUBSET (1..Len(r.missed)) /\ \A i \in K : r.missed[i] <= r.sequence
  BY <1>1
<1>4. \A i \in 1..Len(r.missed) : r.missed[i] <= r.sequence => i \in K
  BY <1>1
<1>5. L \in SUBSET (1..Len(r.buffer))
  BY <1>1
<1>. HIDE DEF K, L
<1>6. /\ kept \in Seq(Nat)
      /\ \A k \in 1..Len(kept) : \E i \in K : kept[k] = r.missed[i]
      /\ \A i \in K : \E k \in 1..Len(kept) : kept[k] = r.missed[i]
      /\ \A k, l \in 1..Len(kept) : k < l =>
           \E i, j \in K : i < j /\ kept[k] = r.missed[i] /\ kept[l] = r.missed[j]
  <2>1. kept \in Seq(Nat) /\ Selects(kept, r.missed, K)
    BY <1>1, <1>3, PickedKeeps
  <2>. HIDE DEF kept
  <2>. QED BY <2>1 DEF Selects
<1>7. late \in Seq(Nat) /\ \A k \in 1..Len(late) : \E i \in L : late[k] = r.buffer[i]
  <2>1. late \in Seq(Nat) /\ Selects(late, r.buffer, L)
    BY <1>1, <1>5, PickedKeeps
  <2>. HIDE DEF late
  <2>. QED BY <2>1 DEF Selects
<1>. HIDE DEF kept, late
<1>8. \A k \in 1..Len(late) : late[k] <= b
  <2>. SUFFICES ASSUME NEW k \in 1..Len(late) PROVE late[k] <= b
    OBVIOUS
  <2>1. PICK i \in L : late[k] = r.buffer[i]
    BY <1>7
  <2>. QED BY <1>5, <2>1
<1>9. \A k \in 1..Len(kept) : kept[k] <= r.sequence /\ \E m \in 1..Len(r.missed) : kept[k] = r.missed[m]
  <2>. SUFFICES ASSUME NEW k \in 1..Len(kept)
                PROVE  kept[k] <= r.sequence /\ \E m \in 1..Len(r.missed) : kept[k] = r.missed[m]
    OBVIOUS
  <2>1. PICK i \in K : kept[k] = r.missed[i]
    BY <1>6
  <2>. QED BY <1>3, <2>1
<1>10. /\ seen.last \in Nat /\ r.sequence <= seen.last /\ seen.last <= b
       /\ \A i \in 1..Len(late) : late[i] <= seen.last
       /\ seen.told \in SUBSET Nat /\ seen.out = live
       /\ r.sequence > 0 => \A m \in (r.sequence + 1)..seen.last :
            m \in seen.told \/ \E i \in 1..Len(late) : late[i] = m
  BY <1>1, <1>7, <1>8, HandledTells
<1>. HIDE DEF seen
<1>11. /\ replay \in Seq(Items)
       /\ \A k \in 1..Len(replay) : replay[k].how = "replay" /\ \E i \in 1..Len(kept) : replay[k].n = kept[i]
       /\ \A i \in 1..Len(kept) : Published(log, kept[i]) => \E k \in 1..Len(replay) : replay[k].n = kept[i]
       /\ Rising(kept) => \A k, l \in 1..Len(replay) : k < l => replay[k].n < replay[l].n
  BY <1>6, MessagesCarry
<1>12. /\ live \in Seq(Items)
       /\ \A k \in 1..Len(live) : live[k].how = "live" /\ \E i \in 1..Len(late) : live[k].n = late[i]
       /\ \A i \in 1..Len(late) : Published(log, late[i]) => \E k \in 1..Len(live) : live[k].n = late[i]
  BY <1>7, MessagesCarry
<1>. HIDE DEF replay, live, told
<1>13. emitted \in Seq(Items) /\ reported \in SUBSET Nat
  BY DEF MemberTypes
<1>14. /\ emitted' \in Seq(Items) /\ Len(emitted') = Len(emitted) + Len(replay) + Len(live)
       /\ \A i \in 1..Len(emitted) : emitted'[i] = emitted[i]
       /\ \A i \in 1..Len(replay) : emitted'[Len(emitted) + i] = replay[i]
       /\ \A i \in 1..Len(live) : emitted'[Len(emitted) + Len(replay) + i] = live[i]
  <2>1. emitted' = emitted \o replay \o live
    BY <1>2, <1>10
  <2>2. emitted \in Seq(Items) /\ replay \in Seq(Items) /\ live \in Seq(Items)
    BY <1>11, <1>12, <1>13
  <2>. QED BY <2>1, <2>2, Joint
<1>15. {Len(emitted), Len(replay), Len(live)} \subseteq Nat
  BY <1>11, <1>12, <1>13
<1>16. ASSUME NEW i \in (Len(emitted) + 1)..Len(emitted')
       PROVE  \/ \E k \in 1..Len(replay) : i = Len(emitted) + k /\ emitted'[i] = replay[k]
              \/ \E k \in 1..Len(live) : i = Len(emitted) + Len(replay) + k /\ emitted'[i] = live[k]
  <2>1. CASE i <= Len(emitted) + Len(replay)
    <3>1. i - Len(emitted) \in 1..Len(replay) /\ i = Len(emitted) + (i - Len(emitted))
      BY <1>14, <1>15, <2>1
    <3>. QED BY <1>14, <3>1
  <2>2. CASE i > Len(emitted) + Len(replay)
    <3>. DEFINE k == i - Len(emitted) - Len(replay)
    <3>1. k \in 1..Len(live) /\ i = Len(emitted) + Len(replay) + k
      BY <1>14, <1>15, <2>2
    <3>. QED BY <1>14, <3>1
  <2>. QED BY <1>14, <1>15, <2>1, <2>2
<1>17. room' \in Rooms /\ room'.last = seen.last
  <2>1. seen.last \in Nat /\ (IF r.base = None THEN r.sequence ELSE r.base) \in Nat \cup {None}
        /\ <<>> \in Seq(Nat) /\ state \in {"new", "joining", "catching", "joined", "down", "closed"}
    BY <1>1, <1>10
  <2>2. room' = [r EXCEPT !.state = state, !.last = seen.last, !.buffer = <<>>, !.missed = <<>>,
                          !.base = IF r.base = None THEN r.sequence ELSE r.base]
    BY <1>2
  <2>. QED BY <2>1, <2>2 DEF Rooms
<1>18. told \subseteq Nat
  <2>1. r.cursor \in Nat /\ (r.after + 1 \in Nat \/ r.after = None) /\ (kept # <<>> => Head(kept) \in Nat)
    BY <1>1, <1>6 DEF Rooms
  <2>. QED BY <1>1, <2>1 DEF told, LostRange, None
<1>19. ASSUME NEW i \in (Len(emitted) + 1)..Len(emitted')
       PROVE  /\ emitted'[i].n <= room'.last
              /\ emitted'[i].how = "replay" => \E m \in 1..Len(r.missed) : emitted'[i].n = r.missed[m]
  <2>1. ASSUME NEW k \in 1..Len(replay), emitted'[i] = replay[k]
        PROVE  emitted'[i].n <= room'.last /\ \E m \in 1..Len(r.missed) : emitted'[i].n = r.missed[m]
    <3>1. PICK x \in 1..Len(kept) : replay[k].n = kept[x]
      BY <1>11
    <3>2. kept[x] \in Nat /\ kept[x] <= r.sequence
      <4>1. kept \in Seq(Nat)
        BY <1>6
      <4>. QED BY <1>9, <4>1
    <3>3. emitted'[i].n = kept[x] /\ \E m \in 1..Len(r.missed) : kept[x] = r.missed[m]
      BY <1>9, <2>1, <3>1
    <3>4. kept[x] <= room'.last
      BY <1>1, <1>10, <1>17, <3>2
    <3>. QED BY <3>3, <3>4
  <2>2. ASSUME NEW k \in 1..Len(live), emitted'[i] = live[k]
        PROVE  emitted'[i].n <= room'.last /\ emitted'[i].how # "replay"
    BY <1>10, <1>12, <1>17, <2>2
  <2>. QED BY <1>16, <2>1, <2>2
<1>20. ASSUME Rising(r.missed), NEW i \in (Len(emitted) + 1)..Len(emitted'),
              NEW j \in (Len(emitted) + 1)..Len(emitted'), i < j, emitted'[j].how = "replay"
       PROVE  emitted'[i].n < emitted'[j].n
  <2>1. Rising(kept)
    <3>. SUFFICES ASSUME NEW k \in 1..Len(kept), NEW l \in 1..Len(kept), k < l
                  PROVE  kept[k] < kept[l]
      BY DEF Rising
    <3>1. PICK x \in K, y \in K : x < y /\ kept[k] = r.missed[x] /\ kept[l] = r.missed[y]
      BY <1>6
    <3>. QED BY <1>3, <1>20, <3>1 DEF Rising
  <2>2. PICK l \in 1..Len(replay) : j = Len(emitted) + l /\ emitted'[j] = replay[l]
    BY <1>12, <1>16, <1>20
  <2>3. PICK k \in 1..Len(replay) : i = Len(emitted) + k /\ emitted'[i] = replay[k]
    <3>1. i < Len(emitted) + Len(replay)
      BY <1>14, <1>15, <1>20, <2>2
    <3>. QED BY <1>15, <1>16, <3>1
  <2>4. k < l
    BY <1>15, <1>20, <2>2, <2>3
  <2>. QED BY <1>11, <2>1, <2>2, <2>3, <2>4
<1>21. ASSUME NEW m \in 1..Len(r.missed), r.missed[m] <= r.sequence, Published(log, r.missed[m])
       PROVE  \E i \in 1..Len(emitted') : emitted'[i].n = r.missed[m]
  <2>1. PICK x \in 1..Len(kept) : kept[x] = r.missed[m]
    BY <1>4, <1>6, <1>21
  <2>2. PICK k \in 1..Len(replay) : replay[k].n = kept[x]
    BY <1>11, <1>21, <2>1
  <2>3. Len(emitted) + k \in 1..Len(emitted')
    BY <1>14, <1>15
  <2>. QED BY <1>14, <2>1, <2>2, <2>3
<1>22. ASSUME r.sequence > 0, NEW n \in Nat, r.sequence < n, n <= seen.last, Published(log, n), n \notin reported'
       PROVE  \E i \in 1..Len(emitted') : emitted'[i].n = n
  <2>1. PICK x \in 1..Len(late) : late[x] = n
    <3>1. n \in (r.sequence + 1)..seen.last
      BY <1>1, <1>10, <1>22
    <3>. QED BY <1>2, <1>10, <1>22, <3>1
  <2>2. PICK k \in 1..Len(live) : live[k].n = n
    BY <1>12, <1>22, <2>1
  <2>3. Len(emitted) + Len(replay) + k \in 1..Len(emitted')
    BY <1>14, <1>15
  <2>. QED BY <1>14, <2>2, <2>3
<1>23. \A n \in (r.sequence + 1)..room'.last : n \in Nat /\ r.sequence < n /\ n <= seen.last
  BY <1>1, <1>10, <1>17, Between
<1>24. ASSUME r.after \in Nat, r.truncated, r.after + 1 < r.sequence,
              \A m \in 1..Len(r.missed) : r.after + 1 < r.missed[m],
              NEW n \in (r.after + 1)..r.sequence, \A m \in 1..Len(r.missed) : n < r.missed[m]
       PROVE  n \in told
  <2>1. CASE kept = <<>>
    BY <1>24, <2>1 DEF told, LostRange
  <2>2. CASE kept # <<>>
    <3>1. 1 \in 1..Len(kept) /\ Head(kept) = kept[1] /\ kept[1] \in Nat
      BY <1>6, <2>2
    <3>2. PICK m \in 1..Len(r.missed) : kept[1] = r.missed[m]
      BY <1>9, <3>1
    <3>3. r.after + 1 < Head(kept) /\ n < Head(kept)
      BY <1>24, <3>1, <3>2
    <3>4. told = (r.after + 1)..Head(kept)
      BY <1>24, <2>2, <3>3 DEF told, LostRange
    <3>. QED BY <1>1, <1>24, <3>1, <3>3, <3>4
  <2>. QED BY <2>1, <2>2
<1>25. reported \subseteq reported' /\ reported' \in SUBSET Nat /\ told \subseteq reported'
  BY <1>2, <1>10, <1>13, <1>18
<1>26. room' = [r EXCEPT !.state = state, !.last = room'.last, !.buffer = <<>>, !.missed = <<>>,
                         !.base = IF r.base = None THEN r.sequence ELSE r.base]
  BY <1>2, <1>17
<1>27. Len(emitted) <= Len(emitted')
  BY <1>14, <1>15
<1>. QED BY <1>10, <1>14, <1>17, <1>19, <1>20, <1>21, <1>22, <1>23, <1>24, <1>25, <1>26, <1>27

\* The app is handed numbered items.
LEMMA ItemNumbers ==
  ASSUME NEW s \in Seq(Items)
  PROVE  Len(s) \in Nat /\ \A i \in 1..Len(s) : s[i].n \in Nat
<1>1. \A i \in 1..Len(s) : s[i] \in Items
  OBVIOUS
<1>2. \A item \in Items : item.n \in Nat
  BY DEF Items
<1>. QED BY <1>1, <1>2

\* A catch-up that ends leaves nothing behind: the range it read is emitted, told or known as lost.
LEMMA FinishKeeps ==
  ASSUME ReplayInv, NEW r \in Rooms, NEW state \in {"joined", "down"}, Finish(state, r),
         UNCHANGED serverVars, pagingLoss \subseteq pagingLoss',
         r.last = room.last, r.base = room.base, Snapshot(now, r, r.sequence),
         \A i \in 1..Len(r.buffer) : r.buffer[i] <= Len(log),
         \/ r.missed = <<>> /\ (r.base = None \/ r.last = r.sequence)
         \/ /\ r.base # None /\ r.after = r.last
            /\ Progress(now, r.missed, r.after, r.cursor, r.truncated)
            /\ \A n \in Nat : r.cursor < n /\ n <= r.sequence => n \in pagingLoss'
  PROVE  /\ room' \in Rooms /\ room'.state = state /\ RoomOK(now', room')
         /\ emitted' \in Seq(Items) /\ reported' \in SUBSET Nat
         /\ AppOK' /\ Accounted' /\ ReplayIsNew'
<1>. DEFINE Out(n) == \E i \in 1..Len(emitted') : emitted'[i].n = n
<1>1. /\ MemberTypes /\ ServerTypes /\ HistoryWhole /\ AppOK /\ Accounted /\ ReplayIsNew /\ RoomOK(now, room)
      /\ log' = log /\ now'.log = log /\ now.log = log /\ now.stream = stream /\ now.floor = floor
      /\ now.loss = pagingLoss
  BY DEF ReplayInv, serverVars, now
<1>2. /\ Len(log) \in Nat /\ floor \in Nat /\ emitted \in Seq(Items) /\ Len(emitted) \in Nat
      /\ room \in Rooms
  BY <1>1 DEF ServerTypes, MemberTypes
<1>3. /\ r.sequence \in Nat /\ r.last \in Nat /\ r.cursor \in Nat /\ r.missed \in Seq(Nat)
      /\ r.base \in Nat \cup {None} /\ None \notin Nat
  BY DEF Rooms, None
<1>4. 0 < r.sequence /\ r.sequence <= Len(log) /\ r.last <= r.sequence
      /\ (Published(log, r.sequence) => r.sequence \in stream \cup pagingLoss)
  BY <1>1 DEF Snapshot
<1>5. /\ room' = [r EXCEPT !.state = state, !.last = room'.last, !.buffer = <<>>, !.missed = <<>>,
                           !.base = IF r.base = None THEN r.sequence ELSE r.base]
      /\ room' \in Rooms /\ r.sequence <= room'.last /\ room'.last <= Len(log)
      /\ emitted' \in Seq(Items) /\ Len(emitted) <= Len(emitted')
      /\ \A i \in 1..Len(emitted) : emitted'[i] = emitted[i]
      /\ \A i \in (Len(emitted) + 1)..Len(emitted') :
           /\ emitted'[i].n <= room'.last
           /\ emitted'[i].how = "replay" => \E m \in 1..Len(r.missed) : emitted'[i].n = r.missed[m]
      /\ Rising(r.missed) => \A i, j \in (Len(emitted) + 1)..Len(emitted') :
           i < j /\ emitted'[j].how = "replay" => emitted'[i].n < emitted'[j].n
      /\ reported \subseteq reported' /\ reported' \in SUBSET Nat
      /\ \A m \in 1..Len(r.missed) : r.missed[m] <= r.sequence /\ Published(log, r.missed[m]) => Out(r.missed[m])
      /\ r.sequence > 0 => \A n \in (r.sequence + 1)..room'.last : Published(log, n) =>
           n \in reported' \/ Out(n)
      /\ r.after \in Nat /\ r.truncated /\ r.after + 1 < r.sequence
           /\ (\A m \in 1..Len(r.missed) : r.after + 1 < r.missed[m])
           => \A n \in (r.after + 1)..r.sequence :
                (\A m \in 1..Len(r.missed) : n < r.missed[m]) => n \in reported'
  BY <1>1, <1>2, <1>4, FinishEffect
<1>6. /\ room'.state = state /\ room'.buffer = <<>> /\ room'.last \in Nat
      /\ room'.base = IF r.base = None THEN r.sequence ELSE r.base
  <2>1. /\ room' = [r EXCEPT !.state = state, !.last = room'.last, !.buffer = <<>>, !.missed = <<>>,
                             !.base = IF r.base = None THEN r.sequence ELSE r.base]
        /\ room' \in Rooms
    BY <1>5
  <2>2. room'.last \in Nat
    BY <2>1 DEF Rooms
  <2>. QED BY <2>1, <2>2 DEF Rooms
<1>7. Len(emitted') \in Nat /\ \A i \in 1..Len(emitted') : emitted'[i].n \in Nat
  <2>1. emitted' \in Seq(Items)
    BY <1>5
  <2>. QED BY <2>1, ItemNumbers
<1>8. Rising(r.missed) /\ \A m \in 1..Len(r.missed) : r.missed[m] \in Nat /\ r.last < r.missed[m]
  <2>1. CASE r.missed = <<>>
    BY <2>1 DEF Rising
  <2>2. CASE r.after = r.last /\ Progress(now, r.missed, r.after, r.cursor, r.truncated)
    BY <1>3, <2>2 DEF Progress, Extract
  <2>. QED BY <2>1, <2>2
<1>9. RoomOK(now', room')
  <2>1. room'.last <= Len(now'.log) /\ 0 < room'.last /\ room'.base # None
    BY <1>1, <1>3, <1>4, <1>5, <1>6
  <2>2. \A i \in 1..Len(room'.buffer) : room'.buffer[i] <= Len(now'.log)
    BY <1>6
  <2>. QED BY <1>6, <2>1, <2>2 DEF RoomOK
<1>10. AppOK'
  <2>1. ASSUME NEW i \in 1..Len(emitted) PROVE emitted'[i].n <= room'.last
    <3>1. emitted[i].n <= r.last /\ emitted'[i].n = emitted[i].n
      BY <1>1, <1>5 DEF AppOK
    <3>2. emitted[i].n \in Nat
      BY <1>2, ItemNumbers
    <3>. QED BY <1>3, <1>4, <1>5, <1>6, <3>1, <3>2
  <2>2. \A i \in 1..Len(emitted') : i \in 1..Len(emitted) \/ i \in (Len(emitted) + 1)..Len(emitted')
    BY <1>2, <1>7
  <2>3. room'.base # None
    BY <1>3, <1>6
  <2>. QED BY <1>5, <2>1, <2>2, <2>3 DEF AppOK
<1>11. ReplayIsNew'
  <2>. SUFFICES ASSUME NEW i \in 1..Len(emitted'), emitted'[i].how = "replay", NEW j \in 1..(i - 1)
                PROVE  emitted'[j].n < emitted'[i].n
    BY DEF ReplayIsNew
  <2>0. i \in Nat /\ j \in Nat /\ j < i /\ j \in 1..Len(emitted')
    BY <1>7
  <2>1. CASE i <= Len(emitted)
    <3>1. i \in 1..Len(emitted) /\ j \in 1..Len(emitted)
      BY <1>2, <2>0, <2>1
    <3>2. emitted'[i] = emitted[i] /\ emitted'[j] = emitted[j]
      BY <1>5, <3>1
    <3>. QED BY <1>1, <3>1, <3>2 DEF ReplayIsNew
  <2>2. CASE i > Len(emitted)
    <3>1. i \in (Len(emitted) + 1)..Len(emitted')
      BY <1>2, <1>7, <2>0, <2>2
    <3>2. CASE j <= Len(emitted)
      <4>1. j \in 1..Len(emitted)
        BY <1>2, <2>0, <3>2
      <4>2. emitted'[j].n <= r.last
        BY <1>1, <1>5, <4>1 DEF AppOK
      <4>3. PICK m \in 1..Len(r.missed) : emitted'[i].n = r.missed[m]
        BY <1>5, <3>1
      <4>4. emitted'[i].n \in Nat /\ emitted'[j].n \in Nat /\ r.last < emitted'[i].n
        BY <1>7, <1>8, <2>0, <4>3
      <4>. QED BY <1>3, <4>2, <4>4
    <3>3. CASE j > Len(emitted)
      <4>1. j \in (Len(emitted) + 1)..Len(emitted')
        BY <1>2, <1>7, <2>0, <3>3
      <4>. QED BY <1>5, <1>8, <2>0, <3>1, <4>1
    <3>. QED BY <1>2, <2>0, <3>2, <3>3
  <2>. QED BY <1>2, <2>0, <2>1, <2>2
<1>12. Accounted'
  <2>. SUFFICES ASSUME NEW n \in (room'.base + 1)..room'.last, Published(log, n)
                PROVE  Out(n) \/ n \in reported' \/ n \in pagingLoss'
    BY <1>1 DEF Accounted, Emitted
  <2>1. room'.base \in Nat /\ n \in Nat /\ room'.base < n /\ n <= room'.last
    <3>1. room'.base \in Nat
      BY <1>3, <1>6
    <3>. HIDE DEF Out
    <3>. QED BY <1>6, <3>1, Between
  <2>2. CASE r.sequence < n
    <3>1. n \in (r.sequence + 1)..room'.last
      BY <1>3, <1>6, <2>1, <2>2
    <3>. QED BY <1>4, <1>5, <3>1
  <2>3. CASE n <= r.last
    <3>1. r.base # None
      <4>1. room.base = None => r.last = 0
        BY <1>1 DEF RoomOK
      <4>. QED BY <2>1, <2>3, <4>1
    <3>2. n \in (room.base + 1)..room.last /\ room.base # None
      BY <1>3, <1>6, <2>1, <2>3, <3>1
    <3>3. n \in Emitted \cup reported \cup pagingLoss
      BY <1>1, <3>2 DEF Accounted
    <3>4. n \in Emitted => Out(n)
      <4>1. n \in Emitted => \E i \in 1..Len(emitted) : emitted[i].n = n
        BY DEF Emitted
      <4>2. \A i \in 1..Len(emitted) : i \in 1..Len(emitted') /\ emitted'[i] = emitted[i]
        BY <1>2, <1>5, <1>7
      <4>. QED BY <4>1, <4>2
    <3>. QED BY <1>5, <3>3, <3>4
  <2>4. CASE r.last < n /\ n <= r.sequence
    <3>1. /\ r.base # None /\ r.after = r.last
          /\ Progress(now, r.missed, r.after, r.cursor, r.truncated)
          /\ \A m \in Nat : r.cursor < m /\ m <= r.sequence => m \in pagingLoss'
      <4>1. ~(r.base = None) /\ ~(r.last = r.sequence)
        BY <1>3, <1>6, <2>1, <2>4
      <4>. QED BY <4>1
    <3>2. CASE r.cursor < n
      BY <2>1, <2>4, <3>1, <3>2
    <3>3. CASE n <= r.cursor /\ n \in ToSet(r.missed) \cup pagingLoss
      <4>1. n \in ToSet(r.missed) => \E m \in 1..Len(r.missed) : r.missed[m] = n
        <5>1. DOMAIN r.missed = 1..Len(r.missed)
          BY <1>3
        <5>. QED BY <5>1, Zenon DEF ToSet
      <4>2. n \in ToSet(r.missed) => Out(n)
        BY <1>5, <2>4, <4>1
      <4>. QED BY <3>3, <4>2
    <3>4. CASE r.truncated /\ \A m \in 1..Len(r.missed) : n < r.missed[m]
      <4>1. r.after < floor /\ \A m \in 1..Len(r.missed) : r.after + 1 < r.missed[m]
        BY <1>1, <3>1, <3>4 DEF Progress
      <4>2. CASE r.after + 1 < r.sequence
        <5>1. n \in (r.after + 1)..r.sequence
          BY <1>3, <2>1, <2>4, <3>1
        <5>. QED BY <1>3, <1>5, <3>1, <3>4, <4>1, <4>2, <5>1
      <4>3. CASE ~(r.after + 1 < r.sequence)
        <5>1. n = r.sequence /\ n <= floor
          BY <1>2, <1>3, <2>1, <2>4, <3>1, <4>1, <4>3
        <5>2. n \notin stream
          <6>1. n \in stream => floor < n
            BY <1>1 DEF HistoryWhole
          <6>. QED BY <1>2, <2>1, <5>1, <6>1
        <5>. QED BY <1>4, <5>1, <5>2
      <4>. QED BY <4>2, <4>3
    <3>5. n <= r.cursor => n \in (r.after + 1)..r.cursor
      BY <1>3, <2>1, <2>4, <3>1
    <3>6. n <= r.cursor => \/ n \in ToSet(r.missed) \cup pagingLoss
                           \/ r.truncated /\ \A m \in 1..Len(r.missed) : n < r.missed[m]
      BY <1>1, <3>1, <3>5 DEF Progress, Covers
    <3>. QED BY <1>3, <2>1, <3>2, <3>3, <3>4, <3>6
  <2>. QED BY <1>3, <2>1, <2>2, <2>3, <2>4
<1>. QED BY <1>5, <1>6, <1>9, <1>10, <1>11, <1>12

-----------------------------------------------------------------------------
(***************************************************************************)
(* The socket.                                                             *)
(***************************************************************************)
\* A frame sent is the last on the wire; it may be an answer if no other is under way.
LEMMA Sent ==
  ASSUME NEW f \in Frames, wire \in Seq(Frames), wire' = Append(wire, f)
  PROVE  /\ wire' \in Seq(Frames)
         /\ \A i \in 1..Len(wire') : wire'[i] = f \/ (i \in 1..Len(wire) /\ wire'[i] = wire[i])
         /\ f.type = "delta" => \A i \in Answers' : i \in Answers
         /\ Answers = {} => \A i, j \in Answers' : i = j
<1>1. /\ wire' \in Seq(Frames) /\ Len(wire) \in Nat /\ Len(wire') = Len(wire) + 1
      /\ \A i \in 1..Len(wire) : wire'[i] = wire[i]
      /\ wire'[Len(wire')] = f
  OBVIOUS
<1>2. ASSUME NEW i \in 1..Len(wire')
      PROVE  (i = Len(wire') /\ wire'[i] = f) \/ (i \in 1..Len(wire) /\ wire'[i] = wire[i])
  BY <1>1
<1>3. ASSUME NEW i \in Answers' PROVE i \in Answers \/ (i = Len(wire') /\ f.type # "delta")
  BY <1>2 DEF Answers
<1>. QED BY <1>1, <1>2, <1>3

\* The frame at the head of the wire is taken; if it is the answer, only deltas are left.
LEMMA Received ==
  ASSUME wire \in Seq(Frames), wire # <<>>, wire' = Tail(wire), \A i, j \in Answers : i = j
  PROVE  /\ wire' \in Seq(Frames) /\ Head(wire) \in Frames /\ 1 \in 1..Len(wire) /\ wire[1] = Head(wire)
         /\ \A i \in 1..Len(wire') : i + 1 \in 1..Len(wire) /\ wire'[i] = wire[i + 1]
         /\ \A i, j \in Answers' : i = j
         /\ Answers = {} => Answers' = {}
         /\ Head(wire).type # "delta" => \A i \in 1..Len(wire') : wire'[i].type = "delta"
<1>1. /\ wire' \in Seq(Frames) /\ Len(wire) \in Nat /\ Len(wire) > 0 /\ Len(wire') = Len(wire) - 1
      /\ \A i \in 1..Len(wire') : wire'[i] = wire[i + 1]
      /\ Head(wire) = wire[1] /\ Head(wire) \in Frames
  OBVIOUS
<1>2. \A i \in 1..Len(wire') : i \in Nat /\ i # 0 /\ i + 1 \in 1..Len(wire)
  BY <1>1
<1>3. ASSUME NEW i \in Answers' PROVE i \in Nat /\ i + 1 \in Answers
  BY <1>1, <1>2 DEF Answers
<1>4. ASSUME NEW i \in Answers', NEW j \in Answers' PROVE i = j
  BY <1>3
<1>5. ASSUME Head(wire).type # "delta", NEW i \in 1..Len(wire'), wire'[i].type # "delta" PROVE FALSE
  <2>1. 1 \in Answers
    BY <1>1, <1>5 DEF Answers
  <2>2. i + 1 \in Answers /\ i \in Nat /\ i # 0
    BY <1>1, <1>2, <1>5 DEF Answers
  <2>. QED BY <2>1, <2>2
<1>6. 1 \in 1..Len(wire)
  BY <1>1
<1>. QED BY <1>1, <1>2, <1>3, <1>4, <1>5, <1>6

\* With no answer under way, what is on the wire does not depend on the room.
LEMMA OnlyDeltas ==
  ASSUME WireOK, UNCHANGED <<log, outbound>>,
         \A i \in 1..Len(wire') : wire'[i].type = "delta" /\ \E j \in 1..Len(wire) : wire'[i] = wire[j]
  PROVE  WireOK'
<1>1. now'.log = log /\ now.log = log
  BY DEF now
<1>2. ASSUME NEW i \in 1..Len(wire') PROVE FrameOK(now', room', wire'[i])
  <2>1. PICK j \in 1..Len(wire) : wire'[i] = wire[j]
    OBVIOUS
  <2>2. wire'[i].type = "delta" /\ FrameOK(now, room, wire'[i])
    BY <2>1 DEF WireOK
  <2>. QED BY <1>1, <2>2 DEF FrameOK
<1>3. Answers' = {}
  BY DEF Answers
<1>. QED BY <1>2, <1>3 DEF WireOK

\* Only a room that joins or catches up waits for an answer.
LEMMA NobodyWaits ==
  ASSUME WireOK, wire \in Seq(Frames), room.state \notin {"joining", "catching"}
  PROVE  Answers = {} /\ \A i \in 1..Len(wire) : wire[i].type = "delta"
<1>1. \A f \in Frames : f.type \in {"delta", "joined", "page"}
  BY DEF Frames
<1>2. \A i \in 1..Len(wire) : wire[i] \in Frames /\ FrameOK(now, room, wire[i])
  BY DEF WireOK
<1>3. \A i \in 1..Len(wire) : wire[i].type = "delta"
  BY <1>1, <1>2 DEF FrameOK
<1>. QED BY <1>3 DEF Answers

-----------------------------------------------------------------------------
(***************************************************************************)
(* Steps the member does not take.                                         *)
(***************************************************************************)
\* What holds of the member goes on holding while the log grows.
LEMMA Onward ==
  ASSUME ReplayInv, Longer(now, now'), Reading => Saved(now, now'), UNCHANGED <<room, emitted, reported>>
  PROVE  /\ RoomOK(now', room') /\ RequestOK(now', room', request)
         /\ \A i \in 1..Len(wire) : FrameOK(now', room', wire[i])
         /\ AppOK' /\ Accounted' /\ ReplayIsNew'
<1>1. /\ room \in Rooms /\ request \in Requests /\ wire \in Seq(Frames)
      /\ RoomOK(now, room) /\ RequestOK(now, room, request) /\ WireOK
      /\ AppOK /\ Accounted /\ ReplayIsNew
  BY DEF ReplayInv, MemberTypes
<1>2. RoomOK(now', room)
  <2>1. room.state = "catching" => Saved(now, now')
    BY DEF Reading
  <2>. QED BY <1>1, <2>1, RoomStays
<1>3. RequestOK(now', room, request)
  <2>1. request.pc = "history" => Reading
    BY <1>1 DEF RequestOK, Reading
  <2>. QED BY <1>1, <2>1, RequestStays
<1>4. ASSUME NEW i \in 1..Len(wire) PROVE FrameOK(now', room, wire[i])
  <2>1. FrameOK(now, room, wire[i]) /\ wire[i] \in Frames
    BY <1>1 DEF WireOK
  <2>2. wire[i].type = "joined" => Reading
    <3>1. wire[i].type = "joined" => room.state = "joining" /\ i \in Answers
      BY <2>1 DEF FrameOK, Answers
    <3>2. wire[i].type = "joined" => request.pc = "idle"
      BY <1>1, <3>1 DEF WireOK
    <3>. QED BY <3>1, <3>2 DEF Reading
  <2>. QED BY <1>1, <2>1, <2>2, FrameStays
<1>5. AppOK' /\ ReplayIsNew'
  BY <1>1 DEF AppOK, ReplayIsNew
<1>6. Accounted'
  <2>. SUFFICES ASSUME room.base # None, NEW n \in (room.base + 1)..room.last, Published(log', n)
                PROVE  n \in Emitted' \cup reported' \cup pagingLoss'
    BY DEF Accounted
  <2>1. room.base \in Nat /\ room.last \in Nat /\ room.last <= Len(log) /\ Len(log) \in Nat
    BY <1>1 DEF Rooms, RoomOK, now, Longer
  <2>2. n \in 1..Len(log)
    BY <2>1
  <2>3. Published(log, n) /\ pagingLoss \subseteq pagingLoss'
    BY <2>2 DEF Longer, now
  <2>4. n \in Emitted \cup reported \cup pagingLoss
    BY <1>1, <2>3 DEF Accounted
  <2>5. Emitted' = Emitted
    BY DEF Emitted
  <2>. QED BY <2>3, <2>4, <2>5
<1>. QED BY <1>2, <1>3, <1>4, <1>5, <1>6

\* A step that the member does not take keeps the invariant if its own request and frame are right.
LEMMA ServerStep ==
  ASSUME ReplayInv, UNCHANGED <<room, emitted, reported>>,
         ServerTypes', HistoryWhole', Unsent(log', outbound'), pagingLoss' \in SUBSET Nat,
         Longer(now, now'), Reading => Saved(now, now'),
         request' \in Requests, wire' \in Seq(Frames),
         request' = request \/ RequestOK(now', room', request'),
         \A i \in 1..Len(wire') :
           (i \in 1..Len(wire) /\ wire'[i] = wire[i]) \/ FrameOK(now', room', wire'[i]),
         \A i, j \in Answers' : i = j, request'.pc # "idle" => Answers' = {}
  PROVE  ReplayInv'
<1>1. /\ RoomOK(now', room') /\ RequestOK(now', room', request)
      /\ \A i \in 1..Len(wire) : FrameOK(now', room', wire[i])
      /\ AppOK' /\ Accounted' /\ ReplayIsNew'
  BY Onward
<1>2. MemberTypes'
  BY DEF ReplayInv, MemberTypes
<1>3. \A i \in 1..Len(wire') : FrameOK(now', room', wire'[i])
  BY <1>1
<1>4. WireOK'
  BY <1>3 DEF WireOK, Unsent
<1>5. RequestOK(now', room', request')
  BY <1>1
<1>. QED BY <1>1, <1>2, <1>4, <1>5 DEF ReplayInv

\* Publish: whoever reads meanwhile has the trimmed events among its losses.
LEMMA PublishKeeps ==
  ASSUME ReplayInv, NEW size \in Sizes, Publish(size)
  PROVE  ReplayInv'
<1>1. ServerTypes /\ HistoryWhole /\ Unsent(log, outbound) /\ pagingLoss \in SUBSET Nat /\ WireOK
      /\ request \in Requests /\ wire \in Seq(Frames)
  BY DEF ReplayInv, MemberTypes, WireOK, Unsent
<1>2. /\ ServerTypes' /\ HistoryWhole' /\ Unsent(log', outbound') /\ pagingLoss' \in SUBSET Nat
      /\ Longer(now, now') /\ (Reading => Saved(now, now'))
  BY <1>1, PublishGrows
<1>3. UNCHANGED <<room, emitted, reported>> /\ request' = request /\ wire' = wire
  BY DEF Publish
<1>4. (\A i, j \in Answers' : i = j) /\ (request'.pc # "idle" => Answers' = {})
  BY <1>1, <1>3 DEF WireOK, Answers
<1>. QED BY <1>1, <1>2, <1>3, <1>4, ServerStep

\* send() without an ack takes a number only.
LEMMA SendKeeps ==
  ASSUME ReplayInv, Send
  PROVE  ReplayInv'
<1>1. ServerTypes /\ HistoryWhole /\ Unsent(log, outbound) /\ pagingLoss \in SUBSET Nat /\ WireOK
      /\ request \in Requests /\ wire \in Seq(Frames)
  BY DEF ReplayInv, MemberTypes, WireOK, Unsent
<1>2. UNCHANGED <<room, emitted, reported>> /\ request' = request /\ wire' = wire
      /\ pagingLoss' = pagingLoss /\ Number("send")
  BY DEF Send, clientVars
<1>3. /\ ServerTypes' /\ HistoryWhole' /\ Unsent(log', outbound')
      /\ Longer(now, now') /\ Saved(now, now')
  BY <1>1, <1>2, NumberGrows
<1>4. (\A i, j \in Answers' : i = j) /\ (request'.pc # "idle" => Answers' = {})
  BY <1>1, <1>2 DEF WireOK, Answers
<1>. QED BY <1>1, <1>2, <1>3, <1>4, ServerStep

\* The announcement of a seat takes a number only, and gives the snapshot an event.
LEMMA JoinAnnounceKeeps ==
  ASSUME ReplayInv, JoinAnnounce
  PROVE  ReplayInv'
<1>1. ServerTypes /\ HistoryWhole /\ Unsent(log, outbound) /\ pagingLoss \in SUBSET Nat /\ WireOK
      /\ request \in Requests /\ wire \in Seq(Frames) /\ RequestOK(now, room, request)
  BY DEF ReplayInv, MemberTypes, WireOK, Unsent
<1>2. UNCHANGED <<room, emitted, reported>> /\ wire' = wire /\ request.pc = "announce"
      /\ request' = [request EXCEPT !.pc = "snapshot"]
      /\ pagingLoss' = pagingLoss /\ Number("announce")
  BY DEF JoinAnnounce, clientVars
<1>3. /\ ServerTypes' /\ HistoryWhole' /\ Unsent(log', outbound')
      /\ Longer(now, now') /\ Saved(now, now')
  BY <1>1, <1>2, NumberGrows
<1>4. Answers' = {}
  BY <1>1, <1>2 DEF WireOK, Answers
<1>5. request' \in Requests /\ request'.pc = "snapshot" /\ request'.after = request.after
  BY <1>1, <1>2 DEF Requests
<1>6. Len(now'.log) > 0
  <2>1. log' = Append(log, [kind |-> "announce", size |-> 0]) /\ now'.log = log'
    BY <1>2 DEF Number, now
  <2>2. Len(log) \in Nat /\ Len(log') = Len(log) + 1
    BY <1>1, <2>1 DEF ServerTypes
  <2>. QED BY <2>1, <2>2
<1>7. RequestOK(now', room', request')
  BY <1>1, <1>2, <1>5, <1>6 DEF RequestOK
<1>. QED BY <1>1, <1>2, <1>3, <1>4, <1>5, <1>7, ServerStep

\* The steps that leave Redis alone.
LEMMA GatewayStep ==
  ASSUME ReplayInv, UNCHANGED <<serverVars, clientVars>>, Unsent(log, outbound'), outbound' \in Seq(Nat),
         request' \in Requests, wire' \in Seq(Frames),
         request' = request \/ RequestOK(now, room, request'),
         \A i \in 1..Len(wire') :
           (i \in 1..Len(wire) /\ wire'[i] = wire[i]) \/ FrameOK(now, room, wire'[i]),
         \A i, j \in Answers' : i = j, request'.pc # "idle" => Answers' = {}
  PROVE  ReplayInv'
<1>1. ServerTypes /\ HistoryWhole /\ pagingLoss \in SUBSET Nat
  BY DEF ReplayInv, MemberTypes
<1>2. UNCHANGED <<room, emitted, reported>> /\ UNCHANGED serverVars /\ UNCHANGED <<log, stream, floor, pagingLoss>>
  BY DEF clientVars, serverVars
<1>3. HistoryWhole' /\ Longer(now, now') /\ Saved(now, now')
  <2>1. pagingLoss \subseteq pagingLoss'
    BY <1>2
  <2>. QED BY <1>1, <1>2, <2>1, NothingLogged
<1>4. ServerTypes'
  BY <1>1, <1>2 DEF ServerTypes
<1>5. Unsent(log', outbound') /\ pagingLoss' \in SUBSET Nat
  BY <1>1, <1>2
<1>6. now' = now /\ room' = room
  BY <1>2 DEF now
<1>7. \A i \in 1..Len(wire') :
        (i \in 1..Len(wire) /\ wire'[i] = wire[i]) \/ FrameOK(now', room', wire'[i])
  BY <1>6
<1>8. request' = request \/ RequestOK(now', room', request')
  BY <1>6
<1>. QED BY <1>2, <1>3, <1>4, <1>5, <1>7, <1>8, ServerStep

\* A published event is forwarded as a delta, or to nobody.
LEMMA FanOutKeeps ==
  ASSUME ReplayInv, FanOut
  PROVE  ReplayInv'
<1>1. WireOK /\ request \in Requests /\ wire \in Seq(Frames) /\ outbound \in Seq(Nat) /\ Len(log) \in Nat
  BY DEF ReplayInv, MemberTypes, ServerTypes
<1>2. UNCHANGED <<serverVars, clientVars>> /\ request' = request /\ outbound # <<>>
      /\ outbound' = Tail(outbound)
      /\ wire' = IF subscribed THEN Append(wire, [type |-> "delta", n |-> Head(outbound)]) ELSE wire
  BY DEF FanOut
<1>3. outbound' \in Seq(Nat) /\ Unsent(log, outbound')
  <2>1. /\ outbound' \in Seq(Nat)
        /\ \A i \in 1..Len(outbound') : i + 1 \in 1..Len(outbound) /\ outbound'[i] = outbound[i + 1]
    BY <1>1, <1>2
  <2>2. \A i \in 1..Len(outbound) : outbound[i] <= Len(log)
    BY <1>1 DEF WireOK
  <2>. QED BY <2>1, <2>2 DEF Unsent
<1>4. CASE subscribed
  <2>. DEFINE f == [type |-> "delta", n |-> Head(outbound)]
  <2>1. 1 \in 1..Len(outbound) /\ Head(outbound) = outbound[1] /\ outbound[1] \in Nat
    BY <1>1, <1>2
  <2>2. f \in Frames /\ f.type = "delta" /\ f.n <= Len(log)
    BY <1>1, <2>1 DEF Frames, WireOK
  <2>. HIDE DEF f
  <2>3. wire' = Append(wire, f)
    BY <1>2, <1>4 DEF f
  <2>4. /\ wire' \in Seq(Frames)
        /\ \A i \in 1..Len(wire') : wire'[i] = f \/ (i \in 1..Len(wire) /\ wire'[i] = wire[i])
        /\ \A i \in Answers' : i \in Answers
    BY <1>1, <2>2, <2>3, Sent
  <2>5. FrameOK(now, room, f)
    BY <2>2 DEF FrameOK, now
  <2>6. (\A i, j \in Answers' : i = j) /\ (request'.pc # "idle" => Answers' = {})
    BY <1>1, <1>2, <2>4 DEF WireOK
  <2>. QED BY <1>1, <1>2, <1>3, <2>4, <2>5, <2>6, GatewayStep
<1>5. CASE ~subscribed
  <2>1. wire' = wire
    BY <1>2, <1>5
  <2>2. (\A i, j \in Answers' : i = j) /\ (request'.pc # "idle" => Answers' = {})
    BY <1>1, <1>2, <2>1 DEF WireOK, Answers
  <2>. QED BY <1>1, <1>2, <1>3, <2>1, <2>2, GatewayStep
<1>. QED BY <1>4, <1>5

\* A published message the gateway never receives.
LEMMA LoseOutboundKeeps ==
  ASSUME ReplayInv, LoseOutbound
  PROVE  ReplayInv'
<1>1. WireOK /\ request \in Requests /\ wire \in Seq(Frames) /\ outbound \in Seq(Nat) /\ Len(log) \in Nat
  BY DEF ReplayInv, MemberTypes, ServerTypes
<1>2. UNCHANGED <<serverVars, clientVars>> /\ request' = request /\ outbound # <<>>
      /\ outbound' = Tail(outbound) /\ wire' = wire
  BY DEF LoseOutbound
<1>3. outbound' \in Seq(Nat) /\ Unsent(log, outbound')
  <2>1. /\ outbound' \in Seq(Nat)
        /\ \A i \in 1..Len(outbound') : i + 1 \in 1..Len(outbound) /\ outbound'[i] = outbound[i + 1]
    BY <1>1, <1>2
  <2>2. \A i \in 1..Len(outbound) : outbound[i] <= Len(log)
    BY <1>1 DEF WireOK
  <2>. QED BY <2>1, <2>2 DEF Unsent
<1>4. (\A i, j \in Answers' : i = j) /\ (request'.pc # "idle" => Answers' = {})
  BY <1>1, <1>2 DEF WireOK, Answers
<1>. QED BY <1>1, <1>2, <1>3, <1>4, GatewayStep

\* The seat and the routing table.
LEMMA JoinClaimKeeps ==
  ASSUME ReplayInv, JoinClaim
  PROVE  ReplayInv'
<1>1. /\ WireOK /\ request \in Requests /\ wire \in Seq(Frames) /\ outbound \in Seq(Nat)
      /\ log \in Seq(Entries) /\ RequestOK(now, room, request)
  BY DEF ReplayInv, MemberTypes, ServerTypes
<1>2. UNCHANGED <<serverVars, clientVars>> /\ UNCHANGED <<outbound, wire>> /\ request.pc = "claim"
  BY DEF JoinClaim
<1>3. PICK next \in {"announce", "snapshot"} :
        (next = "snapshot" => log # <<>>) /\ request' = [request EXCEPT !.pc = next]
  BY DEF JoinClaim
<1>4. request' \in Requests /\ request'.pc = next /\ request'.after = request.after
  BY <1>1, <1>3 DEF Requests
<1>5. RequestOK(now, room, request')
  <2>1. next = "snapshot" => Len(now.log) > 0
    BY <1>1, <1>3 DEF now
  <2>. QED BY <1>1, <1>2, <1>4, <2>1 DEF RequestOK
<1>6. Answers' = {}
  BY <1>1, <1>2 DEF WireOK, Answers
<1>7. Unsent(log, outbound')
  BY <1>1, <1>2 DEF WireOK, Unsent
<1>. QED BY <1>1, <1>2, <1>4, <1>5, <1>6, <1>7, GatewayStep

\* The gateway answers a join: its frame is the only answer on the wire.
LEMMA AnswerKeeps ==
  ASSUME ReplayInv, UNCHANGED <<serverVars, clientVars>>, UNCHANGED outbound,
         request.pc # "idle", request' = Idle,
         NEW f \in Frames, FrameOK(now, room, f), wire' = Append(wire, f)
  PROVE  ReplayInv'
<1>1. WireOK /\ wire \in Seq(Frames) /\ outbound \in Seq(Nat)
  BY DEF ReplayInv, MemberTypes, ServerTypes
<1>2. Answers = {} /\ Unsent(log, outbound')
  BY <1>1 DEF WireOK, Unsent
<1>3. /\ wire' \in Seq(Frames)
      /\ \A i \in 1..Len(wire') : wire'[i] = f \/ (i \in 1..Len(wire) /\ wire'[i] = wire[i])
      /\ \A i, j \in Answers' : i = j
  BY <1>1, <1>2, Sent
<1>4. request' \in Requests /\ request'.pc = "idle" /\ RequestOK(now, room, request')
  BY DEF Idle, Requests, RequestOK
<1>5. \A i \in 1..Len(wire') :
        (i \in 1..Len(wire) /\ wire'[i] = wire[i]) \/ FrameOK(now, room, wire'[i])
  BY <1>3
<1>. QED BY <1>1, <1>2, <1>3, <1>4, <1>5, GatewayStep

\* The snapshot is the newest number of the log; a member behind it asks for its history.
LEMMA JoinSnapshotKeeps ==
  ASSUME ReplayInv, JoinSnapshot
  PROVE  ReplayInv'
<1>1. /\ WireOK /\ request \in Requests /\ wire \in Seq(Frames) /\ outbound \in Seq(Nat) /\ room \in Rooms
      /\ log \in Seq(Entries) /\ RequestOK(now, room, request) /\ RoomOK(now, room) /\ HistoryWhole
  BY DEF ReplayInv, MemberTypes, ServerTypes
<1>2. UNCHANGED <<serverVars, clientVars>> /\ UNCHANGED outbound /\ request.pc = "snapshot"
  BY DEF JoinSnapshot
<1>3. /\ Len(log) \in Nat /\ now.log = log /\ now.stream = stream
      /\ request.after \in Nat \cup {None}
  BY <1>1 DEF now, Requests
<1>4. room.state = "joining" /\ request.after = room.after /\ Len(log) > 0 /\ room.last <= Len(log)
      /\ room.last \in Nat /\ room.after = IF room.base = None THEN None ELSE room.last
  BY <1>1, <1>2, <1>3 DEF RequestOK, RoomOK, Rooms
<1>5. Snapshot(now, room, Len(log))
  BY <1>1, <1>3, <1>4 DEF Snapshot, HistoryWhole
<1>6. CASE request.after # None /\ request.after < Len(log)
  <2>1. wire' = wire /\ request' = [request EXCEPT !.pc = "history", !.sequence = Len(log)]
    BY <1>6 DEF JoinSnapshot
  <2>2. /\ request' \in Requests /\ request'.pc = "history" /\ request'.after = request.after
        /\ request'.sequence = Len(log)
    BY <1>1, <1>3, <2>1 DEF Requests
  <2>3. RequestOK(now, room, request')
    BY <1>3, <1>4, <1>5, <1>6, <2>2 DEF RequestOK
  <2>4. Answers' = {}
    BY <1>1, <1>2, <2>1 DEF WireOK, Answers
  <2>5. Unsent(log, outbound')
    BY <1>1, <1>2 DEF WireOK, Unsent
  <2>. QED BY <1>1, <1>2, <2>1, <2>2, <2>3, <2>4, <2>5, GatewayStep
<1>7. CASE ~(request.after # None /\ request.after < Len(log))
  <2>. DEFINE f == [type |-> "joined", sequence |-> Len(log), missed |-> <<>>]
  <2>1. request' = Idle /\ wire' = Append(wire, f)
    BY <1>7 DEF JoinSnapshot, Joined
  <2>2. f \in Frames /\ f.type = "joined" /\ f.sequence = Len(log) /\ f.missed = <<>>
    BY <1>3 DEF Frames
  <2>3. room.after = None \/ room.after = Len(log)
    BY <1>3, <1>4, <1>7
  <2>. HIDE DEF f
  <2>4. FrameOK(now, room, f)
    BY <1>4, <1>5, <2>2, <2>3 DEF FrameOK
  <2>. QED BY <1>2, <2>1, <2>2, <2>4, AnswerKeeps
<1>. QED BY <1>6, <1>7

\* History: a page of what is still held after a cursor, and whether something was trimmed.
LEMMA HistoryReads ==
  ASSUME ServerTypes, NEW after \in Nat, after < Len(log)
  PROVE  LET page == History(after)
         IN  /\ page \in Pages /\ page.truncated = (floor > after)
             /\ Extract(now, page.events, after, page.cursor)
             /\ \A i \in 1..Len(page.events) : page.events[i] \in stream
             /\ \A n \in stream : after < n /\ n <= page.cursor => n \in ToSet(page.events)
             /\ page.cursor \in stream \/ page.cursor = Len(log)
<1>. DEFINE later == {n \in stream : n > after}
            gap == floor > after
<1>1. /\ stream \in SUBSET (1..Len(log)) /\ Len(log) \in Nat /\ floor \in Nat
  BY DEF ServerTypes
<1>2. /\ later \in SUBSET (1..Len(log)) /\ gap \in BOOLEAN
      /\ \A n \in later : n \in stream /\ after < n
      /\ \A n \in stream : after < n => n \in later
  <2>1. later \in SUBSET stream /\ gap \in BOOLEAN
    OBVIOUS
  <2>2. \A n \in stream : n \in Nat
    BY <1>1
  <2>3. \A n \in stream : n > after <=> after < n
    BY <2>2
  <2>. QED BY <1>1, <2>1, <2>3
<1>3. History(after) = PageOf(later, after, gap)
  BY DEF History
<1>. HIDE DEF later, gap
<1>4. LET page == PageOf(later, after, gap)
      IN  /\ page \in Pages /\ page.truncated = gap
          /\ Extract(now, page.events, after, page.cursor)
          /\ \A i \in 1..Len(page.events) : page.events[i] \in later
          /\ \A n \in later : n <= page.cursor => n \in ToSet(page.events)
          /\ page.cursor \in later \/ page.cursor = Len(log)
  BY <1>1, <1>2, PageReads
<1>. QED BY <1>2, <1>3, <1>4 DEF gap

\* The first page goes with its snapshot: it covers its range, if truncated from its oldest event on.
LEMMA JoinHistoryKeeps ==
  ASSUME ReplayInv, JoinHistory
  PROVE  ReplayInv'
<1>. DEFINE page == History(request.after)
            f == [type |-> "joined", sequence |-> request.sequence, missed |-> <<page>>]
<1>1. /\ ServerTypes /\ HistoryWhole /\ request \in Requests /\ RequestOK(now, room, request)
      /\ Len(log) \in Nat /\ floor \in Nat
  BY DEF ReplayInv, MemberTypes, ServerTypes
<1>2. UNCHANGED <<serverVars, clientVars>> /\ UNCHANGED outbound /\ request.pc = "history"
      /\ request' = Idle /\ wire' = Append(wire, f)
  BY DEF JoinHistory, Joined
<1>3. /\ room.state = "joining" /\ request.after = room.after /\ request.after < request.sequence
      /\ Snapshot(now, room, request.sequence) /\ request.after # None
  BY <1>1, <1>2 DEF RequestOK
<1>4. request.after \in Nat /\ request.sequence \in Nat
  BY <1>1, <1>3 DEF Requests, Snapshot, None
<1>5. request.after < Len(log)
  BY <1>1, <1>3, <1>4 DEF Snapshot, now
<1>6. /\ page \in Pages /\ page.truncated = (floor > request.after)
      /\ Extract(now, page.events, request.after, page.cursor)
      /\ \A i \in 1..Len(page.events) : page.events[i] \in stream
      /\ \A n \in stream : request.after < n /\ n <= page.cursor => n \in ToSet(page.events)
      /\ page.cursor \in stream \/ page.cursor = Len(log)
  BY <1>1, <1>4, <1>5, HistoryReads
<1>. HIDE DEF page
<1>7. page.cursor \in Nat /\ page.events \in Seq(Nat)
  BY <1>6 DEF Pages
<1>8. Progress(now, page.events, request.after, page.cursor, page.truncated)
  <2>1. ASSUME page.truncated PROVE request.after < floor /\ \A i \in 1..Len(page.events) : request.after + 1 < page.events[i]
    <3>1. request.after < floor
      BY <1>1, <1>4, <1>6, <2>1
    <3>2. \A i \in 1..Len(page.events) : floor < page.events[i] /\ page.events[i] \in Nat
      BY <1>1, <1>6, <1>7 DEF HistoryWhole
    <3>. QED BY <1>1, <1>4, <3>1, <3>2
  <2>2. ASSUME NEW n \in Nat, request.after < n, n <= Len(log), Published(log, n), n \notin stream
        PROVE  n <= floor /\ page.truncated
    <3>1. ~(floor < n)
      <4>1. floor < n => n \in (floor + 1)..Len(log)
        BY <1>1, <2>2
      <4>. QED BY <1>1, <2>2, <4>1 DEF HistoryWhole
    <3>2. n <= floor /\ floor > request.after
      BY <1>1, <1>4, <2>2, <3>1
    <3>. QED BY <1>6, <3>2
  <2>3. Kept(now, page.cursor)
    <3>. SUFFICES ASSUME NEW n \in (page.cursor + 1)..Len(log), Published(log, n), n \notin stream
                  PROVE  FALSE
      BY DEF Kept, now
    <3>1. n \in Nat /\ page.cursor < n /\ n <= Len(log) /\ request.after < n
      BY <1>1, <1>4, <1>6, <1>7 DEF Extract
    <3>2. n <= floor
      BY <2>2, <3>1
    <3>3. page.cursor \in stream
      BY <1>1, <1>6, <1>7, <3>1
    <3>4. floor < page.cursor
      BY <1>1, <3>3 DEF HistoryWhole
    <3>. QED BY <1>1, <1>7, <3>1, <3>2, <3>4
  <2>4. Covers(now, page.events, request.after, page.cursor, page.truncated)
    <3>. SUFFICES ASSUME NEW n \in (request.after + 1)..page.cursor, Published(log, n), n \notin ToSet(page.events)
                  PROVE  page.truncated /\ \A i \in 1..Len(page.events) : n < page.events[i]
      BY DEF Covers, now
    <3>1. n \in Nat /\ request.after < n /\ n <= page.cursor
      BY <1>4, <1>7
    <3>2. n <= Len(log) /\ n \notin stream
      BY <1>1, <1>6, <1>7, <3>1 DEF Extract, now
    <3>3. n <= floor /\ page.truncated
      BY <2>2, <3>1, <3>2
    <3>4. \A i \in 1..Len(page.events) : floor < page.events[i] /\ page.events[i] \in Nat
      BY <1>1, <1>6, <1>7 DEF HistoryWhole
    <3>. QED BY <1>1, <3>1, <3>3, <3>4
  <2>. QED BY <1>6, <2>1, <2>3, <2>4 DEF Progress, now
<1>9. f \in Frames /\ f.type = "joined" /\ f.sequence = request.sequence /\ f.missed = <<page>>
  BY <1>4, <1>6 DEF Frames
<1>. HIDE DEF f
<1>10. FrameOK(now, room, f)
  <2>1. f.missed # <<>> /\ f.missed[1] = page
    BY <1>9
  <2>. QED BY <1>3, <1>8, <1>9, <2>1 DEF FrameOK
<1>. QED BY <1>2, <1>9, <1>10, AnswerKeeps

\* A further page covers its range, but for what was trimmed since the catch-up began.
LEMMA ReadPageKeeps ==
  ASSUME ReplayInv, ReadPage
  PROVE  ReplayInv'
<1>. DEFINE page == History(request.after)
            f == [type |-> "page", page |-> page]
<1>1. /\ ServerTypes /\ RequestOK(now, room, request) /\ room \in Rooms /\ RoomOK(now, room)
      /\ Len(log) \in Nat
  BY DEF ReplayInv, MemberTypes, ServerTypes
<1>2. UNCHANGED <<serverVars, clientVars>> /\ UNCHANGED outbound /\ request.pc = "page"
      /\ request' = Idle /\ wire' = Append(wire, f)
  BY DEF ReadPage
<1>3. /\ room.state = "catching" /\ request.after = room.cursor /\ room.cursor < room.sequence
      /\ Snapshot(now, room, room.sequence) /\ room.after = room.last
      /\ Progress(now, room.missed, room.after, room.cursor, room.truncated)
  BY <1>1, <1>2 DEF RequestOK, RoomOK
<1>4. room.cursor \in Nat /\ room.last \in Nat /\ room.sequence \in Nat
  BY <1>1 DEF Rooms
<1>5. room.cursor < Len(log)
  BY <1>1, <1>3, <1>4 DEF Snapshot, now
<1>6. /\ page \in Pages
      /\ Extract(now, page.events, room.cursor, page.cursor)
      /\ \A n \in stream : room.cursor < n /\ n <= page.cursor => n \in ToSet(page.events)
  BY <1>1, <1>3, <1>4, <1>5, HistoryReads
<1>. HIDE DEF page
<1>7. page.cursor \in Nat /\ page.cursor <= Len(log) /\ room.last < room.cursor
  BY <1>3, <1>6 DEF Pages, Extract, Progress, now
<1>8. Covers(now, page.events, room.cursor, page.cursor, FALSE)
  <2>. SUFFICES ASSUME NEW n \in (room.cursor + 1)..page.cursor, Published(log, n)
                PROVE  n \in ToSet(page.events) \cup pagingLoss
    BY DEF Covers, now
  <2>1. n \in Nat /\ room.cursor < n /\ n <= page.cursor /\ n \in (room.cursor + 1)..Len(log)
    BY <1>1, <1>3, <1>4, <1>7
  <2>2. n \in stream \cup pagingLoss
    BY <1>3, <2>1 DEF Progress, Kept, now
  <2>. QED BY <1>6, <2>1, <2>2
<1>9. f \in Frames /\ f.type = "page" /\ f.page = page
  BY <1>6 DEF Frames
<1>. HIDE DEF f
<1>10. FrameOK(now, room, f)
  BY <1>3, <1>6, <1>8, <1>9 DEF FrameOK
<1>. QED BY <1>2, <1>9, <1>10, AnswerKeeps

-----------------------------------------------------------------------------
(***************************************************************************)
(* Steps of the member.                                                    *)
(***************************************************************************)
\* A step of the member leaves the history alone.
LEMMA MemberStep ==
  ASSUME ReplayInv, UNCHANGED serverVars, UNCHANGED outbound,
         pagingLoss \subseteq pagingLoss', MemberTypes',
         RoomOK(now', room'), RequestOK(now', room', request'), WireOK',
         AppOK', Accounted', ReplayIsNew'
  PROVE  ReplayInv'
<1>1. ServerTypes /\ HistoryWhole
  BY DEF ReplayInv
<1>2. HistoryWhole'
  BY <1>1, NothingLogged
<1>3. ServerTypes'
  BY <1>1 DEF ServerTypes, serverVars
<1>. QED BY <1>2, <1>3 DEF ReplayInv

\* A member that is handed nothing keeps its account.
LEMMA AccountStays ==
  ASSUME ReplayInv, UNCHANGED <<log, emitted, reported>>, pagingLoss \subseteq pagingLoss',
         room'.last = room.last, room'.base = room.base
  PROVE  AppOK' /\ Accounted' /\ ReplayIsNew'
<1>1. AppOK /\ Accounted /\ ReplayIsNew
  BY DEF ReplayInv
<1>2. Emitted' = Emitted
  BY DEF Emitted
<1>3. Accounted'
  BY <1>1, <1>2 DEF Accounted
<1>. QED BY <1>1, <1>3 DEF AppOK, ReplayIsNew

\* A catch-up that ends with nothing but deltas on the wire keeps the invariant.
LEMMA FinishStep ==
  ASSUME ReplayInv, NEW r \in Rooms, NEW state \in {"joined", "down"}, Finish(state, r),
         UNCHANGED serverVars, UNCHANGED outbound,
         pagingLoss \subseteq pagingLoss', pagingLoss' \in SUBSET Nat,
         r.last = room.last, r.base = room.base, Snapshot(now, r, r.sequence),
         \A i \in 1..Len(r.buffer) : r.buffer[i] <= Len(log),
         \/ r.missed = <<>> /\ (r.base = None \/ r.last = r.sequence)
         \/ /\ r.base # None /\ r.after = r.last
            /\ Progress(now, r.missed, r.after, r.cursor, r.truncated)
            /\ \A n \in Nat : r.cursor < n /\ n <= r.sequence => n \in pagingLoss',
         request' \in Requests, request'.pc = "idle", wire' \in Seq(Frames),
         \A i \in 1..Len(wire') : wire'[i].type = "delta" /\ \E j \in 1..Len(wire) : wire'[i] = wire[j]
  PROVE  ReplayInv'
<1>1. /\ room' \in Rooms /\ RoomOK(now', room')
      /\ emitted' \in Seq(Items) /\ reported' \in SUBSET Nat
      /\ AppOK' /\ Accounted' /\ ReplayIsNew'
  BY FinishKeeps
<1>2. MemberTypes'
  BY <1>1 DEF MemberTypes
<1>3. WireOK'
  <2>1. WireOK /\ UNCHANGED <<log, outbound>>
    BY DEF ReplayInv, serverVars
  <2>. QED BY <2>1, OnlyDeltas
<1>4. RequestOK(now', room', request')
  BY DEF RequestOK
<1>. QED BY <1>1, <1>2, <1>3, <1>4, MemberStep

\* A join starts from the last number the member has seen.
LEMMA JoinKeeps ==
  ASSUME ReplayInv, Join
  PROVE  ReplayInv'
<1>1. /\ MemberTypes /\ room \in Rooms /\ wire \in Seq(Frames) /\ WireOK /\ RoomOK(now, room) /\ ServerTypes
  BY DEF ReplayInv, MemberTypes
<1>2. /\ UNCHANGED serverVars /\ UNCHANGED <<outbound, wire, emitted, reported, pagingLoss>>
      /\ room.state \in {"new", "down"}
      /\ room' = [room EXCEPT !.state = "joining", !.buffer = <<>>, !.missed = <<>>,
                              !.after = IF room.state = "new" THEN None ELSE room.last]
      /\ request' = [Idle EXCEPT !.pc = "claim", !.after = room'.after]
  BY DEF Join
<1>3. now' = now /\ log' = log
  BY <1>2 DEF now, serverVars
<1>4. room' \in Rooms
  <2>1. (IF room.state = "new" THEN None ELSE room.last) \in Nat \cup {None} /\ <<>> \in Seq(Nat)
    BY <1>1 DEF Rooms
  <2>. QED BY <1>1, <1>2, <2>1 DEF Rooms
<1>5. /\ room'.state = "joining" /\ room'.buffer = <<>> /\ room'.missed = <<>>
      /\ room'.after = IF room.state = "new" THEN None ELSE room.last
      /\ room'.last = room.last /\ room'.base = room.base
  BY <1>1, <1>2 DEF Rooms
<1>6. room.state = "new" <=> room.base = None
  BY <1>1, <1>2 DEF RoomOK
<1>7. RoomOK(now', room')
  BY <1>1, <1>3, <1>5, <1>6 DEF RoomOK
<1>8. request' \in Requests /\ request'.pc = "claim" /\ request'.after = room'.after
  BY <1>2, <1>4 DEF Idle, Requests, Rooms
<1>9. RequestOK(now', room', request')
  BY <1>5, <1>8 DEF RequestOK
<1>10. WireOK'
  <2>1. \A i \in 1..Len(wire) : wire[i].type = "delta"
    BY <1>1, <1>2, NobodyWaits
  <2>. QED BY <1>1, <1>2, <1>3, <2>1, OnlyDeltas
<1>11. AppOK' /\ Accounted' /\ ReplayIsNew'
  BY <1>2, <1>3, <1>5, AccountStays
<1>12. MemberTypes'
  BY <1>1, <1>2, <1>4, <1>8 DEF MemberTypes
<1>. QED BY <1>2, <1>7, <1>9, <1>10, <1>11, <1>12, MemberStep

\* A delta is handed to the app, or waits: either way it is accounted for.
LEMMA ReceiveDeltaKeeps ==
  ASSUME ReplayInv, ReceiveDelta
  PROVE  ReplayInv'
<1>. DEFINE n == Head(wire).n
            seen == Handled(room.last, <<n>>)
<1>1. /\ MemberTypes /\ room \in Rooms /\ wire \in Seq(Frames) /\ request \in Requests /\ WireOK /\ RoomOK(now, room)
      /\ RequestOK(now, room, request) /\ Len(log) \in Nat /\ emitted \in Seq(Items) /\ reported \in SUBSET Nat
      /\ AppOK /\ Accounted /\ ReplayIsNew
  BY DEF ReplayInv, MemberTypes, ServerTypes
<1>2. /\ UNCHANGED serverVars /\ UNCHANGED <<outbound, request, pagingLoss>>
      /\ wire # <<>> /\ Head(wire).type = "delta" /\ wire' = Tail(wire)
  BY DEF ReceiveDelta
<1>3. now' = now /\ log' = log /\ now.log = log
  BY <1>2 DEF now, serverVars
<1>4. /\ wire' \in Seq(Frames) /\ Head(wire) \in Frames /\ 1 \in 1..Len(wire) /\ wire[1] = Head(wire)
      /\ \A i \in 1..Len(wire') : i + 1 \in 1..Len(wire) /\ wire'[i] = wire[i + 1]
      /\ (\A i, j \in Answers' : i = j) /\ (Answers = {} => Answers' = {})
  BY <1>1, <1>2, Received DEF WireOK
<1>5. n \in Nat /\ n <= Len(log)
  <2>1. n \in Nat
    BY <1>2, <1>4 DEF Frames
  <2>2. FrameOK(now, room, Head(wire))
    BY <1>1, <1>4 DEF WireOK
  <2>. QED BY <1>2, <1>3, <2>1, <2>2 DEF FrameOK
<1>. HIDE DEF n
<1>6. room.last \in Nat /\ room.last <= Len(log) /\ room.buffer \in Seq(Nat)
      /\ \A i \in 1..Len(room.buffer) : room.buffer[i] <= Len(log)
  BY <1>1, <1>3 DEF Rooms, RoomOK
<1>7. CASE room.state = "joined"
  <2>1. /\ room' = [room EXCEPT !.last = seen.last]
        /\ emitted' = emitted \o seen.out /\ reported' = reported \cup seen.told
    BY <1>7 DEF ReceiveDelta, n
  <2>2. room.base # None /\ room.last > 0 /\ request.pc = "idle"
    BY <1>1, <1>7 DEF RoomOK, RequestOK, Requests
  <2>3. <<n>> \in Seq(Nat) /\ Len(<<n>>) = 1 /\ \A i \in 1..1 : <<n>>[i] = n
    BY <1>5
  <2>4. /\ seen.last \in Nat /\ room.last <= seen.last /\ seen.last <= Len(log) /\ n <= seen.last
        /\ seen.told \in SUBSET Nat /\ seen.out = Messages(<<n>>, "live")
        /\ \A m \in (room.last + 1)..seen.last : m \in seen.told \/ m = n
    <3>. DEFINE s == <<n>>
    <3>1. s \in Seq(Nat) /\ Len(s) = 1 /\ \A i \in 1..Len(s) : s[i] = n
      BY <2>3
    <3>2. 1 \in 1..Len(s)
      BY <3>1
    <3>. HIDE DEF s
    <3>3. LET h == Handled(room.last, s)
          IN  /\ h.last \in Nat /\ room.last <= h.last /\ h.last <= Len(log)
              /\ \A i \in 1..Len(s) : s[i] <= h.last
              /\ h.told \in SUBSET Nat /\ h.out = Messages(s, "live")
              /\ room.last > 0 => \A m \in (room.last + 1)..h.last : m \in h.told \/ \E i \in 1..Len(s) : s[i] = m
      <4>1. Len(log) \in Nat /\ room.last \in Nat /\ room.last <= Len(log) /\ \A i \in 1..Len(s) : s[i] <= Len(log)
        BY <1>1, <1>5, <1>6, <3>1
      <4>. QED BY <3>1, <4>1, HandledTells
    <3>4. seen = Handled(room.last, s)
      BY DEF s
    <3>. HIDE DEF seen
    <3>5. s = <<n>>
      BY DEF s
    <3>. QED BY <2>2, <3>1, <3>2, <3>3, <3>4, <3>5
  <2>. DEFINE out == Messages(<<n>>, "live")
  <2>5. /\ out \in Seq(Items)
        /\ \A k \in 1..Len(out) : out[k].how = "live" /\ out[k].n = n
        /\ Published(log, n) => \E k \in 1..Len(out) : out[k].n = n
    <3>. DEFINE s == <<n>>
    <3>1. s \in Seq(Nat) /\ Len(s) = 1 /\ 1 \in 1..Len(s) /\ \A i \in 1..Len(s) : s[i] = n
      BY <2>3
    <3>. HIDE DEF s
    <3>2. LET items == Messages(s, "live")
          IN  /\ items \in Seq(Items)
              /\ \A k \in 1..Len(items) : items[k].how = "live" /\ \E i \in 1..Len(s) : items[k].n = s[i]
              /\ \A i \in 1..Len(s) : Published(log, s[i]) => \E k \in 1..Len(items) : items[k].n = s[i]
      BY <3>1, MessagesCarry
    <3>3. out = Messages(s, "live")
      BY DEF s
    <3>. HIDE DEF out
    <3>. QED BY <3>1, <3>2, <3>3
  <2>. HIDE DEF out, seen
  <2>6. /\ emitted' \in Seq(Items) /\ Len(emitted') = Len(emitted) + Len(out)
        /\ Len(emitted) \in Nat /\ Len(out) \in Nat
        /\ \A i \in 1..Len(emitted) : emitted'[i] = emitted[i]
        /\ \A k \in 1..Len(out) : emitted'[Len(emitted) + k] = out[k]
    <3>1. emitted' = emitted \o out
      BY <2>1, <2>4 DEF out
    <3>. QED BY <1>1, <2>5, <3>1
  <2>7. \A i \in 1..Len(emitted') :
          (i \in 1..Len(emitted) /\ emitted'[i] = emitted[i]) \/ (emitted'[i].n = n /\ emitted'[i].how = "live")
    <3>. SUFFICES ASSUME NEW i \in 1..Len(emitted'), i > Len(emitted)
                  PROVE  emitted'[i].n = n /\ emitted'[i].how = "live"
      BY <2>6
    <3>1. i - Len(emitted) \in 1..Len(out) /\ i = Len(emitted) + (i - Len(emitted))
      BY <2>6
    <3>2. emitted'[i] = out[i - Len(emitted)]
      BY <2>6, <3>1
    <3>. QED BY <2>5, <3>1, <3>2
  <2>8. room' \in Rooms /\ room'.last = seen.last /\ room'.state = "joined" /\ room'.base = room.base
        /\ room'.buffer = room.buffer
    BY <1>1, <1>7, <2>1, <2>4 DEF Rooms
  <2>9. RoomOK(now', room')
    <3>1. seen.last <= Len(now'.log) /\ seen.last > 0
      BY <1>3, <1>6, <2>2, <2>4
    <3>2. \A i \in 1..Len(room'.buffer) : room'.buffer[i] <= Len(now'.log)
      BY <1>3, <1>6, <2>8
    <3>. QED BY <2>2, <2>8, <3>1, <3>2 DEF RoomOK
  <2>10. RequestOK(now', room', request')
    BY <1>2, <2>2 DEF RequestOK
  <2>11. WireOK'
    <3>1. \A i \in 1..Len(wire) : wire[i].type = "delta"
      BY <1>1, <1>7, NobodyWaits
    <3>2. \A i \in 1..Len(wire') : wire'[i].type = "delta" /\ \E j \in 1..Len(wire) : wire'[i] = wire[j]
      BY <1>4, <3>1
    <3>. QED BY <1>1, <1>2, <1>3, <3>2, OnlyDeltas
  <2>12. AppOK'
    <3>1. ASSUME NEW i \in 1..Len(emitted') PROVE emitted'[i].n <= room'.last
      <4>1. CASE i \in 1..Len(emitted) /\ emitted'[i] = emitted[i]
        <5>1. emitted[i].n <= room.last /\ emitted[i].n \in Nat
          BY <1>1, <4>1, ItemNumbers DEF AppOK
        <5>. QED BY <1>6, <2>4, <2>8, <4>1, <5>1
      <4>2. CASE emitted'[i].n = n
        BY <2>4, <2>8, <4>2
      <4>. QED BY <2>7, <4>1, <4>2
    <3>. QED BY <2>2, <2>8, <3>1 DEF AppOK
  <2>13. ReplayIsNew'
    <3>. SUFFICES ASSUME NEW i \in 1..Len(emitted'), emitted'[i].how = "replay", NEW j \in 1..(i - 1)
                  PROVE  emitted'[j].n < emitted'[i].n
      BY DEF ReplayIsNew
    <3>1. i \in 1..Len(emitted) /\ emitted'[i] = emitted[i]
      BY <2>7
    <3>2. j \in 1..Len(emitted)
      BY <2>6, <3>1
    <3>3. emitted'[j] = emitted[j]
      BY <2>6, <3>2
    <3>. QED BY <1>1, <3>1, <3>3 DEF ReplayIsNew
  <2>14. Accounted'
    <3>. SUFFICES ASSUME NEW m \in (room'.base + 1)..room'.last, Published(log, m)
                  PROVE  m \in Emitted' \cup reported' \cup pagingLoss'
      BY <1>3 DEF Accounted
    <3>1. room.base \in Nat
      BY <1>1, <2>2 DEF Rooms
    <3>2. m \in (room.base + 1)..room.last \/ m \in (room.last + 1)..seen.last
      BY <1>6, <2>4, <2>8, <3>1
    <3>3. CASE m \in (room.base + 1)..room.last
      <4>1. m \in Emitted \cup reported \cup pagingLoss
        BY <1>1, <2>2, <3>3 DEF Accounted
      <4>2. \A i \in 1..Len(emitted) : i \in 1..Len(emitted') /\ emitted'[i] = emitted[i]
        BY <2>6
      <4>3. m \in Emitted => m \in Emitted'
        BY <4>2 DEF Emitted
      <4>. QED BY <1>2, <2>1, <4>1, <4>3
    <3>4. CASE m \in (room.last + 1)..seen.last
      <4>1. CASE m \in seen.told
        BY <2>1, <4>1
      <4>2. CASE m = n
        <5>1. PICK k \in 1..Len(out) : out[k].n = n
          BY <2>5, <4>2
        <5>2. Len(emitted) + k \in 1..Len(emitted') /\ emitted'[Len(emitted) + k].n = n
          BY <2>6, <5>1
        <5>. QED BY <4>2, <5>2 DEF Emitted
      <4>. QED BY <2>4, <3>4, <4>1, <4>2
    <3>. QED BY <3>2, <3>3, <3>4
  <2>15. MemberTypes'
    <3>1. reported' \in SUBSET Nat
      BY <1>1, <2>1, <2>4
    <3>. QED BY <1>1, <1>2, <1>4, <2>6, <2>8, <3>1 DEF MemberTypes
  <2>. QED BY <1>2, <2>9, <2>10, <2>11, <2>12, <2>13, <2>14, <2>15, MemberStep
<1>8. CASE room.state # "joined"
  <2>1. room' = [room EXCEPT !.buffer = Held(n)] /\ UNCHANGED <<emitted, reported>>
    BY <1>8 DEF ReceiveDelta, n
  <2>2. Held(n) \in Seq(Nat) /\ \A i \in 1..Len(Held(n)) : Held(n)[i] <= Len(log)
    BY <1>5, <1>6 DEF Held
  <2>3. /\ room' \in Rooms /\ room'.buffer = Held(n)
        /\ room'.state = room.state /\ room'.last = room.last /\ room'.base = room.base
        /\ room'.after = room.after /\ room'.sequence = room.sequence /\ room'.cursor = room.cursor
        /\ room'.truncated = room.truncated /\ room'.missed = room.missed
    <3>. HIDE DEF Held
    <3>. QED BY <1>1, <2>1, <2>2 DEF Rooms
  <2>4. RoomOK(now', room')
    BY <1>1, <1>3, <2>2, <2>3 DEF RoomOK, Snapshot
  <2>5. RequestOK(now', room', request')
    BY <1>1, <1>2, <1>3, <2>3 DEF RequestOK, Snapshot
  <2>6. WireOK'
    <3>1. ASSUME NEW i \in 1..Len(wire') PROVE FrameOK(now', room', wire'[i])
      <4>1. FrameOK(now, room, wire'[i])
        BY <1>1, <1>4 DEF WireOK
      <4>. QED BY <1>3, <2>3, <4>1 DEF FrameOK, Snapshot
    <3>2. request'.pc # "idle" => Answers' = {}
      BY <1>1, <1>2, <1>4 DEF WireOK
    <3>3. \A i \in 1..Len(outbound') : outbound'[i] <= Len(log')
      BY <1>1, <1>2, <1>3 DEF WireOK
    <3>. QED BY <1>4, <3>1, <3>2, <3>3 DEF WireOK
  <2>7. AppOK' /\ Accounted' /\ ReplayIsNew'
    BY <1>2, <1>3, <2>1, <2>3, AccountStays
  <2>8. MemberTypes'
    BY <1>1, <1>2, <1>4, <2>1, <2>3 DEF MemberTypes
  <2>. QED BY <1>2, <2>4, <2>5, <2>6, <2>7, <2>8, MemberStep
<1>. QED BY <1>7, <1>8

\* Go on reading from a snapshot, or finish.
LEMMA CatchUpKeeps ==
  ASSUME ReplayInv, NEW r \in Rooms, CatchUp(r),
         UNCHANGED serverVars, UNCHANGED <<outbound, pagingLoss>>, request.pc = "idle",
         r.last = room.last, r.base = room.base, Snapshot(now, r, r.sequence),
         \A i \in 1..Len(r.buffer) : r.buffer[i] <= Len(log),
         \/ r.missed = <<>> /\ r.cursor = r.sequence /\ (r.base = None \/ r.last = r.sequence)
         \/ /\ r.base # None /\ r.after = r.last
            /\ Progress(now, r.missed, r.after, r.cursor, r.truncated),
         wire' \in Seq(Frames),
         \A i \in 1..Len(wire') : wire'[i].type = "delta" /\ \E j \in 1..Len(wire) : wire'[i] = wire[j]
  PROVE  ReplayInv'
<1>1. /\ MemberTypes /\ request \in Requests /\ WireOK /\ RoomOK(now, room)
      /\ now' = now /\ now.log = log /\ log' = log
      /\ pagingLoss' \in SUBSET Nat /\ pagingLoss \subseteq pagingLoss'
  BY DEF ReplayInv, MemberTypes, now, serverVars
<1>2. r.cursor \in Nat /\ r.sequence \in Nat /\ r.last \in Nat
  BY DEF Rooms
<1>3. CASE r.cursor < r.sequence
  <2>1. /\ room' = [r EXCEPT !.state = "catching"]
        /\ request' = [Idle EXCEPT !.pc = "page", !.after = r.cursor]
        /\ UNCHANGED <<emitted, reported>>
    BY <1>3 DEF CatchUp
  <2>2. /\ r.base # None /\ r.after = r.last
        /\ Progress(now, r.missed, r.after, r.cursor, r.truncated)
    <3>1. r.cursor # r.sequence
      BY <1>2, <1>3
    <3>. QED BY <3>1
  <2>3. /\ room' \in Rooms /\ room'.state = "catching" /\ room'.last = r.last /\ room'.base = r.base
        /\ room'.after = r.after /\ room'.sequence = r.sequence /\ room'.cursor = r.cursor
        /\ room'.truncated = r.truncated /\ room'.missed = r.missed /\ room'.buffer = r.buffer
    BY <2>1 DEF Rooms
  <2>4. r.last <= Len(log) /\ r.last > 0
    BY <1>1, <2>2 DEF RoomOK
  <2>5. Snapshot(now, room', room'.sequence)
    BY <2>3 DEF Snapshot
  <2>6. RoomOK(now', room')
    BY <1>1, <1>3, <2>2, <2>3, <2>4, <2>5 DEF RoomOK
  <2>7. request' \in Requests /\ request'.pc = "page" /\ request'.after = r.cursor
    BY <1>2, <2>1 DEF Idle, Requests
  <2>8. RequestOK(now', room', request')
    BY <2>3, <2>7 DEF RequestOK
  <2>9. WireOK'
    <3>1. UNCHANGED <<log, outbound>>
      BY <1>1
    <3>. QED BY <1>1, <3>1, OnlyDeltas
  <2>10. AppOK' /\ Accounted' /\ ReplayIsNew'
    BY <1>1, <2>1, <2>3, AccountStays
  <2>11. MemberTypes'
    BY <1>1, <2>1, <2>3, <2>7 DEF MemberTypes
  <2>. QED BY <1>1, <2>6, <2>8, <2>9, <2>10, <2>11, MemberStep
<1>4. CASE ~(r.cursor < r.sequence)
  <2>1. Finish("joined", r) /\ request' = request
    BY <1>4 DEF CatchUp
  <2>2. \/ r.missed = <<>> /\ (r.base = None \/ r.last = r.sequence)
        \/ /\ r.base # None /\ r.after = r.last
           /\ Progress(now, r.missed, r.after, r.cursor, r.truncated)
           /\ \A n \in Nat : r.cursor < n /\ n <= r.sequence => n \in pagingLoss'
    <3>1. \A n \in Nat : ~(r.cursor < n /\ n <= r.sequence)
      BY <1>2, <1>4
    <3>. QED BY <3>1
  <2>3. request' \in Requests /\ request'.pc = "idle" /\ UNCHANGED outbound
    BY <1>1, <2>1
  <2>. QED BY <1>1, <2>1, <2>2, <2>3, FinishStep
<1>. QED BY <1>3, <1>4

\* The answer at the head of the wire: nothing but deltas is behind it, no request is under way.
LEMMA AnswerAhead ==
  ASSUME ReplayInv, wire # <<>>, Head(wire).type # "delta", wire' = Tail(wire)
  PROVE  /\ Head(wire) \in Frames /\ FrameOK(now, room, Head(wire)) /\ request.pc = "idle"
         /\ wire' \in Seq(Frames)
         /\ \A i \in 1..Len(wire') : wire'[i].type = "delta" /\ \E j \in 1..Len(wire) : wire'[i] = wire[j]
<1>1. wire \in Seq(Frames) /\ WireOK
  BY DEF ReplayInv, MemberTypes
<1>2. /\ wire' \in Seq(Frames) /\ Head(wire) \in Frames /\ 1 \in 1..Len(wire) /\ wire[1] = Head(wire)
      /\ \A i \in 1..Len(wire') : i + 1 \in 1..Len(wire) /\ wire'[i] = wire[i + 1]
      /\ \A i \in 1..Len(wire') : wire'[i].type = "delta"
  BY <1>1, Received DEF WireOK
<1>3. 1 \in Answers
  BY <1>2 DEF Answers
<1>4. request.pc = "idle"
  BY <1>1, <1>3 DEF WireOK
<1>5. FrameOK(now, room, Head(wire))
  BY <1>1, <1>2 DEF WireOK
<1>. QED BY <1>2, <1>4, <1>5

\* The snapshot and the first page start the catch-up, or are all of it.
LEMMA ReceiveJoinedKeeps ==
  ASSUME ReplayInv, ReceiveJoined
  PROVE  ReplayInv'
<1>. DEFINE frame == Head(wire)
            first == IF frame.missed = <<>>
                       THEN [events |-> <<>>, truncated |-> FALSE, cursor |-> frame.sequence]
                       ELSE Head(frame.missed)
            r == [room EXCEPT !.sequence = frame.sequence, !.missed = first.events,
                              !.truncated = first.truncated, !.cursor = first.cursor]
<1>1. /\ wire # <<>> /\ frame.type = "joined" /\ room.state = "joining" /\ CatchUp(r)
      /\ wire' = Tail(wire) /\ UNCHANGED serverVars /\ UNCHANGED <<outbound, pagingLoss>>
  BY DEF ReceiveJoined
<1>2. room \in Rooms /\ RoomOK(now, room) /\ now.log = log
  BY DEF ReplayInv, MemberTypes, now
<1>3. /\ frame \in Frames /\ FrameOK(now, room, frame) /\ request.pc = "idle"
      /\ wire' \in Seq(Frames)
      /\ \A i \in 1..Len(wire') : wire'[i].type = "delta" /\ \E j \in 1..Len(wire) : wire'[i] = wire[j]
  BY <1>1, AnswerAhead
<1>. HIDE DEF frame
<1>4. frame.sequence \in Nat /\ (frame.missed = <<>> \/ \E page \in Pages : frame.missed = <<page>>)
  BY <1>1, <1>3 DEF Frames
<1>5. /\ Snapshot(now, room, frame.sequence)
      /\ frame.missed = <<>> => room.after = None \/ room.after = frame.sequence
      /\ frame.missed # <<>> =>
           /\ room.after # None
           /\ Progress(now, frame.missed[1].events, room.after, frame.missed[1].cursor, frame.missed[1].truncated)
  BY <1>1, <1>3 DEF FrameOK
<1>6. /\ room.after = IF room.base = None THEN None ELSE room.last
      /\ room.last \in Nat /\ None \notin Nat
      /\ \A i \in 1..Len(room.buffer) : room.buffer[i] <= Len(log)
  BY <1>1, <1>2 DEF RoomOK, Rooms, None
<1>7. first \in Pages /\ (frame.missed # <<>> => first = frame.missed[1])
  <2>1. CASE frame.missed = <<>>
    <3>1. <<>> \in Seq(Nat)
      OBVIOUS
    <3>. QED BY <1>4, <2>1, <3>1 DEF Pages
  <2>2. CASE frame.missed # <<>>
    <3>1. PICK page \in Pages : frame.missed = <<page>>
      BY <1>4, <2>2
    <3>2. Head(frame.missed) = page /\ frame.missed[1] = page
      BY <3>1
    <3>. QED BY <2>2, <3>2
  <2>. QED BY <2>1, <2>2
<1>8. frame.missed = <<>> => first.events = <<>> /\ first.cursor = frame.sequence
  OBVIOUS
<1>. HIDE DEF first
<1>9. first.events \in Seq(Nat) /\ first.truncated \in BOOLEAN /\ first.cursor \in Nat
  BY <1>7 DEF Pages
<1>10. /\ r \in Rooms /\ r.last = room.last /\ r.base = room.base /\ r.after = room.after
       /\ r.buffer = room.buffer /\ r.sequence = frame.sequence /\ r.missed = first.events
       /\ r.truncated = first.truncated /\ r.cursor = first.cursor
  BY <1>2, <1>4, <1>9 DEF Rooms
<1>. HIDE DEF r
<1>11. Snapshot(now, r, r.sequence)
  BY <1>5, <1>10 DEF Snapshot
<1>12. \/ r.missed = <<>> /\ r.cursor = r.sequence /\ (r.base = None \/ r.last = r.sequence)
       \/ /\ r.base # None /\ r.after = r.last
          /\ Progress(now, r.missed, r.after, r.cursor, r.truncated)
  <2>1. CASE frame.missed = <<>>
    BY <1>5, <1>6, <1>8, <1>10, <2>1
  <2>2. CASE frame.missed # <<>>
    BY <1>5, <1>6, <1>7, <1>10, <2>2
  <2>. QED BY <2>1, <2>2
<1>13. \A i \in 1..Len(r.buffer) : r.buffer[i] <= Len(log)
  BY <1>6, <1>10
<1>. QED BY <1>1, <1>3, <1>10, <1>11, <1>12, <1>13, CatchUpKeeps

\* Two pages, the second after the first, are one.
LEMMA PagesJoin ==
  ASSUME NEW h, NEW a \in Seq(Nat), NEW b \in Seq(Nat), NEW after \in Nat, NEW mid \in Nat, NEW cursor \in Nat,
         NEW truncated \in BOOLEAN, Progress(h, a, after, mid, truncated), Extract(h, b, mid, cursor),
         Covers(h, b, mid, cursor, FALSE)
  PROVE  Progress(h, a \o b, after, cursor, truncated)
<1>. DEFINE ab == a \o b
<1>1. /\ Rising(a) /\ Rising(b) /\ after < mid /\ mid < cursor /\ cursor <= Len(h.log)
      /\ \A i \in 1..Len(a) : a[i] \in Nat /\ after < a[i] /\ a[i] <= mid
      /\ \A i \in 1..Len(b) : b[i] \in Nat /\ mid < b[i] /\ b[i] <= cursor
  BY DEF Progress, Extract
<1>2. /\ ab \in Seq(Nat) /\ Len(ab) = Len(a) + Len(b) /\ Len(a) \in Nat /\ Len(b) \in Nat
      /\ \A i \in 1..Len(a) : ab[i] = a[i]
      /\ \A i \in 1..Len(b) : ab[Len(a) + i] = b[i]
  OBVIOUS
<1>. HIDE DEF ab
<1>3. ASSUME NEW i \in 1..Len(ab)
      PROVE  \/ i \in 1..Len(a) /\ ab[i] = a[i]
             \/ i \notin 1..Len(a) /\ \E k \in 1..Len(b) : i = Len(a) + k /\ ab[i] = b[k]
  <2>1. CASE i <= Len(a)
    BY <1>2, <2>1
  <2>2. CASE i > Len(a)
    <3>1. i - Len(a) \in 1..Len(b) /\ i = Len(a) + (i - Len(a))
      BY <1>2, <2>2
    <3>. QED BY <1>2, <3>1
  <2>. QED BY <1>2, <2>1, <2>2
<1>4. ASSUME NEW i \in 1..Len(ab)
      PROVE  ab[i] \in Nat /\ after < ab[i] /\ ab[i] <= cursor
  <2>1. CASE i \in 1..Len(a) /\ ab[i] = a[i]
    <3>1. a[i] \in Nat /\ after < a[i] /\ a[i] <= mid
      BY <1>1, <2>1
    <3>. QED BY <1>1, <2>1, <3>1
  <2>2. CASE \E k \in 1..Len(b) : i = Len(a) + k /\ ab[i] = b[k]
    <3>1. PICK k \in 1..Len(b) : ab[i] = b[k]
      BY <2>2
    <3>2. b[k] \in Nat /\ mid < b[k] /\ b[k] <= cursor
      BY <1>1
    <3>. QED BY <1>1, <3>1, <3>2
  <2>. QED BY <1>3, <2>1, <2>2
<1>5. ASSUME NEW i \in 1..Len(ab), NEW j \in 1..Len(ab), i < j
      PROVE  ab[i] < ab[j]
  <2>1. CASE i \in 1..Len(a) /\ j \in 1..Len(a)
    BY <1>1, <1>2, <1>5, <2>1 DEF Rising
  <2>2. CASE i \in 1..Len(a) /\ j \notin 1..Len(a)
    <3>1. a[i] \in Nat /\ ab[i] = a[i] /\ a[i] <= mid
      BY <1>1, <1>2, <2>2
    <3>2. PICK k \in 1..Len(b) : ab[j] = b[k]
      BY <1>3, <2>2
    <3>3. b[k] \in Nat /\ mid < b[k]
      BY <1>1
    <3>. QED BY <3>1, <3>2, <3>3
  <2>3. CASE i \notin 1..Len(a)
    <3>1. j \notin 1..Len(a)
      BY <1>2, <1>5, <2>3
    <3>2. PICK k \in 1..Len(b) : i = Len(a) + k /\ ab[i] = b[k]
      BY <1>3, <2>3
    <3>3. PICK l \in 1..Len(b) : j = Len(a) + l /\ ab[j] = b[l]
      BY <1>3, <3>1
    <3>4. k < l
      BY <1>2, <1>5, <3>2, <3>3
    <3>. QED BY <1>1, <3>2, <3>3, <3>4 DEF Rising
  <2>. QED BY <2>1, <2>2, <2>3
<1>6. Extract(h, ab, after, cursor)
  BY <1>1, <1>4, <1>5 DEF Extract, Rising
<1>7. ASSUME truncated PROVE after < h.floor /\ \A i \in 1..Len(ab) : after + 1 < ab[i]
  <2>1. after < h.floor /\ \A i \in 1..Len(a) : after + 1 < a[i]
    BY <1>7 DEF Progress
  <2>2. ASSUME NEW i \in 1..Len(ab) PROVE after + 1 < ab[i]
    <3>1. CASE i \in 1..Len(a) /\ ab[i] = a[i]
      BY <2>1, <3>1
    <3>2. CASE \E k \in 1..Len(b) : i = Len(a) + k /\ ab[i] = b[k]
      <4>1. PICK k \in 1..Len(b) : ab[i] = b[k]
        BY <3>2
      <4>2. b[k] \in Nat /\ mid < b[k]
        BY <1>1
      <4>. QED BY <1>1, <4>1, <4>2
    <3>. QED BY <1>3, <3>1, <3>2
  <2>. QED BY <2>1, <2>2
<1>8. Covers(h, ab, after, cursor, truncated)
  <2>1. Covers(h, a, after, mid, truncated) /\ Covers(h, b, mid, cursor, FALSE)
    BY DEF Progress
  <2>2. ToSet(a) \cup ToSet(b) \subseteq ToSet(ab)
    <3>0. DOMAIN a = 1..Len(a) /\ DOMAIN b = 1..Len(b) /\ DOMAIN ab = 1..Len(ab)
      BY <1>2
    <3>1. /\ ToSet(a) = {a[i] : i \in 1..Len(a)} /\ ToSet(b) = {b[i] : i \in 1..Len(b)}
          /\ ToSet(ab) = {ab[i] : i \in 1..Len(ab)}
      BY <3>0, Zenon DEF ToSet
    <3>2. \A i \in 1..Len(a) : i \in 1..Len(ab) /\ ab[i] = a[i]
      BY <1>2
    <3>3. \A i \in 1..Len(b) : Len(a) + i \in 1..Len(ab) /\ ab[Len(a) + i] = b[i]
      BY <1>2
    <3>. QED BY <3>1, <3>2, <3>3
  <2>3. ASSUME NEW n \in (after + 1)..cursor, Published(h.log, n)
        PROVE  n \in ToSet(ab) \cup h.loss \/ (truncated /\ \A i \in 1..Len(ab) : n < ab[i])
    <3>1. CASE n <= mid
      <4>1. n \in (after + 1)..mid
        BY <1>1, <3>1
      <4>2. CASE n \in ToSet(a) \cup h.loss
        BY <2>2, <4>2
      <4>3. CASE truncated /\ \A i \in 1..Len(a) : n < a[i]
        <5>1. ASSUME NEW i \in 1..Len(ab) PROVE n < ab[i]
          <6>1. CASE i \in 1..Len(a) /\ ab[i] = a[i]
            BY <4>3, <6>1
          <6>2. CASE \E k \in 1..Len(b) : i = Len(a) + k /\ ab[i] = b[k]
            <7>1. PICK k \in 1..Len(b) : ab[i] = b[k]
              BY <6>2
            <7>2. b[k] \in Nat /\ mid < b[k]
              BY <1>1
            <7>. QED BY <3>1, <4>1, <7>1, <7>2
          <6>. QED BY <1>3, <6>1, <6>2
        <5>. QED BY <4>3, <5>1
      <4>. QED BY <2>1, <2>3, <4>1, <4>2, <4>3 DEF Covers
    <3>2. CASE n > mid
      <4>1. n \in (mid + 1)..cursor
        BY <1>1, <3>2
      <4>2. n \in ToSet(b) \cup h.loss
        BY <2>1, <2>3, <4>1 DEF Covers
      <4>. QED BY <2>2, <4>2
    <3>. QED BY <3>1, <3>2
  <2>. QED BY <2>3 DEF Covers
<1>9. Kept(h, cursor)
  <2>1. \A n \in (cursor + 1)..Len(h.log) : n \in (mid + 1)..Len(h.log)
    BY <1>1
  <2>. QED BY <2>1 DEF Progress, Kept
<1>. QED BY <1>6, <1>7, <1>8, <1>9 DEF Progress, ab

\* A page extends what was read; its cursor is always ahead.
LEMMA ReceivePageKeeps ==
  ASSUME ReplayInv, ReceivePage
  PROVE  ReplayInv'
<1>. DEFINE page == Head(wire).page
            r == [room EXCEPT !.missed = @ \o page.events, !.cursor = page.cursor]
<1>1. /\ wire # <<>> /\ Head(wire).type = "page" /\ room.state = "catching"
      /\ wire' = Tail(wire) /\ UNCHANGED serverVars /\ UNCHANGED <<outbound, pagingLoss>>
  BY DEF ReceivePage
<1>2. room \in Rooms /\ RoomOK(now, room) /\ now.log = log
  BY DEF ReplayInv, MemberTypes, now
<1>3. /\ Head(wire) \in Frames /\ FrameOK(now, room, Head(wire)) /\ request.pc = "idle"
      /\ wire' \in Seq(Frames)
      /\ \A i \in 1..Len(wire') : wire'[i].type = "delta" /\ \E j \in 1..Len(wire) : wire'[i] = wire[j]
  BY <1>1, AnswerAhead
<1>4. /\ page \in Pages /\ Extract(now, page.events, room.cursor, page.cursor)
      /\ Covers(now, page.events, room.cursor, page.cursor, FALSE)
  <2>1. page \in Pages
    BY <1>1, <1>3 DEF Frames
  <2>. QED BY <1>1, <1>3, <2>1 DEF FrameOK
<1>. HIDE DEF page
<1>5. page.events \in Seq(Nat) /\ page.cursor \in Nat /\ room.cursor \in Nat /\ room.cursor < page.cursor
      /\ room.missed \in Seq(Nat) /\ room.truncated \in BOOLEAN /\ room.last \in Nat
  BY <1>2, <1>4 DEF Pages, Extract, Rooms
<1>6. CatchUp(r)
  <2>1. ~(page.cursor <= room.cursor)
    BY <1>5
  <2>. QED BY <2>1 DEF ReceivePage, page
<1>7. /\ Snapshot(now, room, room.sequence) /\ room.after = room.last /\ room.base # None
      /\ Progress(now, room.missed, room.after, room.cursor, room.truncated)
      /\ \A i \in 1..Len(room.buffer) : room.buffer[i] <= Len(log)
  BY <1>1, <1>2 DEF RoomOK
<1>8. /\ r \in Rooms /\ r.last = room.last /\ r.base = room.base /\ r.after = room.after
      /\ r.buffer = room.buffer /\ r.sequence = room.sequence /\ r.missed = room.missed \o page.events
      /\ r.truncated = room.truncated /\ r.cursor = page.cursor
  <2>1. room.missed \o page.events \in Seq(Nat)
    BY <1>5
  <2>. QED BY <1>2, <1>5, <2>1 DEF Rooms
<1>. HIDE DEF r
<1>9. Snapshot(now, r, r.sequence)
  BY <1>7, <1>8 DEF Snapshot
<1>10. Progress(now, r.missed, r.after, r.cursor, r.truncated)
  <2>1. room.after \in Nat
    BY <1>5, <1>7
  <2>2. Progress(now, room.missed \o page.events, room.after, page.cursor, room.truncated)
    BY <1>4, <1>5, <1>7, <2>1, PagesJoin, Zenon
  <2>. QED BY <1>8, <2>2
<1>11. \A i \in 1..Len(r.buffer) : r.buffer[i] <= Len(log)
  BY <1>7, <1>8
<1>. QED BY <1>1, <1>3, <1>6, <1>7, <1>8, <1>9, <1>10, <1>11, CatchUpKeeps

\* The rest of the range is known as lost.
LEMMA GivesUp ==
  ASSUME ReplayInv, NEW state \in {"joined", "down"}, room.state = "catching", Finish(state, room),
         UNCHANGED serverVars, UNCHANGED outbound, request' = Idle,
         pagingLoss' = pagingLoss \cup ((room.cursor + 1)..room.sequence),
         wire' \in Seq(Frames),
         \A i \in 1..Len(wire') : wire'[i].type = "delta" /\ \E j \in 1..Len(wire) : wire'[i] = wire[j]
  PROVE  ReplayInv'
<1>1. room \in Rooms /\ RoomOK(now, room) /\ now.log = log /\ pagingLoss \in SUBSET Nat
  BY DEF ReplayInv, MemberTypes, now
<1>2. /\ Snapshot(now, room, room.sequence) /\ room.after = room.last /\ room.base # None
      /\ Progress(now, room.missed, room.after, room.cursor, room.truncated)
      /\ \A i \in 1..Len(room.buffer) : room.buffer[i] <= Len(log)
  BY <1>1 DEF RoomOK
<1>3. room.cursor \in Nat /\ room.sequence \in Nat
  BY <1>1 DEF Rooms
<1>4. \A n \in Nat : room.cursor < n /\ n <= room.sequence => n \in pagingLoss'
  BY <1>3
<1>5. pagingLoss \subseteq pagingLoss' /\ pagingLoss' \in SUBSET Nat
  <2>1. \A n \in (room.cursor + 1)..room.sequence : n \in Nat
    BY <1>3, Between
  <2>2. pagingLoss \in SUBSET Nat
    BY <1>1
  <2>. QED BY <2>1, <2>2
<1>6. request' \in Requests /\ request'.pc = "idle"
  BY DEF Idle, Requests
<1>. QED BY <1>1, <1>2, <1>4, <1>5, <1>6, FinishStep

\* A page request that fails ends the catch-up.
LEMMA PageFailsKeeps ==
  ASSUME ReplayInv, PageFails
  PROVE  ReplayInv'
<1>. DEFINE P == {i \in DOMAIN wire : wire[i].type # "page"}
<1>1. wire \in Seq(Frames) /\ WireOK
  BY DEF ReplayInv, MemberTypes
<1>2. /\ room.state = "catching" /\ Finish("joined", room) /\ request' = Idle
      /\ wire' = Picked(wire, P)
      /\ pagingLoss' = pagingLoss \cup ((room.cursor + 1)..room.sequence)
      /\ UNCHANGED serverVars /\ UNCHANGED outbound
  BY DEF PageFails
<1>3. P \in SUBSET (1..Len(wire)) /\ \A i \in P : wire[i].type # "page"
  BY <1>1
<1>. HIDE DEF P
<1>4. \A i \in P : wire[i].type = "delta"
  <2>1. \A f \in Frames : f.type \in {"delta", "joined", "page"}
    BY DEF Frames
  <2>2. \A i \in P : wire[i] \in Frames /\ FrameOK(now, room, wire[i])
    BY <1>1, <1>3 DEF WireOK
  <2>. QED BY <1>2, <1>3, <2>1, <2>2 DEF FrameOK
<1>5. wire' \in Seq(Frames) /\ \A k \in 1..Len(wire') : \E i \in P : wire'[k] = wire[i]
  <2>1. wire' \in Seq(Frames) /\ Selects(wire', wire, P)
    BY <1>1, <1>2, <1>3, PickedKeeps
  <2>. QED BY <2>1 DEF Selects
<1>6. \A i \in 1..Len(wire') : wire'[i].type = "delta" /\ \E j \in 1..Len(wire) : wire'[i] = wire[j]
  BY <1>3, <1>4, <1>5
<1>. QED BY <1>2, <1>5, <1>6, GivesUp

\* A closed socket ends a catch-up, drops the frames, and leaves the rest of the room as it is.
LEMMA DisconnectKeeps ==
  ASSUME ReplayInv, Disconnect
  PROVE  ReplayInv'
<1>1. /\ MemberTypes /\ room \in Rooms /\ WireOK /\ RoomOK(now, room) /\ pagingLoss \in SUBSET Nat
  BY DEF ReplayInv, MemberTypes
<1>2. /\ wire' = <<>> /\ request' = Idle /\ UNCHANGED serverVars /\ UNCHANGED outbound
      /\ room.state \in {"joining", "catching", "joined"}
  BY DEF Disconnect
<1>3. /\ wire' \in Seq(Frames)
      /\ \A i \in 1..Len(wire') : wire'[i].type = "delta" /\ \E j \in 1..Len(wire) : wire'[i] = wire[j]
  BY <1>2
<1>4. CASE room.state = "catching"
  <2>1. Finish("down", room) /\ pagingLoss' = pagingLoss \cup ((room.cursor + 1)..room.sequence)
    BY <1>4 DEF Disconnect
  <2>. QED BY <1>2, <1>3, <1>4, <2>1, GivesUp
<1>5. ASSUME NEW state \in {"closed", "down"}, room' = [room EXCEPT !.state = state],
             UNCHANGED <<emitted, reported, pagingLoss>>, state = "down" => room.state = "joined"
      PROVE  ReplayInv'
  <2>1. /\ room' \in Rooms /\ room'.state = state
        /\ room'.last = room.last /\ room'.base = room.base /\ room'.buffer = room.buffer
    BY <1>1, <1>5 DEF Rooms
  <2>2. now' = now /\ UNCHANGED <<log, outbound>>
    BY <1>2, <1>5 DEF now, serverVars
  <2>3. RoomOK(now', room')
    BY <1>1, <1>5, <2>1, <2>2 DEF RoomOK
  <2>4. request' \in Requests /\ request'.pc = "idle"
    BY <1>2 DEF Idle, Requests
  <2>5. RequestOK(now', room', request')
    BY <2>4 DEF RequestOK
  <2>6. WireOK'
    BY <1>1, <1>3, <2>2, OnlyDeltas
  <2>7. AppOK' /\ Accounted' /\ ReplayIsNew'
    BY <1>5, <2>1, <2>2, AccountStays
  <2>8. MemberTypes'
    BY <1>1, <1>3, <1>5, <2>1, <2>4 DEF MemberTypes
  <2>. QED BY <1>2, <1>5, <2>3, <2>5, <2>6, <2>7, <2>8, MemberStep
<1>6. CASE room.state = "joining"
  <2>1. room' = [room EXCEPT !.state = "closed"] /\ UNCHANGED <<emitted, reported, pagingLoss>>
    BY <1>6 DEF Disconnect
  <2>. QED BY <1>5, <2>1
<1>7. CASE room.state = "joined"
  <2>1. room' = [room EXCEPT !.state = "down"] /\ UNCHANGED <<emitted, reported, pagingLoss>>
    BY <1>7 DEF Disconnect
  <2>. QED BY <1>5, <1>7, <2>1
<1>. QED BY <1>2, <1>4, <1>6, <1>7

-----------------------------------------------------------------------------
(***************************************************************************)
(* The invariant holds, and what follows from it.                          *)
(***************************************************************************)
\* The invariant holds of an empty room.
LEMMA ReplayStarts == Init => ReplayInv
<1>. SUFFICES ASSUME Init PROVE ReplayInv
  OBVIOUS
<1>1. /\ log = <<>> /\ stream = {} /\ floor = 0 /\ outbound = <<>> /\ wire = <<>> /\ emitted = <<>>
      /\ request = Idle /\ reported = {} /\ pagingLoss = {}
      /\ room = [state |-> "new", last |-> 0, after |-> None, base |-> None, sequence |-> 0,
                 cursor |-> 0, truncated |-> FALSE, missed |-> <<>>, buffer |-> <<>>]
  BY DEF Init
<1>2. Len(log) = 0 /\ now.log = log /\ Len(outbound) = 0 /\ Len(wire) = 0 /\ Len(emitted) = 0
  BY <1>1 DEF now
<1>3. ServerTypes
  BY <1>1, <1>2 DEF ServerTypes
<1>4. <<>> \in Seq(Nat) /\ <<>> \in Seq(Frames) /\ <<>> \in Seq(Items) /\ None \in Nat \cup {None}
  OBVIOUS
<1>5. room \in Rooms
  BY <1>1, <1>4 DEF Rooms
<1>6. MemberTypes
  BY <1>1, <1>4, <1>5 DEF MemberTypes, Idle, Requests
<1>7. HistoryWhole
  <2>1. Bytes(log, stream) = 0
    <3>. DEFINE f == [n \in stream |-> log[n].size]
    <3>1. DOMAIN f = {}
      BY <1>1
    <3>. HIDE DEF f
    <3>2. SumFunction(f) = 0
      BY <3>1, SumOfNone
    <3>. QED BY <3>2 DEF Bytes, f
  <2>2. Cardinality(stream) = 0
    BY <1>1, FS_EmptySet
  <2>3. HistorySize \in Nat /\ HistoryBytes \in Nat
    BY ReplayAssumption
  <2>4. \A n \in (floor + 1)..Len(log) : FALSE
    BY <1>1, <1>2
  <2>. QED BY <1>1, <1>2, <2>1, <2>2, <2>3, <2>4 DEF HistoryWhole
<1>8. RoomOK(now, room)
  BY <1>1, <1>2 DEF RoomOK
<1>9. RequestOK(now, room, request)
  BY <1>1 DEF RequestOK, Idle
<1>10. WireOK
  BY <1>1, <1>2 DEF WireOK, Answers, Idle
<1>11. AppOK /\ Accounted /\ ReplayIsNew
  BY <1>1, <1>2 DEF AppOK, Accounted, ReplayIsNew
<1>. QED BY <1>3, <1>6, <1>7, <1>8, <1>9, <1>10, <1>11 DEF ReplayInv

\* Every step keeps the invariant.
LEMMA ReplayGoesOn == ReplayInv /\ [Next]_vars => ReplayInv'
<1>. SUFFICES ASSUME ReplayInv, [Next]_vars PROVE ReplayInv'
  OBVIOUS
<1>1. CASE UNCHANGED vars
  <2>1. UNCHANGED <<serverVars, clientVars>> /\ UNCHANGED <<outbound, request, wire>>
    BY <1>1 DEF vars, serverVars, clientVars
  <2>2. WireOK /\ wire \in Seq(Frames) /\ request \in Requests /\ outbound \in Seq(Nat)
    BY DEF ReplayInv, MemberTypes, ServerTypes
  <2>3. Unsent(log, outbound') /\ (\A i, j \in Answers' : i = j) /\ (request'.pc # "idle" => Answers' = {})
    BY <2>1, <2>2 DEF WireOK, Unsent, Answers
  <2>. QED BY <2>1, <2>2, <2>3, GatewayStep
<1>2. CASE \E size \in Sizes : Publish(size)
  BY <1>2, PublishKeeps
<1>3. CASE Send
  BY <1>3, SendKeeps
<1>4. CASE FanOut
  BY <1>4, FanOutKeeps
<1>5. CASE LoseOutbound
  BY <1>5, LoseOutboundKeeps
<1>6. CASE JoinClaim
  BY <1>6, JoinClaimKeeps
<1>7. CASE JoinAnnounce
  BY <1>7, JoinAnnounceKeeps
<1>8. CASE JoinSnapshot
  BY <1>8, JoinSnapshotKeeps
<1>9. CASE JoinHistory
  BY <1>9, JoinHistoryKeeps
<1>10. CASE ReadPage
  BY <1>10, ReadPageKeeps
<1>11. CASE Join
  BY <1>11, JoinKeeps
<1>12. CASE ReceiveJoined
  BY <1>12, ReceiveJoinedKeeps
<1>13. CASE ReceivePage
  BY <1>13, ReceivePageKeeps
<1>14. CASE ReceiveDelta
  BY <1>14, ReceiveDeltaKeeps
<1>15. CASE PageFails
  BY <1>15, PageFailsKeeps
<1>16. CASE Disconnect
  BY <1>16, DisconnectKeeps
<1>. QED BY <1>1, <1>2, <1>3, <1>4, <1>5, <1>6, <1>7, <1>8, <1>9, <1>10, <1>11, <1>12, <1>13,
            <1>14, <1>15, <1>16 DEF Next

\* The invariant of the room's history, of the requests and answers under way, and of the member's
\* AppRoom, for every size and page of the history and every buffer of a join.
THEOREM ReplayIsConsistent == Spec => []ReplayInv
<1>1. Init => ReplayInv
  BY ReplayStarts
<1>2. ReplayInv /\ [Next]_vars => ReplayInv'
  BY ReplayGoesOn
<1>. QED BY <1>1, <1>2, PTL DEF Spec

\* PUBLISH (scripts.ts) trims within both limits and keeps its floor: a reader READ_HISTORY calls
\* not truncated is owed no recorded event that the stream no longer holds.
THEOREM HistoryIsWhole == Spec => []WholeUnlessTruncated
<1>1. ReplayInv => WholeUnlessTruncated
  <2>. SUFFICES ASSUME ReplayInv PROVE WholeUnlessTruncated
    OBVIOUS
  <2>1. ServerTypes /\ HistoryWhole /\ floor \in Nat /\ Len(log) \in Nat
    BY DEF ReplayInv, ServerTypes
  <2>2. ASSUME NEW after \in 0..Len(log), ~History(after).truncated,
               NEW n \in (after + 1)..Len(log), log[n].kind = "publish"
        PROVE  n \in stream
    <3>1. History(after).truncated = (floor > after)
      BY DEF History, PageOf
    <3>2. ~(floor > after)
      BY <2>2, <3>1
    <3>3. n \in (floor + 1)..Len(log)
      BY <2>1, <3>2
    <3>. QED BY <2>1, <2>2, <3>3 DEF HistoryWhole, Published
  <2>. QED BY <2>1, <2>2 DEF WholeUnlessTruncated, HistoryWhole
<1>. QED BY <1>1, ReplayIsConsistent, PTL

\* catchUp (app-realtime.ts) emits what was missed in order, and nothing the app has seen: no page
\* overlaps another page or what came before the connection dropped.
THEOREM ReplayStaysNew == Spec => []ReplayIsNew
<1>1. ReplayInv => ReplayIsNew
  BY DEF ReplayInv
<1>. QED BY <1>1, ReplayIsConsistent, PTL

\* joinOverWebsocket and catchUp (app-realtime.ts): every recorded event since the first join is
\* emitted or reported through onOutOfSync, unless a page failed or was overtaken by the trimming.
THEOREM MissedIsAccounted == Spec => []MissedUnlessPaging
<1>1. ReplayInv => MissedUnlessPaging
  <2>. SUFFICES ASSUME ReplayInv, NEW n \in Unaccounted PROVE n \in pagingLoss
    BY DEF MissedUnlessPaging
  <2>1. RoomOK(now, room) /\ Accounted
    BY DEF ReplayInv
  <2>2. /\ room.state \in {"joined", "down"} /\ n \in (room.base + 1)..room.last
        /\ log[n].kind = "publish" /\ n \notin Emitted \cup reported
    BY DEF Unaccounted
  <2>3. room.base # None
    BY <2>1, <2>2 DEF RoomOK
  <2>. QED BY <2>1, <2>2, <2>3 DEF Accounted, Published
<1>. QED BY <1>1, ReplayIsConsistent, PTL

=============================================================================
