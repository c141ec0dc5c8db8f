------------------------- MODULE WalletTransferProofs -------------------------
(***************************************************************************)
(* Proofs about the transfers between Space and user wallets, for any       *)
(* requests, amounts, allowances, denominations, attempts and faults, as    *)
(* long as no billing call outlives the lock it was guarded by              *)
(* (~LateCalls; with late calls TLC refutes ReversalIsFinal):               *)
(*   - the types (TransferTypeOK);                                          *)
(*   - taken money is not forgotten (NothingStranded);                      *)
(*   - an overage funds no wallet (OverageNeverFunds);                      *)
(*   - no more is moved than was bought (OnlyPurchasedMoves);               *)
(*   - the entries follow the abstract ledger (ImplementsLedger);           *)
(*   - nothing is credited after a return (ReversalIsFinal).                *)
(* Sums, totals and plans are recursive functions, so what they compute is  *)
(* proved by the least counterexample: the library's facts about minimal    *)
(* elements need no operator parameter.                                     *)
(***************************************************************************)
EXTENDS WalletTransfer, FiniteSetTheorems, WellFoundedInduction, TLAPS

-----------------------------------------------------------------------------
(* Induction, by the least counterexample.                                  *)

(* A nonempty set of numbers has a least one. *)
LEMMA Least ==
  ASSUME NEW S \in SUBSET Nat, S # {}
  PROVE  \E m \in S : \A k \in S : m <= k
<1>. DEFINE R == {ss \in Nat \X Nat : ss[1] < ss[2]}
<1>1. IsWellFoundedOn(R, Nat) BY NatLessThanWellFounded, Zenon DEF OpToRel
<1>2. PICK m \in S : \A k \in S : ~(<<k, m>> \in R)
  <2>. HIDE DEF R
  <2>. QED BY <1>1, WFMin
<1>3. \A k \in S : ~(k < m) BY <1>2
<1>. QED BY <1>3

(* Step by step, from the least number that is not in S. *)
LEMMA Induct ==
  ASSUME NEW S, 0 \in S, \A n \in Nat : n \in S => n + 1 \in S
  PROVE  Nat \subseteq S
<1>. SUFFICES ASSUME Nat \ S # {} PROVE FALSE OBVIOUS
<1>1. PICK m \in Nat \ S : \A k \in Nat \ S : m <= k BY Least, Nat \ S \in SUBSET Nat
<1>2. m - 1 \in Nat BY <1>1
<1>. QED BY <1>1, <1>2

(* Every step from all smaller numbers. *)
LEMMA StrongInduct ==
  ASSUME NEW S, \A n \in Nat : (\A k \in 0..(n - 1) : k \in S) => n \in S
  PROVE  Nat \subseteq S
<1>. SUFFICES ASSUME Nat \ S # {} PROVE FALSE OBVIOUS
<1>1. PICK m \in Nat \ S : \A k \in Nat \ S : m <= k BY Least, Nat \ S \in SUBSET Nat
<1>. QED BY <1>1

(* A nonempty set of numbers up to a bound has a largest one. *)
LEMMA Largest ==
  ASSUME NEW n \in Nat, NEW S \in SUBSET (0..n), S # {}
  PROVE  Max(S) \in S /\ \A k \in S : k <= Max(S)
<1>. DEFINE D == {n - k : k \in S}
<1>1. D \in SUBSET Nat /\ D # {}
  <2>1. \A k \in S : n - k \in Nat OBVIOUS
  <2>. QED BY <2>1
<1>2. PICK m \in D : \A k \in D : m <= k BY <1>1, Least
<1>3. PICK x \in S : m = n - x BY <1>2
<1>4. \A k \in S : x >= k BY <1>2, <1>3
<1>. QED BY <1>4 DEF Max

(* A set of subsets of a finite set has a smallest one. *)
LEMMA Smallest ==
  ASSUME NEW T, IsFiniteSet(T), NEW K \in SUBSET SUBSET T, K # {}
  PROVE  \E s \in K : \A u \in K : u \subseteq s => u = s
<1>. DEFINE C == {Cardinality(s) : s \in K}
<1>1. \A s \in K : IsFiniteSet(s) /\ Cardinality(s) \in Nat
  BY FS_Subset, FS_CardinalityType
<1>2. C \in SUBSET Nat /\ C # {} BY <1>1
<1>3. PICK m \in C : \A k \in C : m <= k BY <1>2, Least
<1>4. PICK s \in K : m = Cardinality(s) BY <1>3
<1>5. ASSUME NEW u \in K, u \subseteq s PROVE u = s
  <2>1. Cardinality(u) <= Cardinality(s) /\ (Cardinality(u) = Cardinality(s) => u = s)
    BY <1>1, <1>5, FS_Subset
  <2>2. Cardinality(s) <= Cardinality(u) BY <1>3, <1>4
  <2>. QED BY <1>1, <2>1, <2>2
<1>. QED BY <1>5

-----------------------------------------------------------------------------
(* What the first pieces of a transfer granted.                             *)

IsSum(h, c, n) == h = [k \in 0..n |-> IF k = 0 THEN 0 ELSE h[k - 1] + c[k - 1]]
SumTo(c, n) == (CHOOSE h : IsSum(h, c, n))[n]

(* The sums of the first numbers of a sequence are a function on 0..n ... *)
LEMMA SumExists ==
  ASSUME NEW c, NEW n \in Nat
  PROVE  \E h : IsSum(h, c, n)
<1>. DEFINE S == {m \in Nat : \E h : IsSum(h, c, m)}
<1>1. 0 \in S
  <2>1. IsSum([k \in 0..0 |-> 0], c, 0) BY DEF IsSum
  <2>. QED BY <2>1
<1>2. ASSUME NEW m \in Nat, m \in S PROVE m + 1 \in S
  <2>1. PICK h : IsSum(h, c, m) BY <1>2
  <2>. DEFINE g == [k \in 0..(m + 1) |-> IF k <= m THEN h[k] ELSE h[m] + c[m]]
  <2>2. \A k \in 0..m : h[k] = IF k = 0 THEN 0 ELSE h[k - 1] + c[k - 1] BY <2>1 DEF IsSum
  <2>3. ASSUME NEW k \in 0..(m + 1) PROVE g[k] = IF k = 0 THEN 0 ELSE g[k - 1] + c[k - 1]
    <3>1. CASE k = m + 1 BY <3>1
    <3>2. CASE k # m + 1
      <4>1. k \in 0..m /\ (k # 0 => k - 1 \in 0..m) BY <3>2
      <4>. QED BY <2>2, <4>1
    <3>. QED BY <3>1, <3>2
  <2>4. IsSum(g, c, m + 1) BY <2>3 DEF IsSum
  <2>. QED BY <2>4
<1>. HIDE DEF S
<1>3. Nat \subseteq S BY <1>1, <1>2, Induct
<1>. QED BY <1>3 DEF S

(* ... the only one, so that CHOOSE finds it ... *)
LEMMA SumUnique ==
  ASSUME NEW c, NEW n \in Nat, NEW m \in Nat, NEW h, NEW g, IsSum(h, c, n), IsSum(g, c, m),
         NEW k \in 0..n, k <= m
  PROVE  h[k] = g[k]
<1>. DEFINE S == {i \in Nat : i <= n /\ i <= m => h[i] = g[i]}
<1>1. /\ \A i \in 0..n : h[i] = IF i = 0 THEN 0 ELSE h[i - 1] + c[i - 1]
      /\ \A i \in 0..m : g[i] = IF i = 0 THEN 0 ELSE g[i - 1] + c[i - 1]
  BY DEF IsSum
<1>2. 0 \in S BY <1>1
<1>3. ASSUME NEW i \in Nat, i \in S PROVE i + 1 \in S
  <2>. SUFFICES ASSUME i + 1 <= n, i + 1 <= m PROVE h[i + 1] = g[i + 1] OBVIOUS
  <2>1. h[i + 1] = h[i] + c[i] /\ g[i + 1] = g[i] + c[i] BY <1>1
  <2>. QED BY <1>3, <2>1
<1>. HIDE DEF S
<1>4. Nat \subseteq S BY <1>2, <1>3, Induct
<1>. QED BY <1>4 DEF S

(* ... which adds one number at every step. *)
LEMMA SumStep ==
  ASSUME NEW c, NEW n \in Nat
  PROVE  SumTo(c, 0) = 0 /\ SumTo(c, n + 1) = SumTo(c, n) + c[n]
<1>1. \A m \in Nat : IsSum(CHOOSE h : IsSum(h, c, m), c, m) BY SumExists
<1>2. SumTo(c, 0) = 0
  <2>1. PICK z : z = (CHOOSE x : IsSum(x, c, 0)) OBVIOUS
  <2>2. IsSum(z, c, 0) BY <1>1, <2>1
  <2>3. z[0] = 0 BY <2>2 DEF IsSum
  <2>. QED BY <2>1, <2>3 DEF SumTo
<1>3. PICK h : h = (CHOOSE x : IsSum(x, c, n + 1)) OBVIOUS
<1>4. PICK g : g = (CHOOSE x : IsSum(x, c, n)) OBVIOUS
<1>5. IsSum(h, c, n + 1) /\ IsSum(g, c, n) BY <1>1, <1>3, <1>4
<1>6. h[n + 1] = h[n] + c[n] BY <1>5 DEF IsSum
<1>7. h[n] = g[n] BY <1>5, SumUnique
<1>. QED BY <1>2, <1>3, <1>4, <1>6, <1>7 DEF SumTo

(* Sums of natural numbers are natural numbers and grow. *)
LEMMA SumType ==
  ASSUME NEW c, NEW n \in Nat, \A i \in 0..(n - 1) : c[i] \in Nat
  PROVE  SumTo(c, n) \in Nat
<1>. DEFINE S == {m \in Nat : m <= n => SumTo(c, m) \in Nat}
<1>1. 0 \in S BY SumStep
<1>2. ASSUME NEW m \in Nat, m \in S PROVE m + 1 \in S BY <1>2, SumStep
<1>. HIDE DEF S
<1>3. Nat \subseteq S BY <1>1, <1>2, Induct
<1>. QED BY <1>3 DEF S

(* Pieces of nothing add nothing. *)
LEMMA SumStops ==
  ASSUME NEW c, NEW m \in Nat, NEW n \in Nat, m <= n, \A i \in 0..(n - 1) : c[i] \in Nat,
         \A i \in m..(n - 1) : c[i] = 0
  PROVE  SumTo(c, n) = SumTo(c, m)
<1>. DEFINE S == {k \in Nat : m + k <= n => SumTo(c, m + k) = SumTo(c, m)}
<1>1. 0 \in S OBVIOUS
<1>2. ASSUME NEW k \in Nat, k \in S PROVE k + 1 \in S
  <2>. SUFFICES ASSUME m + (k + 1) <= n PROVE SumTo(c, m + (k + 1)) = SumTo(c, m) OBVIOUS
  <2>1. SumTo(c, (m + k) + 1) = SumTo(c, m + k) + c[m + k] BY SumStep
  <2>2. c[m + k] = 0 OBVIOUS
  <2>3. SumTo(c, m + k) = SumTo(c, m) BY <1>2
  <2>4. SumTo(c, m) \in Nat BY SumType
  <2>. QED BY <2>1, <2>2, <2>3, <2>4
<1>. HIDE DEF S
<1>3. Nat \subseteq S BY <1>1, <1>2, Induct
<1>4. n - m \in S BY <1>3
<1>. QED BY <1>4 DEF S

(* A piece that is granted adds its amount. *)
LEMMA SumGrows ==
  ASSUME NEW c, NEW n \in Nat, NEW i \in 0..(n - 1), NEW x \in Nat, \A k \in 0..(n - 1) : c[k] \in Nat,
         NEW d, \A k \in 0..(n - 1) : d[k] = IF k = i THEN x ELSE c[k], c[i] = 0
  PROVE  SumTo(d, n) = SumTo(c, n) + x
<1>. DEFINE S == {k \in Nat : k <= n => SumTo(d, k) = SumTo(c, k) + (IF i < k THEN x ELSE 0)}
<1>1. 0 \in S BY SumStep
<1>2. ASSUME NEW k \in Nat, k \in S PROVE k + 1 \in S
  <2>. SUFFICES ASSUME k + 1 <= n
                PROVE  SumTo(d, k + 1) = SumTo(c, k + 1) + (IF i < k + 1 THEN x ELSE 0)
    OBVIOUS
  <2>1. SumTo(d, k + 1) = SumTo(d, k) + d[k] /\ SumTo(c, k + 1) = SumTo(c, k) + c[k] BY SumStep
  <2>2. SumTo(d, k) = SumTo(c, k) + (IF i < k THEN x ELSE 0) BY <1>2
  <2>3. SumTo(c, k) \in Nat BY SumType
  <2>. QED BY <2>1, <2>2, <2>3
<1>. HIDE DEF S
<1>3. Nat \subseteq S BY <1>1, <1>2, Induct
<1>. QED BY <1>3 DEF S

(* What landed() and the status add up are such sums. *)
LEMMA FirstPiecesIsSum ==
  ASSUME NEW t, NEW n
  PROVE  /\ FirstPieces(t, n) = SumTo(credit[t], n)
         /\ FirstPieces(t, n)' = SumTo(credit'[t], n')
BY Zenon DEF FirstPieces, SumTo, IsSum

-----------------------------------------------------------------------------
(* The net debits of a user.                                                *)

Pick(s) == CHOOSE x \in s : TRUE
IsTotal(h, d, b, S) ==
  h = [s \in SUBSET S |-> IF s = {} THEN 0 ELSE (d[Pick(s)] - b[Pick(s)]) + h[s \ {Pick(s)}]]
Total(d, b, S) == (CHOOSE h : IsTotal(h, d, b, S))[S]

(* What was moved is such a total. *)
LEMMA MovedIsTotal ==
  /\ Moved = Total(debit, back, Transfers)
  /\ Moved' = Total(debit', back', Transfers)
BY Zenon DEF Moved, MapThenSumSet, MapThenFoldSet, Total, IsTotal, Pick

(* The element that CHOOSE removes is one of the set. *)
LEMMA Picked == ASSUME NEW s, s # {} PROVE Pick(s) \in s
BY DEF Pick

(* The equations of a total have one solution ... *)
LEMMA TotalUnique ==
  ASSUME NEW d, NEW b, NEW S, NEW T, IsFiniteSet(S), NEW h, NEW g, IsTotal(h, d, b, S), IsTotal(g, d, b, T),
         NEW s \in SUBSET S, s \subseteq T
  PROVE  h[s] = g[s]
<1>. DEFINE K == {u \in SUBSET S : u \subseteq T /\ h[u] # g[u]}
<1>. SUFFICES ASSUME K # {} PROVE FALSE OBVIOUS
<1>1. PICK u \in K : \A v \in K : v \subseteq u => v = u
  <2>1. K \in SUBSET SUBSET S OBVIOUS
  <2>. HIDE DEF K
  <2>. QED BY <2>1, Smallest
<1>2. /\ h[u] = IF u = {} THEN 0 ELSE (d[Pick(u)] - b[Pick(u)]) + h[u \ {Pick(u)}]
      /\ g[u] = IF u = {} THEN 0 ELSE (d[Pick(u)] - b[Pick(u)]) + g[u \ {Pick(u)}]
  BY <1>1 DEF IsTotal
<1>3. u # {} BY <1>1, <1>2
<1>4. Pick(u) \in u BY <1>3, Picked
<1>5. h[u \ {Pick(u)}] = g[u \ {Pick(u)}] BY <1>1, <1>4
<1>. QED BY <1>1, <1>2, <1>5

(* ... on every set of transfers. *)
LEMMA TotalExists ==
  ASSUME NEW d, NEW b, NEW S, IsFiniteSet(S)
  PROVE  \E h : IsTotal(h, d, b, S)
<1>. DEFINE K == {u \in SUBSET S : ~ \E h : IsTotal(h, d, b, u)}
<1>. SUFFICES ASSUME K # {} PROVE FALSE OBVIOUS
<1>1. PICK u \in K : \A v \in K : v \subseteq u => v = u
  <2>1. K \in SUBSET SUBSET S OBVIOUS
  <2>. HIDE DEF K
  <2>. QED BY <2>1, Smallest
<1>. DEFINE g == [s \in SUBSET u |-> IF s = {} THEN 0
                                     ELSE (d[Pick(s)] - b[Pick(s)]) + Total(d, b, s \ {Pick(s)})]
<1>2. ASSUME NEW v \in SUBSET u, v # u PROVE g[v] = Total(d, b, v)
  <2>1. v \in SUBSET S /\ IsFiniteSet(v) BY <1>1, FS_Subset
  <2>2. PICK h : h = (CHOOSE x : IsTotal(x, d, b, v)) OBVIOUS
  <2>3. IsTotal(h, d, b, v) BY <1>1, <1>2, <2>1, <2>2
  <2>4. h[v] = IF v = {} THEN 0 ELSE (d[Pick(v)] - b[Pick(v)]) + h[v \ {Pick(v)}]
    BY <2>3 DEF IsTotal
  <2>5. CASE v = {} BY <2>2, <2>4, <2>5 DEF Total
  <2>6. CASE v # {}
    <3>. DEFINE r == v \ {Pick(v)}
    <3>1. Pick(v) \in v BY <2>6, Picked
    <3>2. r \in SUBSET S /\ r \in SUBSET v /\ r # u /\ r \in SUBSET u BY <1>1, <1>2, <3>1
    <3>3. PICK f : f = (CHOOSE x : IsTotal(x, d, b, r)) OBVIOUS
    <3>4. IsTotal(f, d, b, r) BY <1>1, <3>2, <3>3
    <3>5. h[r] = f[r] BY <2>1, <2>3, <3>2, <3>4, TotalUnique
    <3>6. h[r] = Total(d, b, r) BY <3>3, <3>5 DEF Total
    <3>. QED BY <2>2, <2>4, <2>6, <3>6 DEF Total
  <2>. QED BY <2>5, <2>6
<1>3. ASSUME NEW s \in SUBSET u
      PROVE  g[s] = IF s = {} THEN 0 ELSE (d[Pick(s)] - b[Pick(s)]) + g[s \ {Pick(s)}]
  <2>1. CASE s = {} BY <2>1
  <2>2. CASE s # {}
    <3>1. Pick(s) \in s BY <2>2, Picked
    <3>2. s \ {Pick(s)} \in SUBSET u /\ s \ {Pick(s)} # u BY <3>1
    <3>3. g[s \ {Pick(s)}] = Total(d, b, s \ {Pick(s)}) BY <1>2, <3>2
    <3>4. g[s] = (d[Pick(s)] - b[Pick(s)]) + Total(d, b, s \ {Pick(s)}) BY <2>2
    <3>. QED BY <2>2, <3>3, <3>4
  <2>. QED BY <2>1, <2>2
<1>4. IsTotal(g, d, b, u)
  <2>1. g = [s \in SUBSET u |-> g[s]] OBVIOUS
  <2>. HIDE DEF g
  <2>. QED BY <1>3, <2>1 DEF IsTotal
<1>. QED BY <1>1, <1>4

(* Net debits of a kind that is closed under addition have a total of it. *)
LEMMA TotalIn ==
  ASSUME NEW T, IsFiniteSet(T), NEW d, NEW b, NEW V, 0 \in V, \A x, y \in V : x + y \in V,
         \A u \in T : d[u] - b[u] \in V
  PROVE  Total(d, b, T) \in V
<1>1. PICK h : h = (CHOOSE y : IsTotal(y, d, b, T)) OBVIOUS
<1>2. IsTotal(h, d, b, T) BY <1>1, TotalExists
<1>. DEFINE K == {s \in SUBSET T : h[s] \notin V}
<1>3. K = {}
  <2>. SUFFICES ASSUME K # {} PROVE FALSE OBVIOUS
  <2>1. PICK u \in K : \A v \in K : v \subseteq u => v = u
    <3>1. K \in SUBSET SUBSET T OBVIOUS
    <3>. HIDE DEF K
    <3>. QED BY <3>1, Smallest
  <2>2. h[u] = IF u = {} THEN 0 ELSE (d[Pick(u)] - b[Pick(u)]) + h[u \ {Pick(u)}]
    BY <1>2, <2>1 DEF IsTotal
  <2>3. u # {} BY <2>1, <2>2
  <2>4. Pick(u) \in u /\ Pick(u) \in T BY <2>1, <2>3, Picked
  <2>5. h[u \ {Pick(u)}] \in V BY <2>1, <2>4
  <2>6. h[u] \in V
    <3>1. d[Pick(u)] - b[Pick(u)] \in V BY <2>4
    <3>. QED BY <2>2, <2>3, <2>5, <3>1
  <2>. QED BY <2>1, <2>6
<1>4. h[T] \in V BY <1>3
<1>. QED BY <1>1, <1>4 DEF Total

(* The total is a number, and a change of one transfer changes it as much. *)
LEMMA TotalChanges ==
  ASSUME NEW T, IsFiniteSet(T), NEW t \in T, NEW x \in Int,
         NEW d, NEW b, NEW e, NEW c, \A u \in T : d[u] - b[u] \in Int,
         \A u \in T : e[u] - c[u] = (d[u] - b[u]) + (IF u = t THEN x ELSE 0)
  PROVE  Total(d, b, T) \in Int /\ Total(e, c, T) = Total(d, b, T) + x
<1>1. PICK h : h = (CHOOSE y : IsTotal(y, d, b, T)) OBVIOUS
<1>2. PICK g : g = (CHOOSE y : IsTotal(y, e, c, T)) OBVIOUS
<1>3. IsTotal(h, d, b, T) /\ IsTotal(g, e, c, T) BY <1>1, <1>2, TotalExists
<1>. DEFINE Good(s) == h[s] \in Int /\ g[s] = h[s] + (IF t \in s THEN x ELSE 0)
<1>. DEFINE K == {s \in SUBSET T : ~Good(s)}
<1>4. K = {}
  <2>. SUFFICES ASSUME K # {} PROVE FALSE OBVIOUS
  <2>1. PICK u \in K : \A v \in K : v \subseteq u => v = u
    <3>1. K \in SUBSET SUBSET T OBVIOUS
    <3>. HIDE DEF K
    <3>. QED BY <3>1, Smallest
  <2>2. /\ h[u] = IF u = {} THEN 0 ELSE (d[Pick(u)] - b[Pick(u)]) + h[u \ {Pick(u)}]
        /\ g[u] = IF u = {} THEN 0 ELSE (e[Pick(u)] - c[Pick(u)]) + g[u \ {Pick(u)}]
    BY <1>3, <2>1 DEF IsTotal
  <2>3. u # {} BY <2>1, <2>2
  <2>4. Pick(u) \in u /\ Pick(u) \in T BY <2>1, <2>3, Picked
  <2>. DEFINE r == u \ {Pick(u)}
  <2>5. Good(r) BY <2>1, <2>4
  <2>6. t \in u <=> (t \in r \/ t = Pick(u)) BY <2>4
  <2>7. ~(t \in r /\ t = Pick(u)) OBVIOUS
  <2>8. PICK p : p = Pick(u) OBVIOUS
  <2>9. d[p] - b[p] \in Int /\ e[p] - c[p] = (d[p] - b[p]) + (IF p = t THEN x ELSE 0)
    BY <2>4, <2>8
  <2>10. h[u] = (d[p] - b[p]) + h[r] /\ g[u] = (e[p] - c[p]) + g[r] BY <2>2, <2>3, <2>8
  <2>. HIDE DEF r
  <2>11. Good(u) BY <2>5, <2>6, <2>7, <2>8, <2>9, <2>10
  <2>. QED BY <2>1, <2>11
<1>5. Good(T) BY <1>4
<1>. QED BY <1>1, <1>2, <1>5 DEF Total

-----------------------------------------------------------------------------
(* The pieces of a plan.                                                    *)

Cut(h, n) ==
  IF Fit(n) = {}
    THEN [pieces |-> <<>>, rest |-> n]
    ELSE [h[n - Max(Fit(n))] EXCEPT !.pieces = <<Max(Fit(n))>> \o @]
IsPlan(h, m) == h = [n \in 0..m |-> Cut(h, n)]

(* The largest denomination that fits is one that fits. *)
LEMMA FitLargest ==
  ASSUME denoms \in SUBSET (Nat \ {0}), NEW n \in Nat, Fit(n) # {}
  PROVE  Max(Fit(n)) \in 1..n
<1>1. \A d \in Fit(n) : d \in Nat /\ d # 0 /\ d <= n BY DEF Fit
<1>2. Fit(n) \in SUBSET (0..n) BY <1>1
<1>3. Max(Fit(n)) \in Fit(n) BY <1>2, Largest
<1>. QED BY <1>1, <1>3

(* The plans of all amounts up to m are a function ... *)
LEMMA PlanExists ==
  ASSUME denoms \in SUBSET (Nat \ {0}), NEW m \in Nat
  PROVE  \E h : IsPlan(h, m)
<1>. DEFINE S == {k \in Nat : \E h : IsPlan(h, k)}
<1>1. 0 \in S
  <2>1. Fit(0) = {}
    <3>1. \A d \in Fit(0) : d \in Nat /\ d # 0 /\ d <= 0 BY DEF Fit
    <3>. QED BY <3>1
  <2>2. IsPlan([n \in 0..0 |-> [pieces |-> <<>>, rest |-> n]], 0) BY <2>1 DEF IsPlan, Cut
  <2>. QED BY <2>2
<1>2. ASSUME NEW k \in Nat, k \in S PROVE k + 1 \in S
  <2>1. PICK h : IsPlan(h, k) BY <1>2
  <2>2. \A n \in 0..k : h[n] = Cut(h, n) BY <2>1 DEF IsPlan
  <2>. DEFINE g == [n \in 0..(k + 1) |-> IF n <= k THEN h[n] ELSE Cut(h, n)]
  <2>3. ASSUME NEW n \in 0..(k + 1) PROVE g[n] = Cut(g, n)
    <3>1. g[n] = Cut(h, n) BY <2>2
    <3>2. Fit(n) # {} => g[n - Max(Fit(n))] = h[n - Max(Fit(n))] BY FitLargest
    <3>. HIDE DEF g
    <3>. QED BY <3>1, <3>2 DEF Cut
  <2>4. g = [n \in 0..(k + 1) |-> g[n]] OBVIOUS
  <2>5. IsPlan(g, k + 1)
    <3>. HIDE DEF g
    <3>. QED BY <2>3, <2>4 DEF IsPlan
  <2>. QED BY <2>5
<1>. HIDE DEF S
<1>3. Nat \subseteq S BY <1>1, <1>2, Induct
<1>. QED BY <1>3 DEF S

(* ... that satisfies its equation at every amount ... *)
LEMMA PlanAt ==
  ASSUME NEW m, NEW h, IsPlan(h, m), NEW n \in 0..m
  PROVE  h[n] = Cut(h, n)
BY DEF IsPlan

(* ... the only one, whatever the largest amount, ... *)
LEMMA PlanUnique ==
  ASSUME denoms \in SUBSET (Nat \ {0}), NEW m \in Nat, NEW k \in Nat, NEW h, NEW g, IsPlan(h, m), IsPlan(g, k),
         NEW n \in 0..m, n <= k
  PROVE  h[n] = g[n]
<1>. DEFINE S == {i \in Nat : i <= m /\ i <= k => h[i] = g[i]}
<1>1. ASSUME NEW i \in Nat, \A j \in 0..(i - 1) : j \in S PROVE i \in S
  <2>. SUFFICES ASSUME i <= m, i <= k PROVE h[i] = g[i] OBVIOUS
  <2>1. Fit(i) # {} => h[i - Max(Fit(i))] = g[i - Max(Fit(i))] BY <1>1, FitLargest
  <2>2. h[i] = Cut(h, i) /\ g[i] = Cut(g, i)
    <3>1. i \in 0..m /\ i \in 0..k OBVIOUS
    <3>. QED BY <3>1, PlanAt
  <2>. QED BY <2>1, <2>2 DEF Cut
<1>. HIDE DEF S
<1>2. Nat \subseteq S BY <1>1, StrongInduct
<1>. QED BY <1>2 DEF S

(* ... so that a plan is its first piece and the plan of what is left. *)
LEMMA PlanStep ==
  ASSUME denoms \in SUBSET (Nat \ {0}), NEW n \in Nat
  PROVE  Plan(n) = IF Fit(n) = {}
                     THEN [pieces |-> <<>>, rest |-> n]
                     ELSE [Plan(n - Max(Fit(n))) EXCEPT !.pieces = <<Max(Fit(n))>> \o @]
<1>1. \A m : Plan(m) = (CHOOSE x : IsPlan(x, m))[m] BY Zenon DEF Plan, IsPlan, Cut
<1>2. PICK h : h = (CHOOSE x : IsPlan(x, n)) OBVIOUS
<1>3. IsPlan(h, n) BY <1>2, PlanExists
<1>6. h[n] = Cut(h, n) BY <1>3, PlanAt
<1>4. CASE Fit(n) = {} BY <1>1, <1>2, <1>4, <1>6 DEF Cut
<1>5. CASE Fit(n) # {}
  <2>1. PICK m : m = n - Max(Fit(n)) OBVIOUS
  <2>2. m \in Nat /\ m <= n BY <1>5, <2>1, FitLargest
  <2>3. PICK g : g = (CHOOSE x : IsPlan(x, m)) OBVIOUS
  <2>4. IsPlan(g, m) BY <2>2, <2>3, PlanExists
  <2>5. g[m] = h[m] BY <1>3, <2>2, <2>4, PlanUnique
  <2>6. h[n] = [h[m] EXCEPT !.pieces = <<Max(Fit(n))>> \o @] BY <1>5, <1>6, <2>1 DEF Cut
  <2>. QED BY <1>1, <1>2, <1>5, <2>1, <2>3, <2>5, <2>6
<1>. QED BY <1>4, <1>5

(* A plan without rest is a sequence of amounts that add up to the sum.     *)
LEMMA PlanPays ==
  ASSUME denoms \in SUBSET (Nat \ {0}), NEW n \in Nat, Plan(n).rest = 0
  PROVE  /\ Plan(n).pieces \in Seq(Nat \ {0})
         /\ \E f \in [0..Len(Plan(n).pieces) -> Nat] :
              /\ f[0] = n /\ f[Len(Plan(n).pieces)] = 0
              /\ \A k \in 1..Len(Plan(n).pieces) : f[k] = f[k - 1] - Plan(n).pieces[k]
<1>. DEFINE Runs(f, p, m) == /\ f \in [0..Len(p) -> Nat]
                             /\ f[0] = m /\ f[Len(p)] = 0
                             /\ \A k \in 1..Len(p) : f[k] = f[k - 1] - p[k]
<1>. DEFINE Good(m) == /\ Plan(m) \in [pieces : Seq(Nat \ {0}), rest : Nat]
                       /\ Plan(m).rest = 0 => \E f : Runs(f, Plan(m).pieces, m)
<1>. DEFINE S == {m \in Nat : Good(m)}
<1>1. ASSUME NEW m \in Nat, \A k \in 0..(m - 1) : k \in S PROVE m \in S
  <2>. PICK p : p = Plan(m) OBVIOUS
  <2>1. CASE Fit(m) = {}
    <3>1. p = [pieces |-> <<>>, rest |-> m] BY <2>1, PlanStep
    <3>2. p.rest = 0 => Runs([k \in 0..0 |-> 0], p.pieces, m) BY <3>1
    <3>3. p \in [pieces : Seq(Nat \ {0}), rest : Nat] BY <3>1
    <3>. HIDE DEF Runs
    <3>. QED BY <3>2, <3>3
  <2>2. CASE Fit(m) # {}
    <3>1. PICK d \in 1..m : d = Max(Fit(m)) BY <2>2, FitLargest
    <3>2. PICK q : q = Plan(m - d) OBVIOUS
    <3>3. p = [q EXCEPT !.pieces = <<d>> \o @] BY <2>2, <3>1, <3>2, PlanStep
    <3>10. m - d \in 0..(m - 1) OBVIOUS
    <3>4. Good(m - d)
      <4>1. m - d \in S BY <1>1, <3>10
      <4>. HIDE DEF Good
      <4>. QED BY <4>1
    <3>5. q \in [pieces : Seq(Nat \ {0}), rest : Nat] BY <3>2, <3>4
    <3>6. PICK s \in Seq(Nat \ {0}) : s = q.pieces BY <3>5
    <3>7. p.pieces = <<d>> \o s /\ p.rest = q.rest BY <3>3, <3>5, <3>6
    <3>8. p \in [pieces : Seq(Nat \ {0}), rest : Nat]
      <4>1. <<d>> \o s \in Seq(Nat \ {0})
        <5>1. <<d>> \in Seq(Nat \ {0}) OBVIOUS
        <5>. QED BY <5>1
      <4>2. PICK r \in Seq(Nat \ {0}) : r = <<d>> \o s BY <4>1
      <4>3. p = [q EXCEPT !.pieces = r] BY <3>3, <3>6, <4>2
      <4>. QED BY <3>5, <4>3
    <3>9. ASSUME p.rest = 0 PROVE \E f : Runs(f, p.pieces, m)
      <4>1. PICK g : Runs(g, s, m - d) BY <3>2, <3>4, <3>6, <3>7, <3>9
      <4>2. PICK r : r = <<d>> \o s OBVIOUS
      <4>3. Len(r) = Len(s) + 1 /\ r[1] = d /\ \A k \in 1..Len(s) : r[k + 1] = s[k]
        BY <4>2
      <4>. DEFINE f == [k \in 0..Len(r) |-> IF k = 0 THEN m ELSE g[k - 1]]
      <4>4. Len(s) \in Nat OBVIOUS
      <4>5. f \in [0..Len(r) -> Nat] /\ f[0] = m /\ f[Len(r)] = 0 BY <4>1, <4>3, <4>4
      <4>6. ASSUME NEW k \in 1..Len(r) PROVE f[k] = f[k - 1] - r[k]
        <5>1. CASE k = 1 BY <4>1, <4>3, <4>4, <5>1
        <5>2. CASE k # 1
          <6>1. k - 1 \in 1..Len(s) /\ (k - 1) + 1 = k BY <4>3, <4>4, <5>2
          <6>2. r[k] = s[k - 1] BY <4>3, <6>1
          <6>3. g[k - 1] = g[(k - 1) - 1] - s[k - 1] BY <4>1, <6>1
          <6>. QED BY <4>3, <4>4, <5>2, <6>2, <6>3
        <5>. QED BY <5>1, <5>2
      <4>. HIDE DEF f
      <4>7. Runs(f, r, m) BY <4>5, <4>6
      <4>8. p.pieces = r BY <3>7, <4>2
      <4>. HIDE DEF Runs
      <4>. QED BY <4>7, <4>8
    <3>. HIDE DEF Runs
    <3>. QED BY <3>8, <3>9
  <2>. QED BY <2>1, <2>2
<1>. HIDE DEF S
<1>2. Nat \subseteq S BY <1>1, StrongInduct
<1>3. Good(n) BY <1>2 DEF S
<1>. QED BY <1>3

-----------------------------------------------------------------------------
(* The inductive invariant.                                                 *)

Shared ==
  {"consumption", "landed", "guardGrant", "grant", "remainder", "guardReverse", "reverse", "release"}
StartPlaces == Shared \cup {"idle", "existing", "allowance", "schedule", "resume", "guardDebit", "debit", "end"}
JobPlaces == Shared \cup {"none", "waiting", "failed", "done"}

Operations == [kind : {"debit", "grant", "reverse"}, t : Transfers, i : Pieces, amount : Nat \ {0}]

TypeInv ==
  /\ debit \in [Transfers -> Nat] /\ covered \in [Transfers -> Nat] /\ back \in [Transfers -> Nat]
  /\ credit \in [Transfers -> [Pieces -> Nat]]
  /\ balance \in Int /\ denoms \in Denominations
  /\ lock \in Actors \cup {NoActor}
  /\ pc \in [Actors -> StartPlaces \cup JobPlaces]
  /\ \A a \in Actors : pc[a] \in IF a[1] = "start" THEN StartPlaces ELSE JobPlaces
  /\ ok \in [Actors -> {"ok", "none", "error", "busy"}]
  /\ todo \in [Actors -> Seq(Operations)]
  /\ \A a \in Actors : todo[a] = <<>> <=> pc[a] \notin Calling
  /\ tries \in [Calls -> 0..Attempts]
  /\ \A c \in Calls : pc[Job(c)] # "failed" => tries[c] < Attempts
  /\ late = {}

(* What the entries of a transfer say of each other. *)
MoneyOK(t) ==
  /\ debit[t] \in {0, Amount[t]}
  /\ covered[t] <= debit[t]
  /\ Credited(t) + back[t] <= debit[t]
  /\ Credited(t) > 0 => covered[t] = debit[t]
  /\ back[t] > 0 => back[t] = debit[t] - Credited(t)
  /\ \A i, j \in Pieces : i < j /\ credit[t][j] > 0 => credit[t][i] > 0

(* f counts down what is open while the operations are issued. *)
Counts(f, ops, n) ==
  /\ f \in [0..Len(ops) -> Nat]
  /\ f[0] = n /\ f[Len(ops)] = 0
  /\ \A k \in 1..Len(ops) : f[k] = f[k - 1] - ops[k].amount

(* The pieces still to grant follow those that c holds and add up to n. *)
Grants(t, ops, c, n) ==
  /\ \A k \in 1..Len(ops) : ops[k].kind = "grant" /\ ops[k].t = t /\ ops[k].i = ops[1].i + (k - 1)
  /\ \A i \in Pieces : c[i] > 0 <=> i < ops[1].i
  /\ \E f : Counts(f, ops, n)

(* What an actor that holds the lock has read is still so. *)
HolderAt(a, p, ops) ==
  /\ p \in {"allowance", "schedule", "guardDebit", "debit"} => debit[Id(a)] = 0
  /\ p \in {"schedule", "guardDebit", "debit"} => Amount[Id(a)] <= Purchased - Moved
  /\ p \in {"guardDebit", "debit"} =>
       /\ ops = <<Operation("debit", Id(a), 0, Amount[Id(a)])>>
       /\ pc[Job(a[2])] \in {"waiting", "failed"}
  /\ p \in {"landed", "guardGrant", "grant", "remainder", "guardReverse", "reverse"} =>
       debit[Id(a)] > 0 /\ back[Id(a)] = 0
  /\ p \in {"landed", "guardGrant", "grant"} => covered[Id(a)] = debit[Id(a)]
  /\ p \in {"guardGrant", "grant"} =>
       Grants(Id(a), ops, credit[Id(a)], debit[Id(a)] - Credited(Id(a)))
  /\ p \in {"guardReverse", "reverse"} =>
       /\ debit[Id(a)] > Credited(Id(a))
       /\ ops = <<Operation("reverse", Id(a), 0, debit[Id(a)] - Credited(Id(a)))>>

HolderOK(a) == HolderAt(a, pc[a], todo[a])

LockOK ==
  /\ \A a \in Actors : InCall(a) => lock = a
  /\ \A a \in Actors : lock = a => HolderOK(a)

(* A job that is going to look at its transfer again. *)
Alive(c) ==
  /\ pc[Job(c)] \notin {"none", "done"}
  /\ pc[Job(c)] = "release" => ok[Job(c)] \in {"error", "busy"}

JobsOK ==
  /\ \A c \in Calls : pc[<<"start", c>>] \in {"idle", "existing", "allowance", "schedule", "resume"} =>
       pc[Job(c)] = "none"
  /\ \A t \in Transfers : debit[t] > Credited(t) + back[t] =>
       \E c \in Calls : TransferOf[c] = t /\ Alive(c)

WalletInv ==
  /\ TypeInv
  /\ \A t \in Transfers : MoneyOK(t)
  /\ Moved <= Purchased
  /\ LockOK
  /\ JobsOK

-----------------------------------------------------------------------------
(* Facts about states of the invariant's types.                             *)

(* Min and Max of two numbers. *)
LEMMA TwoNumbers ==
  ASSUME NEW x \in Int, NEW y \in Int
  PROVE  /\ Min({x, y}) = IF x <= y THEN x ELSE y
         /\ Max({x, y}) = IF x <= y THEN y ELSE x
BY DEF Min, Max

(* Min of three numbers, as the allowance takes it. *)
LEMMA ThreeNumbers ==
  ASSUME NEW x \in Int, NEW y \in Int, NEW z \in Int
  PROVE  Min({x, y, z}) \in {x, y, z} /\ Min({x, y, z}) <= z
<1>1. \E m \in {x, y, z} : \A k \in {x, y, z} : m <= k OBVIOUS
<1>. QED BY <1>1 DEF Min

(* What a transfer credited is a number. *)
LEMMA CreditedType ==
  ASSUME TypeInv, NEW t \in Transfers
  PROVE  /\ Credited(t) \in Nat
         /\ Credited(t) = SumTo(credit[t], MaxPieces)
         /\ \A i \in 0..(MaxPieces - 1) : i \in Pieces /\ credit[t][i] \in Nat
<1>1. MaxPieces \in Nat BY TransferAssumption
<1>2. \A i \in 0..(MaxPieces - 1) : i \in Pieces /\ credit[t][i] \in Nat BY DEF TypeInv, Pieces
<1>. QED BY <1>1, <1>2, SumType, FirstPiecesIsSum DEF Credited

(* What all transfers moved is a number. *)
LEMMA MovedType == ASSUME TypeInv PROVE Moved \in Int
<1>1. IsFiniteSet(Transfers) BY TransferAssumption
<1>2. \A u \in Transfers : debit[u] \in Nat /\ back[u] \in Nat BY DEF TypeInv
<1>3. Total(debit, back, Transfers) \in Int
  <2>1. \A u \in Transfers : debit[u] - back[u] \in Int BY <1>2
  <2>. QED BY <1>1, <2>1, TotalIn
<1>. QED BY <1>3, MovedIsTotal

(* What landed() reads is all that was credited. *)
LEMMA LandedIsCredited ==
  ASSUME TypeInv, NEW t \in Transfers, MoneyOK(t)
  PROVE  /\ LandedCount(t) \in 0..MaxPieces
         /\ \A i \in Pieces : credit[t][i] > 0 <=> i < LandedCount(t)
         /\ LandedUsd(t) = Credited(t)
<1>1. MaxPieces \in Nat BY TransferAssumption
<1>2. \A i \in Pieces : credit[t][i] \in Nat BY DEF TypeInv
<1>. DEFINE E == {n \in 0..MaxPieces : n = MaxPieces \/ credit[t][n] = 0}
<1>3. PICK m \in E : \A k \in E : m <= k
  <2>1. MaxPieces \in E /\ E \in SUBSET Nat BY <1>1
  <2>. QED BY <2>1, Least
<1>4. \A i \in 0..(m - 1) : credit[t][i] > 0 BY <1>1, <1>2, <1>3 DEF Pieces
<1>5. PICK n \in 0..MaxPieces : n = LandedCount(t) /\ (\A i \in 0..(n - 1) : credit[t][i] > 0)
                                /\ (n = MaxPieces \/ credit[t][n] = 0)
  BY <1>3, <1>4 DEF LandedCount
<1>6. \A i \in Pieces : credit[t][i] > 0 <=> i < n
  <2>1. \A i, j \in Pieces : i < j /\ credit[t][j] > 0 => credit[t][i] > 0 BY DEF MoneyOK
  <2>2. \A i \in Pieces : i < n => credit[t][i] > 0 BY <1>5 DEF Pieces
  <2>3. ASSUME NEW i \in Pieces, ~(i < n) PROVE ~(credit[t][i] > 0)
    <3>1. n # MaxPieces /\ n \in Pieces /\ credit[t][n] = 0 BY <1>1, <1>5, <2>3 DEF Pieces
    <3>. QED BY <2>1, <2>3, <3>1 DEF Pieces
  <2>. QED BY <2>2, <2>3
<1>7. SumTo(credit[t], MaxPieces) = SumTo(credit[t], n)
  <2>1. \A i \in 0..(MaxPieces - 1) : credit[t][i] \in Nat BY <1>2 DEF Pieces
  <2>2. \A i \in n..(MaxPieces - 1) : credit[t][i] = 0
    <3>. TAKE i \in n..(MaxPieces - 1)
    <3>1. i \in Pieces /\ ~(i < n) BY <1>5 DEF Pieces
    <3>. QED BY <1>2, <1>6, <3>1
  <2>. QED BY <1>1, <2>1, <2>2, SumStops
<1>. QED BY <1>5, <1>6, <1>7, CreditedType, FirstPiecesIsSum DEF LandedUsd

-----------------------------------------------------------------------------
(* What a billing call does to the money.                                   *)

MoneyTypes ==
  /\ debit \in [Transfers -> Nat] /\ covered \in [Transfers -> Nat] /\ back \in [Transfers -> Nat]
  /\ credit \in [Transfers -> [Pieces -> Nat]]
  /\ balance \in Int

MoneyInv ==
  /\ MoneyTypes
  /\ \A t \in Transfers : MoneyOK(t)
  /\ Moved <= Purchased

Taken(t) ==
  /\ debit[t] = 0 /\ Amount[t] <= Purchased - Moved
  /\ Consume(t, Amount[t])

Paid(t, i, x) ==
  /\ back[t] = 0 /\ covered[t] = debit[t]
  /\ x \in 1..(debit[t] - Credited(t)) /\ i \in Pieces
  /\ \A j \in Pieces : credit[t][j] > 0 <=> j < i
  /\ Grant(t, i, x)

Returned(t) ==
  /\ back[t] = 0 /\ debit[t] > Credited(t)
  /\ ReturnDebit(t, debit[t] - Credited(t))

(* What is credited depends on the credits of that transfer alone. *)
LEMMA NextCredited ==
  ASSUME NEW t
  PROVE  /\ Credited(t)' = SumTo(credit'[t], MaxPieces)
         /\ credit' = credit => Credited(t)' = Credited(t)
<1>1. Credited(t)' = SumTo(credit'[t], MaxPieces) /\ Credited(t) = SumTo(credit[t], MaxPieces)
  BY Zenon DEF Credited, FirstPieces, SumTo, IsSum
<1>. QED BY <1>1

(* A change of one transfer changes the total as much. *)
LEMMA NextMoved ==
  ASSUME MoneyTypes, NEW t \in Transfers, NEW x \in Int,
         \A u \in Transfers :
           debit'[u] - back'[u] = (debit[u] - back[u]) + (IF u = t THEN x ELSE 0)
  PROVE  Moved \in Int /\ Moved' = Moved + x
<1>1. IsFiniteSet(Transfers) BY TransferAssumption
<1>2. \A u \in Transfers : debit[u] - back[u] \in Int BY DEF MoneyTypes
<1>3. /\ Total(debit, back, Transfers) \in Int
      /\ Total(debit', back', Transfers) = Total(debit, back, Transfers) + x
  BY <1>1, <1>2, TotalChanges
<1>. QED BY <1>3, MovedIsTotal

(* The total depends on debits and returns alone. *)
LEMMA SameMoved == ASSUME debit' = debit, back' = back PROVE Moved' = Moved
BY MovedIsTotal

(* The types of the money, without the actors. *)
LEMMA CreditedTyped ==
  ASSUME MoneyTypes, NEW t \in Transfers
  PROVE  /\ Credited(t) \in Nat
         /\ Credited(t) = SumTo(credit[t], MaxPieces)
         /\ \A i \in 0..(MaxPieces - 1) : i \in Pieces /\ credit[t][i] \in Nat
<1>1. MaxPieces \in Nat BY TransferAssumption
<1>2. \A i \in 0..(MaxPieces - 1) : i \in Pieces /\ credit[t][i] \in Nat BY DEF MoneyTypes, Pieces
<1>. QED BY <1>1, <1>2, SumType, FirstPiecesIsSum DEF Credited

(* The debit, within the allowance, keeps the money in order. *)
LEMMA TakenMoney ==
  ASSUME MoneyInv, NEW t \in Transfers, Taken(t)
  PROVE  MoneyInv'
<1>1. Amount[t] \in Nat /\ Amount[t] # 0 /\ Purchased \in Nat BY TransferAssumption
<1>2. /\ debit' = [debit EXCEPT ![t] = Amount[t]] /\ credit' = credit /\ back' = back
      /\ covered' = [covered EXCEPT ![t] = Min({Amount[t], Max({balance, 0})})]
      /\ balance' = balance - Amount[t]
  BY DEF Taken, Consume
<1>3. PICK x \in Nat : x = Min({Amount[t], Max({balance, 0})}) /\ x <= Amount[t]
  <2>1. balance \in Int BY DEF MoneyInv, MoneyTypes
  <2>2. PICK y : y = Max({balance, 0}) OBVIOUS
  <2>3. y \in Nat BY <2>1, <2>2, TwoNumbers
  <2>4. Min({Amount[t], y}) = IF Amount[t] <= y THEN Amount[t] ELSE y BY <1>1, <2>3, TwoNumbers
  <2>. QED BY <1>1, <2>2, <2>3, <2>4
<1>4. MoneyTypes'
  <2>1. covered' = [covered EXCEPT ![t] = x] BY <1>2, <1>3
  <2>. QED BY <1>1, <1>2, <2>1 DEF MoneyInv, MoneyTypes
<1>5. Moved' <= Purchased
  <2>1. \A u \in Transfers :
          debit'[u] - back'[u] = (debit[u] - back[u]) + (IF u = t THEN Amount[t] ELSE 0)
    BY <1>1, <1>2 DEF MoneyInv, MoneyTypes, Taken
  <2>2. Moved \in Int /\ Moved' = Moved + Amount[t]
    <3>1. Amount[t] \in Int BY <1>1
    <3>. QED BY <2>1, <3>1, NextMoved DEF MoneyInv
  <2>. QED BY <1>1, <2>2 DEF Taken
<1>6. ASSUME NEW u \in Transfers PROVE MoneyOK(u)'
  <2>1. Credited(u)' = Credited(u) BY <1>2, NextCredited
  <2>2. MoneyOK(u) /\ Credited(u) \in Nat BY CreditedTyped DEF MoneyInv
  <2>3. CASE u # t
    <3>1. debit'[u] = debit[u] /\ covered'[u] = covered[u] BY <1>2, <2>3 DEF MoneyInv, MoneyTypes
    <3>. QED BY <1>2, <2>1, <2>2, <3>1 DEF MoneyOK
  <2>4. CASE u = t
    <3>1. debit'[t] = Amount[t] /\ covered'[t] = x BY <1>2, <1>3 DEF MoneyInv, MoneyTypes
    <3>2. debit[t] = 0 /\ back[t] \in Nat BY DEF Taken, MoneyInv, MoneyTypes
    <3>3. Credited(t) = 0 /\ back[t] = 0 BY <2>2, <2>4, <3>2 DEF MoneyOK
    <3>. QED BY <1>1, <1>2, <1>3, <2>1, <2>2, <2>4, <3>1, <3>3 DEF MoneyOK
  <2>. QED BY <2>3, <2>4
<1>. QED BY <1>4, <1>5, <1>6 DEF MoneyInv

(* So does the grant of the next piece within what is open ... *)
LEMMA PaidMoney ==
  ASSUME MoneyInv, NEW t \in Transfers, NEW i, NEW x, Paid(t, i, x)
  PROVE  /\ MoneyInv'
         /\ Credited(t)' = Credited(t) + x
         /\ \A u \in Transfers : u # t => Credited(u)' = Credited(u)
         /\ debit' = debit /\ covered' = covered /\ back' = back
<1>1. /\ credit' = [credit EXCEPT ![t][i] = x] /\ i \in Pieces /\ x \in Nat /\ x > 0
      /\ debit' = debit /\ covered' = covered /\ back' = back /\ balance' = balance
  <2>1. debit[t] \in Nat /\ Credited(t) \in Nat BY CreditedTyped DEF MoneyInv, MoneyTypes
  <2>. QED BY <2>1 DEF Paid, Grant
<1>2. MoneyTypes' BY <1>1 DEF MoneyInv, MoneyTypes
<1>3. Moved' <= Purchased BY <1>1, SameMoved DEF MoneyInv
<1>4. \A k \in Pieces : credit'[t][k] = IF k = i THEN x ELSE credit[t][k]
  BY <1>1 DEF MoneyInv, MoneyTypes
<1>5. Credited(t)' = Credited(t) + x
  <2>1. MaxPieces \in Nat BY TransferAssumption
  <2>2. credit[t][i] = 0
    <3>1. credit[t][i] > 0 <=> i < i BY <1>1 DEF Paid
    <3>2. credit[t][i] \in Nat BY <1>1 DEF MoneyInv, MoneyTypes
    <3>3. i \in Nat BY <1>1, <2>1 DEF Pieces
    <3>. QED BY <3>1, <3>2, <3>3
  <2>3. \A k \in 0..(MaxPieces - 1) : credit[t][k] \in Nat BY DEF MoneyInv, MoneyTypes, Pieces
  <2>4. SumTo(credit'[t], MaxPieces) = SumTo(credit[t], MaxPieces) + x
    <3>1. PICK c, d : c = credit[t] /\ d = credit'[t] OBVIOUS
    <3>2. i \in 0..(MaxPieces - 1) BY <1>1 DEF Pieces
    <3>3. \A k \in 0..(MaxPieces - 1) : d[k] = IF k = i THEN x ELSE c[k] BY <1>4, <3>1 DEF Pieces
    <3>4. c[i] = 0 /\ \A k \in 0..(MaxPieces - 1) : c[k] \in Nat BY <2>2, <2>3, <3>1
    <3>5. SumTo(d, MaxPieces) = SumTo(c, MaxPieces) + x
      BY <1>1, <2>1, <3>2, <3>3, <3>4, SumGrows
    <3>. QED BY <3>1, <3>5
  <2>. QED BY <2>4, CreditedTyped, NextCredited DEF MoneyInv
<1>6. ASSUME NEW u \in Transfers, u # t PROVE credit'[u] = credit[u] /\ Credited(u)' = Credited(u)
  <2>1. credit'[u] = credit[u] BY <1>1, <1>6 DEF MoneyInv, MoneyTypes
  <2>. QED BY <2>1, CreditedTyped, NextCredited DEF MoneyInv
<1>7. ASSUME NEW u \in Transfers PROVE MoneyOK(u)'
  <2>1. MoneyOK(u) BY DEF MoneyInv
  <2>2. CASE u # t BY <1>1, <1>6, <2>1, <2>2 DEF MoneyOK
  <2>3. CASE u = t
    <3>1. \A j, k \in Pieces : j < k /\ credit'[t][k] > 0 => credit'[t][j] > 0
      BY <1>1, <1>4 DEF Paid, Pieces
    <3>2. debit[t] \in Nat /\ Credited(t) \in Nat /\ back[t] = 0
      BY CreditedTyped DEF MoneyInv, MoneyTypes, Paid
    <3>3. covered[t] = debit[t] /\ x <= debit[t] - Credited(t) BY DEF Paid
    <3>4. debit[t] \in {0, Amount[t]} BY <2>1, <2>3 DEF MoneyOK
    <3>. QED BY <1>1, <1>5, <2>3, <3>1, <3>2, <3>3, <3>4 DEF MoneyOK
  <2>. QED BY <2>2, <2>3
<1>. QED BY <1>1, <1>2, <1>3, <1>5, <1>6, <1>7 DEF MoneyInv

(* ... and the return of all that is open. *)
LEMMA ReturnedMoney ==
  ASSUME MoneyInv, NEW t \in Transfers, Returned(t)
  PROVE  MoneyInv'
<1>1. /\ debit[t] \in Nat /\ Credited(t) \in Nat
      /\ back[t] = 0 /\ debit[t] > Credited(t)
  BY CreditedTyped DEF MoneyInv, MoneyTypes, Returned
<1>2. PICK x \in Nat : x = debit[t] - Credited(t) /\ x > 0 BY <1>1
<1>3. /\ back' = [back EXCEPT ![t] = x] /\ balance' = balance + x
      /\ debit' = debit /\ covered' = covered /\ credit' = credit
  BY <1>2 DEF Returned, ReturnDebit
<1>4. MoneyTypes' BY <1>3 DEF MoneyInv, MoneyTypes
<1>5. Moved' <= Purchased
  <2>1. \A u \in Transfers :
          debit'[u] - back'[u] = (debit[u] - back[u]) + (IF u = t THEN 0 - x ELSE 0)
    BY <1>1, <1>3 DEF MoneyInv, MoneyTypes
  <2>2. Moved \in Int /\ Moved' = Moved + (0 - x)
    <3>1. 0 - x \in Int OBVIOUS
    <3>. QED BY <2>1, <3>1, NextMoved DEF MoneyInv
  <2>3. Purchased \in Nat BY TransferAssumption
  <2>. QED BY <2>2, <2>3 DEF MoneyInv
<1>6. ASSUME NEW u \in Transfers PROVE MoneyOK(u)'
  <2>1. Credited(u)' = Credited(u) BY <1>3, NextCredited
  <2>2. MoneyOK(u) BY DEF MoneyInv
  <2>3. CASE u # t
    <3>1. back'[u] = back[u] BY <1>3, <2>3 DEF MoneyInv, MoneyTypes
    <3>. QED BY <1>3, <2>1, <2>2, <3>1 DEF MoneyOK
  <2>4. CASE u = t
    <3>1. back'[t] = x BY <1>3 DEF MoneyInv, MoneyTypes
    <3>. QED BY <1>1, <1>2, <1>3, <2>1, <2>2, <2>4, <3>1 DEF MoneyOK
  <2>. QED BY <2>3, <2>4
<1>. QED BY <1>4, <1>5, <1>6 DEF MoneyInv

(* What the holder of the lock issues, and what its call does. *)

(* The transfer and the job of an actor, and where it may be. *)
LEMMA ActorFacts ==
  ASSUME NEW a \in Actors
  PROVE  /\ Id(a) \in Transfers
         /\ a[1] \in {"start", "job"} /\ a[2] \in Calls /\ a = <<a[1], a[2]>>
         /\ Job(a[2]) \in Actors /\ Job(a[2])[1] = "job" /\ Job(a[2])[2] = a[2]
         /\ Id(Job(a[2])) = Id(a)
BY TransferAssumption DEF Actors, Id, Job

(* The invariant has what the steps of the money need. *)
LEMMA HasMoney == ASSUME WalletInv PROVE MoneyInv
BY DEF WalletInv, TypeInv, MoneyInv, MoneyTypes

(* An actor in a call holds the lock and has an operation to issue. *)
LEMMA Issued ==
  ASSUME WalletInv, NEW a \in Actors, InCall(a)
  PROVE  /\ lock = a /\ HolderOK(a)
         /\ todo[a] \in Seq(Operations) /\ Len(todo[a]) \in Nat \ {0}
         /\ Head(todo[a]) = todo[a][1] /\ Head(todo[a]) \in Operations
         /\ Len(todo[a]) > 1 => Tail(todo[a]) \in Seq(Operations) /\ Tail(todo[a]) # <<>>
<1>1. lock = a /\ HolderOK(a) BY DEF WalletInv, LockOK
<1>2. pc[a] \in Calling BY DEF InCall, Calling
<1>3. PICK s \in Seq(Operations) : s = todo[a] /\ s # <<>> BY <1>2 DEF WalletInv, TypeInv
<1>4. Len(s) \in Nat \ {0} BY <1>3
<1>5. Head(s) = s[1] /\ s[1] \in Operations BY <1>4
<1>6. Len(s) > 1 => Tail(s) \in Seq(Operations) /\ Tail(s) # <<>>
  <2>1. s # <<>> BY <1>3
  <2>2. Tail(s) \in Seq(Operations) /\ Len(Tail(s)) = Len(s) - 1 BY <2>1
  <2>3. Len(s) > 1 => Len(Tail(s)) # 0 BY <1>4, <2>2
  <2>. QED BY <2>2, <2>3
<1>. QED BY <1>1, <1>3, <1>4, <1>5, <1>6

(* The executed debit of a holder takes money within the allowance. *)
LEMMA DebitCall ==
  ASSUME WalletInv, NEW a \in Actors, pc[a] = "debit", Execute(Head(todo[a]))
  PROVE  Taken(Id(a))
<1>1. InCall(a) BY DEF InCall
<1>2. /\ debit[Id(a)] = 0 /\ Amount[Id(a)] <= Purchased - Moved
      /\ todo[a] = <<Operation("debit", Id(a), 0, Amount[Id(a)])>>
  BY <1>1, Issued DEF HolderAt, HolderOK
<1>3. PICK op : op = Head(todo[a]) /\ op.kind = "debit" /\ op.t = Id(a) /\ op.amount = Amount[Id(a)]
  BY <1>2 DEF Operation
<1>4. ~Known(op) BY <1>2, <1>3 DEF Known
<1>. QED BY <1>2, <1>3, <1>4 DEF Execute, Taken

(* The executed return of a holder returns all that is open. *)
LEMMA ReverseCall ==
  ASSUME WalletInv, NEW a \in Actors, pc[a] = "reverse", Execute(Head(todo[a]))
  PROVE  Returned(Id(a))
<1>1. InCall(a) BY DEF InCall
<1>2. /\ back[Id(a)] = 0 /\ debit[Id(a)] > Credited(Id(a))
      /\ todo[a] = <<Operation("reverse", Id(a), 0, debit[Id(a)] - Credited(Id(a)))>>
  BY <1>1, Issued DEF HolderAt, HolderOK
<1>3. PICK op : /\ op = Head(todo[a]) /\ op.kind = "reverse" /\ op.t = Id(a)
                /\ op.amount = debit[Id(a)] - Credited(Id(a))
  BY <1>2 DEF Operation
<1>4. ~Known(op) BY <1>2, <1>3 DEF Known
<1>. QED BY <1>2, <1>3, <1>4 DEF Execute, Returned

(* The first piece fits into what is open, and the last one closes it. *)
LEMMA GrantFits ==
  ASSUME WalletInv, NEW a \in Actors, pc[a] = "grant"
  PROVE  /\ Head(todo[a]).kind = "grant" /\ Head(todo[a]).t = Id(a)
         /\ Head(todo[a]).i \in Pieces
         /\ Head(todo[a]).amount \in 1..(debit[Id(a)] - Credited(Id(a)))
         /\ Len(todo[a]) = 1 => Head(todo[a]).amount = debit[Id(a)] - Credited(Id(a))
         /\ \A j \in Pieces : credit[Id(a)][j] > 0 <=> j < Head(todo[a]).i
<1>1. InCall(a) BY DEF InCall
<1>2. Grants(Id(a), todo[a], credit[Id(a)], debit[Id(a)] - Credited(Id(a)))
  BY <1>1, Issued DEF HolderAt, HolderOK
<1>3. PICK s \in Seq(Operations) : s = todo[a] /\ Len(s) \in Nat \ {0} /\ Head(s) = s[1]
                                   /\ s[1] \in Operations
  BY <1>1, Issued
<1>4. 1 \in 1..Len(s) BY <1>3
<1>5. s[1].kind = "grant" /\ s[1].t = Id(a) BY <1>2, <1>3, <1>4 DEF Grants
<1>6. s[1].i \in Pieces /\ s[1].amount \in Nat \ {0} BY <1>3 DEF Operations
<1>7. PICK f : Counts(f, s, debit[Id(a)] - Credited(Id(a))) BY <1>2, <1>3 DEF Grants
<1>8. f[1] \in Nat /\ f[1] = f[1 - 1] - s[1].amount /\ f[0] = debit[Id(a)] - Credited(Id(a))
      /\ f[Len(s)] = 0
  BY <1>3, <1>4, <1>7 DEF Counts
<1>9. debit[Id(a)] \in Nat /\ Credited(Id(a)) \in Nat
  BY HasMoney, CreditedTyped, ActorFacts DEF MoneyInv, MoneyTypes
<1>10. f[1] = (debit[Id(a)] - Credited(Id(a))) - s[1].amount BY <1>8
<1>11. s[1].amount <= debit[Id(a)] - Credited(Id(a)) BY <1>6, <1>8, <1>9, <1>10
<1>12. Len(s) = 1 => s[1].amount = debit[Id(a)] - Credited(Id(a)) BY <1>6, <1>8, <1>9, <1>10
<1>13. \A j \in Pieces : credit[Id(a)][j] > 0 <=> j < s[1].i BY <1>2, <1>3 DEF Grants
<1>. QED BY <1>3, <1>5, <1>6, <1>9, <1>11, <1>12, <1>13

(* The executed grant of a holder pays the next piece within what is open. *)
LEMMA GrantCall ==
  ASSUME WalletInv, NEW a \in Actors, pc[a] = "grant", Execute(Head(todo[a]))
  PROVE  Paid(Id(a), Head(todo[a]).i, Head(todo[a]).amount)
<1>1. InCall(a) BY DEF InCall
<1>2. back[Id(a)] = 0 /\ covered[Id(a)] = debit[Id(a)] BY <1>1, Issued DEF HolderAt, HolderOK
<1>3. PICK op : op = Head(todo[a]) OBVIOUS
<1>4. /\ op.kind = "grant" /\ op.t = Id(a) /\ op.i \in Pieces
      /\ op.amount \in 1..(debit[Id(a)] - Credited(Id(a)))
      /\ \A j \in Pieces : credit[Id(a)][j] > 0 <=> j < op.i
  BY <1>3, GrantFits
<1>5. ~(credit[Id(a)][op.i] > 0)
  <2>1. MaxPieces \in Nat /\ op.i \in Nat BY <1>4, TransferAssumption DEF Pieces
  <2>. QED BY <1>4, <2>1
<1>6. ~Known(op) BY <1>4, <1>5 DEF Known
<1>. QED BY <1>2, <1>3, <1>4, <1>6 DEF Execute, Paid

-----------------------------------------------------------------------------
(* Steps that keep the invariant.                                           *)

FreshPlaces == {"idle", "existing", "allowance", "schedule", "resume"}
Open(t) == debit[t] > Credited(t) + back[t]

(* What a holder has read stays so while no money moves. *)
LEMMA HolderKept ==
  ASSUME NEW b \in Actors, HolderOK(b),
         debit' = debit, covered' = covered, credit' = credit, back' = back,
         pc'[b] = pc[b], todo'[b] = todo[b],
         pc[b] \in {"guardDebit", "debit"} => pc'[Job(b[2])] \in {"waiting", "failed"}
  PROVE  HolderOK(b)'
<1>1. Credited(Id(b))' = Credited(Id(b)) BY NextCredited
<1>2. Moved' = Moved BY SameMoved
<1>3. debit[Id(b)] - Credited(Id(b)) = debit'[Id(b)] - Credited(Id(b))' BY <1>1
<1>. QED BY <1>1, <1>2, <1>3 DEF HolderAt, HolderOK, Id, Job, Operation

(* Nobody moves: the user's other expenses, a publication, the end of a TTL. *)
LEMMA NobodyMoves ==
  ASSUME WalletInv,
         debit' = debit, covered' = covered, credit' = credit, back' = back,
         pc' = pc, ok' = ok, todo' = todo, tries' = tries, late' = late,
         balance' \in Int, denoms' \in Denominations,
         \/ lock' = lock
         \/ lock' = NoActor /\ \A a \in Actors : ~InCall(a)
  PROVE  WalletInv'
<1>1. TypeInv' BY DEF WalletInv, TypeInv, Job
<1>2. \A t \in Transfers : Credited(t)' = Credited(t) BY NextCredited
<1>3. Moved' = Moved BY SameMoved
<1>4. \A t \in Transfers : MoneyOK(t)' BY <1>2 DEF WalletInv, MoneyOK
<1>5. LockOK'
  <2>1. ASSUME NEW a \in Actors, InCall(a)' PROVE lock' = a BY <2>1 DEF WalletInv, LockOK, InCall
  <2>2. ASSUME NEW a \in Actors, lock' = a PROVE HolderOK(a)'
    <3>1. lock = a BY <2>2 DEF Actors, NoActor
    <3>2. HolderOK(a) BY <3>1 DEF WalletInv, LockOK
    <3>3. pc[a] \in {"guardDebit", "debit"} => pc'[Job(a[2])] \in {"waiting", "failed"}
      BY <3>2 DEF HolderAt, HolderOK
    <3>. QED BY <3>2, <3>3, HolderKept
  <2>. QED BY <2>1, <2>2 DEF LockOK
<1>6. JobsOK' BY <1>2 DEF WalletInv, JobsOK, Alive, Job
<1>. QED BY <1>1, <1>3, <1>4, <1>5, <1>6 DEF WalletInv

(* One actor moves, with the money only if it holds the lock. *)
LEMMA ActorMoves ==
  ASSUME WalletInv, NEW a \in Actors, NEW p, NEW ops, NEW r,
         MoneyInv', denoms' \in Denominations, late' = late,
         tries' \in [Calls -> 0..Attempts], \A c \in Calls : tries'[c] = tries[c] \/ a = Job(c),
         a[1] = "job" /\ p # "failed" => tries'[a[2]] < Attempts,
         \/ debit' = debit /\ covered' = covered /\ credit' = credit /\ back' = back
         \/ lock = a /\ lock' = a,
         pc' \in [Actors -> StartPlaces \cup JobPlaces], pc'[a] = p,
         \A b \in Actors : b # a =>
           \/ pc'[b] = pc[b]
           \/ /\ a[1] = "start" /\ p \notin FreshPlaces
              /\ b = Job(a[2]) /\ pc[b] = "none" /\ pc'[b] = "waiting",
         todo' = [todo EXCEPT ![a] = ops], ops \in Seq(Operations),
         ops = <<>> <=> p \notin Calling,
         ok' = [ok EXCEPT ![a] = r], r \in {"ok", "none", "error", "busy"},
         a[1] = "start" => p \in StartPlaces /\ (p \in FreshPlaces => pc[a] \in FreshPlaces),
         a[1] = "job" => /\ p \in JobPlaces /\ pc[a] # "none" /\ p # "none"
                         /\ pc[a] \in {"waiting", "failed"} /\ lock # NoActor => p \in {"waiting", "failed"},
         a[1] = "job" /\ p = "done" => pc[a] = "done" \/ (pc[a] = "release" /\ ok[a] \notin {"error", "busy"}),
         a[1] = "job" /\ p = "release" => r \in {"error", "busy"} \/ ~Open(Id(a))',
         \/ lock' = lock
         \/ lock' = a /\ lock = NoActor
         \/ lock' = NoActor /\ lock = a,
         p \in {"debit", "grant", "reverse"} => lock' = a,
         lock' = a => HolderOK(a)',
         \A t \in Transfers : Open(t)' => \/ Open(t)
                                          \/ \E c \in Calls : /\ TransferOf[c] = t /\ Job(c) # a
                                                              /\ pc[Job(c)] \in {"waiting", "failed"}
  PROVE  WalletInv'
<1>1. \A b \in Actors : /\ todo'[b] = IF b = a THEN ops ELSE todo[b]
                        /\ ok'[b] = IF b = a THEN r ELSE ok[b]
  BY DEF WalletInv, TypeInv
<1>2. TypeInv'
  <2>1. lock' \in Actors \cup {NoActor} BY DEF WalletInv, TypeInv
  <2>2. \A b \in Actors : pc'[b] \in IF b[1] = "start" THEN StartPlaces ELSE JobPlaces
    <3>. TAKE b \in Actors
    <3>1. CASE b = a BY <3>1, ActorFacts
    <3>2. CASE b # a /\ pc'[b] = pc[b] BY <3>2 DEF WalletInv, TypeInv
    <3>3. CASE b # a /\ pc'[b] # pc[b]
      <4>1. b[1] = "job" /\ pc'[b] = "waiting" BY <3>3, ActorFacts
      <4>. QED BY <4>1 DEF JobPlaces
    <3>. QED BY <3>1, <3>2, <3>3
  <2>3. \A b \in Actors : todo'[b] = <<>> <=> pc'[b] \notin Calling
    <3>. TAKE b \in Actors
    <3>1. CASE b = a BY <1>1, <3>1
    <3>2. CASE b # a /\ pc'[b] = pc[b] BY <1>1, <3>2 DEF WalletInv, TypeInv
    <3>3. CASE b # a /\ pc'[b] # pc[b]
      <4>1. pc[b] = "none" /\ pc'[b] = "waiting" BY <3>3
      <4>2. todo[b] = <<>> <=> pc[b] \notin Calling BY DEF WalletInv, TypeInv
      <4>3. "none" \notin Calling /\ "waiting" \notin Calling BY DEF Calling, Guarded
      <4>. QED BY <1>1, <3>3, <4>1, <4>2, <4>3
    <3>. QED BY <3>1, <3>2, <3>3
  <2>4. todo' \in [Actors -> Seq(Operations)] /\ ok' \in [Actors -> {"ok", "none", "error", "busy"}]
    BY DEF WalletInv, TypeInv
  <2>5. late' = {} BY DEF WalletInv, TypeInv
  <2>6. ASSUME NEW c \in Calls, pc'[Job(c)] # "failed" PROVE tries'[c] < Attempts
    <3>1. Job(c) \in Actors /\ Job(c)[1] = "job" /\ Job(c)[2] = c BY DEF Job, Actors
    <3>2. CASE a = Job(c) BY <2>6, <3>1, <3>2
    <3>3. CASE a # Job(c)
      <4>1. pc[Job(c)] # "failed" BY <2>6, <3>1, <3>3
      <4>. QED BY <3>3, <4>1 DEF WalletInv, TypeInv
    <3>. QED BY <3>2, <3>3
  <2>. QED BY <2>1, <2>2, <2>3, <2>4, <2>5, <2>6 DEF TypeInv, MoneyInv, MoneyTypes, Job
<1>3. LockOK'
  <2>1. ASSUME NEW b \in Actors, InCall(b)' PROVE lock' = b
    <3>1. CASE b = a BY <2>1, <3>1 DEF InCall
    <3>2. CASE b # a
      <4>1. pc'[b] = pc[b] BY <2>1, <3>2 DEF InCall
      <4>2. InCall(b) BY <2>1, <4>1 DEF InCall
      <4>3. lock = b BY <4>2 DEF WalletInv, LockOK
      <4>. QED BY <3>2, <4>3 DEF Actors, NoActor
    <3>. QED BY <3>1, <3>2
  <2>2. ASSUME NEW b \in Actors, lock' = b, b # a PROVE HolderOK(b)'
    <3>1. lock = b BY <2>2 DEF Actors, NoActor
    <3>2. HolderOK(b) BY <3>1 DEF WalletInv, LockOK
    <3>3. debit' = debit /\ covered' = covered /\ credit' = credit /\ back' = back BY <2>2
    <3>4. CASE pc'[b] = pc[b]
      <4>1. pc[b] \in {"guardDebit", "debit"} => pc'[Job(b[2])] \in {"waiting", "failed"}
        <5>. SUFFICES ASSUME pc[b] \in {"guardDebit", "debit"}
                      PROVE  pc'[Job(b[2])] \in {"waiting", "failed"}
          OBVIOUS
        <5>1. pc[Job(b[2])] \in {"waiting", "failed"} BY <3>2 DEF HolderAt, HolderOK
        <5>2. Job(b[2]) \in Actors /\ Job(b[2])[1] = "job" BY ActorFacts
        <5>3. CASE Job(b[2]) = a
          <6>1. lock # NoActor BY <3>1 DEF Actors, NoActor
          <6>. QED BY <5>1, <5>2, <5>3, <6>1
        <5>4. CASE Job(b[2]) # a BY <5>1, <5>2, <5>4
        <5>. QED BY <5>3, <5>4
      <4>. QED BY <1>1, <2>2, <3>2, <3>3, <3>4, <4>1, HolderKept
    <3>5. CASE pc'[b] # pc[b]
      <4>1. pc'[b] = "waiting" BY <2>2, <3>5
      <4>. QED BY <4>1 DEF HolderAt, HolderOK
    <3>. QED BY <3>4, <3>5
  <2>. QED BY <2>1, <2>2 DEF LockOK
<1>4. JobsOK'
  <2>1. ASSUME NEW c \in Calls, pc'[<<"start", c>>] \in FreshPlaces PROVE pc'[Job(c)] = "none"
    <3>1. <<"start", c>> \in Actors /\ <<"start", c>>[1] = "start" /\ <<"start", c>>[2] = c
          /\ Job(c) \in Actors /\ Job(c)[1] = "job" /\ Job(c)[2] = c
      BY DEF Actors, Job
    <3>2. pc[<<"start", c>>] \in FreshPlaces
      <4>1. CASE <<"start", c>> = a BY <2>1, <3>1, <4>1
      <4>2. CASE <<"start", c>> # a
        <5>1. <<"start", c>>[1] # "job" BY <3>1
        <5>2. pc'[<<"start", c>>] = pc[<<"start", c>>] BY <3>1, <4>2, <5>1, ActorFacts
        <5>. QED BY <2>1, <5>2
      <4>. QED BY <4>1, <4>2
    <3>3. pc[Job(c)] = "none" BY <3>2 DEF WalletInv, JobsOK, FreshPlaces
    <3>4. Job(c) # a BY <3>1, <3>3
    <3>5. CASE pc'[Job(c)] = pc[Job(c)] BY <3>3, <3>5
    <3>6. CASE pc'[Job(c)] # pc[Job(c)]
      <4>1. a[1] = "start" /\ p \notin FreshPlaces /\ Job(c) = Job(a[2]) BY <3>1, <3>4, <3>6
      <4>2. a = <<"start", c>> BY <3>1, <4>1, ActorFacts
      <4>. QED BY <2>1, <4>1, <4>2
    <3>. QED BY <3>5, <3>6
  <2>2. ASSUME NEW c \in Calls, pc[Job(c)] \in {"waiting", "failed"}, Job(c) # a PROVE Alive(c)'
    <3>1. Job(c) \in Actors BY DEF Job, Actors
    <3>2. pc'[Job(c)] = pc[Job(c)] BY <2>2, <3>1
    <3>. QED BY <2>2, <3>2 DEF Alive, Job
  <2>3. ASSUME NEW t \in Transfers, Open(t)', NEW c \in Calls, TransferOf[c] = t, Alive(c)
        PROVE  Alive(c)'
    <3>1. Job(c) \in Actors /\ Job(c)[1] = "job" /\ Id(Job(c)) = t BY <2>3 DEF Job, Actors, Id
    <3>2. pc[Job(c)] \notin {"none", "done"} /\ (pc[Job(c)] = "release" => ok[Job(c)] \in {"error", "busy"})
      BY <2>3 DEF Alive
    <3>3. CASE Job(c) # a
      <4>1. pc'[Job(c)] = pc[Job(c)] BY <3>1, <3>2, <3>3
      <4>2. ok'[Job(c)] = ok[Job(c)] BY <1>1, <3>1, <3>3
      <4>. QED BY <3>2, <4>1, <4>2 DEF Alive, Job
    <3>4. CASE Job(c) = a
      <4>1. p \notin {"none", "done"} BY <3>1, <3>2, <3>4
      <4>2. p = "release" => r \in {"error", "busy"} BY <2>3, <3>1, <3>4
      <4>3. ok'[Job(c)] = r /\ pc'[Job(c)] = p BY <1>1, <3>4
      <4>. QED BY <4>1, <4>2, <4>3 DEF Alive, Job
    <3>. QED BY <3>3, <3>4
  <2>4. ASSUME NEW t \in Transfers, Open(t)' PROVE \E c \in Calls : TransferOf[c] = t /\ Alive(c)'
    <3>1. CASE Open(t)
      <4>1. PICK c \in Calls : TransferOf[c] = t /\ Alive(c) BY <3>1 DEF WalletInv, JobsOK, Open
      <4>. QED BY <2>3, <2>4, <4>1
    <3>2. CASE ~Open(t) BY <2>2, <2>4, <3>2
    <3>. QED BY <3>1, <3>2
  <2>. QED BY <2>1, <2>4 DEF JobsOK, FreshPlaces, Open, Job
<1>. QED BY <1>2, <1>3, <1>4 DEF WalletInv, MoneyInv

(* Without a change of the entries the money stays in order. *)
LEMMA MoneyRests ==
  ASSUME WalletInv, UNCHANGED money
  PROVE  /\ debit' = debit /\ covered' = covered /\ credit' = credit /\ back' = back
         /\ balance' = balance /\ Moved' = Moved
         /\ \A t \in Transfers : Credited(t)' = Credited(t) /\ (Open(t)' <=> Open(t))
         /\ MoneyInv'
<1>1. /\ debit' = debit /\ covered' = covered /\ credit' = credit /\ back' = back
      /\ balance' = balance
  BY DEF money
<1>2. \A t \in Transfers : Credited(t)' = Credited(t) BY <1>1, NextCredited
<1>3. Moved' = Moved BY <1>1, SameMoved
<1>4. MoneyInv' BY <1>1, <1>2, <1>3, HasMoney DEF MoneyInv, MoneyTypes, MoneyOK
<1>5. \A t \in Transfers : Open(t)' <=> Open(t) BY <1>1, <1>2 DEF Open
<1>. QED BY <1>1, <1>2, <1>3, <1>4, <1>5

(* An actor goes on without moving money. *)
LEMMA QuietMove ==
  ASSUME WalletInv, NEW a \in Actors, NEW p, NEW ops, NEW r,
         UNCHANGED <<money, denoms, late>>,
         tries' \in [Calls -> 0..Attempts], \A c \in Calls : tries'[c] = tries[c] \/ a = Job(c),
         a[1] = "job" /\ p # "failed" => tries'[a[2]] < Attempts,
         pc' = [pc EXCEPT ![a] = p],
         todo' = [todo EXCEPT ![a] = ops], ops \in Seq(Operations),
         ops = <<>> <=> p \notin Calling,
         ok' = [ok EXCEPT ![a] = r], r \in {"ok", "none", "error", "busy"},
         a[1] = "start" => p \in StartPlaces /\ (p \in FreshPlaces => pc[a] \in FreshPlaces),
         a[1] = "job" => /\ p \in JobPlaces /\ pc[a] # "none" /\ p # "none"
                         /\ pc[a] \in {"waiting", "failed"} /\ lock # NoActor => p \in {"waiting", "failed"},
         a[1] = "job" /\ p = "done" => pc[a] = "done" \/ (pc[a] = "release" /\ ok[a] \notin {"error", "busy"}),
         a[1] = "job" /\ p = "release" => r \in {"error", "busy"} \/ ~Open(Id(a)),
         \/ lock' = lock
         \/ lock' = a /\ lock = NoActor
         \/ lock' = NoActor /\ lock = a,
         p \in {"debit", "grant", "reverse"} => lock' = a,
         lock' = a => HolderAt(a, p, ops)
  PROVE  WalletInv'
<1>1. /\ debit' = debit /\ covered' = covered /\ credit' = credit /\ back' = back
      /\ denoms' = denoms /\ late' = late /\ Moved' = Moved /\ MoneyInv'
  BY MoneyRests
<1>2. \A t \in Transfers : Credited(t)' = Credited(t) /\ (Open(t)' <=> Open(t)) BY MoneyRests
<1>6. Id(a) \in Transfers BY ActorFacts
<1>7. /\ pc'[a] = p /\ pc' \in [Actors -> StartPlaces \cup JobPlaces]
      /\ \A b \in Actors : b # a => pc'[b] = pc[b]
      /\ todo'[a] = ops
  BY ActorFacts DEF WalletInv, TypeInv
<1>8. lock' = a => HolderOK(a)'
  <2>. SUFFICES ASSUME lock' = a PROVE HolderOK(a)' OBVIOUS
  <2>1. HolderAt(a, p, ops) OBVIOUS
  <2>2. debit[Id(a)] - Credited(Id(a)) = debit'[Id(a)] - Credited(Id(a))' BY <1>1, <1>2, <1>6
  <2>3. p \in {"guardDebit", "debit"} => pc'[Job(a[2])] \in {"waiting", "failed"}
    <3>. SUFFICES ASSUME p \in {"guardDebit", "debit"} PROVE pc'[Job(a[2])] \in {"waiting", "failed"}
      OBVIOUS
    <3>1. pc[Job(a[2])] \in {"waiting", "failed"} BY <2>1 DEF HolderAt
    <3>2. a[1] = "start" BY ActorFacts DEF JobPlaces, Shared
    <3>3. Job(a[2]) \in Actors /\ Job(a[2]) # a BY <3>2, ActorFacts
    <3>. QED BY <1>7, <3>1, <3>3
  <2>. QED BY <1>1, <1>2, <1>6, <1>7, <2>1, <2>2, <2>3 DEF HolderAt, HolderOK, Id, Job, Operation
<1>9. denoms' \in Denominations BY <1>1 DEF WalletInv, TypeInv
<1>. QED BY <1>1, <1>2, <1>6, <1>7, <1>8, <1>9, ActorMoves

(* The run ends; nothing is open unless it throws.                         *)
LEMMA EndKeeps ==
  ASSUME WalletInv, NEW a \in Actors, NEW from, NEW r \in {"ok", "none", "error", "busy"},
         End(a, from, r), from \notin {"none", "waiting", "failed"},
         UNCHANGED <<money, denoms, lock, tries, late>>,
         r \in {"error", "busy"} \/ ~Open(Id(a))
  PROVE  WalletInv'
<1>1. /\ pc' = [pc EXCEPT ![a] = "release"] /\ pc[a] = from
      /\ todo' = [todo EXCEPT ![a] = <<>>] /\ ok' = [ok EXCEPT ![a] = r]
      /\ lock' = lock /\ UNCHANGED <<money, denoms, late>>
  BY DEF End, Go
<1>2. tries' = tries /\ tries \in [Calls -> 0..Attempts] BY DEF WalletInv, TypeInv
<1>9. a[1] = "job" => tries[a[2]] < Attempts
  <2>1. a[1] = "job" => a = Job(a[2]) BY ActorFacts DEF Job
  <2>. QED BY <1>1, <2>1, ActorFacts DEF WalletInv, TypeInv
<1>3. "release" \notin Calling /\ <<>> \in Seq(Operations) BY DEF Calling, Guarded
<1>4. "release" \in StartPlaces /\ "release" \in JobPlaces /\ "release" \notin FreshPlaces
  BY DEF StartPlaces, JobPlaces, Shared, FreshPlaces
<1>5. HolderAt(a, "release", <<>>) BY DEF HolderAt
<1>. QED BY <1>1, <1>2, <1>3, <1>4, <1>5, <1>9, QuietMove

(* Through Move and Prepare. *)
LEMMA GoKeeps ==
  ASSUME WalletInv, NEW a \in Actors, NEW from, NEW to, NEW ops,
         Go(a, from, to), from \notin {"none", "waiting", "failed", "release"},
         todo' = [todo EXCEPT ![a] = ops], ok' = ok,
         UNCHANGED <<money, denoms, lock, tries, late>>,
         to \notin {"none", "waiting", "failed", "release", "done", "idle", "end"},
         a[1] = "start" => to \in StartPlaces /\ (to \in FreshPlaces => from \in FreshPlaces),
         a[1] = "job" => to \in JobPlaces,
         ops \in Seq(Operations), ops = <<>> <=> to \notin Calling,
         to \in {"debit", "grant", "reverse"} => lock = a,
         lock = a => HolderAt(a, to, ops)
  PROVE  WalletInv'
<1>1. pc' = [pc EXCEPT ![a] = to] /\ pc[a] = from /\ lock' = lock /\ UNCHANGED <<money, denoms, late>>
  BY DEF Go
<1>2. tries' = tries /\ tries \in [Calls -> 0..Attempts] BY DEF WalletInv, TypeInv
<1>9. a[1] = "job" => tries[a[2]] < Attempts
  <2>1. a[1] = "job" => a = Job(a[2]) BY ActorFacts DEF Job
  <2>. QED BY <1>1, <2>1, ActorFacts DEF WalletInv, TypeInv
<1>3. ok' = [ok EXCEPT ![a] = ok[a]] /\ ok[a] \in {"ok", "none", "error", "busy"} BY DEF WalletInv, TypeInv
<1>. QED BY <1>1, <1>2, <1>3, <1>9, QuietMove

(* The same for an actor that plans nothing. *)
LEMMA MoveKeeps ==
  ASSUME WalletInv, NEW a \in Actors, NEW from, NEW to,
         Move(a, from, to), from \notin {"none", "waiting", "failed", "release"},
         UNCHANGED <<money, denoms, lock, tries, late>>,
         to \notin {"none", "waiting", "failed", "release", "done", "idle", "end"},
         a[1] = "start" => to \in StartPlaces /\ (to \in FreshPlaces => from \in FreshPlaces),
         a[1] = "job" => to \in JobPlaces,
         from \in Calling <=> to \in Calling,
         to \in {"debit", "grant", "reverse"} => lock = a,
         lock = a => HolderAt(a, to, todo[a])
  PROVE  WalletInv'
<1>1. Go(a, from, to) /\ pc[a] = from /\ todo' = todo /\ ok' = ok BY DEF Move, Go, locals
<1>2. /\ todo' = [todo EXCEPT ![a] = todo[a]] /\ todo[a] \in Seq(Operations)
      /\ todo[a] = <<>> <=> to \notin Calling
  BY <1>1 DEF WalletInv, TypeInv
<1>. QED BY <1>1, <1>2, GoKeeps

-----------------------------------------------------------------------------
(* The actions, one by one.                                                 *)

(* What an actor that still holds the lock may rely on. *)
LEMMA HolderFacts ==
  ASSUME WalletInv, NEW a \in Actors, lock = a
  PROVE  HolderAt(a, pc[a], todo[a])
BY DEF WalletInv, LockOK, HolderOK

(* The entries of a transfer, as the leaves below use them. *)
LEMMA MoneyFacts ==
  ASSUME WalletInv, NEW t \in Transfers
  PROVE  /\ debit[t] \in Nat /\ covered[t] \in Nat /\ back[t] \in Nat
         /\ Credited(t) \in Nat /\ MoneyOK(t)
         /\ LandedUsd(t) = Credited(t)
BY CreditedType, LandedIsCredited DEF WalletInv, TypeInv

(* Only a start opens a transfer, and only a job waits. *)
LEMMA Roles ==
  ASSUME WalletInv, NEW a \in Actors
  PROVE  /\ pc[a] \in FreshPlaces \cup {"guardDebit", "debit"} => a[1] = "start"
         /\ pc[a] \in {"waiting", "failed", "none", "done"} => a[1] = "job"
<1>1. pc[a] \in IF a[1] = "start" THEN StartPlaces ELSE JobPlaces BY DEF WalletInv, TypeInv
<1>. QED BY <1>1, ActorFacts DEF FreshPlaces, StartPlaces, JobPlaces, Shared

(* One lemma for each action. *)
LEMMA AcquireKeeps == ASSUME WalletInv, NEW a \in Actors, Acquire(a) PROVE WalletInv'
<1>1. PICK p \in {"existing", "consumption"} :
        /\ pc' = [pc EXCEPT ![a] = p]
        /\ p = "existing" => pc[a] = "idle"
        /\ p = "consumption" => pc[a] = "waiting"
  BY DEF Acquire, Move, Go
<1>2. /\ lock = NoActor /\ lock' = a /\ UNCHANGED <<money, denoms, late>> /\ tries' = tries
      /\ ok' = ok /\ todo' = todo
  BY DEF Acquire, Move, locals
<1>3. /\ todo' = [todo EXCEPT ![a] = todo[a]] /\ ok' = [ok EXCEPT ![a] = ok[a]]
      /\ ok[a] \in {"ok", "none", "error", "busy"} /\ todo[a] \in Seq(Operations)
      /\ todo[a] = <<>> <=> pc[a] \notin Calling
      /\ tries' \in [Calls -> 0..Attempts]
  BY <1>2 DEF WalletInv, TypeInv
<1>4. {"existing", "consumption", "idle", "waiting"} \cap Calling = {} BY DEF Calling, Guarded
<1>5. HolderAt(a, p, todo[a]) BY <1>1 DEF HolderAt
<1>6. a[1] = "job" => tries'[a[2]] < Attempts /\ p = "consumption"
  <2>1. a[1] = "job" => p = "consumption" BY <1>1, Roles DEF FreshPlaces
  <2>2. a[1] = "job" => a = Job(a[2]) BY ActorFacts DEF Job
  <2>. QED BY <1>1, <1>2, <2>1, <2>2, ActorFacts DEF WalletInv, TypeInv
<1>7. /\ a[1] = "start" => p \in StartPlaces /\ (p \in FreshPlaces => pc[a] \in FreshPlaces)
      /\ a[1] = "job" => p \in JobPlaces
  BY <1>1, <1>6 DEF StartPlaces, JobPlaces, Shared, FreshPlaces
<1>. QED BY <1>1, <1>2, <1>3, <1>4, <1>5, <1>6, <1>7, QuietMove

LEMMA StayBusyKeeps == ASSUME WalletInv, NEW c \in Calls, StayBusy(c) PROVE WalletInv'
<1>. DEFINE a == Job(c)
<1>. DEFINE p == IF tries[c] + 1 >= Attempts THEN "failed" ELSE "waiting"
<1>1. a \in Actors /\ a[1] = "job" /\ a[2] = c BY DEF Job, Actors
<1>2. /\ pc[a] = "waiting" /\ pc' = [pc EXCEPT ![a] = p] /\ tries' = [tries EXCEPT ![c] = tries[c] + 1]
      /\ UNCHANGED <<money, denoms, late>> /\ lock' = lock /\ ok' = ok /\ todo' = todo
  BY DEF StayBusy, Go, locals
<1>3. tries[c] \in 0..Attempts /\ tries[c] < Attempts /\ Attempts \in Nat
  BY <1>2, TransferAssumption DEF WalletInv, TypeInv
<1>4. /\ todo' = [todo EXCEPT ![a] = todo[a]] /\ ok' = [ok EXCEPT ![a] = ok[a]]
      /\ ok[a] \in {"ok", "none", "error", "busy"} /\ todo[a] \in Seq(Operations)
      /\ todo[a] = <<>> <=> pc[a] \notin Calling
  BY <1>1, <1>2 DEF WalletInv, TypeInv
<1>5. /\ tries' \in [Calls -> 0..Attempts]
      /\ \A d \in Calls : tries'[d] = tries[d] \/ d = c
      /\ p # "failed" => tries'[c] < Attempts
  BY <1>2, <1>3 DEF WalletInv, TypeInv
<1>6. {"failed", "waiting"} \cap Calling = {} BY DEF Calling, Guarded
<1>7. p \in {"failed", "waiting"} /\ HolderAt(a, p, todo[a]) BY DEF HolderAt
<1>8. p \in JobPlaces BY DEF JobPlaces
<1>9. \A d \in Calls : tries'[d] = tries[d] \/ a = Job(d) BY <1>5
<1>. HIDE DEF a, p
<1>. QED BY <1>1, <1>2, <1>4, <1>5, <1>6, <1>7, <1>8, <1>9, QuietMove

LEMMA FindDebitKeeps == ASSUME WalletInv, NEW a \in Actors, FindDebit(a) PROVE WalletInv'
<1>0. UNCHANGED <<money, denoms, lock, tries, late>> BY DEF FindDebit
<1>1. CASE debit[Id(a)] = 0 /\ Move(a, "existing", "allowance")
  <2>1. pc[a] = "existing" BY <1>1 DEF Move, Go
  <2>2. a[1] = "start" BY <2>1, Roles DEF FreshPlaces
  <2>3. HolderAt(a, "allowance", todo[a]) BY <1>1 DEF HolderAt
  <2>. QED BY <1>0, <1>1, <2>2, <2>3, MoveKeeps DEF StartPlaces, FreshPlaces, Calling, Guarded
<1>2. CASE Move(a, "existing", "resume")
  <2>1. pc[a] = "existing" BY <1>2 DEF Move, Go
  <2>2. a[1] = "start" BY <2>1, Roles DEF FreshPlaces
  <2>3. HolderAt(a, "resume", todo[a]) BY DEF HolderAt
  <2>. QED BY <1>0, <1>2, <2>2, <2>3, MoveKeeps DEF StartPlaces, FreshPlaces, Calling, Guarded
<1>3. CASE back[Id(a)] > 0 /\ End(a, "existing", "ok")
  <2>1. ~Open(Id(a)) BY <1>3, ActorFacts, MoneyFacts DEF Open, MoneyOK
  <2>. QED BY <1>0, <1>3, <2>1, EndKeeps
<1>. QED BY <1>1, <1>2, <1>3 DEF FindDebit

LEMMA CheckAllowanceKeeps == ASSUME WalletInv, NEW a \in Actors, CheckAllowance(a) PROVE WalletInv'
<1>0. UNCHANGED <<money, denoms, lock, tries, late>> /\ pc[a] = "allowance" BY DEF CheckAllowance
<1>1. CASE Amount[Id(a)] <= Allowance /\ Move(a, "allowance", "schedule")
  <2>1. a[1] = "start" BY <1>0, Roles DEF FreshPlaces
  <2>2. Amount[Id(a)] <= Purchased - Moved
    <3>1. balance \in Int /\ Purchased \in Nat /\ Moved \in Int /\ Amount[Id(a)] \in Nat
      BY ActorFacts, MovedType, TransferAssumption DEF WalletInv, TypeInv
    <3>2. PICK z \in Int : z = Purchased - Moved BY <3>1
    <3>3. Allowance \in Int /\ Allowance <= z
      <4>1. Purchased \in Int BY <3>1
      <4>2. Min({balance, Purchased, z}) \in {balance, Purchased, z} /\ Min({balance, Purchased, z}) <= z
        BY <3>1, <4>1, ThreeNumbers
      <4>. QED BY <3>1, <3>2, <4>2 DEF Allowance
    <3>. QED BY <1>1, <3>1, <3>2, <3>3
  <2>3. lock = a => HolderAt(a, "schedule", todo[a])
    BY <1>0, <2>2, HolderFacts DEF HolderAt
  <2>. QED BY <1>0, <1>1, <2>1, <2>3, MoveKeeps DEF StartPlaces, FreshPlaces, Calling, Guarded
<1>2. CASE End(a, "allowance", "error") BY <1>0, <1>2, EndKeeps
<1>. QED BY <1>1, <1>2 DEF CheckAllowance

LEMMA ScheduleThrowsKeeps == ASSUME WalletInv, NEW a \in Actors, ScheduleThrows(a) PROVE WalletInv'
BY EndKeeps DEF ScheduleThrows

LEMMA ReadThrowsKeeps == ASSUME WalletInv, NEW a \in Actors, ReadThrows(a) PROVE WalletInv'
BY EndKeeps DEF ReadThrows

LEMMA GuardKeeps == ASSUME WalletInv, NEW a \in Actors, Guard(a) PROVE WalletInv'
<1>0. UNCHANGED <<money, denoms, lock, tries, late>> BY DEF Guard
<1>1. PICK from \in {"guardDebit", "guardGrant", "guardReverse"} :
        \/ lock = a /\ Move(a, from, Guarded[from])
        \/ lock # a /\ End(a, from, "error")
        \/ lock # a /\ End(a, from, "busy")
  BY DEF Guard, Guarded
<1>2. PICK to : /\ to = Guarded[from]
                /\ \/ from = "guardDebit" /\ to = "debit"
                   \/ from = "guardGrant" /\ to = "grant"
                   \/ from = "guardReverse" /\ to = "reverse"
  BY DEF Guarded
<1>3. CASE lock = a /\ Move(a, from, to)
  <2>1. pc[a] = from BY <1>3 DEF Move, Go
  <2>2. HolderAt(a, from, todo[a]) BY <1>3, <2>1, HolderFacts
  <2>3. HolderAt(a, to, todo[a]) BY <1>2, <2>2 DEF HolderAt
  <2>4. from = "guardDebit" => a[1] = "start" BY <2>1, Roles
  <2>5. to \in StartPlaces /\ to \notin FreshPlaces /\ (a[1] = "job" => to \in JobPlaces)
    BY <1>2, <2>4, ActorFacts DEF StartPlaces, JobPlaces, Shared, FreshPlaces
  <2>6. from \in Calling /\ to \in Calling BY <1>2 DEF Calling, Guarded
  <2>. QED BY <1>0, <1>2, <1>3, <2>3, <2>5, <2>6, MoveKeeps
<1>4. CASE End(a, from, "error") BY <1>0, <1>4, EndKeeps
<1>5. CASE End(a, from, "busy") BY <1>0, <1>5, EndKeeps
<1>. QED BY <1>1, <1>2, <1>3, <1>4, <1>5

LEMMA ReadConsumptionKeeps ==
  ASSUME WalletInv, NEW a \in Actors, ReadConsumption(a) PROVE WalletInv'
<1>0. UNCHANGED <<money, denoms, lock, tries, late>> /\ pc[a] = "consumption" BY DEF ReadConsumption
<1>. PICK t \in Transfers : t = Id(a) BY ActorFacts
<1>1. /\ debit[t] \in Nat /\ covered[t] \in Nat /\ back[t] \in Nat /\ Credited(t) \in Nat
      /\ MoneyOK(t)
  BY MoneyFacts
<1>2. CASE debit[t] = 0 /\ End(a, "consumption", "none")
  <2>1. ~Open(t) BY <1>1, <1>2 DEF Open, MoneyOK
  <2>. QED BY <1>0, <1>2, <2>1, EndKeeps
<1>3. CASE back[t] > 0 /\ End(a, "consumption", "ok")
  <2>1. ~Open(t) BY <1>1, <1>3 DEF Open, MoneyOK
  <2>. QED BY <1>0, <1>3, <2>1, EndKeeps
<1>4. CASE debit[t] > 0 /\ back[t] = 0 /\ covered[t] >= debit[t] /\ Move(a, "consumption", "landed")
  <2>1. HolderAt(a, "landed", todo[a]) BY <1>1, <1>4 DEF HolderAt, MoneyOK
  <2>. QED BY <1>0, <1>4, <2>1, MoveKeeps
       DEF StartPlaces, JobPlaces, Shared, FreshPlaces, Calling, Guarded
<1>5. CASE debit[t] > 0 /\ back[t] = 0 /\ Move(a, "consumption", "remainder")
  <2>1. HolderAt(a, "remainder", todo[a]) BY <1>5 DEF HolderAt
  <2>. QED BY <1>0, <1>5, <2>1, MoveKeeps
       DEF StartPlaces, JobPlaces, Shared, FreshPlaces, Calling, Guarded
<1>6. \/ debit[t] = 0 /\ End(a, "consumption", "none")
      \/ back[t] > 0 /\ End(a, "consumption", "ok")
      \/ /\ debit[t] > 0 /\ back[t] = 0
         /\ Move(a, "consumption",
                 IF CreditMode(a) /\ covered[t] >= debit[t] THEN "landed" ELSE "remainder")
  BY DEF ReadConsumption
<1>. QED BY <1>2, <1>3, <1>4, <1>5, <1>6

LEMMA ReadRemainderKeeps ==
  ASSUME WalletInv, NEW a \in Actors, ReadRemainder(a) PROVE WalletInv'
<1>0. UNCHANGED <<money, denoms, lock, tries, late>> /\ pc[a] = "remainder" BY DEF ReadRemainder
<1>. PICK t \in Transfers : t = Id(a) BY ActorFacts
<1>1. /\ debit[t] \in Nat /\ back[t] \in Nat /\ Credited(t) \in Nat /\ MoneyOK(t)
      /\ LandedUsd(t) = Credited(t)
  BY MoneyFacts
<1>2. PICK rest : rest = debit[t] - Credited(t) OBVIOUS
<1>3. \/ rest > 0 /\ Prepare(a, "remainder", "guardReverse", <<Operation("reverse", t, 0, rest)>>)
      \/ rest <= 0 /\ End(a, "remainder", "ok")
  BY <1>1, <1>2 DEF ReadRemainder
<1>4. CASE rest > 0 /\ Prepare(a, "remainder", "guardReverse", <<Operation("reverse", t, 0, rest)>>)
  <2>. DEFINE ops == <<Operation("reverse", t, 0, rest)>>
  <2>1. ops \in Seq(Operations) /\ ops # <<>>
    <3>1. MaxPieces \in Nat \ {0} BY TransferAssumption
    <3>2. Operation("reverse", t, 0, rest) \in Operations
      BY <1>1, <1>2, <1>4, <3>1 DEF Operation, Operations, Pieces
    <3>. QED BY <3>2
  <2>2. lock = a => HolderAt(a, "guardReverse", ops)
    BY <1>0, <1>1, <1>2, <1>4, HolderFacts DEF HolderAt
  <2>3. Go(a, "remainder", "guardReverse") /\ todo' = [todo EXCEPT ![a] = ops] /\ ok' = ok
    BY <1>4 DEF Prepare
  <2>. HIDE DEF ops
  <2>. QED BY <1>0, <2>1, <2>2, <2>3, GoKeeps
       DEF StartPlaces, JobPlaces, Shared, FreshPlaces, Calling, Guarded
<1>5. CASE rest <= 0 /\ End(a, "remainder", "ok")
  <2>1. ~Open(t) BY <1>1, <1>2, <1>5 DEF Open
  <2>. QED BY <1>0, <1>5, <2>1, EndKeeps
<1>. QED BY <1>3, <1>4, <1>5

LEMMA PlanPiecesKeeps == ASSUME WalletInv, NEW a \in Actors, PlanPieces(a) PROVE WalletInv'
<1>0. UNCHANGED <<money, denoms, lock, tries, late>> /\ pc[a] = "landed" BY DEF PlanPieces
<1>. PICK t \in Transfers : t = Id(a) BY ActorFacts
<1>1. /\ debit[t] \in Nat /\ back[t] \in Nat /\ Credited(t) \in Nat /\ MoneyOK(t)
      /\ LandedUsd(t) = Credited(t)
  BY MoneyFacts
<1>2. PICK n \in 0..MaxPieces : n = LandedCount(t) /\ \A i \in Pieces : credit[t][i] > 0 <=> i < n
  BY LandedIsCredited DEF WalletInv
<1>3. PICK remaining : remaining = debit[t] - Credited(t) OBVIOUS
<1>. DEFINE pieces == Plan(remaining).pieces
<1>. DEFINE ops == [k \in DOMAIN pieces |-> Operation("grant", t, n + k - 1, pieces[k])]
<1>4. \/ remaining <= 0 /\ End(a, "landed", "ok")
      \/ remaining > 0 /\ Planned(remaining, n) /\ Prepare(a, "landed", "guardGrant", ops)
      \/ remaining > 0 /\ ~Planned(remaining, n) /\ Move(a, "landed", "remainder")
  BY <1>1, <1>2, <1>3 DEF PlanPieces
<1>5. CASE remaining <= 0 /\ End(a, "landed", "ok")
  <2>1. ~Open(t) BY <1>1, <1>3, <1>5 DEF Open
  <2>. QED BY <1>0, <1>5, <2>1, EndKeeps
<1>6. CASE remaining > 0 /\ Planned(remaining, n) /\ Prepare(a, "landed", "guardGrant", ops)
  <2>1. remaining \in Nat BY <1>1, <1>3, <1>6
  <2>2. denoms \in SUBSET (Nat \ {0}) BY TransferAssumption DEF WalletInv, TypeInv
  <2>3. pieces # <<>> /\ Plan(remaining).rest = 0 /\ n + Len(pieces) <= MaxPieces
    BY <1>6 DEF Planned
  <2>4. /\ pieces \in Seq(Nat \ {0})
        /\ \E f \in [0..Len(pieces) -> Nat] :
             /\ f[0] = remaining /\ f[Len(pieces)] = 0
             /\ \A k \in 1..Len(pieces) : f[k] = f[k - 1] - pieces[k]
    BY <2>1, <2>2, <2>3, PlanPays
  <2>5. PICK s \in Seq(Nat \ {0}) : s = pieces BY <2>4
  <2>6. Len(s) \in Nat \ {0} /\ DOMAIN s = 1..Len(s) /\ n + Len(s) <= MaxPieces BY <2>3, <2>5
  <2>7. PICK u : u = [k \in 1..Len(s) |-> Operation("grant", t, n + k - 1, s[k])] OBVIOUS
  <2>8. ops = u BY <2>5, <2>6, <2>7
  <2>9. MaxPieces \in Nat BY TransferAssumption
  <2>10. \A k \in 1..Len(s) : u[k] \in Operations /\ u[k].kind = "grant" /\ u[k].t = t
                              /\ u[k].i = n + k - 1 /\ u[k].amount = s[k]
    <3>. TAKE k \in 1..Len(s)
    <3>1. n + k - 1 \in Pieces /\ s[k] \in Nat \ {0} BY <2>6, <2>9 DEF Pieces
    <3>2. u[k] = [kind |-> "grant", t |-> t, i |-> n + k - 1, amount |-> s[k]]
      BY <2>7 DEF Operation
    <3>. QED BY <3>1, <3>2 DEF Operations
  <2>11. u \in Seq(Operations) /\ Len(u) = Len(s) /\ u # <<>>
    <3>1. u = [k \in 1..Len(s) |-> u[k]] BY <2>7
    <3>. QED BY <2>6, <2>10, <3>1
  <2>12. PICK f : Counts(f, u, remaining)
    <3>1. PICK f \in [0..Len(s) -> Nat] : /\ f[0] = remaining /\ f[Len(s)] = 0
                                          /\ \A k \in 1..Len(s) : f[k] = f[k - 1] - s[k]
      BY <2>4, <2>5
    <3>2. Counts(f, u, remaining) BY <2>10, <2>11, <3>1 DEF Counts
    <3>. QED BY <3>2
  <2>13. Grants(t, u, credit[t], remaining)
    <3>1. u[1].i = n BY <2>6, <2>10
    <3>2. \A k \in 1..Len(u) : u[k].i = u[1].i + (k - 1) BY <2>6, <2>10, <2>11, <3>1
    <3>. QED BY <1>2, <2>10, <2>11, <2>12, <3>1, <3>2 DEF Grants
  <2>14. lock = a => HolderAt(a, "guardGrant", u) BY <1>0, <1>3, <2>13, HolderFacts DEF HolderAt
  <2>15. Go(a, "landed", "guardGrant") /\ todo' = [todo EXCEPT ![a] = u] /\ ok' = ok
    BY <1>6, <2>8 DEF Prepare
  <2>. QED BY <1>0, <2>11, <2>14, <2>15, GoKeeps
       DEF StartPlaces, JobPlaces, Shared, FreshPlaces, Calling, Guarded
<1>7. CASE Move(a, "landed", "remainder")
  <2>1. lock = a => HolderAt(a, "remainder", todo[a]) BY <1>0, HolderFacts DEF HolderAt
  <2>. QED BY <1>0, <1>7, <2>1, MoveKeeps
       DEF StartPlaces, JobPlaces, Shared, FreshPlaces, Calling, Guarded
<1>. QED BY <1>4, <1>5, <1>6, <1>7

LEMMA ScheduleRecoveryKeeps ==
  ASSUME WalletInv, NEW a \in Actors, ScheduleRecovery(a) PROVE WalletInv'
<1>. PICK b : b = Job(a[2]) OBVIOUS
<1>0. UNCHANGED <<money, denoms, lock, tries, late>> BY DEF ScheduleRecovery
<1>1. PICK p, ops :
        /\ pc' = [pc EXCEPT ![a] = p, ![b] = "waiting"] /\ ok' = ok
        /\ todo' = [todo EXCEPT ![a] = ops]
        /\ \/ pc[a] = "resume" /\ p = "consumption" /\ ops = todo[a]
           \/ /\ pc[a] = "schedule" /\ p = "guardDebit"
              /\ ops = <<Operation("debit", Id(a), 0, Amount[Id(a)])>>
  <2>1. todo = [todo EXCEPT ![a] = todo[a]] BY DEF WalletInv, TypeInv
  <2>. QED BY <2>1 DEF ScheduleRecovery, locals
<1>2. a[1] = "start" /\ a \in Actors /\ b \in Actors /\ b # a /\ a[2] \in Calls /\ a = <<"start", a[2]>>
  BY <1>1, Roles, ActorFacts DEF FreshPlaces
<1>3. pc[b] = "none" BY <1>1, <1>2 DEF WalletInv, JobsOK
<1>4. p \in {"consumption", "guardDebit"} /\ p \in StartPlaces /\ p \notin FreshPlaces
  BY <1>1 DEF StartPlaces, Shared, FreshPlaces
<1>5. /\ pc'[a] = p /\ pc'[b] = "waiting" /\ pc' \in [Actors -> StartPlaces \cup JobPlaces]
      /\ \A d \in Actors : d # a /\ d # b => pc'[d] = pc[d]
  BY <1>1, <1>2, <1>4 DEF WalletInv, TypeInv, JobPlaces
<1>6. ops \in Seq(Operations) /\ (ops = <<>> <=> p \notin Calling)
  <2>1. CASE pc[a] = "resume"
    <3>1. todo[a] = <<>> <=> "resume" \notin Calling BY <1>2, <2>1 DEF WalletInv, TypeInv
    <3>. QED BY <1>1, <2>1, <3>1 DEF WalletInv, TypeInv, Calling, Guarded
  <2>2. CASE pc[a] = "schedule"
    <3>1. MaxPieces \in Nat \ {0} /\ Id(a) \in Transfers /\ Amount[Id(a)] \in Nat \ {0}
      BY ActorFacts, TransferAssumption
    <3>2. Operation("debit", Id(a), 0, Amount[Id(a)]) \in Operations
      BY <3>1 DEF Operation, Operations, Pieces
    <3>3. PICK o \in Operations : ops = <<o>> BY <1>1, <2>2, <3>2
    <3>. QED BY <1>1, <2>2, <3>3 DEF Calling, Guarded
  <2>. QED BY <1>1, <2>1, <2>2
<1>7. /\ debit' = debit /\ covered' = covered /\ credit' = credit /\ back' = back
      /\ Moved' = Moved /\ MoneyInv'
  BY <1>0, MoneyRests
<1>8. \A t \in Transfers : Open(t)' <=> Open(t) BY <1>0, MoneyRests
<1>9. lock' = a => HolderOK(a)'
  <2>. SUFFICES ASSUME lock = a PROVE HolderOK(a)' BY <1>0
  <2>1. HolderAt(a, pc[a], todo[a]) BY HolderFacts
  <2>2. CASE p = "consumption" BY <1>5, <2>2 DEF HolderOK, HolderAt
  <2>3. CASE p = "guardDebit"
    <3>1. debit[Id(a)] = 0 /\ Amount[Id(a)] <= Purchased - Moved BY <1>1, <2>1, <2>3 DEF HolderAt
    <3>2. todo'[a] = <<Operation("debit", Id(a), 0, Amount[Id(a)])>>
      BY <1>1, <2>3 DEF WalletInv, TypeInv
    <3>. QED BY <1>5, <1>7, <2>3, <3>1, <3>2 DEF HolderOK, HolderAt, Id, Job, Operation
  <2>. QED BY <1>4, <2>2, <2>3
<1>10. /\ ok' = [ok EXCEPT ![a] = ok[a]] /\ ok[a] \in {"ok", "none", "error", "busy"}
       /\ denoms' \in Denominations /\ lock' = lock /\ late' = late
       /\ tries' = tries /\ tries \in [Calls -> 0..Attempts]
  BY <1>0, <1>1 DEF WalletInv, TypeInv
<1>11. \A d \in Actors : d # a => \/ pc'[d] = pc[d]
                                  \/ /\ a[1] = "start" /\ p \notin FreshPlaces
                                     /\ d = Job(a[2]) /\ pc[d] = "none" /\ pc'[d] = "waiting"
  BY <1>2, <1>3, <1>4, <1>5
<1>12. a[1] # "job" /\ p \notin {"debit", "grant", "reverse", "release", "done"} BY <1>2, <1>4
<1>13. tries' \in [Calls -> 0..Attempts] /\ \A c \in Calls : tries'[c] = tries[c] \/ a = Job(c)
  BY <1>10
<1>14. todo' = [todo EXCEPT ![a] = ops] BY <1>1
<1>. QED BY <1>2, <1>4, <1>5, <1>6, <1>7, <1>8, <1>9, <1>10, <1>11, <1>12, <1>13, <1>14, ActorMoves

LEMMA RefusedKeeps == ASSUME WalletInv, NEW a \in Actors, Refused(a) PROVE WalletInv'
<1>0. UNCHANGED <<money, denoms, lock, tries, late>> BY DEF Refused
<1>1. CASE End(a, "debit", "error") \/ End(a, "reverse", "error") BY <1>0, <1>1, EndKeeps
<1>2. CASE Prepare(a, "grant", "remainder", <<>>)
  <2>1. /\ pc[a] = "grant" /\ Go(a, "grant", "remainder") /\ ok' = ok
        /\ todo' = [todo EXCEPT ![a] = <<>>] /\ <<>> \in Seq(Operations)
    BY <1>2 DEF Prepare, Go
  <2>2. lock = a => HolderAt(a, "remainder", <<>>) BY <2>1, HolderFacts DEF HolderAt
  <2>. QED BY <1>0, <2>1, <2>2, GoKeeps
       DEF StartPlaces, JobPlaces, Shared, FreshPlaces, Calling, Guarded
<1>. QED BY <1>1, <1>2 DEF Refused

LEMMA ReleaseKeeps == ASSUME WalletInv, NEW a \in Actors, Release(a) PROVE WalletInv'
<1>. DEFINE p == IF a[1] = "start" THEN "end" ELSE NextTry(a[2])
<1>1. /\ pc[a] = "release" /\ pc' = [pc EXCEPT ![a] = p] /\ ok' = [ok EXCEPT ![a] = "ok"]
      /\ UNCHANGED <<money, denoms, late>> /\ todo' = todo
      /\ lock' = lock \/ (lock' = NoActor /\ lock = a)
      /\ tries' = IF pc'[a] \in {"waiting", "failed"} /\ ok[a] # "busy"
                    THEN [tries EXCEPT ![a[2]] = tries[a[2]] + 1] ELSE tries
  BY DEF Release, Go
<1>2. /\ todo' = [todo EXCEPT ![a] = todo[a]] /\ todo[a] \in Seq(Operations)
      /\ todo[a] = <<>> <=> "release" \notin Calling
      /\ pc'[a] = p
  BY <1>1 DEF WalletInv, TypeInv
<1>3. /\ a[1] = "job" => /\ p \in {"waiting", "failed", "done"}
                         /\ p = "done" => ok[a] \notin {"error", "busy"}
                         /\ p = "waiting" /\ ok[a] # "busy" => tries[a[2]] + 1 < Attempts
      /\ a[1] = "start" => p = "end"
  <2>1. a[1] = "job" => a = Job(a[2]) BY ActorFacts DEF Job
  <2>2. tries[a[2]] \in Nat /\ Attempts \in Nat
    BY ActorFacts, TransferAssumption DEF WalletInv, TypeInv
  <2>. QED BY <2>1, <2>2 DEF NextTry
<1>4. /\ a[1] = "job" => tries[a[2]] < Attempts
      /\ tries[a[2]] \in 0..Attempts /\ Attempts \in Nat /\ tries \in [Calls -> 0..Attempts]
  <2>1. a[1] = "job" => a = Job(a[2]) BY ActorFacts DEF Job
  <2>. QED BY <1>1, <2>1, ActorFacts, TransferAssumption DEF WalletInv, TypeInv
<1>5. /\ tries' \in [Calls -> 0..Attempts]
      /\ \A c \in Calls : tries'[c] = tries[c] \/ a = Job(c)
      /\ a[1] = "job" /\ p # "failed" => tries'[a[2]] < Attempts
  <2>1. CASE a[1] = "start"
    <3>1. tries' = tries BY <1>1, <1>2, <1>3, <2>1
    <3>. QED BY <1>4, <2>1, <3>1
  <2>2. CASE a[1] = "job"
    <3>1. a = Job(a[2]) /\ a[2] \in Calls BY <2>2, ActorFacts DEF Job
    <3>2. CASE p = "done" \/ ok[a] = "busy"
      <4>1. tries' = tries BY <1>1, <1>2, <3>2
      <4>. QED BY <1>4, <2>2, <4>1
    <3>3. CASE p # "done" /\ ok[a] # "busy"
      <4>1. p \in {"waiting", "failed"} BY <1>3, <2>2, <3>3
      <4>2. tries' = [tries EXCEPT ![a[2]] = tries[a[2]] + 1] BY <1>1, <1>2, <3>3, <4>1
      <4>3. \A c \in Calls : tries'[c] = IF c = a[2] THEN tries[a[2]] + 1 ELSE tries[c]
        BY <1>4, <4>2
      <4>4. tries[a[2]] + 1 \in 0..Attempts BY <1>4, <2>2
      <4>. QED BY <1>3, <1>4, <2>2, <3>1, <3>3, <4>1, <4>2, <4>3, <4>4
    <3>. QED BY <3>2, <3>3
  <2>. QED BY <2>1, <2>2, ActorFacts
<1>6. p \in {"waiting", "failed", "done", "end"} BY <1>3, ActorFacts
<1>. HIDE DEF p
<1>7. /\ "release" \notin Calling /\ p \notin Calling
      /\ a[1] = "start" => p \in StartPlaces /\ p \notin FreshPlaces
      /\ a[1] = "job" => p \in JobPlaces /\ p # "none"
      /\ HolderAt(a, p, todo[a])
  BY <1>3, <1>6 DEF Calling, Guarded, StartPlaces, JobPlaces, Shared, FreshPlaces, HolderAt
<1>. QED BY <1>1, <1>2, <1>3, <1>5, <1>6, <1>7, QuietMove

LEMMA CrashKeeps == ASSUME WalletInv, NEW a \in Actors, Crash(a) PROVE WalletInv'
<1>1. PICK p : /\ p = IF a[1] = "start" THEN "end" ELSE "waiting"
               /\ pc' = [pc EXCEPT ![a] = p]
  BY DEF Crash
<1>2. /\ pc[a] \notin Resting /\ ok' = [ok EXCEPT ![a] = "ok"] /\ todo' = [todo EXCEPT ![a] = <<>>]
      /\ UNCHANGED <<money, denoms, late>> /\ lock' = lock /\ tries' = tries
  BY DEF Crash
<1>3. pc[a] \notin {"none", "waiting", "failed"} BY <1>2 DEF Resting
<1>4. tries' \in [Calls -> 0..Attempts] /\ (a[1] = "job" => tries'[a[2]] < Attempts)
  <2>1. a[1] = "job" => a = Job(a[2]) BY ActorFacts DEF Job
  <2>. QED BY <1>2, <1>3, <2>1, ActorFacts DEF WalletInv, TypeInv
<1>5. /\ p \notin Calling /\ <<>> \in Seq(Operations)
      /\ a[1] = "start" => p \in StartPlaces /\ p \notin FreshPlaces
      /\ a[1] = "job" => p \in JobPlaces /\ p \notin {"none", "done", "release"}
      /\ HolderAt(a, p, <<>>) /\ p \notin {"debit", "grant", "reverse"}
  BY <1>1 DEF Calling, Guarded, StartPlaces, JobPlaces, Shared, FreshPlaces, HolderAt
<1>. QED BY <1>1, <1>2, <1>3, <1>4, <1>5, QuietMove

(* A call that is executed leaves nothing open that has no job. *)
LEMMA CallMoney ==
  ASSUME WalletInv, NEW a \in Actors, InCall(a), Execute(Head(todo[a]))
  PROVE  /\ MoneyInv'
         /\ \A t \in Transfers : Open(t)' => \/ Open(t)
                                             \/ \E c \in Calls : /\ TransferOf[c] = t /\ Job(c) # a
                                                                 /\ pc[Job(c)] \in {"waiting", "failed"}
<1>. PICK t \in Transfers : t = Id(a) BY ActorFacts
<1>0. MoneyInv BY HasMoney
<1>1. \A u \in Transfers : debit[u] \in Nat /\ back[u] \in Nat /\ Credited(u) \in Nat BY MoneyFacts
<1>2. CASE pc[a] = "debit"
  <2>1. Taken(t) BY <1>2, DebitCall
  <2>2. debit' = [debit EXCEPT ![t] = Amount[t]] /\ credit' = credit /\ back' = back
    BY <2>1 DEF Taken, Consume
  <2>3. \A u \in Transfers : Credited(u)' = Credited(u) BY <2>2, NextCredited
  <2>4. \A u \in Transfers : u # t => debit'[u] = debit[u] BY <1>0, <2>2 DEF MoneyInv, MoneyTypes
  <2>5. TransferOf[a[2]] = t /\ a[2] \in Calls /\ Job(a[2]) # a BY <1>2, Roles, ActorFacts DEF Id
  <2>6. pc[Job(a[2])] \in {"waiting", "failed"} BY <1>2, Issued DEF HolderOK, HolderAt
  <2>. QED BY <1>0, <2>1, <2>2, <2>3, <2>4, <2>5, <2>6, TakenMoney DEF Open
<1>3. CASE pc[a] = "grant"
  <2>. PICK i, x : i = Head(todo[a]).i /\ x = Head(todo[a]).amount OBVIOUS
  <2>1. Paid(t, i, x) /\ x \in Nat BY <1>1, <1>3, GrantCall, GrantFits
  <2>2. /\ MoneyInv' /\ debit' = debit /\ back' = back
        /\ \A u \in Transfers : Credited(u)' = Credited(u) + (IF u = t THEN x ELSE 0)
    BY <1>0, <1>1, <2>1, PaidMoney
  <2>. QED BY <1>1, <2>1, <2>2 DEF Open
<1>4. CASE pc[a] = "reverse"
  <2>1. Returned(t) BY <1>4, ReverseCall
  <2>2. /\ back' = [back EXCEPT ![t] = debit[t] - Credited(t)] /\ debit' = debit /\ credit' = credit
        /\ debit[t] > Credited(t) /\ back[t] = 0
    BY <2>1 DEF Returned, ReturnDebit
  <2>3. \A u \in Transfers : Credited(u)' = Credited(u) BY <2>2, NextCredited
  <2>4. \A u \in Transfers : back'[u] >= back[u]
    BY <1>0, <1>1, <2>2 DEF MoneyInv, MoneyTypes
  <2>5. \A u \in Transfers : back'[u] \in Nat BY <1>0, <1>1, <2>2 DEF MoneyInv, MoneyTypes
  <2>6. \A u \in Transfers : Open(u)' => Open(u) BY <1>1, <2>2, <2>3, <2>4, <2>5 DEF Open
  <2>. QED BY <1>0, <2>1, <2>6, ReturnedMoney
<1>. QED BY <1>2, <1>3, <1>4 DEF InCall

(* The actor of an executed call goes on to p. *)
LEMMA CallKeeps ==
  ASSUME WalletInv, NEW a \in Actors, InCall(a), Execute(Head(todo[a])),
         UNCHANGED <<denoms, lock, tries, late>>,
         NEW p \in {"consumption", "guardGrant", "release"}, NEW ops, NEW r \in {"ok", "none", "error", "busy"},
         pc' = [pc EXCEPT ![a] = p], todo' = [todo EXCEPT ![a] = ops], ok' = [ok EXCEPT ![a] = r],
         ops \in Seq(Operations), ops = <<>> <=> p \notin Calling,
         p = "release" => r \in {"error", "busy"} \/ ~Open(Id(a))',
         HolderOK(a)'
  PROVE  WalletInv'
<1>1. lock = a BY Issued
<1>2. /\ MoneyInv'
      /\ \A t \in Transfers : Open(t)' => \/ Open(t)
                                          \/ \E c \in Calls : /\ TransferOf[c] = t /\ Job(c) # a
                                                              /\ pc[Job(c)] \in {"waiting", "failed"}
  BY CallMoney
<1>3. p \in StartPlaces /\ p \in JobPlaces /\ p \notin FreshPlaces
  BY DEF StartPlaces, JobPlaces, Shared, FreshPlaces
<1>4. /\ pc'[a] = p /\ pc' \in [Actors -> StartPlaces \cup JobPlaces]
      /\ \A b \in Actors : b # a => pc'[b] = pc[b]
  BY <1>3 DEF WalletInv, TypeInv
<1>5. pc[a] \in {"debit", "grant", "reverse"} BY DEF InCall
<1>6. denoms' \in Denominations /\ tries' = tries /\ tries \in [Calls -> 0..Attempts]
      /\ lock' = lock /\ late' = late
  BY DEF WalletInv, TypeInv
<1>7. a[1] = "job" => tries[a[2]] < Attempts
  <2>1. a[1] = "job" => a = Job(a[2]) BY ActorFacts DEF Job
  <2>. QED BY <1>5, <2>1, ActorFacts DEF WalletInv, TypeInv
<1>8. /\ pc[a] \notin {"none", "waiting", "failed"}
      /\ p \notin {"none", "done", "failed", "debit", "grant", "reverse"}
  BY <1>5
<1>9. lock = a /\ lock' = a BY <1>1, <1>6
<1>10. a[1] = "job" /\ p # "failed" => tries'[a[2]] < Attempts BY <1>6, <1>7
<1>11. tries' \in [Calls -> 0..Attempts] /\ \A c \in Calls : tries'[c] = tries[c] \/ a = Job(c)
  BY <1>6
<1>. QED BY <1>2, <1>3, <1>4, <1>6, <1>8, <1>9, <1>10, <1>11, ActorMoves

(* After a piece the others are still the ones that are missing. *)
LEMMA GrantsGoOn ==
  ASSUME NEW t, NEW s \in Seq(Operations), Len(s) > 1, NEW n \in Nat, NEW c, NEW d, Grants(t, s, c, n),
         \A j \in Pieces : d[j] = IF j = s[1].i THEN s[1].amount ELSE c[j]
  PROVE  Grants(t, Tail(s), d, n - s[1].amount)
<1>1. PICK u \in Seq(Operations) : u = Tail(s) /\ Len(u) = Len(s) - 1
                                   /\ \A k \in 1..Len(u) : u[k] = s[k + 1]
  <2>1. s # <<>> OBVIOUS
  <2>2. Tail(s) \in Seq(Operations) /\ Len(Tail(s)) = Len(s) - 1 BY <2>1
  <2>3. \A k \in 1..(Len(s) - 1) : Tail(s)[k] = s[k + 1] BY <2>1
  <2>. QED BY <2>2, <2>3
<1>2. Len(s) \in Nat /\ Len(u) \in Nat /\ Len(u) >= 1 BY <1>1
<1>3. s[1] \in Operations BY <1>2
<1>4. s[1].i \in Pieces /\ s[1].i \in Nat /\ s[1].amount \in Nat /\ s[1].amount > 0
  <2>1. s[1].i \in Pieces /\ s[1].amount \in Nat \ {0} BY <1>3 DEF Operations
  <2>2. MaxPieces \in Nat BY TransferAssumption
  <2>. QED BY <2>1, <2>2 DEF Pieces
<1>5. \A k \in 1..Len(s) : s[k].kind = "grant" /\ s[k].t = t /\ s[k].i = s[1].i + (k - 1)
  BY DEF Grants
<1>6. u[1] = s[2] /\ u[1].i = s[1].i + 1
  <2>1. u[1] = s[1 + 1] /\ s[1 + 1].i = s[1].i + ((1 + 1) - 1) BY <1>1, <1>2, <1>5
  <2>. QED BY <1>4, <2>1
<1>7. ASSUME NEW k \in 1..Len(u)
      PROVE  u[k].kind = "grant" /\ u[k].t = t /\ u[k].i = u[1].i + (k - 1)
  <2>1. u[k] = s[k + 1] /\ k + 1 \in 1..Len(s) BY <1>1, <1>2
  <2>2. s[k + 1].kind = "grant" /\ s[k + 1].t = t /\ s[k + 1].i = s[1].i + ((k + 1) - 1)
    BY <1>5, <2>1
  <2>3. PICK m \in Nat : m = s[1].i BY <1>4
  <2>4. m + ((k + 1) - 1) = (m + 1) + (k - 1) OBVIOUS
  <2>5. u[k].i = u[1].i + (k - 1)
    <3>1. u[1].i = m + 1 BY <1>6, <2>3
    <3>2. u[k].i = m + ((k + 1) - 1) BY <2>1, <2>2, <2>3
    <3>. QED BY <2>4, <3>1, <3>2
  <2>. QED BY <2>1, <2>2, <2>5
<1>8. ASSUME NEW j \in Pieces PROVE d[j] > 0 <=> j < u[1].i
  <2>1. c[j] > 0 <=> j < s[1].i BY DEF Grants
  <2>2. j \in Nat
    <3>1. MaxPieces \in Nat BY TransferAssumption
    <3>. QED BY <3>1 DEF Pieces
  <2>3. CASE j = s[1].i BY <1>4, <1>6, <2>2, <2>3
  <2>4. CASE j # s[1].i
    <3>1. d[j] = c[j] BY <2>4
    <3>2. j < s[1].i <=> j < s[1].i + 1 BY <1>4, <2>2, <2>4
    <3>. QED BY <1>6, <2>1, <3>1, <3>2
  <2>. QED BY <2>3, <2>4
<1>9. \E g : Counts(g, u, n - s[1].amount)
  <2>1. PICK f : Counts(f, s, n) BY DEF Grants
  <2>2. /\ f \in [0..Len(s) -> Nat] /\ f[0] = n /\ f[Len(s)] = 0
        /\ \A k \in 1..Len(s) : f[k] = f[k - 1] - s[k].amount
    BY <2>1 DEF Counts
  <2>. DEFINE g == [k \in 0..Len(u) |-> f[k + 1]]
  <2>3. g \in [0..Len(u) -> Nat] /\ g[Len(u)] = 0 BY <1>1, <1>2, <2>2
  <2>4. g[0] = n - s[1].amount
    <3>1. f[1] = f[1 - 1] - s[1].amount BY <1>2, <2>2
    <3>2. g[0] = f[1] BY <1>2
    <3>. QED BY <2>2, <3>1, <3>2
  <2>5. ASSUME NEW k \in 1..Len(u) PROVE g[k] = g[k - 1] - u[k].amount
    <3>1. k + 1 \in 1..Len(s) /\ (k + 1) - 1 = k /\ (k - 1) + 1 = k /\ k - 1 \in 0..Len(u) BY <1>1, <1>2
    <3>2. f[k + 1] = f[k] - s[k + 1].amount BY <2>2, <3>1
    <3>3. g[k] = f[k + 1] /\ g[k - 1] = f[k] /\ u[k] = s[k + 1] BY <1>1, <3>1
    <3>. QED BY <3>2, <3>3
  <2>. HIDE DEF g
  <2>6. Counts(g, u, n - s[1].amount) BY <2>3, <2>4, <2>5 DEF Counts
  <2>. QED BY <2>6
<1>10. Grants(t, u, d, n - s[1].amount) BY <1>7, <1>8, <1>9 DEF Grants
<1>. QED BY <1>1, <1>10

LEMMA UnansweredKeeps ==
  ASSUME ~LateCalls, WalletInv, NEW a \in Actors, Unanswered(a) PROVE WalletInv'
<1>1. /\ InCall(a) /\ End(a, pc[a], "error") /\ UNCHANGED <<denoms, lock, tries, late>>
      /\ Execute(Head(todo[a])) \/ UNCHANGED money
  BY DEF Unanswered
<1>2. CASE UNCHANGED money
  <2>1. pc[a] \notin {"none", "waiting", "failed"} BY <1>1 DEF InCall
  <2>. QED BY <1>1, <1>2, <2>1, EndKeeps
<1>3. CASE Execute(Head(todo[a]))
  <2>1. /\ pc' = [pc EXCEPT ![a] = "release"] /\ todo' = [todo EXCEPT ![a] = <<>>]
        /\ ok' = [ok EXCEPT ![a] = "error"] /\ <<>> \in Seq(Operations)
    BY <1>1 DEF End, Go
  <2>2. "release" \notin Calling BY DEF Calling, Guarded
  <2>3. HolderOK(a)'
    <3>1. pc'[a] = "release" BY <2>1 DEF WalletInv, TypeInv
    <3>. QED BY <3>1 DEF HolderOK, HolderAt
  <2>. QED BY <1>1, <1>3, <2>1, <2>2, <2>3, CallKeeps
<1>. QED BY <1>1, <1>2, <1>3

LEMMA AnsweredKeeps == ASSUME WalletInv, NEW a \in Actors, Answered(a) PROVE WalletInv'
<1>. PICK t \in Transfers : t = Id(a) BY ActorFacts
<1>0. /\ Execute(Head(todo[a])) /\ UNCHANGED <<denoms, lock, tries, late>>
      /\ ok[a] \in {"ok", "none", "error", "busy"} /\ ok = [ok EXCEPT ![a] = ok[a]]
  BY DEF Answered, WalletInv, TypeInv
<1>1. "release" \notin Calling /\ "consumption" \notin Calling /\ "guardGrant" \in Calling
  BY DEF Calling, Guarded
<1>2. CASE Prepare(a, "debit", "consumption", <<>>)
  <2>1. /\ pc[a] = "debit" /\ pc' = [pc EXCEPT ![a] = "consumption"] /\ ok' = ok
        /\ todo' = [todo EXCEPT ![a] = <<>>] /\ <<>> \in Seq(Operations)
    BY <1>2 DEF Prepare, Go
  <2>2. InCall(a) BY <2>1 DEF InCall
  <2>3. pc'[a] = "consumption" BY <2>1 DEF WalletInv, TypeInv
  <2>4. HolderOK(a)' BY <2>3 DEF HolderOK, HolderAt
  <2>. QED BY <1>0, <1>1, <2>1, <2>2, <2>4, CallKeeps
<1>3. CASE Len(todo[a]) > 1 /\ Prepare(a, "grant", "guardGrant", Tail(todo[a]))
  <2>. PICK s : s = todo[a] OBVIOUS
  <2>1. /\ pc[a] = "grant" /\ pc' = [pc EXCEPT ![a] = "guardGrant"] /\ ok' = ok
        /\ todo' = [todo EXCEPT ![a] = Tail(s)]
    BY <1>3 DEF Prepare, Go
  <2>2. InCall(a) BY <2>1 DEF InCall
  <2>3. /\ HolderOK(a) /\ s \in Seq(Operations) /\ Head(s) = s[1] /\ s[1] \in Operations
        /\ Tail(s) \in Seq(Operations) /\ Tail(s) # <<>> /\ Len(s) > 1
    BY <1>3, <2>2, Issued
  <2>4. pc'[a] = "guardGrant" /\ todo'[a] = Tail(s) BY <2>1 DEF WalletInv, TypeInv
  <2>5. Paid(t, s[1].i, s[1].amount) BY <1>0, <2>1, <2>3, GrantCall
  <2>6. /\ debit' = debit /\ covered' = covered /\ back' = back
        /\ Credited(t)' = Credited(t) + s[1].amount
    BY <2>5, HasMoney, PaidMoney
  <2>7. /\ debit[t] > 0 /\ back[t] = 0 /\ covered[t] = debit[t]
        /\ Grants(t, s, credit[t], debit[t] - Credited(t))
    BY <2>1, <2>3 DEF HolderOK, HolderAt
  <2>8. debit[t] - Credited(t) \in Nat /\ debit[t] \in Nat /\ Credited(t) \in Nat /\ s[1].amount \in Nat
    <3>1. s[1].amount \in Nat BY <2>3 DEF Operations
    <3>2. debit[t] \in Nat /\ Credited(t) \in Nat /\ back[t] \in Nat
          /\ Credited(t) + back[t] <= debit[t]
      BY MoneyFacts DEF MoneyOK
    <3>. QED BY <3>1, <3>2
  <2>9. \A j \in Pieces : credit'[t][j] = IF j = s[1].i THEN s[1].amount ELSE credit[t][j]
    <3>1. credit' = [credit EXCEPT ![t][s[1].i] = s[1].amount] BY <2>5 DEF Paid, Grant
    <3>. QED BY <3>1 DEF WalletInv, TypeInv
  <2>10. Grants(t, Tail(s), credit'[t], (debit[t] - Credited(t)) - s[1].amount)
    <3>1. PICK c, d, n : c = credit[t] /\ d = credit'[t] /\ n = debit[t] - Credited(t) OBVIOUS
    <3>2. n \in Nat /\ Grants(t, s, c, n) BY <2>7, <2>8, <3>1
    <3>3. \A j \in Pieces : d[j] = IF j = s[1].i THEN s[1].amount ELSE c[j] BY <2>9, <3>1
    <3>4. Grants(t, Tail(s), d, n - s[1].amount) BY <2>3, <3>2, <3>3, GrantsGoOn
    <3>. QED BY <3>1, <3>4
  <2>11. debit'[t] - Credited(t)' = (debit[t] - Credited(t)) - s[1].amount BY <2>6, <2>8
  <2>12. Grants(t, Tail(s), credit'[t], debit'[t] - Credited(t)') BY <2>10, <2>11
  <2>13. HolderOK(a)' BY <2>4, <2>6, <2>7, <2>12 DEF HolderOK, HolderAt, Id
  <2>. QED BY <1>0, <1>1, <2>1, <2>2, <2>3, <2>13, CallKeeps
<1>4. CASE (Len(todo[a]) = 1 /\ End(a, "grant", "ok")) \/ End(a, "reverse", "ok")
  <2>1. /\ pc[a] \in {"grant", "reverse"} /\ pc' = [pc EXCEPT ![a] = "release"]
        /\ ok' = [ok EXCEPT ![a] = "ok"] /\ (pc[a] = "grant" => Len(todo[a]) = 1)
        /\ todo' = [todo EXCEPT ![a] = <<>>] /\ <<>> \in Seq(Operations)
    BY <1>4 DEF End, Go
  <2>2. InCall(a) BY <2>1 DEF InCall
  <2>3. pc'[a] = "release" BY <2>1 DEF WalletInv, TypeInv
  <2>4. HolderOK(a)' BY <2>3 DEF HolderOK, HolderAt
  <2>5. debit[t] \in Nat /\ back[t] \in Nat /\ Credited(t) \in Nat BY MoneyFacts
  <2>6. ~Open(t)'
    <3>1. CASE pc[a] = "grant"
      <4>. PICK i, x : i = Head(todo[a]).i /\ x = Head(todo[a]).amount OBVIOUS
      <4>1. Paid(t, i, x) /\ x = debit[t] - Credited(t) BY <1>0, <2>1, <3>1, GrantCall, GrantFits
      <4>2. debit' = debit /\ back' = back /\ Credited(t)' = Credited(t) + x
        BY <4>1, HasMoney, PaidMoney
      <4>. QED BY <2>5, <4>1, <4>2 DEF Open
    <3>2. CASE pc[a] = "reverse"
      <4>1. /\ back' = [back EXCEPT ![t] = debit[t] - Credited(t)] /\ debit' = debit
            /\ credit' = credit /\ debit[t] > Credited(t)
        BY <1>0, <3>2, ReverseCall DEF Returned, ReturnDebit
      <4>2. Credited(t)' = Credited(t) BY <4>1, NextCredited
      <4>3. back'[t] = debit[t] - Credited(t) BY <4>1 DEF WalletInv, TypeInv
      <4>. QED BY <2>5, <4>1, <4>2, <4>3 DEF Open
    <3>. QED BY <2>1, <3>1, <3>2
  <2>. QED BY <1>0, <1>1, <2>1, <2>2, <2>4, <2>6, CallKeeps
<1>. QED BY <1>2, <1>3, <1>4 DEF Answered

-----------------------------------------------------------------------------
(* The invariant and what follows from it.                                  *)

(* No transfer has entries and no actor has begun. *)
LEMMA WalletInit == Init => WalletInv
<1>. SUFFICES ASSUME Init PROVE WalletInv OBVIOUS
<1>1. /\ Amount \in [Transfers -> Nat \ {0}] /\ Purchased \in Nat /\ Free \in Nat
      /\ MaxPieces \in Nat \ {0} /\ Attempts \in Nat \ {0} /\ IsFiniteSet(Transfers)
  BY TransferAssumption
<1>2. \A a \in Actors : pc[a] = (IF a[1] = "job" THEN "none" ELSE "idle") /\ todo[a] = <<>>
  BY DEF Init
<1>3. TypeInv
  <2>1. \A a \in Actors : pc[a] \in IF a[1] = "start" THEN StartPlaces ELSE JobPlaces
    BY <1>2, ActorFacts DEF StartPlaces, JobPlaces
  <2>2. \A a \in Actors : todo[a] = <<>> <=> pc[a] \notin Calling BY <1>2 DEF Calling, Guarded
  <2>3. pc \in [Actors -> StartPlaces \cup JobPlaces] BY <2>1 DEF Init, StartPlaces, JobPlaces
  <2>4. <<>> \in Seq(Operations) OBVIOUS
  <2>5. todo \in [Actors -> Seq(Operations)] BY <2>4 DEF Init
  <2>6. /\ tries \in [Calls -> 0..Attempts] /\ \A c \in Calls : tries[c] < Attempts
    BY <1>1 DEF Init
  <2>7. /\ debit \in [Transfers -> Nat] /\ covered \in [Transfers -> Nat]
        /\ back \in [Transfers -> Nat] /\ credit \in [Transfers -> [Pieces -> Nat]]
        /\ balance \in Int /\ denoms \in Denominations
        /\ lock \in Actors \cup {NoActor} /\ ok \in [Actors -> {"ok", "none", "error", "busy"}]
        /\ late = {}
    BY <1>1 DEF Init
  <2>. QED BY <2>1, <2>2, <2>3, <2>5, <2>6, <2>7 DEF TypeInv
<1>4. \A t \in Transfers : debit[t] = 0 /\ covered[t] = 0 /\ back[t] = 0 /\ Credited(t) = 0
  <2>. TAKE t \in Transfers
  <2>1. \A i \in 0..(MaxPieces - 1) : credit[t][i] = 0 BY DEF Init, Pieces
  <2>2. SumTo(credit[t], MaxPieces) = SumTo(credit[t], 0)
    <3>1. PICK c : c = credit[t] OBVIOUS
    <3>2. \A i \in 0..(MaxPieces - 1) : c[i] = 0 /\ c[i] \in Nat BY <2>1, <3>1
    <3>3. SumTo(c, MaxPieces) = SumTo(c, 0) BY <1>1, <3>2, SumStops
    <3>. QED BY <3>1, <3>3
  <2>3. Credited(t) = 0 BY <1>3, <2>2, SumStep, CreditedType
  <2>. QED BY <2>3 DEF Init
<1>5. \A t \in Transfers : MoneyOK(t)
  BY <1>1, <1>4 DEF MoneyOK, Init
<1>6. Moved <= Purchased
  <2>1. \A u \in Transfers : debit[u] - back[u] = 0 BY <1>4
  <2>2. Total(debit, back, Transfers) \in {0}
    <3>1. PICK V : V = {0} OBVIOUS
    <3>2. 0 \in V /\ (\A x, y \in V : x + y \in V) /\ \A u \in Transfers : debit[u] - back[u] \in V
      BY <2>1, <3>1
    <3>3. Total(debit, back, Transfers) \in V BY <1>1, <3>2, TotalIn
    <3>. QED BY <3>1, <3>3
  <2>3. Moved = 0 BY <2>2, MovedIsTotal
  <2>. QED BY <1>1, <2>3
<1>7. LockOK
  <2>1. \A a \in Actors : ~InCall(a) BY <1>2 DEF InCall
  <2>2. \A a \in Actors : lock # a BY DEF Init, Actors, NoActor
  <2>. QED BY <2>1, <2>2 DEF LockOK
<1>8. JobsOK
  <2>1. \A c \in Calls : pc[Job(c)] = "none" BY <1>2 DEF Job, Actors
  <2>. QED BY <1>4, <2>1 DEF JobsOK
<1>. QED BY <1>3, <1>5, <1>6, <1>7, <1>8 DEF WalletInv

(* Every step keeps the invariant, as long as no call outlives its lock. *)
LEMMA WalletStep == ASSUME ~LateCalls, WalletInv, [Next]_vars PROVE WalletInv'
<1>1. CASE UNCHANGED vars
  <2>1. UNCHANGED <<money, denoms, lock, pc, ok, todo, tries, late>> BY <1>1 DEF vars, locals
  <2>2. balance' \in Int /\ denoms' \in Denominations BY <2>1 DEF WalletInv, TypeInv, money
  <2>. QED BY <2>1, <2>2, NobodyMoves DEF money
<1>2. ASSUME NEW a \in Actors, Acquire(a) PROVE WalletInv' BY <1>2, AcquireKeeps
<1>3. ASSUME NEW a \in Actors, ActorStep(a) PROVE WalletInv'
  <2>1. CASE FindDebit(a) BY <2>1, FindDebitKeeps
  <2>2. CASE CheckAllowance(a) BY <2>2, CheckAllowanceKeeps
  <2>3. CASE ScheduleRecovery(a) BY <2>3, ScheduleRecoveryKeeps
  <2>4. CASE Guard(a) BY <2>4, GuardKeeps
  <2>5. CASE ReadConsumption(a) BY <2>5, ReadConsumptionKeeps
  <2>6. CASE PlanPieces(a) BY <2>6, PlanPiecesKeeps
  <2>7. CASE ReadRemainder(a) BY <2>7, ReadRemainderKeeps
  <2>8. CASE Answered(a) BY <2>8, AnsweredKeeps
  <2>9. CASE Release(a) BY <2>9, ReleaseKeeps
  <2>. QED BY <1>3, <2>1, <2>2, <2>3, <2>4, <2>5, <2>6, <2>7, <2>8, <2>9 DEF ActorStep
<1>4. ASSUME NEW a \in Actors, Failure(a) PROVE WalletInv'
  <2>1. CASE Refused(a) BY <2>1, RefusedKeeps
  <2>2. CASE Unanswered(a) BY <2>2, UnansweredKeeps
  <2>3. CASE ReadThrows(a) BY <2>3, ReadThrowsKeeps
  <2>4. CASE ScheduleThrows(a) BY <2>4, ScheduleThrowsKeeps
  <2>5. CASE Crash(a) BY <2>5, CrashKeeps
  <2>. QED BY <1>4, <2>1, <2>2, <2>3, <2>4, <2>5 DEF Failure
<1>5. ASSUME NEW c \in Calls, StayBusy(c) PROVE WalletInv' BY <1>5, StayBusyKeeps
<1>6. CASE Expire
  <2>1. \A a \in Actors : ~InCall(a) BY <1>6 DEF Expire, WalletInv, LockOK
  <2>2. /\ UNCHANGED <<money, denoms, pc, ok, todo, tries, late>> /\ lock' = NoActor
    BY <1>6 DEF Expire, locals
  <2>3. balance' \in Int /\ denoms' \in Denominations BY <2>2 DEF WalletInv, TypeInv, money
  <2>. QED BY <2>1, <2>2, <2>3, NobodyMoves DEF money
<1>7. CASE LateEffect BY <1>7 DEF LateEffect, WalletInv, TypeInv
<1>8. CASE Publish
  <2>1. /\ UNCHANGED <<money, lock, pc, ok, todo, tries, late>> /\ denoms' \in Denominations
    BY <1>8 DEF Publish, locals
  <2>2. balance' \in Int BY <2>1 DEF WalletInv, TypeInv, money
  <2>. QED BY <2>1, <2>2, NobodyMoves DEF money
<1>9. CASE UseCredits
  <2>1. /\ UNCHANGED <<debit, covered, credit, back, denoms, lock, pc, ok, todo, tries, late>>
        /\ balance' = balance - 1
    BY <1>9 DEF UseCredits, locals
  <2>2. balance' \in Int /\ denoms' \in Denominations BY <2>1 DEF WalletInv, TypeInv
  <2>. QED BY <2>1, <2>2, NobodyMoves
<1>. QED BY <1>1, <1>2, <1>3, <1>4, <1>5, <1>6, <1>7, <1>8, <1>9 DEF Next

(* The inductive invariant is an invariant. *)
LEMMA WalletInvHolds == ASSUME ~LateCalls PROVE Spec => []WalletInv
<1>1. WalletInv /\ [Next]_vars => WalletInv' BY WalletStep
<1>. QED BY <1>1, WalletInit, PTL DEF Spec

(* Types of the ledger's entries and of what the actors hold: an actor has  *)
(* operations to issue exactly while it issues some.                        *)
THEOREM WalletTypes == ASSUME ~LateCalls PROVE Spec => []TransferTypeOK
<1>1. WalletInv => TransferTypeOK
  <2>. SUFFICES ASSUME WalletInv PROVE TransferTypeOK OBVIOUS
  <2>1. ASSUME NEW a \in Actors, NEW n \in DOMAIN todo[a]
        PROVE  todo[a][n].i \in Pieces /\ todo[a][n].amount > 0
    <3>1. PICK s \in Seq(Operations) : s = todo[a] BY DEF WalletInv, TypeInv
    <3>2. s[n] \in Operations BY <3>1
    <3>. QED BY <3>1, <3>2 DEF Operations
  <2>. QED BY <2>1 DEF WalletInv, TypeInv, TransferTypeOK
<1>. QED BY <1>1, WalletInvHolds, PTL

(* settle: money that was taken and neither credited nor returned has a job *)
(* that will look at it again or has reported it as unrecovered.            *)
THEOREM TakenMoneyHasJob == ASSUME ~LateCalls PROVE Spec => []NothingStranded
<1>1. WalletInv => NothingStranded
  <2>. SUFFICES ASSUME WalletInv, NEW t \in Transfers, debit[t] > Credited(t) + back[t]
                PROVE  \E a \in Actors : Id(a) = t /\ a[1] = "job" /\ pc[a] \notin {"none", "done"}
    BY DEF NothingStranded
  <2>1. PICK c \in Calls : TransferOf[c] = t /\ Alive(c) BY DEF WalletInv, JobsOK
  <2>2. Job(c) \in Actors /\ Id(Job(c)) = t /\ Job(c)[1] = "job" BY <2>1 DEF Job, Actors, Id
  <2>. QED BY <2>1, <2>2 DEF Alive
<1>. QED BY <1>1, WalletInvHolds, PTL

(* settle: a debit that became an overage is returned and funds no wallet.  *)
THEOREM OverageIsReturned == ASSUME ~LateCalls PROVE Spec => []OverageNeverFunds
<1>1. WalletInv => OverageNeverFunds BY DEF WalletInv, MoneyOK, OverageNeverFunds
<1>. QED BY <1>1, WalletInvHolds, PTL

(* start and its guard: all transfers of a user together move at most what  *)
(* the user bought.                                                         *)
THEOREM AllowanceHolds == ASSUME ~LateCalls PROVE Spec => []OnlyPurchasedMoves
<1>1. WalletInv => OnlyPurchasedMoves BY DEF WalletInv, OnlyPurchasedMoves
<1>. QED BY <1>1, WalletInvHolds, PTL

-----------------------------------------------------------------------------
(* Steps of the ledger.                                                     *)

(* Entries change through the call of the actor that holds the lock alone.  *)
LEMMA WhoMovesMoney ==
  ASSUME ~LateCalls, WalletInv, [Next]_vars
  PROVE  \/ debit' = debit /\ credit' = credit /\ back' = back
         \/ \E t \in Transfers : \/ Taken(t)
                                 \/ \E i, x : Paid(t, i, x)
                                 \/ Returned(t)
<1>1. ASSUME NEW a \in Actors, InCall(a), Execute(Head(todo[a]))
      PROVE  \E t \in Transfers : Taken(t) \/ (\E i, x : Paid(t, i, x)) \/ Returned(t)
  <2>1. Id(a) \in Transfers BY ActorFacts
  <2>2. CASE pc[a] = "debit" BY <1>1, <2>1, <2>2, DebitCall
  <2>3. CASE pc[a] = "grant" BY <1>1, <2>1, <2>3, GrantCall
  <2>4. CASE pc[a] = "reverse" BY <1>1, <2>1, <2>4, ReverseCall
  <2>. QED BY <1>1, <2>2, <2>3, <2>4 DEF InCall
<1>2. ASSUME NEW a \in Actors, Answered(a) PROVE InCall(a) /\ Execute(Head(todo[a]))
  BY <1>2 DEF Answered, Prepare, End, Go, InCall
<1>3. ASSUME NEW a \in Actors, Unanswered(a)
      PROVE  UNCHANGED money \/ (InCall(a) /\ Execute(Head(todo[a])))
  BY <1>3 DEF Unanswered
<1>4. ASSUME NEW a \in Actors, ActorStep(a), ~Answered(a) PROVE UNCHANGED money
  BY <1>4 DEF ActorStep, FindDebit, CheckAllowance, ScheduleRecovery, Guard, ReadConsumption,
              PlanPieces, ReadRemainder, Release
<1>5. ASSUME NEW a \in Actors, Failure(a), ~Unanswered(a) PROVE UNCHANGED money
  BY <1>5 DEF Failure, Refused, ReadThrows, ScheduleThrows, Crash
<1>6. ~LateEffect BY DEF LateEffect, WalletInv, TypeInv
<1>7. ASSUME (\E a \in Actors : Acquire(a)) \/ (\E c \in Calls : StayBusy(c)) \/ Expire \/ Publish
             \/ UNCHANGED vars
      PROVE  UNCHANGED money
  BY <1>7 DEF Acquire, StayBusy, Expire, Publish, vars
<1>8. UseCredits => debit' = debit /\ credit' = credit /\ back' = back BY DEF UseCredits
<1>9. UNCHANGED money => debit' = debit /\ credit' = credit /\ back' = back BY DEF money
<1>. QED BY <1>1, <1>2, <1>3, <1>4, <1>5, <1>6, <1>7, <1>8, <1>9 DEF Next

(* A step is one of the ledger's moves of one transfer or leaves every entry alone. *)
LEMMA LedgerStep ==
  ASSUME ~LateCalls, WalletInv, [Next]_vars
  PROVE  [Ledger!LedgerNext]_Ledger!ledger
<1>. DEFINE paid == [t \in Transfers |-> Credited(t)]
<1>0. MoneyInv /\ \A t \in Transfers : debit[t] \in Nat /\ Credited(t) \in Nat
  BY HasMoney, MoneyFacts
<1>1. CASE debit' = debit /\ credit' = credit /\ back' = back
  <2>1. \A t \in Transfers : Credited(t)' = Credited(t) BY <1>1, NextCredited
  <2>2. paid' = paid BY <2>1
  <2>. QED BY <1>1, <2>2 DEF Ledger!ledger
<1>2. ASSUME NEW t \in Transfers, Taken(t) PROVE Ledger!Take(t)
  <2>1. debit[t] = 0 /\ debit' = [debit EXCEPT ![t] = Amount[t]] /\ credit' = credit /\ back' = back
    BY <1>2 DEF Taken, Consume
  <2>2. \A u \in Transfers : Credited(u)' = Credited(u) BY <2>1, NextCredited
  <2>3. paid' = paid BY <2>2
  <2>. QED BY <2>1, <2>3 DEF Ledger!Take
<1>3. ASSUME NEW t \in Transfers, NEW i, NEW x, Paid(t, i, x) PROVE Ledger!Pay(t)
  <2>1. back[t] = 0 /\ x \in 1..(debit[t] - Credited(t)) BY <1>3 DEF Paid
  <2>2. /\ debit' = debit /\ back' = back /\ Credited(t)' = Credited(t) + x
        /\ \A u \in Transfers : u # t => Credited(u)' = Credited(u)
    BY <1>0, <1>3, PaidMoney
  <2>3. paid' = [paid EXCEPT ![t] = paid[t] + x] BY <2>2
  <2>4. x \in 1..(debit[t] - paid[t]) BY <2>1
  <2>. QED BY <2>1, <2>2, <2>3, <2>4 DEF Ledger!Pay
<1>4. ASSUME NEW t \in Transfers, Returned(t) PROVE Ledger!GiveBack(t)
  <2>1. /\ back[t] = 0 /\ debit[t] > Credited(t)
        /\ back' = [back EXCEPT ![t] = debit[t] - Credited(t)] /\ debit' = debit /\ credit' = credit
    BY <1>4 DEF Returned, ReturnDebit
  <2>2. \A u \in Transfers : Credited(u)' = Credited(u) BY <2>1, NextCredited
  <2>3. paid' = paid BY <2>2
  <2>. QED BY <2>1, <2>3 DEF Ledger!GiveBack
<1>. QED BY <1>1, <1>2, <1>3, <1>4, WhoMovesMoney DEF Ledger!LedgerNext

(* settle, refund and their guards: whatever fails, every step of a         *)
(* transfer is a step of the ledger - a debit taken once, credits within    *)
(* the debit, one return of exactly the rest - or leaves it alone.          *)
THEOREM TransfersKeepLedger == ASSUME ~LateCalls PROVE Spec => ImplementsLedger
<1>1. Init => Ledger!LedgerInit
  <2>. SUFFICES ASSUME Init PROVE Ledger!LedgerInit OBVIOUS
  <2>1. \A t \in Transfers : debit[t] = 0 /\ Credited(t) = 0
    <3>1. WalletInv BY WalletInit
    <3>2. \A t \in Transfers : debit[t] = 0 /\ back[t] = 0 BY DEF Init
    <3>. QED BY <3>1, <3>2, MoneyFacts DEF MoneyOK
  <2>. QED BY <2>1 DEF Init, Ledger!LedgerInit
<1>2. WalletInv /\ [Next]_vars => [Ledger!LedgerNext]_Ledger!ledger BY LedgerStep
<1>. QED BY <1>1, <1>2, WalletInvHolds, PTL DEF Spec, ImplementsLedger, Ledger!LedgerSpec

(* "Once a reversal exists nothing credits that transfer again" - as long   *)
(* as no billing call outlives the lock it was guarded by.                  *)
THEOREM ReversalEndsCredits == ASSUME ~LateCalls PROVE Spec => ReversalIsFinal
<1>1. WalletInv /\ [Next]_vars => [\A t \in Transfers : back[t] > 0 => credit'[t] = credit[t]]_vars
  <2>. SUFFICES ASSUME WalletInv, [Next]_vars, NEW t \in Transfers, back[t] > 0
                PROVE  credit'[t] = credit[t]
    OBVIOUS
  <2>1. ASSUME NEW u \in Transfers, NEW i, NEW x, Paid(u, i, x) PROVE credit'[t] = credit[t]
    <3>1. u # t /\ credit' = [credit EXCEPT ![u][i] = x] BY <2>1 DEF Paid, Grant
    <3>. QED BY <3>1 DEF WalletInv, TypeInv
  <2>2. ASSUME NEW u \in Transfers, Taken(u) \/ Returned(u) PROVE credit' = credit
    BY <2>2 DEF Taken, Consume, Returned, ReturnDebit
  <2>. QED BY <2>1, <2>2, WhoMovesMoney
<1>. QED BY <1>1, WalletInvHolds, PTL DEF Spec, ReversalIsFinal

=============================================================================
