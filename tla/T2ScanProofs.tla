---------------------------- MODULE T2ScanProofs ----------------------------
(***************************************************************************)
(* The rows a Tier 2 streaming scan returns, for any graph, any distances, *)
(* codes and layouts, and any deletions, vacuums, inserts and changes of   *)
(* the cache under it: they are a row stream, and a scan that ran to its   *)
(* end has returned all that the graph leads to.                           *)
(***************************************************************************)
EXTENDS T2Scan, FiniteSetTheorems, NaturalsInduction, TLAPS

-----------------------------------------------------------------------------
(* The inductive invariant *)

Copies == [elem : Elements \cup {None}, deleted : BOOLEAN]

(* Rows and pages.  A row that is or may become live, and every element    *)
(* not deleted, still has its heap TID; what a co-located entry calls      *)
(* deleted is deleted.                                                     *)
HeapInv ==
  /\ row \in [Elements -> {"absent", "inserting", "live", "dead"}]
  /\ tid \in [Elements -> Tids \cup {None}]
  /\ heap \in [Tids -> Elements \cup {None}]
  /\ deleted \subseteq written /\ written \subseteq Elements
  /\ \A e \in deleted : row[e] = "dead"
  /\ \A e \in written : row[e] # "absent" /\ tid[e] \in Tids
  /\ \A e \in Elements : row[e] \in {"live", "inserting"} \/ e \in written \ deleted =>
       tid[e] \in Tids /\ heap[tid[e]] = e

PageInv ==
  /\ nbr \in [Elements -> [Slots -> written \cup {None}]]
  /\ inl \in [Elements -> [Slots -> Copies]]
  /\ \A e \in Elements : \A s \in Slots : inl[e][s].deleted => inl[e][s].elem \in deleted
  /\ entry \in written
  /\ mode \in Modes

Caches ==
  [state : {"EMPTY", "LOADING", "READY"}, present : SUBSET Elements,
   dead : SUBSET Elements, toload : SUBSET Int]

(* A code marked dead is a deleted element's. *)
CacheInv ==
  /\ cache \in Caches
  /\ cache.dead \subseteq cache.present /\ cache.dead \subseteq deleted
  /\ cache.present \subseteq written

Scans ==
  [pc : {"closed", "open", "next", "exhausted"}, snapshot : SUBSET Elements,
   attached : BOOLEAN, approx : BOOLEAN, old : SUBSET Elements,
   C : SUBSET Elements, Cm : SUBSET Elements, R : SUBSET Elements, Rx : SUBSET Elements,
   visited : SUBSET Elements, coded : SUBSET Elements, n_expansions : Nat,
   node : Elements \cup {None}, tids : [Slots -> Elements \cup {None}] \cup {<<>>},
   todo : SUBSET Slots, fetch : Elements \cup {None}, rows : Seq(Elements),
   seed : Elements \cup {None}, steady : SUBSET (Elements \X Elements)]

(* The rows of the snapshot keep their heap TIDs. *)
SnapshotKept(r) ==
  \A x \in r.snapshot :
    row[x] \in {"live", "dead"} /\ x \notin deleted /\ tid[x] \in Tids /\ heap[tid[x]] = x

(* What is at f's heap TID is f, or nothing this scan can see. *)
Owned(r, f) == heap[tid[f]] \in r.snapshot => heap[tid[f]] = f

(* The elements to be emitted, next or later. *)
Waiting(r) == r.R \cup r.Rx \cup ({r.fetch} \ {None})

(* Where a discovered element is: each in one place. *)
PlacesInv(r) ==
  /\ r.visited \subseteq written
  /\ r.C \cup r.Cm \cup r.R \cup r.Rx \cup Range(r.rows) \subseteq r.visited
  /\ r.fetch \in r.visited \cup {None}
  /\ r.R \cap r.Rx = {} /\ r.fetch \notin r.R \cup r.Rx
  /\ Range(r.rows) \cap Waiting(r) = {}
  /\ Waiting(r) \subseteq Matching
  /\ \A s \in r.todo : r.tids[s] \in written
  /\ r.todo # {} => r.node \in Elements
  /\ r.pc \in {"closed", "open"} => r.visited = {} /\ r.todo = {}
  /\ r.pc = "exhausted" => r.todo = {} /\ Waiting(r) = {}

(* Codes are read only by scans that look at the page again. *)
CopiesInv(r) ==
  /\ ~r.approx => r.coded = {} /\ r.Rx = {} /\ \A f \in r.R : Owned(r, f)
  /\ \A f \in r.Rx \cup ({r.fetch} \ {None}) : Owned(r, f)
  /\ r.attached => r.approx
  /\ r.pc # "closed" /\ mode.layout = "inline" => r.approx

(* Once a result has been taken by a scan that claims an order, there is   *)
(* no further expansion; what has been emitted is no farther than the rest.*)
Claims(r) == mode.buffered /\ (r.approx => mode.bound)
Started(r) == r.rows # <<>> \/ r.fetch # None \/ r.Rx # {}

OrderInv(r) ==
  Claims(r) =>
    /\ Started(r) => r.todo = {} /\ (r.C \cup r.Cm = {} \/ ~(r.n_expansions < mode.ef))
    /\ \A y \in Range(r.rows) : \A z \in Waiting(r) : Exact[y] <= Exact[z]
    /\ r.fetch # None => \A z \in r.R \cup r.Rx : Exact[r.fetch] <= Exact[z]

(* A visited element that is no candidate any more has been expanded: what *)
(* it leads to is visited, or about to be.  No wanted one is forgotten.    *)
ReachInv(r) ==
  /\ \A d \in r.steady : d[1] \in written /\ \E s \in Slots : nbr[d[1]][s] = d[2]
  /\ r.pc \in {"next", "exhausted"} => r.seed \in r.visited
  /\ \A d \in r.steady : d[1] \in r.visited \ (r.C \cup r.Cm) =>
       d[2] \in r.visited \/ \E s \in r.todo : r.tids[s] = d[2]
  /\ \A v \in r.visited \cap r.snapshot \cap Matching : v \in Waiting(r) \cup Range(r.rows)

ScanInv(r) ==
  r \in Scans /\ SnapshotKept(r) /\ PlacesInv(r) /\ CopiesInv(r) /\ OrderInv(r) /\ ReachInv(r)

IInv == HeapInv /\ PageInv /\ CacheInv /\ ScanInv(scan)

-----------------------------------------------------------------------------
(* Least elements *)

(* A non-empty set of natural numbers has a least element.                 *)
LEMMA LeastIn ==
  ASSUME NEW S \in SUBSET Nat, S # {}
  PROVE  LeastOf(S) \in S /\ \A y \in S : LeastOf(S) <= y
<1> DEFINE R == {ss \in Nat \X Nat : ss[1] < ss[2]}
<1>1. OpToRel(<, Nat) = R
  BY Zenon DEF OpToRel
<1>2. IsWellFoundedOn(R, Nat)
  BY <1>1, NatLessThanWellFounded, Zenon
<1>3. PICK x \in S : \A y \in S : ~(<<y, x>> \in R)
  <2> HIDE DEF R
  <2> QED BY <1>2, WFMin, Zenon
<1>4. ASSUME NEW y \in S PROVE x <= y
  <2>1. y \in Nat /\ x \in Nat
    OBVIOUS
  <2>2. <<y, x>> \in R <=> y < x
    BY <2>1
  <2> QED
    BY <1>3, <2>1, <2>2
<1> QED
  BY <1>4 DEF LeastOf

(* Of a set of natural numbers that has 0 and, with each number below n,   *)
(* the next one, every number up to n is a member.                         *)
LEMMA UpTo ==
  ASSUME NEW n \in Nat, NEW P, 0 \in P, \A i \in 1..n : i - 1 \in P => i \in P
  PROVE  \A i \in 0..n : i \in P
<1> DEFINE Bad == (0..n) \ P
<1> SUFFICES ASSUME Bad # {} PROVE FALSE
  OBVIOUS
<1>1. Bad \in SUBSET Nat
  OBVIOUS
<1> DEFINE i == LeastOf(Bad)
<1>2. i \in Bad /\ \A y \in Bad : i <= y
  BY <1>1, LeastIn
<1> HIDE DEF i
<1>3. i \in 1..n
  BY <1>2
<1>4. i - 1 \in P
  BY <1>2, <1>3
<1> QED
  BY <1>2, <1>3, <1>4

(* Those of S that f puts below x. *)
Under(S, f, x) == {y \in S : f[y] < f[x]}

(* Of finitely many elements, one is least by any integer measure.         *)
LEMMA Minimal ==
  ASSUME NEW S, IsFiniteSet(S), S # {}, NEW f \in [S -> Int]
  PROVE  \E x \in S : \A y \in S : f[x] <= f[y]
<1> DEFINE rank(x) == Cardinality(Under(S, f, x))
           Ranks == {rank(x) : x \in S}
<1>1. ASSUME NEW x \in S PROVE IsFiniteSet(Under(S, f, x)) /\ rank(x) \in Nat
  <2>1. Under(S, f, x) \subseteq S
    BY DEF Under
  <2> QED
    BY <2>1, FS_Subset, FS_CardinalityType
<1>2. Ranks \in SUBSET Nat /\ Ranks # {}
  BY <1>1
<1>3. PICK x \in S : \A y \in S : rank(x) <= rank(y)
  <2>1. LeastOf(Ranks) \in Ranks /\ \A k \in Ranks : LeastOf(Ranks) <= k
    <3> HIDE DEF Ranks
    <3> QED BY <1>2, LeastIn
  <2> QED
    BY <2>1
<1>4. ASSUME NEW y \in S, ~(f[x] <= f[y]) PROVE FALSE
  <2>1. f[y] < f[x] /\ f[x] \in Int /\ f[y] \in Int
    BY <1>4
  <2>2. Under(S, f, y) \subseteq Under(S, f, x)
    BY <2>1 DEF Under
  <2>3. y \in Under(S, f, x) /\ y \notin Under(S, f, y)
    BY <2>1 DEF Under
  <2>4. IsFiniteSet(Under(S, f, x)) /\ rank(x) \in Nat /\ rank(y) \in Nat
    BY <1>1
  <2>5. rank(y) <= rank(x) /\ rank(y) # rank(x)
    BY <2>2, <2>3, <2>4, FS_Subset
  <2> QED
    BY <1>3, <2>4, <2>5
<1> QED
  BY <1>4

-----------------------------------------------------------------------------
(* The heads of the scan's heaps *)

(* The distances compared are integers; a bound is one.                    *)
LEMMA Measures ==
  ASSUME ScanAssumption, NEW e \in Elements
  PROVE  /\ Found(e) \in Int /\ Bound(e) \in Int /\ Exact[e] \in Int
         /\ mode.bound => Bound(e) <= Exact[e]
         /\ e \notin scan.coded => Bound(e) = Exact[e]
<1>1. /\ Exact \in [Elements -> Int] /\ Approx \in [Elements -> Int]
      /\ Lb \in [Elements -> Int] /\ Lb[e] <= Exact[e]
  BY DEF ScanAssumption
<1> QED
  BY <1>1 DEF Found, Bound

(* A head is a member of its heap, and the least one.                      *)
LEMMA Heads ==
  ASSUME ScanAssumption, scan \in Scans
  PROVE  /\ scan.R # {} => RHead \in scan.R /\ \A x \in scan.R : Bound(RHead) <= Bound(x)
         /\ scan.Rx # {} => RxHead \in scan.Rx /\ \A x \in scan.Rx : Exact[RxHead] <= Exact[x]
         /\ \A S \in SUBSET Elements : S # {} => Nearest(S) \in S
<1>1. IsFiniteSet(Elements) /\ scan.R \subseteq Elements /\ scan.Rx \subseteq Elements
  BY DEF ScanAssumption, Scans
<1>2. ASSUME scan.R # {}
      PROVE  RHead \in scan.R /\ \A x \in scan.R : Bound(RHead) <= Bound(x)
  <2> DEFINE f == [x \in scan.R |-> Bound(x)]
  <2>1. f \in [scan.R -> Int] /\ IsFiniteSet(scan.R)
    BY <1>1, Measures, FS_Subset
  <2>2. \E x \in scan.R : \A y \in scan.R : f[x] <= f[y]
    <3> HIDE DEF f
    <3> QED BY <2>1, <1>2, Minimal
  <2>3. \E x \in scan.R : \A y \in scan.R : Bound(x) <= Bound(y)
    BY <2>2
  <2> QED
    BY <2>3 DEF RHead
<1>3. ASSUME scan.Rx # {}
      PROVE  RxHead \in scan.Rx /\ \A x \in scan.Rx : Exact[RxHead] <= Exact[x]
  <2> DEFINE f == [x \in scan.Rx |-> Exact[x]]
  <2>1. f \in [scan.Rx -> Int] /\ IsFiniteSet(scan.Rx)
    BY <1>1, Measures, FS_Subset
  <2>2. \E x \in scan.Rx : \A y \in scan.Rx : f[x] <= f[y]
    <3> HIDE DEF f
    <3> QED BY <2>1, <1>3, Minimal
  <2>3. \E x \in scan.Rx : \A y \in scan.Rx : Exact[x] <= Exact[y]
    BY <2>2
  <2> QED
    BY <2>3 DEF RxHead
<1>4. ASSUME NEW S \in SUBSET Elements, S # {}
      PROVE  Nearest(S) \in S
  <2> DEFINE f == [x \in S |-> Found(x)]
  <2>1. f \in [S -> Int] /\ IsFiniteSet(S)
    BY <1>1, Measures, FS_Subset
  <2>2. \E x \in S : \A y \in S : f[x] <= f[y]
    <3> HIDE DEF f
    <3> QED BY <2>1, <1>4, Minimal
  <2>3. \E x \in S : \A y \in S : Found(x) <= Found(y)
    BY <2>2
  <2> QED
    BY <2>3 DEF Nearest
<1> QED
  BY <1>2, <1>3, <1>4

-----------------------------------------------------------------------------
(* What a graph leads to *)

(* One more edge. *)
Onward(A, edges) == A \cup {x \in Elements : \E e \in A : <<e, x>> \in edges}

(* What has been reached after each of n edges. *)
Walks(from, edges, n) ==
  {g \in [0..n -> SUBSET Elements] :
     g[0] = {from} /\ \A i \in 1..n : g[i] = Onward(g[i - 1], edges)}

(* The walk can be taken edge by edge: the recursion of Reached defines    *)
(* something.                                                              *)
LEMMA WalksExist ==
  ASSUME NEW from \in Elements, NEW edges, NEW n \in Nat
  PROVE  Walks(from, edges, n) # {}
<1> DEFINE P == {i \in 0..n : Walks(from, edges, i) # {}}
<1>1. 0 \in P
  <2>1. [i \in 0..0 |-> {from}] \in Walks(from, edges, 0)
    BY DEF Walks
  <2> QED
    BY <2>1
<1>2. ASSUME NEW i \in 1..n, i - 1 \in P PROVE i \in P
  <2>1. PICK g : g \in Walks(from, edges, i - 1)
    BY <1>2
  <2>2. g \in [0..(i - 1) -> SUBSET Elements] /\ g[0] = {from}
        /\ \A j \in 1..(i - 1) : g[j] = Onward(g[j - 1], edges)
    BY <2>1 DEF Walks
  <2> DEFINE last == Onward(g[i - 1], edges)
             h == [j \in 0..i |-> IF j = i THEN last ELSE g[j]]
  <2>3. last \in SUBSET Elements
    <3>1. i - 1 \in 0..(i - 1)
      OBVIOUS
    <3> QED
      BY <2>2, <3>1 DEF Onward
  <2> HIDE DEF last
  <2>4. h \in [0..i -> SUBSET Elements] /\ h[0] = {from}
    BY <2>2, <2>3
  <2>5. ASSUME NEW j \in 1..i PROVE h[j] = Onward(h[j - 1], edges)
    <3>1. j - 1 \in 0..i /\ j - 1 # i /\ h[j - 1] = g[j - 1]
      OBVIOUS
    <3>2. CASE j = i
      BY <3>1, <3>2 DEF last
    <3>3. CASE j # i
      <4>1. j \in 1..(i - 1) /\ h[j] = g[j]
        BY <3>3
      <4> QED
        BY <2>2, <3>1, <4>1
    <3> QED
      BY <3>2, <3>3
  <2>6. h \in Walks(from, edges, i)
    <3> HIDE DEF h
    <3> QED
      BY <2>4, <2>5 DEF Walks
  <2> QED
    BY <2>6
<1>3. n \in P
  <2> HIDE DEF P
  <2>1. n \in 0..n
    OBVIOUS
  <2> QED
    BY <1>1, <1>2, <2>1, UpTo
<1> QED
  BY <1>3

(* A set that holds the start and is closed under the edges holds all that *)
(* they lead to.                                                           *)
LEMMA ReachedIn ==
  ASSUME IsFiniteSet(Elements), NEW from \in Elements, NEW edges,
         NEW S \in SUBSET Elements, from \in S, Onward(S, edges) \subseteq S
  PROVE  Reached(from, edges) \subseteq S
<1> DEFINE n == Cardinality(Elements)
           F(g) == [k \in 0..n |-> IF k = 0 THEN {from}
                     ELSE g[k - 1] \cup {x \in Elements : \E e \in g[k - 1] : <<e, x>> \in edges}]
           within == CHOOSE g : g = F(g)
<1>1. n \in Nat
  BY FS_CardinalityType
<1>2. Reached(from, edges) = within[n]
  BY DEF Reached
<1>3. \E g : g = F(g)
  <2>1. PICK g : g \in Walks(from, edges, n)
    BY <1>1, WalksExist
  <2>2. /\ g \in [0..n -> SUBSET Elements] /\ g[0] = {from}
        /\ \A i \in 1..n : g[i] = Onward(g[i - 1], edges)
    BY <2>1 DEF Walks
  <2>3. \A i \in 0..n : i = 0 \/ i \in 1..n
    BY <1>1
  <2>4. g = F(g)
    <3>1. \A i \in 0..n : g[i] = F(g)[i]
      BY <2>2, <2>3 DEF Onward
    <3> QED
      BY <2>2, <3>1
  <2> QED
    BY <2>4
<1>4. within = F(within)
  BY <1>3
<1> HIDE DEF within
<1> DEFINE P == {i \in 0..n : within[i] \subseteq S}
<1>5. 0 \in P
  <2>1. 0 \in 0..n
    BY <1>1
  <2> HIDE DEF n
  <2>2. within[0] = {from}
    BY <2>1, <1>4
  <2> QED
    BY <2>1, <2>2
<1>6. ASSUME NEW i \in 1..n, i - 1 \in P PROVE i \in P
  <2>1. i \in 0..n /\ i # 0
    BY <1>1
  <2>2. within[i] = Onward(within[i - 1], edges)
    <3> HIDE DEF n
    <3> QED
      BY <2>1, <1>4 DEF Onward
  <2>3. within[i - 1] \subseteq S
    BY <1>6
  <2> QED
    BY <2>1, <2>2, <2>3 DEF Onward
<1>7. n \in P
  <2> HIDE DEF P, n
  <2>1. n \in 0..n
    BY <1>1
  <2> QED
    BY <1>1, <1>5, <1>6, <2>1, UpTo
<1> QED
  BY <1>2, <1>7

-----------------------------------------------------------------------------
(* The initial states *)

(* A scan that is not begun keeps every part of the invariant.             *)
LEMMA ClosedInv == ScanAssumption => ScanInv(Closed)
<1> SUFFICES ASSUME ScanAssumption PROVE ScanInv(Closed)
  OBVIOUS
<1>1. None \notin Elements
  BY DEF ScanAssumption
<1>2. Range(<<>>) = {}
  BY DEF Range
<1>3. <<>> \in Seq(Elements)
  OBVIOUS
<1>4. Closed \in Scans
  BY <1>3 DEF Closed, Scans
<1>5. Waiting(Closed) = {}
  BY DEF Closed, Waiting
<1>6. PlacesInv(Closed)
  BY <1>2, <1>5 DEF Closed, PlacesInv
<1>7. SnapshotKept(Closed) /\ CopiesInv(Closed) /\ ReachInv(Closed)
  BY DEF Closed, SnapshotKept, CopiesInv, ReachInv
<1>8. OrderInv(Closed)
  BY <1>2, <1>5 DEF Closed, OrderInv, Started
<1> QED
  BY <1>4, <1>6, <1>7, <1>8 DEF ScanInv

(* The invariant holds at first. *)
LEMMA Initially == ScanAssumption /\ Init => IInv
<1> SUFFICES ASSUME ScanAssumption, Init PROVE IInv
  OBVIOUS
<1>1. /\ None \notin Elements /\ None \notin Tids /\ FirstTid \in [Built -> Tids]
      /\ Entry \in Built /\ Graph \in [Built -> [Slots -> Built \cup {None}]]
      /\ \A d, e \in Built : FirstTid[d] = FirstTid[e] => d = e
  BY DEF ScanAssumption
<1>2. Built \subseteq Elements
  BY DEF Elements
<1>3. /\ row = [e \in Elements |-> IF e \in Built THEN "live" ELSE "absent"]
      /\ tid = [e \in Elements |-> IF e \in Built THEN FirstTid[e] ELSE None]
      /\ heap = [t \in Tids |-> IF t \in Range(FirstTid)
                            THEN CHOOSE e \in Built : FirstTid[e] = t ELSE None]
      /\ written = Built /\ deleted = {}
  BY DEF Init
<1>4. ASSUME NEW t \in Range(FirstTid) PROVE heap[t] \in Built /\ FirstTid[heap[t]] = t
  <2>1. \E e \in Built : FirstTid[e] = t
    BY <1>1 DEF Range
  <2>2. t \in Tids
    BY <1>1, <2>1
  <2>3. heap[t] = CHOOSE e \in Built : FirstTid[e] = t
    BY <1>3, <2>2
  <2> QED
    BY <2>1, <2>3
<1>5. heap \in [Tids -> Elements \cup {None}]
  <2>1. \A t \in Tids : heap[t] \in Elements \cup {None}
    BY <1>2, <1>3, <1>4
  <2>2. heap = [t \in Tids |-> heap[t]]
    BY <1>3
  <2> QED
    BY <2>1, <2>2
<1>6. \A e \in Built : tid[e] \in Tids /\ heap[tid[e]] = e
  <2> TAKE e \in Built
  <2>1. tid[e] = FirstTid[e] /\ FirstTid[e] \in Range(FirstTid) /\ FirstTid[e] \in Tids
    BY <1>1, <1>2, <1>3 DEF Range
  <2> QED
    BY <1>1, <1>4, <2>1
<1>7. HeapInv
  <2>1. row \in [Elements -> {"absent", "inserting", "live", "dead"}]
    BY <1>3
  <2>2. tid \in [Elements -> Tids \cup {None}]
    BY <1>1, <1>3
  <2>3. \A e \in Elements : row[e] \in {"live", "inserting"} \/ e \in written \ deleted =>
          e \in Built
    BY <1>3
  <2> QED
    BY <1>2, <1>3, <1>5, <1>6, <2>1, <2>2, <2>3 DEF HeapInv
<1>8. PageInv
  <2>1. nbr = [e \in Elements |-> IF e \in Built THEN Graph[e] ELSE [s \in Slots |-> None]]
        /\ inl = [e \in Elements |-> [s \in Slots |-> [elem |-> nbr[e][s], deleted |-> FALSE]]]
        /\ entry = Entry /\ mode \in Modes
    BY DEF Init
  <2>2. nbr \in [Elements -> [Slots -> written \cup {None}]]
    BY <1>1, <1>3, <2>1
  <2>3. \A e \in Elements : \A s \in Slots : nbr[e][s] \in Elements \cup {None}
    BY <1>2, <1>3, <2>2
  <2>4. inl \in [Elements -> [Slots -> Copies]]
    BY <2>1, <2>3 DEF Copies
  <2>5. \A e \in Elements : \A s \in Slots : inl[e][s].deleted = FALSE
    BY <2>1
  <2> QED
    BY <1>1, <1>3, <2>1, <2>2, <2>4, <2>5 DEF PageInv
<1>9. CacheInv
  BY DEF Init, CacheInv, Caches, NoCache
<1> QED
  BY <1>7, <1>8, <1>9, ClosedInv DEF IInv, Init

-----------------------------------------------------------------------------
(* What changes under the scan *)

(* What a step under a scan leaves it: pages stay, its snapshot keeps its  *)
(* heap TIDs, what it may emit stays its own, its steady edges stay.       *)
Undisturbed(r) ==
  /\ written \subseteq written' /\ mode' = mode
  /\ SnapshotKept(r)'
  /\ \A f \in written : Owned(r, f) => Owned(r, f)'
  /\ \A d \in r.steady : \E s \in Slots : nbr'[d[1]][s] = d[2]

(* A scan with the invariant that is left that much has the invariant.     *)
LEMMA RecordUndisturbed ==
  ASSUME NEW r, ScanInv(r), scan' = r, Undisturbed(r)
  PROVE  ScanInv(scan)'
<1>0. /\ written \subseteq written' /\ mode' = mode
      /\ \A f \in written : Owned(r, f) => Owned(r, f)'
      /\ \A d \in r.steady : \E s \in Slots : nbr'[d[1]][s] = d[2]
  BY DEF Undisturbed
<1>1. (scan \in Scans)' /\ SnapshotKept(scan)'
  BY DEF ScanInv, Undisturbed, SnapshotKept
<1>2. PlacesInv(scan)'
  BY <1>0 DEF ScanInv, PlacesInv, Waiting
<1>3. r.R \cup r.Rx \cup ({r.fetch} \ {None}) \subseteq written
  BY DEF ScanInv, PlacesInv
<1>4. CopiesInv(scan)'
  <2>1. CopiesInv(r)
    BY DEF ScanInv
  <2>2. \A f \in r.R \cup r.Rx \cup ({r.fetch} \ {None}) :
          Owned(r, f) /\ heap'[tid'[f]] \in r.snapshot => heap'[tid'[f]] = f
    BY <1>0, <1>3 DEF Owned
  <2> QED
    BY <1>0, <2>1, <2>2 DEF CopiesInv, Owned
<1>5. OrderInv(scan)'
  BY <1>0 DEF ScanInv, OrderInv, Claims, Started, Waiting
<1>6. ReachInv(scan)'
  BY <1>0 DEF ScanInv, ReachInv, Waiting
<1> QED
  BY <1>1, <1>2, <1>4, <1>5, <1>6 DEF ScanInv

(* So has one that does nothing meanwhile.                                 *)
LEMMA ScanUndisturbed ==
  ASSUME ScanInv(scan), scan' = scan, Undisturbed(scan)
  PROVE  ScanInv(scan)'
<1>1. PICK r : r = scan
  OBVIOUS
<1>2. ScanInv(r) /\ scan' = r
  BY <1>1
<1>3. Undisturbed(r)
  BY <1>1, <1>2 DEF Undisturbed, SnapshotKept, Owned
<1> QED
  BY <1>2, <1>3, RecordUndisturbed

(* While the rows and the pages stay, nothing disturbs the scan.           *)
LEMMA PagesStay ==
  ASSUME HeapInv, PageInv, UNCHANGED <<mode, heapVars, pageVars>>
  PROVE  /\ HeapInv' /\ PageInv'
         /\ \A r \in Scans : SnapshotKept(r) /\ ReachInv(r) => Undisturbed(r)
<1>1. /\ row' = row /\ tid' = tid /\ heap' = heap /\ written' = written /\ deleted' = deleted
      /\ nbr' = nbr /\ inl' = inl /\ entry' = entry /\ mode' = mode
  BY DEF heapVars, pageVars
<1>2. HeapInv' /\ PageInv'
  BY <1>1 DEF HeapInv, PageInv
<1> QED
  BY <1>1, <1>2 DEF Undisturbed, SnapshotKept, Owned, ReachInv

(* What the invariant says of the rows and heap TIDs of a snapshot.        *)
LEMMA SnapshotRows ==
  ASSUME ScanAssumption, HeapInv, ScanInv(scan)
  PROVE  /\ scan \in Scans /\ scan.snapshot \subseteq Elements /\ None \notin scan.snapshot
         /\ \A x \in scan.snapshot :
              /\ row[x] \in {"live", "dead"} /\ x \notin deleted
              /\ tid[x] \in Tids /\ heap[tid[x]] = x
         /\ \A d \in scan.steady : d \in Elements \X Elements /\ d[1] \in written
                                    /\ \E s \in Slots : nbr[d[1]][s] = d[2]
<1>1. scan \in Scans /\ SnapshotKept(scan) /\ ReachInv(scan)
  BY DEF ScanInv
<1>2. scan.snapshot \subseteq Elements /\ scan.steady \subseteq Elements \X Elements
  BY <1>1 DEF Scans
<1>3. \A d \in scan.steady : d[1] \in written /\ \E s \in Slots : nbr[d[1]][s] = d[2]
  BY <1>1 DEF ReachInv
<1> QED
  BY <1>1, <1>2, <1>3 DEF SnapshotKept, ScanAssumption

(* Deleting a row leaves the row to the snapshots that see it.             *)
LEMMA DeleteRowKeeps ==
  ASSUME ScanAssumption, IInv, NEW e \in Elements, DeleteRow(e)
  PROVE  IInv'
<1>1. HeapInv /\ PageInv /\ CacheInv /\ ScanInv(scan)
  BY DEF IInv
<1>2. /\ row[e] = "live" /\ row' = [row EXCEPT ![e] = "dead"]
      /\ tid' = tid /\ heap' = heap /\ written' = written /\ deleted' = deleted
      /\ nbr' = nbr /\ inl' = inl /\ entry' = entry /\ mode' = mode
      /\ cache' = cache /\ scan' = scan
  BY DEF DeleteRow, pageVars
<1>3. HeapInv'
  BY <1>1, <1>2 DEF HeapInv
<1>4. PageInv' /\ CacheInv'
  BY <1>1, <1>2 DEF PageInv, CacheInv
<1>5. Undisturbed(scan)
  <2>1. SnapshotKept(scan)'
    BY <1>1, <1>2, SnapshotRows DEF SnapshotKept, HeapInv
  <2> QED
    BY <1>1, <1>2, <2>1, SnapshotRows DEF Undisturbed, Owned
<1> QED
  BY <1>1, <1>2, <1>3, <1>4, <1>5, ScanUndisturbed DEF IInv

(* A cache entry that is dropped is no claim about its element.            *)
LEMMA InvalidatedKeeps ==
  ASSUME CacheInv, NEW e
  PROVE  /\ Invalidated(e) \in Caches /\ Invalidated(e).present \subseteq written
         /\ Invalidated(e).dead = cache.dead
         /\ cache.present \ {e} \subseteq Invalidated(e).present
  BY DEF CacheInv, Invalidated, Caches

(* Vacuum deletes only elements whose rows no snapshot sees.               *)
LEMMA BulkDeleteKeeps ==
  ASSUME ScanAssumption, IInv, NEW e \in Elements, BulkDelete(e) \/ BulkDeleteFails(e)
  PROVE  IInv'
<1>1. HeapInv /\ PageInv /\ CacheInv /\ ScanInv(scan)
  BY DEF IInv
<1>2. /\ e \in written \ deleted /\ row[e] = "dead" /\ e \notin scan.snapshot
      /\ row' = row /\ tid' = tid /\ heap' = heap /\ written' = written
      /\ deleted \subseteq deleted' /\ deleted' \subseteq deleted \cup {e}
      /\ nbr' = nbr /\ inl' = inl /\ entry' = entry /\ mode' = mode
      /\ cache' = Invalidated(e) /\ scan' = scan
  BY DEF BulkDelete, BulkDeleteFails, DeadToAll, heapVars, pageVars
<1>3. HeapInv' /\ PageInv' /\ CacheInv'
  <2>1. HeapInv'
    BY <1>1, <1>2 DEF HeapInv
  <2>2. PageInv'
    BY <1>1, <1>2 DEF PageInv
  <2>3. CacheInv'
    BY <1>1, <1>2, InvalidatedKeeps DEF CacheInv
  <2> QED
    BY <2>1, <2>2, <2>3
<1>4. Undisturbed(scan)
  <2>1. SnapshotKept(scan)'
    BY <1>1, <1>2, SnapshotRows DEF SnapshotKept
  <2> QED
    BY <1>1, <1>2, <2>1, SnapshotRows DEF Undisturbed, Owned
<1> QED
  BY <1>1, <1>2, <1>3, <1>4, ScanUndisturbed DEF IInv

(* Only heap TIDs of dead rows that the index forgot are freed.            *)
LEMMA FreeTidKeeps ==
  ASSUME ScanAssumption, IInv, NEW e \in Elements, FreeTid(e)
  PROVE  IInv'
<1>1. HeapInv /\ PageInv /\ CacheInv /\ ScanInv(scan)
  BY DEF IInv
<1>2. /\ e \in deleted \/ (e \notin written /\ row[e] = "dead" /\ e \notin scan.snapshot)
      /\ tid[e] \in Tids /\ heap[tid[e]] = e
      /\ heap' = [heap EXCEPT ![tid[e]] = None]
      /\ row' = row /\ tid' = tid /\ written' = written /\ deleted' = deleted
      /\ nbr' = nbr /\ inl' = inl /\ entry' = entry /\ mode' = mode
      /\ cache' = cache /\ scan' = scan
  BY DEF FreeTid, DeadToAll, pageVars
<1>3. row[e] = "dead" /\ e \notin scan.snapshot /\ ~(e \in written \ deleted)
  BY <1>1, <1>2, SnapshotRows DEF HeapInv
<1>4. \A t \in Tids : heap'[t] = IF t = tid[e] THEN None ELSE heap[t]
  BY <1>1, <1>2 DEF HeapInv
<1>5. HeapInv'
  <2>1. heap' \in [Tids -> Elements \cup {None}]
    BY <1>1, <1>2 DEF HeapInv
  <2>2. \A x \in Elements : row[x] \in {"live", "inserting"} \/ x \in written \ deleted =>
          tid[x] \in Tids /\ heap'[tid[x]] = x
    BY <1>1, <1>2, <1>3, <1>4 DEF HeapInv
  <2> QED
    BY <1>1, <1>2, <2>1, <2>2 DEF HeapInv
<1>6. PageInv' /\ CacheInv'
  BY <1>1, <1>2 DEF PageInv, CacheInv
<1>7. Undisturbed(scan)
  <2>1. SnapshotKept(scan)'
    BY <1>1, <1>2, <1>3, <1>4, SnapshotRows DEF SnapshotKept
  <2>2. \A f \in written : Owned(scan, f) => Owned(scan, f)'
    <3>1. ASSUME NEW f \in written, Owned(scan, f), heap'[tid[f]] \in scan.snapshot
          PROVE  heap'[tid[f]] = f
      <4>1. tid[f] \in Tids
        BY <1>1 DEF HeapInv
      <4> QED
        BY <1>1, <1>4, <3>1, <4>1, SnapshotRows DEF Owned
    <3> QED
      BY <1>2, <3>1 DEF Owned
  <2> QED
    BY <1>1, <1>2, <2>1, <2>2, SnapshotRows DEF Undisturbed
<1> QED
  BY <1>1, <1>2, <1>5, <1>6, <1>7, ScanUndisturbed DEF IInv

(* A freed heap TID given to a new row is none that the scan may see.      *)
LEMMA InsertRowKeeps ==
  ASSUME ScanAssumption, IInv, NEW e \in Elements, InsertRow(e)
  PROVE  IInv'
<1>1. HeapInv /\ PageInv /\ CacheInv /\ ScanInv(scan)
  BY DEF IInv
<1>2. None \notin Elements
  BY DEF ScanAssumption
<1>3. PICK t \in Tids : heap[t] = None /\ heap' = [heap EXCEPT ![t] = e]
                        /\ tid' = [tid EXCEPT ![e] = t]
  BY DEF InsertRow
<1>4. /\ row[e] = "absent" /\ row' = [row EXCEPT ![e] = "inserting"]
      /\ written' = written /\ deleted' = deleted
      /\ nbr' = nbr /\ inl' = inl /\ entry' = entry /\ mode' = mode
      /\ cache' = cache /\ scan' = scan
  BY DEF InsertRow, pageVars
<1>5. e \notin written /\ e \notin scan.snapshot
  BY <1>1, <1>4, SnapshotRows DEF HeapInv
<1>6. \A u \in Tids : heap'[u] = IF u = t THEN e ELSE heap[u]
  BY <1>1, <1>3 DEF HeapInv
<1>7. \A x \in Elements : /\ tid'[x] = IF x = e THEN t ELSE tid[x]
                          /\ row'[x] = IF x = e THEN "inserting" ELSE row[x]
  BY <1>1, <1>3, <1>4 DEF HeapInv
<1>8. HeapInv'
  <2>1. heap' \in [Tids -> Elements \cup {None}] /\ tid' \in [Elements -> Tids \cup {None}]
        /\ row' \in [Elements -> {"absent", "inserting", "live", "dead"}]
    BY <1>1, <1>3, <1>4 DEF HeapInv
  <2>2. ASSUME NEW x \in Elements, row'[x] \in {"live", "inserting"} \/ x \in written \ deleted
        PROVE  tid'[x] \in Tids /\ heap'[tid'[x]] = x
    <3>1. CASE x = e
      BY <1>6, <1>7, <3>1
    <3>2. CASE x # e
      <4>1. tid[x] \in Tids /\ heap[tid[x]] = x
        BY <1>1, <1>7, <2>2, <3>2 DEF HeapInv
      <4> QED
        BY <1>2, <1>3, <1>6, <1>7, <3>2, <4>1
    <3> QED
      BY <3>1, <3>2
  <2>3. \A x \in deleted : row'[x] = "dead"
    BY <1>1, <1>5, <1>7 DEF HeapInv
  <2>4. \A x \in written : row'[x] # "absent" /\ tid'[x] \in Tids
    BY <1>1, <1>5, <1>7 DEF HeapInv
  <2> QED
    BY <1>1, <1>4, <2>1, <2>2, <2>3, <2>4 DEF HeapInv
<1>9. PageInv' /\ CacheInv'
  BY <1>1, <1>4 DEF PageInv, CacheInv
<1>10. Undisturbed(scan)
  <2>1. SnapshotKept(scan)'
    <3>1. ASSUME NEW x \in scan.snapshot
          PROVE  row'[x] \in {"live", "dead"} /\ x \notin deleted
                 /\ tid'[x] \in Tids /\ heap'[tid'[x]] = x
      <4>1. x \in Elements /\ x # e /\ tid[x] \in Tids /\ heap[tid[x]] = x
        BY <1>1, <1>5, SnapshotRows
      <4>2. tid[x] # t
        BY <1>2, <1>3, <4>1
      <4> QED
        BY <1>1, <1>6, <1>7, <4>1, <4>2, SnapshotRows
    <3> QED
      BY <1>4, <3>1 DEF SnapshotKept
  <2>2. \A f \in written : Owned(scan, f) => Owned(scan, f)'
    <3>1. ASSUME NEW f \in written, Owned(scan, f), heap'[tid'[f]] \in scan.snapshot
          PROVE  heap'[tid'[f]] = f
      <4>1. f \in Elements /\ f # e /\ tid[f] \in Tids /\ tid'[f] = tid[f]
        BY <1>1, <1>5, <1>7 DEF HeapInv
      <4> QED
        BY <1>5, <1>6, <3>1, <4>1 DEF Owned
    <3> QED
      BY <1>4, <3>1 DEF Owned
  <2> QED
    BY <1>1, <1>4, <2>1, <2>2, SnapshotRows DEF Undisturbed
<1> QED
  BY <1>1, <1>4, <1>8, <1>9, <1>10, ScanUndisturbed DEF IInv

(* A new element's page changes none of the edges there were.              *)
LEMMA AppendElementKeeps ==
  ASSUME ScanAssumption, IInv, NEW e \in Elements, AppendElement(e)
  PROVE  IInv'
<1>1. HeapInv /\ PageInv /\ CacheInv /\ ScanInv(scan)
  BY DEF IInv
<1>2. PICK n \in written, highest \in BOOLEAN :
        /\ nbr' = [nbr EXCEPT ![e] = [s \in Slots |-> IF s = 1 THEN n ELSE None]]
        /\ inl' = IF mode.layout = "inline"
                   THEN [inl EXCEPT ![e][1] = [elem |-> n, deleted |-> n \in deleted]] ELSE inl
        /\ entry' = IF highest THEN e ELSE entry
  BY DEF AppendElement
<1>3. /\ e \in Elements /\ row[e] = "inserting" /\ e \notin written
      /\ written' = written \cup {e}
      /\ row' = row /\ tid' = tid /\ heap' = heap /\ deleted' = deleted /\ mode' = mode
      /\ cache' = cache /\ scan' = scan
  BY DEF AppendElement, Inserting, heapVars
<1>4. HeapInv'
  BY <1>1, <1>3 DEF HeapInv
<1>5. PageInv'
  <2>1. nbr \in [Elements -> [Slots -> written \cup {None}]] /\ entry \in written
        /\ mode \in Modes
    BY <1>1 DEF PageInv
  <2>2. nbr' \in [Elements -> [Slots -> written' \cup {None}]]
    <3>1. [s \in Slots |-> IF s = 1 THEN n ELSE None] \in [Slots -> written' \cup {None}]
      BY <1>3
    <3>2. nbr \in [Elements -> [Slots -> written' \cup {None}]]
      BY <2>1, <1>3
    <3> QED
      BY <1>2, <3>1, <3>2
  <2>3. /\ inl' \in [Elements -> [Slots -> Copies]]
        /\ \A x \in Elements : \A s \in Slots : inl'[x][s].deleted => inl'[x][s].elem \in deleted
    <3> DEFINE copy == [elem |-> n, deleted |-> n \in deleted]
    <3>1. /\ inl \in [Elements -> [Slots -> Copies]]
          /\ \A x \in Elements : \A s \in Slots : inl[x][s].deleted => inl[x][s].elem \in deleted
      BY <1>1 DEF PageInv
    <3>2. n \in Elements
      BY <1>1 DEF HeapInv
    <3>3. copy \in Copies
      BY <3>2, SMT DEF Copies
    <3>4. copy.elem = n /\ (copy.deleted => n \in deleted)
      BY Zenon
    <3>5. inl' = inl \/ inl' = [inl EXCEPT ![e][1] = copy]
      BY <1>2
    <3> HIDE DEF copy
    <3>6. CASE inl' = inl
      BY <3>1, <3>6
    <3>7. CASE inl' = [inl EXCEPT ![e][1] = copy]
      <4>1. inl' \in [Elements -> [Slots -> Copies]]
        <5> DEFINE copies == [inl[e] EXCEPT ![1] = copy]
        <5>1. inl[e] \in [Slots -> Copies]
          BY <3>1
        <5>2. copies \in [Slots -> Copies]
          BY ONLY <3>3, <5>1
        <5>3. inl' = [inl EXCEPT ![e] = copies] /\ inl \in [Elements -> [Slots -> Copies]]
          BY <3>1, <3>7
        <5> HIDE DEF copies
        <5> QED
          BY ONLY <5>2, <5>3
      <4>2. \A x \in Elements : \A s \in Slots :
              inl'[x][s] = IF x = e /\ s = 1 THEN copy ELSE inl[x][s]
        <5> DEFINE copies == [inl[e] EXCEPT ![1] = copy]
        <5>1. inl' = [inl EXCEPT ![e] = copies] /\ inl \in [Elements -> [Slots -> Copies]]
          BY <3>1, <3>7
        <5>2. \A s \in Slots : copies[s] = IF s = 1 THEN copy ELSE inl[e][s]
          BY <3>1, <1>3
        <5> HIDE DEF copies
        <5>3. \A x \in Elements : inl'[x] = IF x = e THEN copies ELSE inl[x]
          BY ONLY <5>1
        <5> QED
          BY ONLY <5>2, <5>3
      <4>3. \A x \in Elements : \A s \in Slots : inl'[x][s].deleted => inl'[x][s].elem \in deleted
        <5>1. ASSUME NEW x \in Elements, NEW s \in Slots, inl'[x][s].deleted
              PROVE  inl'[x][s].elem \in deleted
          <6>1. CASE x = e /\ s = 1
            BY <3>4, <4>2, <5>1, <6>1
          <6>2. CASE ~(x = e /\ s = 1)
            BY <3>1, <4>2, <5>1, <6>2
          <6> QED
            BY <6>1, <6>2
        <5> QED
          BY <5>1
      <4> QED
        BY <4>1, <4>3
    <3> QED
      BY <3>5, <3>6, <3>7
  <2> QED
    BY <1>2, <1>3, <2>1, <2>2, <2>3 DEF PageInv
<1>6. CacheInv'
  BY <1>1, <1>3 DEF CacheInv
<1>7. Undisturbed(scan)
  <2>1. SnapshotKept(scan)'
    BY <1>1, <1>3, SnapshotRows DEF SnapshotKept
  <2>2. \A d \in scan.steady : nbr'[d[1]] = nbr[d[1]]
    <3>1. ASSUME NEW d \in scan.steady PROVE nbr'[d[1]] = nbr[d[1]]
      <4>1. d[1] \in Elements /\ d[1] # e
        BY <1>1, <1>3, SnapshotRows
      <4> QED
        BY <1>1, <1>2, <4>1 DEF PageInv
    <3> QED
      BY <3>1
  <2> QED
    BY <1>1, <1>3, <2>1, <2>2, SnapshotRows DEF Undisturbed, Owned
<1> QED
  BY <1>1, <1>3, <1>4, <1>5, <1>6, <1>7, ScanUndisturbed DEF IInv

(* What the scan did not rely on may be forgotten or read: edges of its    *)
(* beginning that go, arrays that are replaced.                            *)
LEMMA ScanRelaxed ==
  ASSUME ScanInv(scan), NEW steady \in SUBSET scan.steady, NEW old \in SUBSET Elements,
         NEW r, r = [scan EXCEPT !.steady = steady, !.old = old]
  PROVE  ScanInv(r)
<1>1. scan \in Scans
  BY DEF ScanInv
<1>2. r \in Scans
  <2>1. steady \in SUBSET (Elements \X Elements)
    BY <1>1 DEF Scans
  <2> QED
    BY <1>1, <2>1 DEF Scans
<1>3. /\ r.pc = scan.pc /\ r.snapshot = scan.snapshot /\ r.attached = scan.attached
      /\ r.approx = scan.approx /\ r.C = scan.C /\ r.Cm = scan.Cm /\ r.R = scan.R
      /\ r.Rx = scan.Rx /\ r.visited = scan.visited /\ r.coded = scan.coded
      /\ r.n_expansions = scan.n_expansions /\ r.tids = scan.tids /\ r.todo = scan.todo
      /\ r.node = scan.node
      /\ r.fetch = scan.fetch /\ r.rows = scan.rows /\ r.seed = scan.seed
      /\ r.steady = steady
  BY <1>1 DEF Scans
<1> HIDE DEF ScanInv
<1>4. SnapshotKept(r) /\ PlacesInv(r) /\ CopiesInv(r)
  BY <1>3 DEF ScanInv, SnapshotKept, PlacesInv, CopiesInv, Waiting, Owned
<1>5. OrderInv(r)
  BY <1>3 DEF ScanInv, OrderInv, Claims, Started, Waiting
<1>6. ReachInv(r)
  BY <1>3 DEF ScanInv, ReachInv, Waiting
<1> QED
  BY <1>2, <1>4, <1>5, <1>6 DEF ScanInv

(* A slot rewired takes its edge from the steady ones.                     *)
LEMMA LinkFromKeeps ==
  ASSUME ScanAssumption, IInv, NEW e \in Elements, NEW n \in Elements, NEW s \in Slots,
         LinkFrom(e, n, s)
  PROVE  IInv'
<1>1. HeapInv /\ PageInv /\ CacheInv /\ ScanInv(scan)
  BY DEF IInv
<1>2. /\ e \in written /\ n \in Range(nbr[e])
      /\ nbr' = [nbr EXCEPT ![n][s] = e]
      /\ scan' = [scan EXCEPT !.steady = @ \ {<<n, nbr[n][s]>>}]
      /\ row' = row /\ tid' = tid /\ heap' = heap
      /\ written' = written /\ deleted' = deleted /\ inl' = inl /\ entry' = entry
      /\ mode' = mode /\ cache' = cache
  BY DEF LinkFrom, heapVars
<1>3. HeapInv' /\ CacheInv'
  BY <1>1, <1>2 DEF HeapInv, CacheInv
<1>4. PageInv'
  <2>1. nbr' \in [Elements -> [Slots -> written \cup {None}]]
    BY <1>1, <1>2 DEF PageInv
  <2> QED
    BY <1>1, <1>2, <2>1 DEF PageInv
<1> DEFINE steady == scan.steady \ {<<n, nbr[n][s]>>}
<1>5. PICK r : r = [scan EXCEPT !.steady = steady, !.old = scan.old]
  OBVIOUS
<1>6. /\ scan \in Scans /\ scan.old \in SUBSET Elements
      /\ scan.steady \in SUBSET (Elements \X Elements)
  BY <1>1 DEF ScanInv, Scans
<1>7. scan' = r /\ r.steady = steady /\ r.snapshot = scan.snapshot
  BY <1>2, <1>5, <1>6 DEF Scans
<1>8. ScanInv(r)
  BY <1>1, <1>5, <1>6, ScanRelaxed
<1>9. Undisturbed(r)
  <2>1. SnapshotKept(r)'
    BY <1>1, <1>2, <1>7, SnapshotRows DEF SnapshotKept
  <2>2. ASSUME NEW d \in r.steady PROVE \E u \in Slots : nbr'[d[1]][u] = d[2]
    <3>1. d \in scan.steady /\ d # <<n, nbr[n][s]>> /\ d \in Elements \X Elements
      BY <1>6, <1>7
    <3>2. PICK u \in Slots : nbr[d[1]][u] = d[2]
      BY <1>1, <3>1, SnapshotRows
    <3>3. ~(d[1] = n /\ u = s)
      <4>1. d = <<d[1], d[2]>>
        BY <3>1
      <4> QED
        BY <3>1, <3>2, <4>1
    <3>4. nbr'[d[1]][u] = nbr[d[1]][u]
      BY <1>1, <1>2, <3>1, <3>3 DEF PageInv
    <3> QED
      BY <3>2, <3>4
  <2> QED
    BY <1>2, <2>1, <2>2 DEF Undisturbed, Owned
<1>10. ScanInv(scan)'
  BY <1>7, <1>8, <1>9, RecordUndisturbed
<1> QED
  BY <1>3, <1>4, <1>10 DEF IInv

(* A co-located entry is written as alive.                                 *)
LEMMA WriteInlineEntryKeeps ==
  ASSUME ScanAssumption, IInv, NEW n \in Elements, NEW s \in Slots, WriteInlineEntry(n, s)
  PROVE  IInv'
<1>1. HeapInv /\ PageInv /\ CacheInv /\ ScanInv(scan)
  BY DEF IInv
<1>2. /\ nbr[n][s] \in Elements
      /\ inl' = [inl EXCEPT ![n][s] = [elem |-> nbr[n][s], deleted |-> FALSE]]
      /\ row' = row /\ tid' = tid /\ heap' = heap
      /\ written' = written /\ deleted' = deleted /\ nbr' = nbr /\ entry' = entry
      /\ mode' = mode /\ cache' = cache /\ scan' = scan
  BY DEF WriteInlineEntry, Inserting, Elements, heapVars
<1>3. HeapInv' /\ CacheInv'
  BY <1>1, <1>2 DEF HeapInv, CacheInv
<1>4. PageInv'
  <2> DEFINE copy == [elem |-> nbr[n][s], deleted |-> FALSE]
  <2>1. copy \in Copies /\ copy.deleted = FALSE
    BY <1>2 DEF Copies
  <2>2. inl' = [inl EXCEPT ![n][s] = copy]
    BY <1>2
  <2> HIDE DEF copy
  <2>3. inl' \in [Elements -> [Slots -> Copies]]
    BY <1>1, <2>1, <2>2 DEF PageInv
  <2>4. \A x \in Elements : \A u \in Slots :
          inl'[x][u] = IF x = n /\ u = s THEN copy ELSE inl[x][u]
    BY <1>1, <2>2 DEF PageInv
  <2> QED
    BY <1>1, <1>2, <2>1, <2>3, <2>4 DEF PageInv
<1>5. Undisturbed(scan)
  <2>1. SnapshotKept(scan)'
    BY <1>1, <1>2, SnapshotRows DEF SnapshotKept
  <2> QED
    BY <1>1, <1>2, <2>1, SnapshotRows DEF Undisturbed, Owned
<1> QED
  BY <1>1, <1>2, <1>3, <1>4, <1>5, ScanUndisturbed DEF IInv

(* A row that becomes live, or is rolled back, was seen by no snapshot.    *)
LEMMA EndInsertKeeps ==
  ASSUME ScanAssumption, IInv, NEW e \in Elements, FinishInsert(e) \/ AbortInsert(e)
  PROVE  IInv'
<1>1. HeapInv /\ PageInv /\ CacheInv /\ ScanInv(scan)
  BY DEF IInv
<1>2. /\ row[e] = "inserting"
      /\ row' = [row EXCEPT ![e] = "live"] \/ row' = [row EXCEPT ![e] = "dead"]
      /\ tid' = tid /\ heap' = heap /\ written' = written /\ deleted' = deleted
      /\ nbr' = nbr /\ inl' = inl /\ entry' = entry /\ mode' = mode
      /\ \/ cache' = cache
         \/ e \in written /\ cache' = [cache EXCEPT !.present = @ \cup {e}]
      /\ \/ scan' = scan
         \/ scan' = [scan EXCEPT !.old = IF scan.attached THEN @ \cup cache.present ELSE @]
  BY DEF FinishInsert, AbortInsert, Inserting, pageVars
<1>3. e \notin scan.snapshot
  BY <1>1, <1>2, SnapshotRows
<1>4. HeapInv'
  BY <1>1, <1>2 DEF HeapInv
<1>5. PageInv'
  BY <1>1, <1>2 DEF PageInv
<1>6. CacheInv'
  <2>1. CASE cache' = cache
    BY <1>1, <1>2, <2>1 DEF CacheInv
  <2>2. CASE e \in written /\ cache' = [cache EXCEPT !.present = @ \cup {e}]
    <3>1. /\ cache' \in Caches /\ cache'.dead = cache.dead
          /\ cache'.present = cache.present \cup {e}
      BY <1>1, <2>2 DEF CacheInv, Caches
    <3> QED
      BY <1>1, <1>2, <2>2, <3>1 DEF CacheInv
  <2> QED
    BY <1>2, <2>1, <2>2
<1>7. SnapshotKept(scan) /\ scan.snapshot \subseteq Elements
  BY <1>1, SnapshotRows DEF ScanInv
<1>8. PICK r : scan' = r /\ ScanInv(r) /\ r.snapshot = scan.snapshot
  <2>1. CASE scan' = scan
    BY <1>1, <2>1
  <2>2. CASE scan' = [scan EXCEPT !.old = IF scan.attached THEN @ \cup cache.present ELSE @]
    <3> DEFINE old == IF scan.attached THEN scan.old \cup cache.present ELSE scan.old
    <3>1. scan \in Scans
      BY <1>1 DEF ScanInv
    <3>2. old \in SUBSET Elements /\ scan.steady \in SUBSET scan.steady
      BY <1>1, <3>1 DEF Scans, CacheInv, HeapInv
    <3>3. PICK r : r = [scan EXCEPT !.steady = scan.steady, !.old = old]
      OBVIOUS
    <3>4. scan' = r /\ r.snapshot = scan.snapshot
      BY <2>2, <3>1, <3>3 DEF Scans
    <3> HIDE DEF old
    <3>5. ScanInv(r)
      BY <1>1, <3>2, <3>3, ScanRelaxed
    <3> QED
      BY <3>4, <3>5
  <2> QED
    BY <1>2, <2>1, <2>2
<1>9. Undisturbed(r)
  <2>1. SnapshotKept(r)'
    BY <1>1, <1>2, <1>3, <1>7, <1>8 DEF SnapshotKept, HeapInv
  <2>2. \A d \in r.steady : \E u \in Slots : nbr[d[1]][u] = d[2]
    BY <1>8 DEF ScanInv, ReachInv
  <2> QED
    BY <1>2, <1>8, <2>1, <2>2 DEF Undisturbed, Owned
<1>10. ScanInv(scan)'
  BY <1>8, <1>9, RecordUndisturbed
<1> QED
  BY <1>4, <1>5, <1>6, <1>10 DEF IInv

(* Loading takes what the pages say, evicting says nothing.                *)
LEMMA CacheStepKeeps ==
  ASSUME ScanAssumption, IInv, LoadBegin \/ LoadPage \/ LoadEnd \/ Evict
  PROVE  IInv'
<1>1. HeapInv /\ PageInv /\ CacheInv /\ ScanInv(scan)
  BY DEF IInv
<1>2. UNCHANGED <<mode, heapVars, pageVars>> /\ scan' = scan
  BY DEF LoadBegin, LoadPage, LoadEnd, Evict
<1>3. written' = written /\ deleted' = deleted
  BY <1>2 DEF pageVars
<1>4. CacheInv'
  <2>1. CASE LoadBegin
    <3> DEFINE toload == {Block[e] : e \in written}
    <3>1. toload \in SUBSET Int
      <4>1. Block \in [Elements -> Int] /\ written \subseteq Elements
        BY <1>1 DEF HeapInv, ScanAssumption
      <4> QED
        BY <4>1
    <3>2. cache' = [NoCache EXCEPT !.state = "LOADING", !.toload = toload]
      BY <2>1 DEF LoadBegin
    <3> HIDE DEF toload
    <3> QED
      BY <1>3, <3>1, <3>2 DEF CacheInv, Caches, NoCache
  <2>2. CASE LoadPage
    <3> DEFINE blkno == LeastOf(cache.toload)
               elements == {e \in written : Block[e] = blkno}
    <3>1. cache' = [cache EXCEPT !.toload = @ \ {blkno},
                                 !.present = @ \cup elements,
                                 !.dead = @ \cup (elements \cap deleted)]
      BY <2>2 DEF LoadPage
    <3>2. elements \subseteq written
      OBVIOUS
    <3> HIDE DEF blkno, elements
    <3>3. /\ cache \in Caches /\ cache.dead \subseteq cache.present
          /\ cache.dead \subseteq deleted /\ cache.present \subseteq written
          /\ written \subseteq Elements
      BY <1>1 DEF CacheInv, HeapInv
    <3>4. /\ cache' \in Caches
          /\ cache'.present = cache.present \cup elements
          /\ cache'.dead = cache.dead \cup (elements \cap deleted)
      BY <3>1, <3>2, <3>3 DEF Caches
    <3> QED
      BY <1>3, <3>2, <3>3, <3>4 DEF CacheInv
  <2>3. CASE LoadEnd
    BY <1>1, <1>3, <2>3 DEF CacheInv, Caches, LoadEnd
  <2>4. CASE Evict
    BY <1>3, <2>4 DEF CacheInv, Caches, Evict, NoCache
  <2> QED
    BY <2>1, <2>2, <2>3, <2>4
<1>5. HeapInv' /\ PageInv'
  BY <1>1, <1>2, PagesStay
<1>6. ScanInv(scan)'
  <2>1. PICK r : r = scan
    OBVIOUS
  <2>2. ScanInv(r) /\ r \in Scans /\ SnapshotKept(r) /\ ReachInv(r)
    BY <1>1, <2>1 DEF ScanInv
  <2>3. Undisturbed(r)
    BY <1>1, <1>2, <2>2, PagesStay
  <2> QED
    BY <1>2, <2>1, <2>2, <2>3, RecordUndisturbed
<1> QED
  BY <1>4, <1>5, <1>6 DEF IInv

-----------------------------------------------------------------------------
(* The scan's own steps *)

(* A step of the scan changes nothing else.                                *)
LEMMA ScanStep ==
  ASSUME IInv, UNCHANGED <<mode, cache, heapVars, pageVars>>,
         NEW r, ScanInv(r), scan' = r
  PROVE  IInv'
<1>1. HeapInv /\ PageInv /\ CacheInv
  BY DEF IInv
<1>2. UNCHANGED <<mode, heapVars, pageVars>> /\ cache' = cache
      /\ written' = written /\ deleted' = deleted
  BY DEF pageVars
<1>3. r \in Scans /\ SnapshotKept(r) /\ ReachInv(r)
  BY DEF ScanInv
<1>4. HeapInv' /\ PageInv' /\ Undisturbed(r)
  BY <1>1, <1>2, <1>3, PagesStay
<1>5. CacheInv'
  BY <1>1, <1>2 DEF CacheInv
<1> QED
  BY <1>4, <1>5, RecordUndisturbed DEF IInv

(* What the invariant says of a scan, with its parts in sight.             *)
LEMMA ScanParts ==
  ASSUME IInv
  PROVE  /\ HeapInv /\ PageInv /\ CacheInv
         /\ scan \in Scans /\ SnapshotKept(scan) /\ PlacesInv(scan) /\ CopiesInv(scan)
         /\ OrderInv(scan) /\ ReachInv(scan)
  BY DEF IInv, ScanInv

(* A scan begins with the snapshot's rows, and with nothing found.         *)
LEMMA RestartKeeps ==
  ASSUME ScanAssumption, IInv, Rescan \/ EndScan
  PROVE  IInv'
<1>1. CASE EndScan
  <2>1. scan' = Closed /\ UNCHANGED <<mode, cache, heapVars, pageVars>>
    BY <1>1 DEF EndScan
  <2>2. PICK r : r = Closed
    OBVIOUS
  <2> QED
    BY <2>1, <2>2, ClosedInv, ScanStep
<1>2. CASE Rescan
  <2> DEFINE attached == mode.layout = "cached" /\ cache.state = "READY"
             approx == attached \/ mode.layout = "inline"
             snapshot == IF scan.pc = "closed" THEN {e \in Elements : row[e] = "live"}
                         ELSE scan.snapshot
             begun == [Closed EXCEPT
                         !.pc = "open", !.attached = attached, !.approx = approx,
                         !.snapshot = snapshot, !.steady = Edges]
  <2>1. scan' = begun /\ UNCHANGED <<mode, cache, heapVars, pageVars>>
    BY <1>2 DEF Rescan, StreamBegin
  <2>2. HeapInv /\ PageInv /\ scan \in Scans /\ SnapshotKept(scan)
    BY ScanParts
  <2>3. snapshot \in SUBSET Elements /\ Edges \in SUBSET (Elements \X Elements)
    BY <2>2 DEF Scans, Edges, HeapInv
  <2>4. \A x \in snapshot :
          row[x] \in {"live", "dead"} /\ x \notin deleted /\ tid[x] \in Tids /\ heap[tid[x]] = x
    BY <2>2 DEF SnapshotKept, HeapInv
  <2>5. attached \in BOOLEAN /\ approx \in BOOLEAN
    BY SMT
  <2>6. (attached => approx) /\ (mode.layout = "inline" => approx)
    OBVIOUS
  <2>7. \A d \in Edges : d[1] \in written /\ \E s \in Slots : nbr[d[1]][s] = d[2]
    <3>1. ASSUME NEW d \in Edges
          PROVE  d[1] \in written /\ \E s \in Slots : nbr[d[1]][s] = d[2]
      <4>1. d[1] \in written /\ d[2] \in Range(nbr[d[1]])
        BY DEF Edges
      <4>2. DOMAIN nbr[d[1]] = Slots
        BY <2>2, <4>1 DEF PageInv, HeapInv
      <4> QED
        BY <4>1, <4>2 DEF Range
    <3> QED
      BY <3>1
  <2>8. PICK r : r = begun
    OBVIOUS
  <2> HIDE DEF attached, approx, snapshot
  <2>9. /\ r.pc = "open" /\ r.attached = attached /\ r.approx = approx
        /\ r.snapshot = snapshot /\ r.steady = Edges
        /\ r.old = {} /\ r.C = {} /\ r.Cm = {} /\ r.R = {} /\ r.Rx = {} /\ r.visited = {}
        /\ r.coded = {} /\ r.todo = {} /\ r.fetch = None /\ r.rows = <<>>
    BY <2>8 DEF Closed
  <2>10. r \in Scans
    <3>1. Closed \in Scans
      BY DEF Closed, Scans
    <3> DEFINE r1 == [Closed EXCEPT !.pc = "open"]
               r2 == [r1 EXCEPT !.attached = attached]
               r3 == [r2 EXCEPT !.approx = approx]
               r4 == [r3 EXCEPT !.snapshot = snapshot]
               r5 == [r4 EXCEPT !.steady = Edges]
    <3>2. r1 \in Scans
      BY <3>1 DEF Scans
    <3>3. r2 \in Scans
      <4> HIDE DEF r1
      <4> QED BY ONLY <2>5, <3>2 DEF Scans
    <3>4. r3 \in Scans
      <4> HIDE DEF r2
      <4> QED BY ONLY <2>5, <3>3 DEF Scans
    <3>5. r4 \in Scans
      <4> HIDE DEF r3
      <4> QED BY ONLY <2>3, <3>4 DEF Scans
    <3>6. r5 \in Scans
      <4> HIDE DEF r4
      <4> QED BY ONLY <2>3, <3>5 DEF Scans
    <3>7. r = r5
      BY <2>8 DEF Closed
    <3> HIDE DEF r5
    <3> QED
      BY <3>6, <3>7
  <2>11. Range(r.rows) = {} /\ Waiting(r) = {}
    BY <2>9 DEF Range, Waiting
  <2>12. SnapshotKept(r)
    BY <2>4, <2>9 DEF SnapshotKept
  <2>13. PlacesInv(r)
    BY <2>9, <2>11 DEF PlacesInv
  <2>14. CopiesInv(r)
    BY <2>6, <2>9 DEF CopiesInv
  <2>15. OrderInv(r)
    BY <2>9, <2>11 DEF OrderInv, Started
  <2>16. ReachInv(r)
    BY <2>7, <2>9 DEF ReachInv
  <2>17. ScanInv(r)
    BY <2>10, <2>12, <2>13, <2>14, <2>15, <2>16 DEF ScanInv
  <2> QED
    BY <2>1, <2>8, <2>17, ScanStep
<1> QED
  BY <1>1, <1>2

(* A scan's heaps and flags stay sets of elements.                         *)
LEMMA FoundTyped ==
  ASSUME NEW r \in Scans,
         NEW C \in SUBSET Elements, NEW Cm \in SUBSET Elements, NEW R \in SUBSET Elements,
         NEW visited \in SUBSET Elements, NEW coded \in SUBSET Elements
  PROVE  [r EXCEPT !.visited = visited, !.coded = coded,
                    !.C = C, !.Cm = Cm, !.R = R] \in Scans
<1> DEFINE r1 == [r EXCEPT !.visited = visited]
           r2 == [r1 EXCEPT !.coded = coded]
           r3 == [r2 EXCEPT !.C = C]
           r4 == [r3 EXCEPT !.Cm = Cm]
           r5 == [r4 EXCEPT !.R = R]
<1>1. r1 \in Scans
  BY DEF Scans
<1>2. r2 \in Scans
  <2> HIDE DEF r1
  <2> QED BY <1>1 DEF Scans
<1>3. r3 \in Scans
  <2> HIDE DEF r2
  <2> QED BY <1>2 DEF Scans
<1>4. r4 \in Scans
  <2> HIDE DEF r3
  <2> QED BY <1>3 DEF Scans
<1>5. r5 \in Scans
  <2> HIDE DEF r4
  <2> QED BY <1>4 DEF Scans
<1> QED
  BY <1>5

(* So they do when a candidate is popped.                                  *)
LEMMA PoppedTyped ==
  ASSUME NEW r \in Scans,
         NEW C \in SUBSET Elements, NEW Cm \in SUBSET Elements, NEW n \in Nat,
         NEW node \in Elements, NEW tids \in [Slots -> Elements \cup {None}],
         NEW todo \in SUBSET Slots
  PROVE  [r EXCEPT !.C = C, !.Cm = Cm, !.n_expansions = n,
                    !.node = node, !.tids = tids, !.todo = todo] \in Scans
<1> DEFINE r1 == [r EXCEPT !.C = C]
           r2 == [r1 EXCEPT !.Cm = Cm]
           r3 == [r2 EXCEPT !.n_expansions = n]
           r4 == [r3 EXCEPT !.node = node]
           r5 == [r4 EXCEPT !.tids = tids]
           r6 == [r5 EXCEPT !.todo = todo]
<1>1. r1 \in Scans
  BY DEF Scans
<1>2. r2 \in Scans
  <2> HIDE DEF r1
  <2> QED BY <1>1 DEF Scans
<1>3. r3 \in Scans
  <2> HIDE DEF r2
  <2> QED BY <1>2 DEF Scans
<1>4. r4 \in Scans
  <2> HIDE DEF r3
  <2> QED BY <1>3 DEF Scans
<1>5. r5 \in Scans
  <2> HIDE DEF r4
  <2> QED BY <1>4 DEF Scans
<1>6. r6 \in Scans
  <2> HIDE DEF r5
  <2> QED BY <1>5 DEF Scans
<1> QED
  BY <1>6

(* And when a result is reranked or emitted.                               *)
LEMMA EmittedTyped ==
  ASSUME NEW r \in Scans,
         NEW R \in SUBSET Elements, NEW Rx \in SUBSET Elements, NEW f \in Elements \cup {None}
  PROVE  [r EXCEPT !.R = R, !.Rx = Rx, !.fetch = f] \in Scans
<1> DEFINE r1 == [r EXCEPT !.R = R]
           r2 == [r1 EXCEPT !.Rx = Rx]
           r3 == [r2 EXCEPT !.fetch = f]
<1>1. r1 \in Scans
  BY DEF Scans
<1>2. r2 \in Scans
  <2> HIDE DEF r1
  <2> QED BY <1>1 DEF Scans
<1>3. r3 \in Scans
  <2> HIDE DEF r2
  <2> QED BY <1>2 DEF Scans
<1> QED
  BY <1>3

(* A scan that is about to discover e: all but e itself is in its place,   *)
(* and a scan that claims an order has not taken a result yet.             *)
Discovering(r, e) ==
  /\ r \in Scans /\ SnapshotKept(r) /\ PlacesInv(r) /\ CopiesInv(r)
  /\ r.pc = "next" /\ ~(Claims(r) /\ Started(r))
  /\ \A d \in r.steady : d[1] \in written /\ \E s \in Slots : nbr[d[1]][s] = d[2]
  /\ r.seed \in r.visited \cup {e}
  /\ \A d \in r.steady : d[1] \in r.visited \ (r.C \cup r.Cm) =>
       d[2] \in r.visited \cup {e} \/ \E s \in r.todo : r.tids[s] = d[2]
  /\ \A v \in r.visited : v \in r.snapshot /\ v \in Matching =>
       v \in Waiting(r) \cup Range(r.rows)

(* What a copy says of e: dead only if e is deleted, and, unless it is a   *)
(* code, which only a scan that reranks reads, dead if e is deleted.       *)
Says(r, e, coded, dead) ==
  /\ dead => e \in deleted
  /\ coded => r.approx
  /\ ~coded => (e \in deleted => dead)

(* A discovered element goes to one heap of candidates, and to the results *)
(* if it passes.                                                           *)
LEMMA DiscoverKeeps ==
  ASSUME ScanAssumption, HeapInv, NEW r, NEW e \in written \ r.visited,
         NEW coded \in BOOLEAN, NEW dead \in BOOLEAN,
         Discovering(r, e), Says(r, e, coded, dead),
         NEW q, q = Discover(e, r, coded, dead)
  PROVE  ScanInv(q)
<1> DEFINE passes == ~dead /\ e \in Matching
<1>1. e \in Elements /\ e # None /\ None \notin Elements
  BY DEF HeapInv, ScanAssumption
<1>2. /\ r \in Scans /\ SnapshotKept(r) /\ PlacesInv(r) /\ CopiesInv(r)
      /\ r.pc = "next" /\ ~(Claims(r) /\ Started(r))
  BY DEF Discovering
<1> DEFINE CC == IF mode.member_first /\ passes THEN r.C ELSE r.C \cup {e}
           CCm == IF mode.member_first /\ passes THEN r.Cm \cup {e} ELSE r.Cm
           RR == IF passes THEN r.R \cup {e} ELSE r.R
           ccoded == IF coded THEN r.coded \cup {e} ELSE r.coded
           vvisited == r.visited \cup {e}
<1>3. q = [r EXCEPT !.visited = vvisited, !.coded = ccoded, !.C = CC, !.Cm = CCm, !.R = RR]
  BY DEF Discover
<1>4. /\ CC \in SUBSET Elements /\ CCm \in SUBSET Elements /\ RR \in SUBSET Elements
      /\ ccoded \in SUBSET Elements /\ vvisited \in SUBSET Elements
  BY <1>1, <1>2 DEF Scans
<1>5. /\ CC \cup CCm = r.C \cup r.Cm \cup {e}
      /\ RR = IF passes THEN r.R \cup {e} ELSE r.R
      /\ ccoded = IF coded THEN r.coded \cup {e} ELSE r.coded
      /\ vvisited = r.visited \cup {e}
  OBVIOUS
<1>6. passes <=> ~dead /\ e \in Matching
  OBVIOUS
<1> HIDE DEF CC, CCm, RR, ccoded, vvisited, passes
<1>7. q \in Scans
  <2>0. r \in Scans
    BY <1>2
  <2>1. [r EXCEPT !.visited = vvisited, !.coded = ccoded, !.C = CC, !.Cm = CCm, !.R = RR] \in Scans
    BY <2>0, <1>4, FoundTyped
  <2>2. q = [r EXCEPT !.visited = vvisited, !.coded = ccoded, !.C = CC, !.Cm = CCm, !.R = RR]
    BY <1>3
  <2> QED
    BY <2>1, <2>2
<1>8. /\ q.pc = r.pc /\ q.snapshot = r.snapshot /\ q.attached = r.attached
      /\ q.approx = r.approx /\ q.C = CC /\ q.Cm = CCm /\ q.R = RR /\ q.Rx = r.Rx
      /\ q.visited = r.visited \cup {e} /\ q.coded = ccoded
      /\ q.n_expansions = r.n_expansions /\ q.tids = r.tids /\ q.todo = r.todo
      /\ q.node = r.node /\ q.fetch = r.fetch /\ q.rows = r.rows
      /\ q.seed = r.seed /\ q.steady = r.steady
  BY <1>2, <1>3, <1>5 DEF Scans
<1>9. Waiting(q) = IF passes THEN Waiting(r) \cup {e} ELSE Waiting(r)
  BY <1>5, <1>8 DEF Waiting
<1>10. /\ r.visited \subseteq written
       /\ r.C \cup r.Cm \cup r.R \cup r.Rx \cup Range(r.rows) \subseteq r.visited
       /\ r.fetch \in r.visited \cup {None}
       /\ r.R \cap r.Rx = {} /\ r.fetch \notin r.R \cup r.Rx
       /\ Range(r.rows) \cap Waiting(r) = {} /\ Waiting(r) \subseteq Matching
       /\ \A s \in r.todo : r.tids[s] \in written
       /\ r.todo # {} => r.node \in Elements
  BY <1>2 DEF PlacesInv
<1>11. SnapshotKept(q)
  BY <1>2, <1>8 DEF SnapshotKept
<1>12. PlacesInv(q)
  <2>1. q.C \cup q.Cm \subseteq q.visited /\ q.visited \subseteq written
    BY <1>5, <1>8, <1>10
  <2>2. q.R \cup q.Rx \cup Range(q.rows) \subseteq q.visited /\ q.fetch \in q.visited \cup {None}
    BY <1>5, <1>8, <1>10
  <2>3. q.R \cap q.Rx = {} /\ q.fetch \notin q.R \cup q.Rx
    BY <1>1, <1>5, <1>8, <1>10
  <2>4. Range(q.rows) \cap Waiting(q) = {} /\ Waiting(q) \subseteq Matching
    BY <1>6, <1>8, <1>9, <1>10
  <2> QED
    BY <1>2, <1>8, <1>10, <2>1, <2>2, <2>3, <2>4 DEF PlacesInv
<1>13. CopiesInv(q)
  <2>1. CopiesInv(r)
    BY <1>2
  <2>2. ASSUME ~coded, passes PROVE Owned(r, e)
    <3>1. e \notin deleted
      BY <1>6, <2>2 DEF Says
    <3> QED
      BY <1>1, <3>1 DEF HeapInv, Owned
  <2>3. \A f \in Elements : Owned(q, f) <=> Owned(r, f)
    BY <1>8 DEF Owned
  <2>4. ~q.approx => q.coded = {} /\ q.Rx = {} /\ \A f \in q.R : Owned(q, f)
    <3>1. ASSUME ~r.approx PROVE ~coded
      BY <3>1 DEF Says
    <3> QED
      BY <1>1, <1>5, <1>8, <2>1, <2>2, <3>1 DEF CopiesInv, Owned
  <2>5. \A f \in q.Rx \cup ({q.fetch} \ {None}) : Owned(q, f)
    BY <1>8, <2>1 DEF CopiesInv, Owned
  <2> QED
    BY <1>8, <2>1, <2>4, <2>5 DEF CopiesInv
<1>14. OrderInv(q)
  <2>1. Claims(q) <=> Claims(r)
    BY <1>8 DEF Claims
  <2>2. Started(q) <=> Started(r)
    BY <1>8 DEF Started
  <2>3. ASSUME ~Started(r) PROVE Range(q.rows) = {} /\ q.fetch = None
    BY <1>8, <2>3 DEF Started, Range
  <2> QED
    BY <1>2, <2>1, <2>2, <2>3 DEF OrderInv
<1>15. ReachInv(q)
  <2>1. \A d \in q.steady : d[1] \in written /\ \E s \in Slots : nbr[d[1]][s] = d[2]
    BY <1>8 DEF Discovering
  <2>2. q.seed \in q.visited
    BY <1>8 DEF Discovering
  <2>3. \A d \in q.steady : d[1] \in q.visited \ (q.C \cup q.Cm) =>
          d[2] \in q.visited \/ \E s \in q.todo : q.tids[s] = d[2]
    BY <1>5, <1>8 DEF Discovering
  <2>4. ASSUME NEW v \in q.visited, v \in q.snapshot, v \in Matching
        PROVE  v \in Waiting(q) \cup Range(q.rows)
    <3>1. CASE v = e
      <4>1. e \notin deleted
        BY <1>2, <1>8, <2>4, <3>1 DEF SnapshotKept
      <4>2. passes
        BY <1>6, <2>4, <3>1, <4>1 DEF Says
      <4> QED
        BY <1>9, <3>1, <4>2
    <3>2. CASE v # e
      BY <1>8, <1>9, <2>4, <3>2 DEF Discovering
    <3> QED
      BY <3>1, <3>2
  <2> QED
    BY <2>1, <2>2, <2>3, <2>4 DEF ReachInv
<1> QED
  BY <1>7, <1>11, <1>12, <1>13, <1>14, <1>15 DEF ScanInv

(* A slot at a time: what is left to look at stays in its place.           *)
LEMMA VisitedDiscovering ==
  ASSUME ScanAssumption, IInv, NEW s \in scan.todo, NEW r, r = Visited(scan, s)
  PROVE  /\ scan.tids[s] \in written /\ Discovering(r, scan.tids[s])
         /\ r.visited = scan.visited /\ r.approx = scan.approx
<1> DEFINE e == scan.tids[s]
<1>1. /\ scan \in Scans /\ SnapshotKept(scan) /\ PlacesInv(scan) /\ CopiesInv(scan)
      /\ OrderInv(scan) /\ ReachInv(scan)
  BY ScanParts
<1>2. r \in Scans
  <2>1. r = [scan EXCEPT !.todo = scan.todo \ {s}]
    BY DEF Visited
  <2> DEFINE left == scan.todo \ {s}
  <2>2. left \in SUBSET Slots /\ scan \in Scans
    BY <1>1 DEF Scans
  <2>3. r = [scan EXCEPT !.todo = left]
    BY <2>1
  <2> HIDE DEF left, e
  <2> QED
    BY ONLY <2>2, <2>3 DEF Scans
<1>3. /\ r.pc = scan.pc /\ r.snapshot = scan.snapshot /\ r.attached = scan.attached
      /\ r.approx = scan.approx /\ r.C = scan.C /\ r.Cm = scan.Cm /\ r.R = scan.R
      /\ r.Rx = scan.Rx /\ r.visited = scan.visited /\ r.coded = scan.coded
      /\ r.n_expansions = scan.n_expansions /\ r.tids = scan.tids
      /\ r.todo = scan.todo \ {s} /\ r.fetch = scan.fetch /\ r.rows = scan.rows
      /\ r.seed = scan.seed /\ r.steady = scan.steady /\ r.node = scan.node
  BY <1>1 DEF Visited, Scans
<1>4. scan.pc = "next"
  BY <1>1 DEF Scans, PlacesInv
<1>5. e \in written
  BY <1>1 DEF PlacesInv
<1>6. SnapshotKept(r) /\ PlacesInv(r) /\ CopiesInv(r)
  BY <1>1, <1>3 DEF SnapshotKept, PlacesInv, CopiesInv, Waiting, Owned
<1>7. ~(Claims(r) /\ Started(r))
  BY <1>1, <1>3 DEF OrderInv, Claims, Started
<1>8. /\ \A d \in r.steady : d[1] \in written /\ \E u \in Slots : nbr[d[1]][u] = d[2]
      /\ r.seed \in r.visited
      /\ \A d \in r.steady : d[1] \in r.visited \ (r.C \cup r.Cm) =>
           d[2] \in r.visited \cup {e} \/ \E u \in r.todo : r.tids[u] = d[2]
      /\ \A v \in r.visited : v \in r.snapshot /\ v \in Matching =>
           v \in Waiting(r) \cup Range(r.rows)
  BY <1>1, <1>3, <1>4 DEF ReachInv, Waiting
<1> QED
  BY <1>2, <1>3, <1>4, <1>5, <1>6, <1>7, <1>8 DEF Discovering

(* The slot taken is one of those left.                                    *)
LEMMA NextSlot ==
  ASSUME ScanAssumption, scan \in Scans, scan.todo # {}
  PROVE  LeastOf(scan.todo) \in scan.todo
<1>1. scan.todo \in SUBSET Nat
  BY DEF Scans, ScanAssumption
<1> QED
  BY <1>1, LeastIn

(* What is already in its place needs no discovery.                        *)
LEMMA VisitAgainKeeps ==
  ASSUME ScanAssumption, IInv, VisitAgain
  PROVE  IInv'
<1> DEFINE s == LeastOf(scan.todo)
<1>1. /\ scan.todo # {} /\ scan.tids[s] \in scan.visited /\ scan' = Visited(scan, s)
      /\ UNCHANGED <<mode, cache, heapVars, pageVars>>
  BY DEF VisitAgain
<1>2. s \in scan.todo
  BY <1>1, ScanParts, NextSlot
<1> HIDE DEF s
<1>3. PICK r : r = Visited(scan, s)
  OBVIOUS
<1>4. Discovering(r, scan.tids[s]) /\ scan.tids[s] \in r.visited
  BY <1>1, <1>2, <1>3, VisitedDiscovering
<1>5. OrderInv(r)
  <2>1. ~Started(r) => Range(r.rows) = {} /\ r.fetch = None
    BY DEF Started, Range
  <2> QED
    BY <1>4, <2>1 DEF Discovering, OrderInv
<1>6. ReachInv(r)
  BY <1>4 DEF Discovering, ReachInv
<1>7. ScanInv(r)
  BY <1>4, <1>5, <1>6 DEF Discovering, ScanInv
<1> QED
  BY <1>1, <1>3, <1>7, ScanStep

(* The flag of the element's page.                                         *)
LEMMA PageSays ==
  ASSUME NEW e, NEW r, NEW flag, flag = (e \in deleted)
  PROVE  flag \in BOOLEAN /\ Says(r, e, FALSE, flag)
<1>1. flag \in BOOLEAN
  BY SMT
<1>2. (flag => e \in deleted) /\ (e \in deleted => flag)
  BY Zenon
<1> QED
  BY <1>1, <1>2 DEF Says

(* A page, a cached code, a co-located entry: each says of the element     *)
(* what a scan of its kind may be told.                                    *)
LEMMA VisitKeeps ==
  ASSUME ScanAssumption, IInv, VisitPage \/ VisitCached \/ VisitInline
  PROVE  IInv'
<1> DEFINE s == LeastOf(scan.todo)
           e == scan.tids[s]
<1>1. /\ scan.todo # {} /\ e \notin scan.visited
      /\ UNCHANGED <<mode, cache, heapVars, pageVars>>
  BY DEF VisitPage, VisitCached, VisitInline
<1>2. /\ HeapInv /\ PageInv /\ CacheInv /\ scan \in Scans
      /\ PlacesInv(scan) /\ CopiesInv(scan)
  BY ScanParts
<1>3. s \in scan.todo
  BY <1>1, <1>2, NextSlot
<1>4. PICK r : r = Visited(scan, s)
  OBVIOUS
<1>5. e \in written /\ Discovering(r, e) /\ r.visited = scan.visited /\ r.approx = scan.approx
  <2> HIDE DEF s
  <2> QED
    BY <1>3, <1>4, VisitedDiscovering
<1>6. scan.pc = "next"
  BY <1>2, <1>3 DEF Scans, PlacesInv
<1>7. PICK coded \in BOOLEAN, dead \in BOOLEAN :
        scan' = Discover(e, r, coded, dead) /\ Says(r, e, coded, dead)
  <2>1. CASE VisitPage
    <3>1. scan' = Discover(e, r, FALSE, e \in deleted)
      BY <1>4, <2>1 DEF VisitPage
    <3>2. PICK flag : flag = (e \in deleted)
      OBVIOUS
    <3>3. scan' = Discover(e, r, FALSE, flag)
      BY <3>1, <3>2, Zenon
    <3>4. flag \in BOOLEAN /\ Says(r, e, FALSE, flag)
      BY <3>2, PageSays
    <3> QED
      BY <3>3, <3>4
  <2>2. CASE VisitCached
    <3>1. scan' = Discover(e, r, TRUE, e \in cache.dead) /\ scan.attached
      BY <1>4, <2>2 DEF VisitCached
    <3>2. r.approx
      BY <1>2, <1>5, <3>1 DEF CopiesInv
    <3>3. CASE e \in cache.dead
      <4>1. (e \in cache.dead) = TRUE
        BY <3>3, SMT
      <4>2. scan' = Discover(e, r, TRUE, TRUE)
        BY <3>1, <4>1, Zenon
      <4>3. e \in deleted
        BY <1>2, <3>3 DEF CacheInv
      <4> QED
        BY <3>2, <4>2, <4>3 DEF Says
    <3>4. CASE e \notin cache.dead
      <4>1. (e \in cache.dead) = FALSE
        BY <3>4, SMT
      <4>2. scan' = Discover(e, r, TRUE, FALSE)
        BY <3>1, <4>1, Zenon
      <4> QED
        BY <3>2, <4>2 DEF Says
    <3> QED
      BY <3>3, <3>4
  <2>3. CASE VisitInline
    <3> DEFINE copy == inl[scan.node][s]
    <3>1. /\ mode.layout = "inline" /\ copy.elem = e
          /\ scan' = Discover(e, r, TRUE, copy.deleted)
      BY <1>4, <2>3 DEF VisitInline
    <3>2. r.approx
      BY <1>2, <1>5, <1>6, <3>1 DEF CopiesInv
    <3>3. copy.deleted \in BOOLEAN /\ (copy.deleted => copy.elem \in deleted)
      <4>1. scan.node \in Elements /\ s \in Slots
        BY <1>2, <1>3 DEF Scans, PlacesInv
      <4>2. /\ inl \in [Elements -> [Slots -> Copies]]
            /\ \A x \in Elements : \A u \in Slots :
                 inl[x][u].deleted => inl[x][u].elem \in deleted
        BY <1>2 DEF PageInv
      <4> HIDE DEF s
      <4>3. copy \in Copies
        BY <4>2, <4>1
      <4>5. copy.deleted => copy.elem \in deleted
        BY <4>2, <4>1, Zenon
      <4>4. copy.deleted \in BOOLEAN
        BY <4>3 DEF Copies
      <4> QED
        BY <4>4, <4>5
    <3> QED
      BY <3>1, <3>2, <3>3 DEF Says
  <2> QED
    BY <2>1, <2>2, <2>3
<1>8. PICK q : q = scan'
  OBVIOUS
<1>9. ScanInv(q)
  <2> HIDE DEF s, e
  <2>1. e \in written \ r.visited
    BY <1>1, <1>5
  <2>2. q = Discover(e, r, coded, dead)
    BY <1>7, <1>8
  <2> QED
    BY <1>2, <1>5, <1>7, <2>1, <2>2, DiscoverKeeps
<1> QED
  BY <1>1, <1>8, <1>9, ScanStep

(* The seed is the first element discovered.                               *)
LEMMA SeedKeeps ==
  ASSUME ScanAssumption, IInv, NEW e \in Elements, Seed(e)
  PROVE  IInv'
<1>1. /\ scan.pc = "open" /\ e \in written
      /\ scan' = Discover(e, [scan EXCEPT !.pc = "next", !.seed = e], FALSE, e \in deleted)
      /\ UNCHANGED <<mode, cache, heapVars, pageVars>>
  BY DEF Seed
<1>2. /\ HeapInv /\ scan \in Scans /\ SnapshotKept(scan) /\ PlacesInv(scan)
      /\ CopiesInv(scan) /\ ReachInv(scan)
  BY ScanParts
<1>3. PICK r : r = [scan EXCEPT !.pc = "next", !.seed = e]
  OBVIOUS
<1>4. r \in Scans
  BY <1>2, <1>3 DEF Scans
<1>5. /\ r.pc = "next" /\ r.snapshot = scan.snapshot /\ r.attached = scan.attached
      /\ r.approx = scan.approx /\ r.C = scan.C /\ r.Cm = scan.Cm /\ r.R = scan.R
      /\ r.Rx = scan.Rx /\ r.visited = scan.visited /\ r.coded = scan.coded
      /\ r.n_expansions = scan.n_expansions /\ r.node = scan.node /\ r.tids = scan.tids
      /\ r.todo = scan.todo /\ r.fetch = scan.fetch /\ r.rows = scan.rows
      /\ r.seed = e /\ r.steady = scan.steady
  BY <1>2, <1>3 DEF Scans
<1>6. scan.visited = {} /\ scan.todo = {}
  BY <1>1, <1>2 DEF PlacesInv
<1>7. SnapshotKept(r) /\ PlacesInv(r) /\ CopiesInv(r)
  BY <1>1, <1>2, <1>5, <1>6 DEF SnapshotKept, PlacesInv, CopiesInv, Waiting, Owned
<1>8. ~Started(r)
  <2>1. Range(scan.rows) = {} /\ scan.fetch = None /\ scan.Rx = {}
    BY <1>2, <1>6 DEF PlacesInv
  <2>2. scan.rows = <<>>
    <3>1. scan.rows \in Seq(Elements)
      BY <1>2 DEF Scans
    <3>2. ASSUME scan.rows # <<>> PROVE FALSE
      <4>1. 1 \in DOMAIN scan.rows
        BY <3>1, <3>2
      <4> QED
        <5>1. scan.rows[1] \in Range(scan.rows)
          BY <4>1 DEF Range
        <5> QED
          BY <2>1, <5>1
    <3> QED
      BY <3>2
  <2> QED
    BY <1>5, <2>1, <2>2 DEF Started
<1>9. Discovering(r, e)
  BY <1>2, <1>4, <1>5, <1>6, <1>7, <1>8 DEF Discovering, ReachInv
<1>10. PICK dead \in BOOLEAN : scan' = Discover(e, r, FALSE, dead) /\ Says(r, e, FALSE, dead)
  <2>1. PICK flag : flag = (e \in deleted)
    OBVIOUS
  <2>2. scan' = Discover(e, r, FALSE, flag)
    BY <1>1, <1>3, <2>1, Zenon
  <2>3. flag \in BOOLEAN /\ Says(r, e, FALSE, flag)
    BY <2>1, PageSays
  <2> QED
    BY <2>2, <2>3
<1>11. PICK q : q = scan'
  OBVIOUS
<1>12. ScanInv(q)
  <2>1. e \in written \ r.visited
    BY <1>1, <1>5, <1>6
  <2> QED
    BY <1>2, <1>9, <1>10, <1>11, <2>1, DiscoverKeeps
<1> QED
  BY <1>1, <1>11, <1>12, ScanStep

(* An expansion leaves the slots of the popped candidate to be visited; a  *)
(* scan that claims an order expands only before it has taken a result.    *)
LEMMA ReadNeighborsKeeps ==
  ASSUME ScanAssumption, IInv, ReadNeighbors
  PROVE  IInv'
<1>1. /\ HeapInv /\ PageInv /\ scan \in Scans /\ SnapshotKept(scan) /\ PlacesInv(scan)
      /\ CopiesInv(scan) /\ OrderInv(scan) /\ ReachInv(scan)
  BY ScanParts
<1>2. None \notin Elements
  BY DEF ScanAssumption
<1> DEFINE c == Candidate
           C == scan.C \ {c}
           Cm == scan.Cm \ {c}
           n == scan.n_expansions + 1
           tids == nbr[c]
           todo == {s \in Slots : nbr[c][s] # None}
<1>3. /\ Between /\ Gate /\ UNCHANGED <<mode, cache, heapVars, pageVars>>
      /\ scan' = [scan EXCEPT !.C = C, !.Cm = Cm, !.n_expansions = n,
                              !.node = c, !.tids = tids, !.todo = todo]
  BY DEF ReadNeighbors
<1>4. c \in scan.C \cup scan.Cm
  <2>1. scan.C \cup scan.Cm # {} /\ scan.C \cup scan.Cm \in SUBSET Elements
        /\ scan.Cm \in SUBSET Elements
    BY <1>1, <1>3 DEF Gate, Scans
  <2> QED
    BY <1>1, <2>1, Heads DEF Candidate
<1>5. c \in Elements /\ c \in written
  BY <1>1, <1>4 DEF Scans, PlacesInv
<1>6. nbr[c] \in [Slots -> written \cup {None}] /\ written \subseteq Elements
  BY <1>1, <1>5 DEF PageInv, HeapInv
<1>7. /\ C \in SUBSET Elements /\ Cm \in SUBSET Elements /\ n \in Nat
      /\ tids \in [Slots -> Elements \cup {None}] /\ todo \in SUBSET Slots
      /\ C \cup Cm = (scan.C \cup scan.Cm) \ {c}
      /\ \A s \in Slots : s \in todo <=> nbr[c][s] # None
      /\ \A s \in Slots : tids[s] = nbr[c][s]
  BY <1>1, <1>6 DEF Scans
<1>8. PICK r : r = scan'
  OBVIOUS
<1> HIDE DEF C, Cm, n, tids, todo, c
<1>9. r \in Scans
  <2>1. scan \in Scans
    BY <1>1
  <2>2. [scan EXCEPT !.C = C, !.Cm = Cm, !.n_expansions = n,
                     !.node = c, !.tids = tids, !.todo = todo] \in Scans
    BY <1>5, <1>7, <2>1, PoppedTyped
  <2> QED
    BY <1>3, <1>8, <2>2
<1>10. /\ r.pc = scan.pc /\ r.snapshot = scan.snapshot /\ r.attached = scan.attached
       /\ r.approx = scan.approx /\ r.C = C /\ r.Cm = Cm /\ r.R = scan.R
       /\ r.Rx = scan.Rx /\ r.visited = scan.visited /\ r.coded = scan.coded
       /\ r.node = c /\ r.tids = tids /\ r.todo = todo
       /\ r.fetch = scan.fetch /\ r.rows = scan.rows
       /\ r.seed = scan.seed /\ r.steady = scan.steady
  BY <1>1, <1>3, <1>8 DEF Scans
<1>11. scan.pc = "next" /\ scan.todo = {}
  BY <1>3 DEF Between
<1>12. SnapshotKept(r) /\ CopiesInv(r)
  BY <1>1, <1>10 DEF SnapshotKept, CopiesInv, Owned
<1>13. PlacesInv(r)
  <2>1. ASSUME NEW s \in r.todo PROVE r.tids[s] \in written
    <3>1. s \in Slots /\ s \in todo /\ r.tids[s] = nbr[c][s]
      BY <1>7, <1>10
    <3>2. nbr[c][s] # None /\ nbr[c][s] \in written \cup {None}
      BY <1>6, <1>7, <3>1
    <3> QED
      BY <3>1, <3>2
  <2>2. r.C \cup r.Cm \subseteq scan.C \cup scan.Cm
    BY <1>7, <1>10
  <2> QED
    BY <1>1, <1>5, <1>10, <1>11, <2>1, <2>2 DEF PlacesInv, Waiting
<1>14. OrderInv(r)
  <2>1. ~(Claims(scan) /\ Started(scan))
    BY <1>1, <1>3 DEF OrderInv, Gate
  <2>2. ~(Claims(r) /\ Started(r))
    BY <1>10, <2>1 DEF Claims, Started
  <2>3. ~Started(r) => Range(r.rows) = {} /\ r.fetch = None
    BY DEF Started, Range
  <2> QED
    BY <2>2, <2>3 DEF OrderInv
<1>15. ReachInv(r)
  <2>1. ASSUME NEW d \in r.steady, d[1] \in r.visited \ (r.C \cup r.Cm)
        PROVE  d[2] \in r.visited \/ \E s \in r.todo : r.tids[s] = d[2]
    <3>1. d \in Elements \X Elements /\ \E s \in Slots : nbr[d[1]][s] = d[2]
      BY <1>1, <1>10 DEF Scans, ReachInv
    <3>2. CASE d[1] = c
      <4>1. PICK s \in Slots : nbr[c][s] = d[2] /\ d[2] \in Elements
        BY <3>1, <3>2
      <4>2. s \in todo /\ tids[s] = d[2]
        BY <1>2, <1>7, <4>1
      <4> QED
        BY <1>10, <4>2
    <3>3. CASE d[1] # c
      <4>1. d[1] \in scan.visited \ (scan.C \cup scan.Cm)
        BY <1>7, <1>10, <2>1, <3>3
      <4> QED
        BY <1>1, <1>10, <1>11, <4>1 DEF ReachInv
    <3> QED
      BY <3>2, <3>3
  <2> QED
    BY <1>1, <1>10, <1>11, <2>1 DEF ReachInv, Waiting
<1>16. ScanInv(r)
  BY <1>9, <1>12, <1>13, <1>14, <1>15 DEF ScanInv
<1> QED
  BY <1>3, <1>8, <1>16, ScanStep

(* Results are taken between expansions, when none is to come; a scan that *)
(* claims an order has then run out of candidates or of expansions.        *)
LEMMA TakesResults ==
  ASSUME IInv, Between, ~Gate
  PROVE  /\ scan.pc = "next" /\ scan.todo = {} /\ scan.fetch = None
         /\ Waiting(scan) = scan.R \cup scan.Rx
         /\ Claims(scan) => scan.C \cup scan.Cm = {} \/ ~(scan.n_expansions < mode.ef)
  BY DEF Between, Gate, Claims, Waiting

(* Reranking moves a result to its exact place, unless its page says that  *)
(* it is gone.                                                             *)
LEMMA RerankOneKeeps ==
  ASSUME ScanAssumption, IInv, RerankOne
  PROVE  IInv'
<1>1. /\ HeapInv /\ scan \in Scans /\ SnapshotKept(scan) /\ PlacesInv(scan)
      /\ CopiesInv(scan) /\ OrderInv(scan) /\ ReachInv(scan)
  BY ScanParts
<1> DEFINE h == RHead
           R == scan.R \ {h}
           Rx == IF StillThere(h) THEN scan.Rx \cup {h} ELSE scan.Rx
<1>2. /\ Between /\ ~Gate /\ MustRerank /\ UNCHANGED <<mode, cache, heapVars, pageVars>>
      /\ scan' = [scan EXCEPT !.R = R, !.Rx = Rx]
  BY DEF RerankOne
<1>3. scan.approx /\ h \in scan.R
  BY <1>1, <1>2, Heads DEF MustRerank
<1>4. /\ scan.pc = "next" /\ scan.todo = {} /\ scan.fetch = None
      /\ Waiting(scan) = scan.R \cup scan.Rx
      /\ Claims(scan) => scan.C \cup scan.Cm = {} \/ ~(scan.n_expansions < mode.ef)
  BY <1>2, TakesResults
<1>5. h \in Elements /\ h \in written /\ h \in scan.visited /\ h \in Matching
      /\ h \notin scan.Rx /\ h \notin Range(scan.rows)
  BY <1>1, <1>3, <1>4 DEF Scans, PlacesInv
<1>6. /\ R \in SUBSET Elements /\ Rx \in SUBSET Elements
      /\ R = scan.R \ {h} /\ Rx = IF h \notin deleted THEN scan.Rx \cup {h} ELSE scan.Rx
  BY <1>1, <1>5 DEF Scans, StillThere
<1>7. PICK r : r = scan'
  OBVIOUS
<1> HIDE DEF R, Rx, h
<1>8. r \in Scans
  <2> DEFINE q == [scan EXCEPT !.R = R]
  <2>0. scan \in Scans /\ R \in SUBSET Elements
    BY <1>1, <1>6
  <2>1. q \in Scans
    BY ONLY <2>0 DEF Scans
  <2>2. r = [q EXCEPT !.Rx = Rx]
    BY <1>2, <1>7
  <2> HIDE DEF q
  <2> QED
    BY ONLY <1>6, <2>1, <2>2 DEF Scans
<1>9. /\ r.pc = scan.pc /\ r.snapshot = scan.snapshot /\ r.attached = scan.attached
      /\ r.approx = scan.approx /\ r.C = scan.C /\ r.Cm = scan.Cm /\ r.R = R
      /\ r.Rx = Rx /\ r.visited = scan.visited /\ r.coded = scan.coded
      /\ r.n_expansions = scan.n_expansions /\ r.node = scan.node /\ r.tids = scan.tids
      /\ r.todo = scan.todo /\ r.fetch = scan.fetch /\ r.rows = scan.rows
      /\ r.seed = scan.seed /\ r.steady = scan.steady
  BY <1>1, <1>2, <1>7 DEF Scans
<1>10. Waiting(r) = R \cup Rx /\ R \cup Rx \subseteq scan.R \cup scan.Rx
  BY <1>3, <1>4, <1>6, <1>9 DEF Waiting
<1>11. SnapshotKept(r)
  BY <1>1, <1>9 DEF SnapshotKept
<1>12. PlacesInv(r)
  <2>1. r.R \cap r.Rx = {} /\ r.R \cup r.Rx \subseteq r.visited /\ r.fetch \notin r.R \cup r.Rx
    BY <1>1, <1>4, <1>5, <1>6, <1>9, <1>10 DEF PlacesInv
  <2>2. Range(r.rows) \cap Waiting(r) = {} /\ Waiting(r) \subseteq Matching
    BY <1>1, <1>4, <1>9, <1>10 DEF PlacesInv
  <2> QED
    BY <1>1, <1>4, <1>9, <2>1, <2>2 DEF PlacesInv
<1>13. CopiesInv(r)
  <2>1. h \notin deleted => Owned(scan, h)
    BY <1>1, <1>5 DEF HeapInv, Owned
  <2>2. \A f \in r.Rx \cup ({r.fetch} \ {None}) : Owned(r, f)
    BY <1>1, <1>4, <1>6, <1>9, <2>1 DEF CopiesInv, Owned
  <2> QED
    BY <1>1, <1>3, <1>9, <2>2 DEF CopiesInv
<1>14. OrderInv(r)
  <2>1. Claims(r) <=> Claims(scan)
    BY <1>9 DEF Claims
  <2>2. ASSUME Claims(r)
        PROVE  \A y \in Range(r.rows) : \A z \in Waiting(r) : Exact[y] <= Exact[z]
    BY <1>1, <1>4, <1>9, <1>10, <2>1, <2>2 DEF OrderInv
  <2> QED
    BY <1>4, <1>9, <2>1, <2>2 DEF OrderInv
<1>15. ReachInv(r)
  <2>1. \A v \in scan.visited \cap scan.snapshot \cap Matching :
          v \in Waiting(r) \cup Range(r.rows)
    <3>1. ASSUME NEW v \in scan.visited, v \in scan.snapshot, v \in Matching
          PROVE  v \in Waiting(r) \cup Range(r.rows)
      <4>1. v \in scan.R \cup scan.Rx \cup Range(scan.rows)
        BY <1>1, <1>4, <3>1 DEF ReachInv
      <4>2. v \notin deleted
        BY <1>1, <3>1 DEF SnapshotKept
      <4> QED
        BY <1>6, <1>9, <1>10, <4>1, <4>2
    <3> QED
      BY <3>1
  <2> QED
    BY <1>1, <1>9, <2>1 DEF ReachInv
<1>16. ScanInv(r)
  BY <1>8, <1>11, <1>12, <1>13, <1>14, <1>15 DEF ScanInv
<1> QED
  BY <1>2, <1>7, <1>16, ScanStep

(* What is emitted is no farther than what is left: the exact head comes   *)
(* before every bound, and a bound is one of the distance.                 *)
LEMMA ResultNearest ==
  ASSUME ScanAssumption, IInv, Between, ~Gate, ~MustRerank,
         (IF scan.approx THEN scan.Rx ELSE scan.R) # {}
  PROVE  /\ Result \in (IF scan.approx THEN scan.Rx ELSE scan.R)
         /\ Claims(scan) => \A z \in scan.R \cup scan.Rx : Exact[Result] <= Exact[z]
<1>1. scan \in Scans /\ CopiesInv(scan)
  BY ScanParts
<1>2. /\ scan.R \subseteq Elements /\ scan.Rx \subseteq Elements
      /\ \A z \in Elements : Exact[z] \in Int /\ Bound(z) \in Int
  BY <1>1, Measures DEF Scans
<1>3. Result \in (IF scan.approx THEN scan.Rx ELSE scan.R)
  BY <1>1, Heads DEF Result
<1>4. ASSUME Claims(scan), NEW z \in scan.R \cup scan.Rx PROVE Exact[Result] <= Exact[z]
  <2>1. CASE scan.approx /\ z \in scan.Rx
    BY <1>1, <2>1, Heads DEF Result
  <2>2. CASE scan.approx /\ z \in scan.R
    <3>1. mode.bound /\ scan.Rx # {} /\ scan.R # {}
      BY <1>4, <2>2 DEF Claims
    <3>2. Result = RxHead /\ RxHead \in Elements /\ RHead \in Elements
          /\ Bound(RHead) <= Bound(z)
      BY <1>1, <1>2, <2>2, <3>1, Heads DEF Result
    <3>3. ~(Bound(RHead) <= Exact[RxHead])
      BY <2>2, <3>1 DEF MustRerank
    <3>4. Bound(z) <= Exact[z]
      BY <1>2, <2>2, <3>1, Measures
    <3> QED
      BY <1>2, <2>2, <3>2, <3>3, <3>4
  <2>3. CASE ~scan.approx
    <3>1. scan.coded = {} /\ scan.Rx = {}
      BY <1>1, <2>3 DEF CopiesInv
    <3>2. z \in scan.R /\ Result = RHead /\ RHead \in scan.R /\ Bound(RHead) <= Bound(z)
      BY <1>1, <2>3, <3>1, Heads DEF Result
    <3>3. Bound(z) = Exact[z] /\ Bound(RHead) = Exact[RHead]
      BY <1>2, <3>1, <3>2, Measures
    <3> QED
      BY <3>2, <3>3
  <2> QED
    BY <2>1, <2>2, <2>3
<1> QED
  BY <1>3, <1>4

(* Emission takes the nearest result there is.                             *)
LEMMA EmitKeeps ==
  ASSUME ScanAssumption, IInv, Emit
  PROVE  IInv'
<1>1. /\ HeapInv /\ scan \in Scans /\ SnapshotKept(scan) /\ PlacesInv(scan)
      /\ CopiesInv(scan) /\ OrderInv(scan) /\ ReachInv(scan)
  BY ScanParts
<1> DEFINE x == Result
           R == IF scan.approx THEN scan.R ELSE scan.R \ {x}
           Rx == scan.Rx \ {x}
<1>2. /\ Between /\ ~Gate /\ ~MustRerank /\ UNCHANGED <<mode, cache, heapVars, pageVars>>
      /\ (IF scan.approx THEN scan.Rx ELSE scan.R) # {}
      /\ scan' = [scan EXCEPT !.R = R, !.Rx = Rx, !.fetch = x]
  BY DEF Emit
<1>3. /\ x \in (IF scan.approx THEN scan.Rx ELSE scan.R)
      /\ Claims(scan) => \A z \in scan.R \cup scan.Rx : Exact[x] <= Exact[z]
  BY <1>2, ResultNearest
<1>4. /\ scan.pc = "next" /\ scan.todo = {} /\ scan.fetch = None
      /\ Waiting(scan) = scan.R \cup scan.Rx
      /\ Claims(scan) => scan.C \cup scan.Cm = {} \/ ~(scan.n_expansions < mode.ef)
  BY <1>2, TakesResults
<1>5. x \in Elements /\ x # None /\ x \in scan.visited
  BY <1>1, <1>3 DEF Scans, PlacesInv, ScanAssumption
<1>6. /\ R \in SUBSET Elements /\ Rx \in SUBSET Elements /\ x \in Elements \cup {None}
      /\ R \subseteq scan.R /\ Rx \subseteq scan.Rx /\ x \notin R \cup Rx
      /\ R \cup Rx \cup {x} = scan.R \cup scan.Rx
  BY <1>1, <1>3, <1>5 DEF Scans, PlacesInv, CopiesInv
<1>7. PICK r : r = scan'
  OBVIOUS
<1> HIDE DEF R, Rx, x
<1>8. r \in Scans
  <2>1. scan \in Scans
    BY <1>1
  <2>2. [scan EXCEPT !.R = R, !.Rx = Rx, !.fetch = x] \in Scans
    BY <1>6, <2>1, EmittedTyped
  <2> QED
    BY <1>2, <1>7, <2>2
<1>9. /\ r.pc = scan.pc /\ r.snapshot = scan.snapshot /\ r.attached = scan.attached
      /\ r.approx = scan.approx /\ r.C = scan.C /\ r.Cm = scan.Cm /\ r.R = R
      /\ r.Rx = Rx /\ r.visited = scan.visited /\ r.coded = scan.coded
      /\ r.n_expansions = scan.n_expansions /\ r.node = scan.node /\ r.tids = scan.tids
      /\ r.todo = scan.todo /\ r.fetch = x /\ r.rows = scan.rows
      /\ r.seed = scan.seed /\ r.steady = scan.steady
  BY <1>1, <1>2, <1>7 DEF Scans
<1>10. Waiting(r) = Waiting(scan)
  BY <1>4, <1>5, <1>6, <1>9 DEF Waiting
<1>11. SnapshotKept(r)
  BY <1>1, <1>9 DEF SnapshotKept
<1>12. PlacesInv(r)
  <2>1. r.R \cap r.Rx = {} /\ r.R \cup r.Rx \subseteq r.visited /\ r.fetch \notin r.R \cup r.Rx
        /\ r.fetch \in r.visited
    BY <1>1, <1>5, <1>6, <1>9 DEF PlacesInv
  <2> QED
    BY <1>1, <1>4, <1>9, <1>10, <2>1 DEF PlacesInv
<1>13. CopiesInv(r)
  <2>1. \A f \in r.R : f \in scan.R
    BY <1>6, <1>9
  <2>2. ~r.approx => r.coded = {} /\ r.Rx = {} /\ \A f \in r.R : Owned(r, f)
    BY <1>1, <1>6, <1>9, <2>1 DEF CopiesInv, Owned
  <2>3. \A f \in r.Rx \cup {x} : Owned(r, f)
    BY <1>1, <1>3, <1>6, <1>9 DEF CopiesInv, Owned
  <2> QED
    BY <1>1, <1>9, <2>2, <2>3 DEF CopiesInv
<1>14. OrderInv(r)
  <2>1. Claims(r) <=> Claims(scan)
    BY <1>9 DEF Claims
  <2>2. ASSUME Claims(r)
        PROVE  \A z \in r.R \cup r.Rx : Exact[r.fetch] <= Exact[z]
    BY <1>3, <1>6, <1>9, <2>1, <2>2
  <2> QED
    BY <1>1, <1>4, <1>9, <1>10, <2>1, <2>2 DEF OrderInv
<1>15. ReachInv(r)
  BY <1>1, <1>9, <1>10 DEF ReachInv
<1>16. ScanInv(r)
  BY <1>8, <1>11, <1>12, <1>13, <1>14, <1>15 DEF ScanInv
<1> QED
  BY <1>2, <1>7, <1>16, ScanStep

(* One row more. *)
LEMMA Appended ==
  ASSUME NEW rows \in Seq(Elements), NEW x \in Elements
  PROVE  Append(rows, x) \in Seq(Elements) /\ Range(Append(rows, x)) = Range(rows) \cup {x}
<1> DEFINE q == Append(rows, x)
           n == Len(rows)
<1>1. /\ q \in Seq(Elements) /\ n \in Nat /\ DOMAIN rows = 1..n /\ DOMAIN q = 1..(n + 1)
      /\ \A i \in 1..n : q[i] = rows[i]
      /\ q[n + 1] = x
  OBVIOUS
<1> HIDE DEF q, n
<1>2. \A i \in 1..(n + 1) : i \in 1..n \/ i = n + 1
  BY <1>1
<1>3. \A i \in 1..n : i \in 1..(n + 1)
  BY <1>1
<1>4. n + 1 \in 1..(n + 1)
  BY <1>1
<1>5. ASSUME NEW y \in Range(q) PROVE y \in Range(rows) \cup {x}
  <2>1. PICK i \in 1..(n + 1) : y = q[i]
    BY <1>1 DEF Range
  <2>2. CASE i \in 1..n
    BY <1>1, <2>1, <2>2 DEF Range
  <2>3. CASE i = n + 1
    BY <1>1, <2>1, <2>3
  <2> QED
    BY <1>2, <2>1, <2>2, <2>3
<1>6. ASSUME NEW y \in Range(rows) PROVE y \in Range(q)
  <2>1. PICK i \in 1..n : y = rows[i]
    BY <1>1 DEF Range
  <2>2. i \in DOMAIN q /\ y = q[i]
    BY <1>1, <1>3, <2>1
  <2> QED
    BY <2>2 DEF Range
<1>7. x \in Range(q)
  BY <1>1, <1>4 DEF Range
<1>8. Range(q) = Range(rows) \cup {x}
  BY <1>5, <1>6, <1>7
<1> QED
  BY <1>1, <1>8 DEF q

(* What the executor finds at the heap TID of an emitted element: its row, *)
(* or none that the snapshot sees.                                         *)
LEMMA Fetched ==
  ASSUME IInv, scan.fetch # None
  PROVE  /\ scan.fetch \in Elements /\ scan.fetch \in Matching
         /\ heap[tid[scan.fetch]] \in scan.snapshot <=> scan.fetch \in scan.snapshot
         /\ heap[tid[scan.fetch]] \in scan.snapshot => heap[tid[scan.fetch]] = scan.fetch
<1>1. /\ scan \in Scans /\ SnapshotKept(scan) /\ PlacesInv(scan) /\ CopiesInv(scan)
  BY ScanParts
<1>2. scan.fetch \in Elements /\ scan.fetch \in Matching
  BY <1>1 DEF Scans, PlacesInv, Waiting
<1>3. Owned(scan, scan.fetch)
  BY <1>1 DEF CopiesInv
<1> QED
  BY <1>1, <1>2, <1>3 DEF Owned, SnapshotKept

(* A fetch hands the row of the element emitted to the executor, or none.  *)
LEMMA FetchKeeps ==
  ASSUME ScanAssumption, IInv, Fetch
  PROVE  IInv'
<1>1. /\ HeapInv /\ scan \in Scans /\ SnapshotKept(scan) /\ PlacesInv(scan)
      /\ CopiesInv(scan) /\ OrderInv(scan) /\ ReachInv(scan)
  BY ScanParts
<1> DEFINE f == scan.fetch
           x == heap[tid[f]]
           rows == IF x \in scan.snapshot THEN Append(scan.rows, x) ELSE scan.rows
<1>2. /\ f # None /\ UNCHANGED <<mode, cache, heapVars, pageVars>>
      /\ scan' = [scan EXCEPT !.fetch = None, !.rows = rows]
  BY DEF Fetch
<1>3. /\ f \in Elements /\ f \in Matching /\ (x \in scan.snapshot <=> f \in scan.snapshot)
      /\ (x \in scan.snapshot => x = f)
  BY <1>2, Fetched
<1>4. scan.rows \in Seq(Elements)
  BY <1>1 DEF Scans
<1>5. /\ rows \in Seq(Elements)
      /\ Range(rows) = IF f \in scan.snapshot THEN Range(scan.rows) \cup {f}
                       ELSE Range(scan.rows)
  <2>1. CASE x \in scan.snapshot
    <3>1. rows = Append(scan.rows, f) /\ f \in scan.snapshot
      BY <1>3, <2>1
    <3> QED
      BY <1>3, <1>4, <3>1, Appended
  <2>2. CASE x \notin scan.snapshot
    BY <1>3, <1>4, <2>2
  <2> QED
    BY <2>1, <2>2
<1>6. PICK r : r = scan'
  OBVIOUS
<1> HIDE DEF rows, x
<1>7. r \in Scans
  BY <1>1, <1>2, <1>5, <1>6 DEF Scans
<1>8. /\ r.pc = scan.pc /\ r.snapshot = scan.snapshot /\ r.attached = scan.attached
      /\ r.approx = scan.approx /\ r.C = scan.C /\ r.Cm = scan.Cm /\ r.R = scan.R
      /\ r.Rx = scan.Rx /\ r.visited = scan.visited /\ r.coded = scan.coded
      /\ r.n_expansions = scan.n_expansions /\ r.node = scan.node /\ r.tids = scan.tids
      /\ r.todo = scan.todo /\ r.fetch = None /\ r.rows = rows
      /\ r.seed = scan.seed /\ r.steady = scan.steady
  BY <1>1, <1>2, <1>6 DEF Scans
<1>9. f \in scan.visited /\ f \notin scan.R \cup scan.Rx
  BY <1>1, <1>2 DEF PlacesInv
<1>10. /\ Waiting(r) = scan.R \cup scan.Rx /\ Waiting(scan) = scan.R \cup scan.Rx \cup {f}
       /\ Range(r.rows) \subseteq Range(scan.rows) \cup {f}
  BY <1>2, <1>5, <1>8 DEF Waiting
<1>11. SnapshotKept(r)
  BY <1>1, <1>8 DEF SnapshotKept
<1>12. PlacesInv(r)
  <2>1. None \notin r.R \cup r.Rx
    BY <1>1, <1>8 DEF PlacesInv, Scans, HeapInv
  <2>2. Range(r.rows) \subseteq r.visited /\ Range(r.rows) \cap Waiting(r) = {}
    BY <1>1, <1>8, <1>9, <1>10 DEF PlacesInv
  <2>3. r.pc = "exhausted" => FALSE
    BY <1>1, <1>8, <1>10 DEF PlacesInv
  <2> QED
    BY <1>1, <1>8, <1>10, <2>1, <2>2, <2>3 DEF PlacesInv
<1>13. CopiesInv(r)
  BY <1>1, <1>8 DEF CopiesInv, Owned
<1>14. OrderInv(r)
  <2>1. Claims(r) <=> Claims(scan)
    BY <1>8 DEF Claims
  <2>2. Started(scan)
    BY <1>2 DEF Started
  <2>3. ASSUME Claims(r), NEW y \in Range(r.rows), NEW z \in Waiting(r)
        PROVE  Exact[y] <= Exact[z]
    BY <1>1, <1>2, <1>10, <2>1, <2>3 DEF OrderInv
  <2> QED
    BY <1>1, <1>8, <2>1, <2>2, <2>3 DEF OrderInv
<1>15. ReachInv(r)
  <2>1. ASSUME NEW v \in scan.visited, v \in scan.snapshot, v \in Matching
        PROVE  v \in Waiting(r) \cup Range(r.rows)
    BY <1>1, <1>5, <1>8, <1>10, <2>1 DEF ReachInv
  <2> QED
    BY <1>1, <1>8, <2>1 DEF ReachInv
<1>16. ScanInv(r)
  BY <1>7, <1>11, <1>12, <1>13, <1>14, <1>15 DEF ScanInv
<1> QED
  BY <1>2, <1>6, <1>16, ScanStep

(* A scan is exhausted when nothing waits.                                 *)
LEMMA ExhaustKeeps ==
  ASSUME ScanAssumption, IInv, Exhaust
  PROVE  IInv'
<1>1. /\ HeapInv /\ scan \in Scans /\ SnapshotKept(scan) /\ PlacesInv(scan)
      /\ CopiesInv(scan) /\ OrderInv(scan) /\ ReachInv(scan)
  BY ScanParts
<1>2. /\ Between /\ ~Gate /\ ~MustRerank /\ UNCHANGED <<mode, cache, heapVars, pageVars>>
      /\ (IF scan.approx THEN scan.Rx ELSE scan.R) = {}
      /\ scan' = [scan EXCEPT !.pc = "exhausted"]
  BY DEF Exhaust
<1>3. scan.pc = "next" /\ scan.todo = {} /\ scan.fetch = None
      /\ Waiting(scan) = scan.R \cup scan.Rx
  BY <1>2, TakesResults
<1>4. scan.R = {} /\ scan.Rx = {}
  BY <1>1, <1>2 DEF MustRerank, CopiesInv
<1>5. PICK r : r = scan'
  OBVIOUS
<1>6. r \in Scans
  BY <1>1, <1>2, <1>5 DEF Scans
<1>7. /\ r.pc = "exhausted" /\ r.snapshot = scan.snapshot /\ r.attached = scan.attached
      /\ r.approx = scan.approx /\ r.C = scan.C /\ r.Cm = scan.Cm /\ r.R = scan.R
      /\ r.Rx = scan.Rx /\ r.visited = scan.visited /\ r.coded = scan.coded
      /\ r.n_expansions = scan.n_expansions /\ r.node = scan.node /\ r.tids = scan.tids
      /\ r.todo = scan.todo /\ r.fetch = scan.fetch /\ r.rows = scan.rows
      /\ r.seed = scan.seed /\ r.steady = scan.steady
  BY <1>1, <1>2, <1>5 DEF Scans
<1>8. Waiting(r) = {} /\ Waiting(scan) = {}
  BY <1>3, <1>4, <1>7 DEF Waiting
<1>9. SnapshotKept(r) /\ PlacesInv(r)
  BY <1>1, <1>3, <1>7, <1>8 DEF SnapshotKept, PlacesInv
<1>10. CopiesInv(r)
  BY <1>1, <1>3, <1>7 DEF CopiesInv, Owned
<1>11. OrderInv(r)
  BY <1>1, <1>3, <1>7, <1>8 DEF OrderInv, Claims, Started
<1>12. ReachInv(r)
  BY <1>1, <1>3, <1>7, <1>8 DEF ReachInv
<1>13. ScanInv(r)
  BY <1>6, <1>9, <1>10, <1>11, <1>12 DEF ScanInv
<1> QED
  BY <1>2, <1>5, <1>13, ScanStep

-----------------------------------------------------------------------------
(* The theorems *)

(* Every step keeps the invariant.                                         *)
LEMMA Inductive ==
  ASSUME ScanAssumption, IInv, [Next]_vars
  PROVE  IInv'
<1>1. CASE UNCHANGED vars
  <2>1. UNCHANGED <<mode, cache, heapVars, pageVars>> /\ scan' = scan
    BY <1>1 DEF vars, heapVars, pageVars
  <2>2. PICK r : r = scan
    OBVIOUS
  <2>3. ScanInv(r) /\ scan' = r
    BY <2>1, <2>2 DEF IInv
  <2> QED
    BY <2>1, <2>3, ScanStep
<1>2. CASE Rescan \/ EndScan
  BY <1>2, RestartKeeps
<1>3. CASE ReadNeighbors
  BY <1>3, ReadNeighborsKeeps
<1>4. CASE VisitAgain
  BY <1>4, VisitAgainKeeps
<1>5. CASE VisitPage \/ VisitCached \/ VisitInline
  BY <1>5, VisitKeeps
<1>6. CASE RerankOne
  BY <1>6, RerankOneKeeps
<1>7. CASE Emit
  BY <1>7, EmitKeeps
<1>8. CASE Fetch
  BY <1>8, FetchKeeps
<1>9. CASE Exhaust
  BY <1>9, ExhaustKeeps
<1>10. ASSUME NEW e \in Elements,
              \/ Seed(e)
              \/ DeleteRow(e) \/ BulkDelete(e) \/ BulkDeleteFails(e) \/ FreeTid(e)
              \/ InsertRow(e) \/ AppendElement(e) \/ FinishInsert(e) \/ AbortInsert(e)
       PROVE  IInv'
  BY <1>10, SeedKeeps, DeleteRowKeeps, BulkDeleteKeeps, FreeTidKeeps, InsertRowKeeps,
     AppendElementKeeps, EndInsertKeeps
<1>11. ASSUME NEW e \in Elements, NEW s \in Slots, WriteInlineEntry(e, s)
       PROVE  IInv'
  BY <1>11, WriteInlineEntryKeeps
<1>12. ASSUME NEW e \in Elements, NEW n \in Elements, NEW s \in Slots, LinkFrom(e, n, s)
       PROVE  IInv'
  BY <1>12, LinkFromKeeps
<1>13. CASE LoadBegin \/ LoadPage \/ LoadEnd \/ Evict
  BY <1>13, CacheStepKeeps
<1> QED
  BY <1>1, <1>2, <1>3, <1>4, <1>5, <1>6, <1>7, <1>8, <1>9, <1>10, <1>11, <1>12, <1>13
     DEF Next

(* So it always holds.                                                     *)
LEMMA Invariance == Spec => []IInv
<1>1. Init => IInv
  BY ScanAssumption, Initially
<1>2. IInv /\ [Next]_vars => IInv'
  BY ScanAssumption, Inductive
<1> QED
  BY <1>1, <1>2, PTL DEF Spec

(* Every variable stays in its type, whatever is deleted, vacuumed,        *)
(* inserted or cached under a scan; a deleted element is a dead row's, and *)
(* a cached code marked dead is one that is there.                         *)
THEOREM ScanTyped == Spec => []TypeOK
<1>1. IInv => TypeOK
  <2> SUFFICES ASSUME IInv PROVE TypeOK
    OBVIOUS
  <2>1. HeapInv /\ PageInv /\ CacheInv /\ scan \in Scans
    BY ScanParts
  <2>2. nbr \in [Elements -> [Slots -> Elements \cup {None}]]
    BY <2>1 DEF HeapInv, PageInv
  <2>3. cache.state \in {"EMPTY", "LOADING", "READY"}
    BY <2>1 DEF CacheInv, Caches
  <2>4. scan.pc \in {"closed", "open", "next", "exhausted"}
    BY <2>1 DEF Scans
  <2> QED
    BY <2>1, <2>2, <2>3, <2>4 DEF HeapInv, PageInv, CacheInv, TypeOK
<1> QED
  BY <1>1, Invariance, PTL

(* acorn_t2_stream_next: of any graph, a scan that ends with no candidate  *)
(* left has returned every visible row that satisfies the scan keys and    *)
(* that the seed leads to by edges that were there all the time: by pages, *)
(* cached codes or co-located entries, through elements that fail or are   *)
(* deleted alike.                                                          *)
THEOREM ScanComplete == Spec => []Complete
<1>1. IInv => Complete
  <2> SUFFICES ASSUME IInv, scan.pc = "exhausted", scan.C \cup scan.Cm = {}
               PROVE  Reached(scan.seed, scan.steady) \cap Wanted \subseteq Range(scan.rows)
    BY DEF Complete
  <2>1. scan \in Scans /\ PlacesInv(scan) /\ ReachInv(scan)
    BY ScanParts
  <2>2. scan.todo = {} /\ Waiting(scan) = {} /\ scan.seed \in scan.visited
        /\ scan.visited \in SUBSET Elements
    BY <2>1 DEF PlacesInv, ReachInv, Scans
  <2>3. \A d \in scan.steady : d[1] \in scan.visited => d[2] \in scan.visited
    BY <2>1, <2>2 DEF ReachInv
  <2>4. Onward(scan.visited, scan.steady) \subseteq scan.visited
    <3>1. ASSUME NEW x \in Elements, NEW e \in scan.visited, <<e, x>> \in scan.steady
          PROVE  x \in scan.visited
      BY <2>3, <3>1
    <3> QED
      BY <3>1 DEF Onward
  <2>5. Reached(scan.seed, scan.steady) \subseteq scan.visited
    <3>1. IsFiniteSet(Elements) /\ scan.seed \in Elements
      BY <2>2, ScanAssumption DEF ScanAssumption
    <3> QED
      BY <2>2, <2>4, <3>1, ReachedIn
  <2>6. \A v \in scan.visited : v \in scan.snapshot /\ v \in Matching => v \in Range(scan.rows)
    BY <2>1, <2>2 DEF ReachInv
  <2> QED
    BY <2>5, <2>6 DEF Wanted
<1> QED
  BY <1>1, Invariance, PTL

-----------------------------------------------------------------------------
(* Refinement: what the executor gets is a row stream of RowStream.  A     *)
(* rescan and the end of a scan are Start, the fetch of a row the snapshot *)
(* sees is Return, everything else stutters.                               *)

(* All that the stream shows of a scan. *)
SameStream(r, q) ==
  /\ q.rows = r.rows /\ q.snapshot = r.snapshot /\ q.approx = r.approx
  /\ q.pc = "closed" <=> r.pc = "closed"

(* A step that shows no more of the scan stutters.                         *)
LEMMA StreamStutters ==
  ASSUME SameStream(scan, scan'), mode' = mode
  PROVE  UNCHANGED Stream!streamVars
<1>1. scan'.rows = scan.rows /\ scan'.snapshot = scan.snapshot /\ scan'.approx = scan.approx
      /\ (scan'.pc = "closed" <=> scan.pc = "closed")
  BY DEF SameStream
<1>2. Wanted' = Wanted
  BY <1>1 DEF Wanted
<1>3. Sorted' = Sorted
  BY <1>1, SMT DEF Sorted
<1> QED
  BY <1>1, <1>2, <1>3 DEF Stream!streamVars

(* Discovering an element shows nothing.                                   *)
LEMMA DiscoverSame ==
  ASSUME NEW r \in Scans, NEW e, NEW coded, NEW dead
  PROVE  SameStream(r, Discover(e, r, coded, dead))
  BY DEF SameStream, Discover, Scans

(* The steps of the scan that show nothing.                                *)
LEMMA QuietStep ==
  ASSUME IInv,
         \/ ReadNeighbors \/ VisitAgain \/ VisitPage \/ VisitCached \/ VisitInline
         \/ RerankOne \/ Emit \/ Exhaust \/ \E e \in Elements : Seed(e)
  PROVE  UNCHANGED Stream!streamVars
<1>1. scan \in Scans
  BY ScanParts
<1>2. mode' = mode
  BY DEF ReadNeighbors, VisitAgain, VisitPage, VisitCached, VisitInline, RerankOne, Emit,
     Exhaust, Seed
<1>3. CASE ReadNeighbors \/ RerankOne \/ Emit
  <2>1. SameStream(scan, scan')
    <3>1. CASE ReadNeighbors
      BY <1>1, <3>1 DEF ReadNeighbors, SameStream, Scans
    <3>2. CASE RerankOne
      BY <1>1, <3>2 DEF RerankOne, SameStream, Scans
    <3>3. CASE Emit
      BY <1>1, <3>3 DEF Emit, SameStream, Scans
    <3> QED
      BY <1>3, <3>1, <3>2, <3>3
  <2> QED
    BY <1>2, <2>1, StreamStutters
<1>4. CASE Exhaust
  <2>1. SameStream(scan, scan')
    BY <1>1, <1>4 DEF Exhaust, Between, SameStream, Scans
  <2> QED
    BY <1>2, <2>1, StreamStutters
<1>5. ASSUME NEW s PROVE Visited(scan, s) \in Scans /\ SameStream(scan, Visited(scan, s))
  BY <1>1 DEF Visited, SameStream, Scans
<1>6. CASE VisitAgain
  BY <1>2, <1>5, <1>6, StreamStutters DEF VisitAgain
<1>7. CASE VisitPage \/ VisitCached \/ VisitInline
  <2> DEFINE s == LeastOf(scan.todo)
             e == scan.tids[s]
             r == Visited(scan, s)
  <2>1. \/ scan' = Discover(e, r, FALSE, e \in deleted)
        \/ scan' = Discover(e, r, TRUE, e \in cache.dead)
        \/ scan' = Discover(e, r, TRUE, inl[scan.node][s].deleted)
    BY <1>7, Zenon DEF VisitPage, VisitCached, VisitInline
  <2> HIDE DEF r, e, s
  <2>2. r \in Scans /\ SameStream(scan, r)
    BY <1>5 DEF r
  <2>3. SameStream(r, scan')
    <3>1. CASE scan' = Discover(e, r, FALSE, e \in deleted)
      BY <2>2, <3>1, DiscoverSame
    <3>2. CASE scan' = Discover(e, r, TRUE, e \in cache.dead)
      BY <2>2, <3>2, DiscoverSame
    <3>3. CASE scan' = Discover(e, r, TRUE, inl[scan.node][s].deleted)
      BY <2>2, <3>3, DiscoverSame
    <3> QED
      BY <2>1, <3>1, <3>2, <3>3
  <2>4. SameStream(scan, scan')
    BY <2>2, <2>3 DEF SameStream
  <2> QED
    BY <1>2, <2>4, StreamStutters
<1>8. ASSUME NEW e \in Elements, Seed(e) PROVE UNCHANGED Stream!streamVars
  <2> DEFINE r == [scan EXCEPT !.pc = "next", !.seed = e]
  <2>1. scan' = Discover(e, r, FALSE, e \in deleted) /\ scan.pc = "open"
    BY <1>8, Zenon DEF Seed
  <2>2. r \in Scans /\ SameStream(scan, r)
    BY <1>1, <2>1 DEF SameStream, Scans
  <2> HIDE DEF r
  <2>3. SameStream(r, scan')
    BY <2>1, <2>2, DiscoverSame
  <2>4. SameStream(scan, scan')
    BY <2>2, <2>3 DEF SameStream
  <2> QED
    BY <1>2, <2>4, StreamStutters
<1> QED
  BY <1>3, <1>4, <1>6, <1>7, <1>8

(* A fetch is a row returned, or nothing.                                  *)
LEMMA FetchReturns ==
  ASSUME ScanAssumption, IInv, Fetch
  PROVE  [Stream!Next]_(Stream!streamVars)
<1> DEFINE f == scan.fetch
           x == heap[tid[f]]
<1>1. /\ scan \in Scans /\ PlacesInv(scan) /\ OrderInv(scan)
  BY ScanParts
<1>2. /\ f # None /\ mode' = mode
      /\ scan' = [scan EXCEPT !.fetch = None,
                              !.rows = IF x \in scan.snapshot THEN Append(@, x) ELSE @]
  BY DEF Fetch
<1>3. /\ f \in Matching /\ (x \in scan.snapshot <=> f \in scan.snapshot)
      /\ (x \in scan.snapshot => x = f)
  BY <1>2, Fetched
<1>4. CASE x \notin scan.snapshot
  <2>1. SameStream(scan, scan')
    BY <1>1, <1>2, <1>4 DEF SameStream, Scans
  <2> QED
    BY <1>2, <2>1, StreamStutters
<1>5. CASE x \in scan.snapshot
  <2>1. /\ scan'.rows = Append(scan.rows, f) /\ scan'.snapshot = scan.snapshot
        /\ scan'.approx = scan.approx /\ scan'.pc = scan.pc
    BY <1>1, <1>2, <1>3, <1>5 DEF Scans
  <2>2. Wanted' = Wanted
    BY <2>1 DEF Wanted
  <2>3. Sorted' = Sorted
    BY <1>2, <2>1, SMT DEF Sorted
  <2>4. f \in Wanted /\ f \in Waiting(scan)
    BY <1>2, <1>3, <1>5 DEF Wanted, Waiting
  <2>5. Stream!Returned = Range(scan.rows)
    BY DEF Stream!Returned, Range
  <2>6. f \notin Range(scan.rows)
    BY <1>1, <2>4 DEF PlacesInv
  <2>7. Sorted => \A y \in Range(scan.rows) : Exact[y] <= Exact[f]
    BY <1>1, <2>4 DEF Sorted, OrderInv, Claims
  <2>8. Stream!Return(f)
    BY <2>1, <2>2, <2>3, <2>4, <2>5, <2>6, <2>7 DEF Stream!Return
  <2> QED
    BY <2>4, <2>8 DEF Stream!Next
<1> QED
  BY <1>4, <1>5

(* A rescan, or the end of a scan, starts a stream.                        *)
LEMMA RestartStarts ==
  ASSUME ScanAssumption, IInv, IInv', Rescan \/ EndScan
  PROVE  [Stream!Next]_(Stream!streamVars)
<1>1. scan'.rows = <<>>
  <2>1. CASE EndScan
    BY <2>1 DEF EndScan, Closed
  <2>2. CASE Rescan
    BY <2>2 DEF Rescan, StreamBegin, Closed
  <2> QED
    BY <2>1, <2>2
<1>2. Wanted' \subseteq DOMAIN Exact
  <2>1. Wanted' \subseteq Elements
    BY DEF Wanted, ScanAssumption
  <2>2. DOMAIN Exact = Elements
    BY DEF ScanAssumption
  <2> QED
    BY <2>1, <2>2
<1>3. Sorted' \in BOOLEAN
  BY SMT DEF Sorted
<1>4. Stream!Start
  BY <1>1, <1>2, <1>3 DEF Stream!Start
<1> QED
  BY <1>4 DEF Stream!Next

(* What changes under a scan shows nothing of it.                          *)
LEMMA UnderStutters ==
  ASSUME IInv,
         \/ \E e \in Elements :
              \/ DeleteRow(e) \/ BulkDelete(e) \/ BulkDeleteFails(e) \/ FreeTid(e)
              \/ InsertRow(e) \/ AppendElement(e) \/ FinishInsert(e) \/ AbortInsert(e)
              \/ \E s \in Slots : WriteInlineEntry(e, s)
              \/ \E n \in Elements, s \in Slots : LinkFrom(e, n, s)
         \/ LoadBegin \/ LoadPage \/ LoadEnd \/ Evict
  PROVE  UNCHANGED Stream!streamVars
<1>1. scan \in Scans
  BY ScanParts
<1>2. mode' = mode
  BY DEF DeleteRow, BulkDelete, BulkDeleteFails, FreeTid, InsertRow, AppendElement,
     FinishInsert, AbortInsert, WriteInlineEntry, LinkFrom, LoadBegin, LoadPage, LoadEnd, Evict
<1>3. \/ scan' = scan
      \/ \E old : scan' = [scan EXCEPT !.old = old]
      \/ \E steady : scan' = [scan EXCEPT !.steady = steady]
  BY DEF DeleteRow, BulkDelete, BulkDeleteFails, FreeTid, InsertRow, AppendElement,
     FinishInsert, AbortInsert, WriteInlineEntry, LinkFrom, LoadBegin, LoadPage, LoadEnd, Evict
<1>4. SameStream(scan, scan')
  BY <1>1, <1>3 DEF SameStream, Scans
<1> QED
  BY <1>2, <1>4, StreamStutters

(* Every step is one of the stream, or shows nothing.                      *)
LEMMA StreamStep ==
  ASSUME ScanAssumption, IInv, IInv', [Next]_vars
  PROVE  [Stream!Next]_(Stream!streamVars)
<1>1. CASE UNCHANGED vars
  <2>1. SameStream(scan, scan') /\ mode' = mode
    BY <1>1 DEF vars, SameStream
  <2> QED
    BY <2>1, StreamStutters
<1>2. CASE Rescan \/ EndScan
  BY <1>2, RestartStarts
<1>3. CASE Fetch
  BY <1>3, FetchReturns
<1>4. CASE \/ ReadNeighbors \/ VisitAgain \/ VisitPage \/ VisitCached \/ VisitInline
           \/ RerankOne \/ Emit \/ Exhaust \/ \E e \in Elements : Seed(e)
  BY <1>4, QuietStep
<1>5. ASSUME NEW e \in Elements,
             \/ DeleteRow(e) \/ BulkDelete(e) \/ BulkDeleteFails(e) \/ FreeTid(e)
             \/ InsertRow(e) \/ AppendElement(e) \/ FinishInsert(e) \/ AbortInsert(e)
             \/ \E s \in Slots : WriteInlineEntry(e, s)
             \/ \E n \in Elements, s \in Slots : LinkFrom(e, n, s)
      PROVE  [Stream!Next]_(Stream!streamVars)
  BY <1>5, UnderStutters
<1>6. CASE LoadBegin \/ LoadPage \/ LoadEnd \/ Evict
  BY <1>6, UnderStutters
<1> QED
  BY <1>1, <1>2, <1>3, <1>4, <1>5, <1>6 DEF Next

(* acorn_gettuple: for any graph, distances, codes, layout and GUCs, and   *)
(* whatever is deleted, vacuumed, inserted or cached meanwhile, the rows   *)
(* the executor gets are a row stream: each is visible and satisfies the   *)
(* scan keys, none comes twice, and a scan that claims the order of the    *)
(* exact distances keeps it.                                               *)
THEOREM ScanIsStream == Spec => StreamSpec
<1>1. Init => Stream!Init
  <2> SUFFICES ASSUME Init PROVE Stream!Init
    OBVIOUS
  <2>1. scan.rows = <<>> /\ scan.pc = "closed" /\ scan.snapshot = {}
    BY DEF Init, Closed
  <2>2. Wanted = {}
    BY <2>1 DEF Wanted
  <2>3. Sorted = FALSE
    BY <2>1, SMT DEF Sorted
  <2> QED
    BY <2>1, <2>2, <2>3 DEF Stream!Init
<1>2. IInv /\ IInv' /\ [Next]_vars => [Stream!Next]_(Stream!streamVars)
  BY ScanAssumption, StreamStep
<1> QED
  BY <1>1, <1>2, Invariance, PTL DEF Spec, StreamSpec, Stream!Spec
=============================================================================
