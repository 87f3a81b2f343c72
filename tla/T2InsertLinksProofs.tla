------------------------- MODULE T2InsertLinksProofs -------------------------
(***************************************************************************)
(* The links of a Tier 2 index under concurrent inserts that overlap, fail *)
(* or crash anywhere, for any number of rows, any levels, vectors,         *)
(* partitions and layouts, any ef_construction: every slot can be          *)
(* followed, at the layer it stands in, no list names an element twice,    *)
(* and every turn of an insert's loops makes progress.  Of inserts that do *)
(* not overlap: their co-located entries match the slots, and no list      *)
(* loses its nearest neighbour.                                            *)
(***************************************************************************)
EXTENDS T2InsertProofs, NeighborSelectionProofs

-----------------------------------------------------------------------------
(* Slots and layers of the neighbour tuple of x in an index of layout o.   *)

Slots(o, x) == 0..((Level[x] + 1) * o.m + o.payload_m - 1)
Base(o, x)  == Level[x] * o.m
Width(o, l) == IF l = 0 THEN o.m + o.payload_m ELSE o.m
LayerAt(o, x, l) == ((Level[x] - l) * o.m)..((Level[x] - l) * o.m + Width(o, l) - 1)

(* The layer slot s stands in. *)
LayerOf(o, x, s) == IF s >= Base(o, x) THEN 0 ELSE Level[x] - s \div o.m

Layout(o) == o.m \in Nat \ {0} /\ o.payload_m \in Nat

(* The layers partition the slots. *)
LEMMA Geometry ==
  ASSUME SelectionAssumption, NEW o, Layout(o), NEW x \in Elements
  PROVE  /\ Level[x] \in Nat /\ Base(o, x) \in Nat
         /\ \A s \in Slots(o, x) :
              LayerOf(o, x, s) \in 0..Level[x] /\ s \in LayerAt(o, x, LayerOf(o, x, s))
         /\ \A l \in 0..Level[x] : \A s \in LayerAt(o, x, l) :
              s \in Slots(o, x) /\ LayerOf(o, x, s) = l
<1> DEFINE L == Level[x]
           m == o.m
           p == o.payload_m
<1>1. L \in Nat /\ m \in Nat \ {0} /\ p \in Nat
  BY DEF SelectionAssumption, Layout
<1> HIDE DEF L, m, p
<1>2. L * m \in Nat /\ (L + 1) * m = L * m + m
  BY <1>1
<1>3. ASSUME NEW s \in 0..((L + 1) * m + p - 1), s < L * m
      PROVE  L - s \div m \in 1..L /\ (s \div m) * m <= s /\ s < (s \div m) * m + m
  <2>1. s \div m \in Int /\ (s \div m) * m <= s /\ s < (s \div m) * m + m
    BY <1>1
  <2>2. 0 <= s \div m /\ s \div m < L
    BY <1>1, <1>3, <2>1
  <2> QED
    BY <1>1, <2>1, <2>2
<1>4. ASSUME NEW l \in 1..L, NEW s \in ((L - l) * m)..((L - l) * m + m - 1)
      PROVE  s \in 0..((L + 1) * m + p - 1) /\ s < L * m /\ s \div m = L - l
  <2>1. L - l \in Nat /\ L - l < L /\ (L - l) * m \in Nat
    BY <1>1
  <2>2. (L - l) * m + m <= L * m
    BY <1>1, <2>1
  <2>3. s \in Nat /\ s < L * m
    BY <1>1, <1>2, <2>1, <2>2
  <2>4. s \div m = L - l
    <3> DEFINE q == L - l
    <3>1. q \in Int /\ q * m <= s /\ s < q * m + m /\ s \in Int
      BY <1>1, <2>1
    <3> HIDE DEF q
    <3>2. s \div m = q
      BY <1>1, <3>1
    <3> QED
      BY <3>2 DEF q
  <2> QED
    BY <1>1, <1>2, <2>3, <2>4
<1>5. ASSUME NEW s \in Slots(o, x)
      PROVE  LayerOf(o, x, s) \in 0..Level[x] /\ s \in LayerAt(o, x, LayerOf(o, x, s))
  <2>1. s \in 0..((L + 1) * m + p - 1)
    BY DEF Slots, L, m, p
  <2>2. CASE s >= L * m
    <3>1. LayerOf(o, x, s) = 0
      BY <2>2 DEF LayerOf, Base, L, m
    <3>2. s \in ((L - 0) * m)..((L - 0) * m + (m + p) - 1)
      BY <1>1, <1>2, <2>1, <2>2
    <3> QED
      BY <1>1, <3>1, <3>2 DEF LayerAt, Width, L, m, p
  <2>3. CASE s < L * m
    <3>1. LayerOf(o, x, s) = L - s \div m
      BY <1>2, <2>1, <2>3 DEF LayerOf, Base, L, m
    <3>2. L - s \div m \in 1..L /\ (s \div m) * m <= s /\ s < (s \div m) * m + m
      BY <1>3, <2>1, <2>3
    <3>3. L - (L - s \div m) = s \div m
      BY <1>1, <2>1
    <3>4. s \in ((L - (L - s \div m)) * m)..((L - (L - s \div m)) * m + m - 1)
      BY <1>1, <2>1, <3>2, <3>3
    <3>5. L - s \div m # 0 /\ L - s \div m \in 0..L
      BY <1>1, <3>2
    <3> QED
      BY <3>1, <3>4, <3>5 DEF LayerAt, Width, L, m, p
  <2> QED
    BY <1>2, <2>1, <2>2, <2>3
<1>6. ASSUME NEW l \in 0..Level[x], NEW s \in LayerAt(o, x, l)
      PROVE  s \in Slots(o, x) /\ LayerOf(o, x, s) = l
  <2>1. CASE l = 0
    <3>1. s \in ((L - 0) * m)..((L - 0) * m + (m + p) - 1)
      BY <2>1 DEF LayerAt, Width, L, m, p
    <3>2. s \in 0..((L + 1) * m + p - 1) /\ s >= L * m
      BY <1>1, <1>2, <3>1
    <3> QED
      BY <2>1, <3>2 DEF LayerOf, Base, Slots, L, m, p
  <2>2. CASE l # 0
    <3>1. l \in 1..L /\ s \in ((L - l) * m)..((L - l) * m + m - 1)
      BY <1>1, <2>2 DEF LayerAt, Width, L, m, p
    <3>2. s \in 0..((L + 1) * m + p - 1) /\ s < L * m /\ s \div m = L - l
      BY <1>4, <3>1
    <3>3. LayerOf(o, x, s) = L - (L - l)
      BY <1>2, <3>2 DEF LayerOf, Base, L, m
    <3> QED
      BY <1>1, <3>1, <3>2, <3>3 DEF Slots, L, m, p
  <2> QED
    BY <2>1, <2>2
<1> QED
  BY <1>1, <1>2, <1>5, <1>6 DEF Base, L, m

(* These are the layers of the model's geometry. *)
LEMMA SameGeometry ==
  ASSUME SelectionAssumption, Layout(index), NEW x \in Elements
  PROVE  /\ \A l \in Nat : LayerSlots(x, l, index.m) = LayerAt(index, x, l)
         /\ Slots(index, x) = 0..(TotalSlots(Level[x], index.m) - 1)
<1>1. ASSUME NEW l \in Nat PROVE LayerSlots(x, l, index.m) = LayerAt(index, x, l)
  <2>1. LayerM(l, index.m) = Width(index, l)
    BY DEF LayerM, Width
  <2> QED
    BY <2>1 DEF LayerSlots, NeighborStart, LayerAt
<1>2. Slots(index, x) = 0..(TotalSlots(Level[x], index.m) - 1)
  BY DEF Slots, TotalSlots, SelectionAssumption, Layout
<1> QED
  BY <1>1, <1>2


-----------------------------------------------------------------------------
(* The inductive invariant *)

(* Elements that others may come across: on their page, and not between    *)
(* their element tuple and their turn at the meta page.                    *)
Known == {x \in elements : ins[x].pc # "entry"}

(* A slot array of x, written or not yet, in terms of the known elements   *)
(* K: each slot names one of them that has the slot's layer, never x       *)
(* itself, and no two slots of a layer the same one.                       *)
Sound(o, K, x, T) ==
  /\ T \in [Slots(o, x) -> K \cup {None}]
  /\ \A s \in Slots(o, x) : T[s] # None => T[s] # x /\ LayerOf(o, x, s) <= Level[T[s]]
  /\ \A s, t \in Slots(o, x) :
       T[s] # None /\ T[s] = T[t] /\ LayerOf(o, x, s) = LayerOf(o, x, t) => s = t

(* Elements an inserter holds while it searches layer l. *)
Follows(K, S, l) == IsFiniteSet(S) /\ S \subseteq K /\ \A c \in S : l <= Level[c]

(* The greedy descent: above the layers the element will have. *)
Descending(o, K, x, r) ==
  /\ r.ep \in K /\ r.lc <= Level[r.ep] /\ Level[x] < r.lc
  /\ \A s \in Slots(o, x) : r.tids[s] = None

(* The restricted search of layer 0: the payload half is empty. *)
Restricted(o, K, x, r, lc) ==
  /\ lc = 0 /\ o.payload_edges /\ Follows(K, r.cands, 0)
  /\ \A s \in Slots(o, x) : s >= Base(o, x) + o.m => r.tids[s] = None

(* A beam search: what it fills is empty, the layer, or the payload half.  *)
Searching(o, K, x, r) ==
  /\ r.lc \in 0..Level[x]
  /\ r.ep \in K /\ r.lc <= Level[r.ep]
  /\ Follows(K, r.C, r.lc) /\ Follows(K, r.W, r.lc)
  /\ ~r.restricted => \A s \in Slots(o, x) : LayerOf(o, x, s) <= r.lc => r.tids[s] = None
  /\ r.restricted => Restricted(o, K, x, r, r.lc)

(* The reverse edges still to be written.  They are not there yet. *)
Pending(r) == IF r.pc = "colocate" THEN r.todo \ {LeastOf(r.todo)} ELSE r.todo

Offering(o, nb, x, r) ==
  /\ \A s \in r.todo : s \in Slots(o, x) /\ r.tids[s] # None
  /\ \A s \in Pending(r) : \A t \in DOMAIN nb[r.tids[s]] :
       LayerOf(o, r.tids[s], t) = LayerOf(o, x, s) => nb[r.tids[s]][t] # x
  /\ r.pc \in {"link", "colocate"} => r.todo # {}
  /\ r.pc = "link" =>
       LET n == r.tids[LeastOf(r.todo)]
       IN r.target \in Slots(o, n) /\ LayerOf(o, n, r.target) = LayerOf(o, x, LeastOf(r.todo))

Early   == {"idle", "descend", "search", "neighbors", "element"}
Reverse == {"reverse", "link", "colocate"}
Busy    == (Early \ {"idle"}) \cup Reverse \cup {"entry"}

(* Where the insert of x is, with the variables r, the elements els on     *)
(* their pages and the slots nb.                                           *)
Phase(o, K, els, nb, x, r) ==
  /\ r.pc \in Early => x \notin els
  /\ r.pc \in Reverse \cup {"entry"} => x \in els
  /\ r.pc = "element" => nb[x] # <<>>
  /\ r.pc \in Busy => r.m = o.m /\ Sound(o, K, x, r.tids)
  /\ r.pc = "descend" => Descending(o, K, x, r)
  /\ r.pc = "search" => Searching(o, K, x, r)
  /\ r.pc \in Reverse => Offering(o, nb, x, r)

SlotArrays == UNION {[D -> Elements \cup {None}] : D \in SUBSET Nat}

Locals ==
  [pc : States, m : Nat, entry : Elements \cup {None}, entry_level : Int,
   ep : Elements \cup {None}, lc : Int, restricted : BOOLEAN,
   C : SUBSET Elements, W : SUBSET Elements, visited : SUBSET Elements,
   expansions : Nat, cands : SUBSET Elements, tids : SlotArrays,
   payload_real : Nat, todo : SUBSET Nat, snap : SlotArrays, target : Nat]

PageInv ==
  /\ index \in Indexes /\ opt_m = index.m
  /\ meta \in [entry : Known \cup {None}, level : Nat \cup {-1}]
  /\ meta.entry # None => meta.level = Level[meta.entry]
  /\ elements \subseteq Elements
  /\ DOMAIN nbr = Elements
  /\ \A x \in Elements : nbr[x] = <<>> \/ Sound(index, Known, x, nbr[x])
  /\ \A x \in elements : nbr[x] # <<>>
  /\ inl \in [Elements -> SlotArrays]
  /\ ins \in [Elements -> Locals]
  /\ overlap \in BOOLEAN

LInv ==
  /\ PageInv
  /\ \A x \in Elements : Phase(index, Known, elements, nbr, x, ins[x])

-----------------------------------------------------------------------------
(* What changes of the others do to an insert *)

(* Knowing more elements leaves an array sound. *)
LEMMA SoundMore ==
  ASSUME NEW o, NEW K, NEW K2, K \subseteq K2, NEW x, NEW T, Sound(o, K, x, T)
  PROVE  Sound(o, K2, x, T)
<1>1. T \in [Slots(o, x) -> K2 \cup {None}]
  BY DEF Sound
<1> QED
  BY <1>1 DEF Sound

(* An insert that others' steps leave where it is stays right: they make   *)
(* more elements known, and never write it into a list.                    *)
LEMMA PhaseKept ==
  ASSUME NEW o, NEW K, NEW K2, NEW els, NEW els2, NEW nb, NEW nb2, NEW x, NEW r,
         Phase(o, K, els, nb, x, r),
         K \subseteq K2, els \subseteq els2, x \in els2 => x \in els,
         nb[x] # <<>> => nb2[x] # <<>>,
         \A y \in K : \A t \in DOMAIN nb2[y] : nb2[y][t] = x => t \in DOMAIN nb[y] /\ nb[y][t] = x
  PROVE  Phase(o, K2, els2, nb2, x, r)
<1>1. r.pc \in Busy => Sound(o, K2, x, r.tids)
  BY SoundMore DEF Phase
<1>2. r.pc = "descend" => Descending(o, K2, x, r)
  BY DEF Phase, Descending
<1>3. r.pc = "search" => Searching(o, K2, x, r)
  BY DEF Phase, Searching, Restricted, Follows
<1>4. ASSUME r.pc \in Reverse PROVE Offering(o, nb2, x, r)
  <2>1. Offering(o, nb, x, r) /\ Sound(o, K, x, r.tids)
    BY <1>4 DEF Phase, Busy
  <2>2. ASSUME NEW s \in Pending(r), NEW t \in DOMAIN nb2[r.tids[s]],
               LayerOf(o, r.tids[s], t) = LayerOf(o, x, s)
        PROVE  nb2[r.tids[s]][t] # x
    <3>1. s \in Slots(o, x) /\ r.tids[s] # None
      BY <2>1 DEF Offering, Pending
    <3>2. r.tids[s] \in K
      BY <2>1, <3>1 DEF Sound
    <3>3. \A u \in DOMAIN nb[r.tids[s]] :
            LayerOf(o, r.tids[s], u) = LayerOf(o, x, s) => nb[r.tids[s]][u] # x
      BY <2>1 DEF Offering
    <3> QED
      BY <2>2, <3>2, <3>3
  <2> QED
    BY <2>1, <2>2 DEF Offering
<1> QED
  BY <1>1, <1>2, <1>3, <1>4 DEF Phase

-----------------------------------------------------------------------------
(* Steps that change nothing but the inserter's own variables *)

(* None is a place that names no element. *)
LEMMA Basics ==
  ASSUME SelectionAssumption, InsertAssumption, PageInv
  PROVE  /\ Layout(index) /\ Known \subseteq elements /\ Known \subseteq Elements
         /\ None \notin Known /\ Efc \in Nat \ {0}
         /\ \A x \in Known : Sound(index, Known, x, nbr[x])
<1>1. index \in Indexes /\ elements \subseteq Elements
  BY DEF PageInv
<1>2. Known \subseteq elements
  BY DEF Known
<1>3. \A x \in Known : Sound(index, Known, x, nbr[x])
  BY <1>1, <1>2 DEF PageInv
<1> QED
  BY <1>1, <1>2, <1>3 DEF InsertAssumption, SelectionAssumption, Layout

(* The invariant holds after a step that takes an insert to a right phase. *)
LEMMA LocalStep ==
  ASSUME SelectionAssumption, InsertAssumption, LInv, NEW e \in Elements, NEW r \in Locals,
         Become(e, r), r.pc # "entry", Phase(index, Known, elements, nbr, e, r),
         UNCHANGED <<index, opt_m, meta, elements, nbr>>,
         inl' \in [Elements -> SlotArrays], overlap' \in BOOLEAN
  PROVE  LInv'
<1>1. /\ ins' \in [Elements -> Locals] /\ ins'[e] = r
      /\ \A x \in Elements \ {e} : ins'[x] = ins[x]
  BY DEF LInv, PageInv, Become
<1>2. Known \subseteq Known' /\ Known' \subseteq Elements
  BY <1>1 DEF Known, LInv, PageInv
<1>3. PageInv'
  <2>1. \A x \in Elements : nbr[x] = <<>> \/ Sound(index, Known', x, nbr[x])
    BY <1>2, SoundMore DEF LInv, PageInv
  <2>2. meta \in [entry : Known' \cup {None}, level : Nat \cup {-1}]
    BY <1>2 DEF LInv, PageInv
  <2> QED
    BY <1>1, <2>1, <2>2 DEF LInv, PageInv
<1>4. ASSUME NEW x \in Elements
      PROVE  Phase(index', Known', elements', nbr', x, ins'[x])
  <2>1. CASE x = e
    <3>1. Phase(index, Known', elements, nbr, e, r)
      BY <1>2, PhaseKept
    <3> QED
      BY <1>1, <2>1, <3>1
  <2>2. CASE x # e
    <3>1. Phase(index, Known, elements, nbr, x, ins[x])
      BY DEF LInv
    <3>2. Phase(index, Known', elements, nbr, x, ins[x])
      BY <1>2, <3>1, PhaseKept
    <3> QED
      BY <1>1, <2>2, <3>2
  <2> QED
    BY <2>1, <2>2
<1> QED
  BY <1>3, <1>4 DEF LInv

(* An array without slots. *)
LEMMA NoSlots == <<>> \in SlotArrays
<1>1. <<>> \in [{} -> Elements \cup {None}]
  OBVIOUS
<1>2. {} \in SUBSET Nat
  OBVIOUS
<1> QED
  BY <1>1, <1>2 DEF SlotArrays

(* A sound array is an array of slots. *)
LEMMA SoundArray ==
  ASSUME SelectionAssumption, NEW o, Layout(o), NEW K \in SUBSET Elements, NEW x \in Elements,
         NEW T, Sound(o, K, x, T)
  PROVE  T \in SlotArrays
<1>1. T \in [Slots(o, x) -> Elements \cup {None}]
  BY DEF Sound
<1>2. Slots(o, x) \in SUBSET Nat
  BY DEF Slots
<1> QED
  BY <1>1, <1>2 DEF SlotArrays

(* An array with nothing in it is sound. *)
LEMMA SoundBlank ==
  ASSUME NEW o, NEW K, NEW x
  PROVE  Sound(o, K, x, [s \in Slots(o, x) |-> None])
  BY DEF Sound

(* Nothing has been inserted. *)
LEMMA LinksInit ==
  ASSUME SelectionAssumption, InsertAssumption, Init
  PROVE  LInv
<1>1. Idle \in Locals /\ Idle.pc = "idle"
  BY NoSlots DEF Idle, Locals, States
<1>2. /\ index \in Indexes /\ opt_m = index.m
      /\ meta = [entry |-> None, level |-> -1] /\ elements = {}
      /\ nbr = [x \in Elements |-> <<>>] /\ inl = [x \in Elements |-> <<>>]
      /\ ins = [x \in Elements |-> Idle] /\ overlap = FALSE
  BY DEF Init
<1>3. PageInv
  <2>1. Known \subseteq Elements
    BY <1>2 DEF Known
  <2>2. meta \in [entry : Known \cup {None}, level : Nat \cup {-1}]
    BY <1>2
  <2> QED
    BY <1>1, <1>2, <2>2, NoSlots DEF PageInv
<1>4. ASSUME NEW x \in Elements
      PROVE  Phase(index, Known, elements, nbr, x, ins[x])
  <2>1. ins[x].pc = "idle" /\ x \notin elements
    BY <1>1, <1>2
  <2> QED
    BY <2>1 DEF Phase, Early, Busy, Reverse
<1> QED
  BY <1>3, <1>4 DEF LInv

-----------------------------------------------------------------------------
(* The search for neighbours *)

(* The neighbours at a layer are known and have that layer. *)
LEMMA FollowLayer ==
  ASSUME SelectionAssumption, InsertAssumption, PageInv, NEW x \in Known, NEW l \in 0..Level[x]
  PROVE  Follows(Known, NbrTidsAtLayer(x, l, index.m), l)
<1> DEFINE D == LayerAt(index, x, l)
           f == [s \in D |-> Slot(x, s)]
           S == NbrTidsAtLayer(x, l, index.m)
<1>1. x \in Elements /\ Layout(index) /\ Sound(index, Known, x, nbr[x])
  BY Basics
<1>2. LayerSlots(x, l, index.m) = D
  <2>1. Level[x] \in Nat /\ l \in Nat
    BY <1>1 DEF SelectionAssumption
  <2> QED
    BY <1>1, <2>1, SameGeometry
<1>3. \A s \in D : s \in Slots(index, x) /\ LayerOf(index, x, s) = l
  BY <1>1, Geometry
<1>4. \A s \in D : Slot(x, s) = nbr[x][s]
  BY <1>1, <1>3 DEF Sound, Slot
<1>5. IsFiniteSet(D)
  <2>1. Level[x] \in Nat /\ index.m \in Nat /\ index.payload_m \in Nat
    BY <1>1 DEF SelectionAssumption, Layout
  <2>2. (Level[x] - l) * index.m \in Int
    BY <2>1
  <2>3. (Level[x] - l) * index.m + Width(index, l) - 1 \in Int
    BY <2>1, <2>2 DEF Width
  <2> QED
    BY <2>2, <2>3, FS_Interval DEF LayerAt
<1>6. IsFiniteSet(Range(f))
  <2> HIDE DEF D
  <2> QED
    BY <1>5, FiniteRange
<1>7. S = Range(f) \ {None}
  BY <1>2 DEF NbrTidsAtLayer, Range
<1>8. IsFiniteSet(S)
  BY <1>6, <1>7, FS_Subset
<1>9. ASSUME NEW c \in S PROVE c \in Known /\ l <= Level[c]
  <2>1. PICK s \in D : c = nbr[x][s] /\ c # None
    BY <1>4, <1>7 DEF Range
  <2>2. s \in Slots(index, x) /\ LayerOf(index, x, s) = l
    BY <1>3, <2>1
  <2> QED
    BY <1>1, <2>1, <2>2 DEF Sound
<1> QED
  BY <1>8, <1>9 DEF Follows

(* Seeding a search leaves the insert in a right phase. *)
LEMMA SearchPhase ==
  ASSUME SelectionAssumption, NEW o, NEW K \in SUBSET Elements, NEW els, NEW nb,
         NEW e \in Elements, e \notin els, NEW r \in Locals, r.m = o.m, Sound(o, K, e, r.tids),
         NEW ep \in K, NEW lc \in 0..Level[e], lc <= Level[ep], NEW b \in BOOLEAN,
         ~b => \A s \in Slots(o, e) : LayerOf(o, e, s) <= lc => r.tids[s] = None,
         b => Restricted(o, K, e, r, lc)
  PROVE  /\ Search(e, r, ep, lc, b) \in Locals /\ Search(e, r, ep, lc, b).pc = "search"
         /\ Phase(o, K, els, nb, e, Search(e, r, ep, lc, b))
<1> DEFINE q == Search(e, r, ep, lc, b)
<1>1. /\ q \in Locals /\ q.pc = "search" /\ q.ep = ep /\ q.lc = lc /\ q.restricted = b
      /\ q.C = {ep} /\ q.W \in {{}, {ep}} /\ q.tids = r.tids /\ q.m = r.m /\ q.cands = r.cands
  <2> DEFINE w == IF b /\ Partition[ep] # Partition[e] THEN {} ELSE {ep}
  <2>1. q = [r EXCEPT !.pc = "search", !.ep = ep, !.lc = lc, !.restricted = b,
                      !.C = {ep}, !.visited = {ep}, !.expansions = 0, !.W = w]
    BY DEF Search
  <2>2. w \in {{}, {ep}} /\ ep \in Elements /\ lc \in Int /\ "search" \in States
    BY DEF States, SelectionAssumption
  <2> HIDE DEF q, w
  <2> QED
    BY <2>1, <2>2 DEF Locals
<1> HIDE DEF q
<1>2. Follows(K, {ep}, lc) /\ Follows(K, {}, lc)
  BY FS_EmptySet, FS_Singleton DEF Follows
<1>3. Searching(o, K, e, q)
  BY <1>1, <1>2 DEF Searching, Restricted
<1>4. Phase(o, K, els, nb, e, q)
  BY <1>1, <1>3 DEF Phase, Early, Reverse, Busy
<1> QED
  BY <1>1, <1>4 DEF q

(* So does going on below a layer whose slots are filled. *)
LEMMA BelowPhase ==
  ASSUME SelectionAssumption, NEW o, Layout(o), NEW K \in SUBSET Elements, NEW els, NEW nb,
         NEW e \in Elements, e \notin els, NEW r \in Locals, r.m = o.m, Sound(o, K, e, r.tids),
         r.ep \in K, r.lc \in 0..Level[e], r.lc <= Level[r.ep],
         NEW S, Follows(K, S, r.lc),
         r.lc # 0 => \A s \in Slots(o, e) : LayerOf(o, e, s) < r.lc => r.tids[s] = None
  PROVE  /\ BelowLayer(e, r, S) \in Locals /\ BelowLayer(e, r, S).pc \in {"search", "neighbors"}
         /\ Phase(o, K, els, nb, e, BelowLayer(e, r, S))
<1>1. CASE r.lc = 0
  <2> DEFINE q == BelowLayer(e, r, S)
  <2>1. q = [r EXCEPT !.pc = "neighbors", !.C = {}, !.W = {}, !.visited = {}, !.cands = {},
                      !.ep = None, !.restricted = FALSE, !.expansions = 0]
    BY <1>1 DEF BelowLayer
  <2> HIDE DEF q
  <2>2. q \in Locals /\ q.pc = "neighbors" /\ q.tids = r.tids /\ q.m = r.m
    BY <2>1 DEF Locals, States
  <2>3. Phase(o, K, els, nb, e, q)
    BY <2>2 DEF Phase, Early, Reverse, Busy
  <2> QED
    BY <2>2, <2>3 DEF q
<1>2. CASE r.lc # 0
  <2> DEFINE ep == IF S = {} THEN r.ep ELSE Closest(e, S)
             lc == r.lc - 1
  <2>1. ep \in K /\ r.lc <= Level[ep]
    <3>1. S # {} => Closest(e, S) \in S
      BY EndsIn DEF Follows
    <3> QED
      BY <3>1 DEF Follows
  <2>2. Level[e] \in Nat /\ Level[ep] \in Nat /\ r.lc \in Int
    BY <2>1 DEF SelectionAssumption
  <2>3. lc \in 0..Level[e] /\ lc <= Level[ep]
    BY <1>2, <2>1, <2>2
  <2>4. \A s \in Slots(o, e) : LayerOf(o, e, s) <= lc => r.tids[s] = None
    <3> SUFFICES ASSUME NEW s \in Slots(o, e), LayerOf(o, e, s) <= r.lc - 1
                 PROVE  r.tids[s] = None
      OBVIOUS
    <3>1. LayerOf(o, e, s) \in Int
      BY Geometry
    <3> QED
      BY <1>2, <2>2, <3>1
  <2>5. BelowLayer(e, r, S) = Search(e, r, ep, lc, FALSE)
    BY <1>2 DEF BelowLayer
  <2> DEFINE q == Search(e, r, ep, lc, FALSE)
  <2>6. q \in Locals /\ q.pc = "search" /\ Phase(o, K, els, nb, e, q)
    <3>1. FALSE \in BOOLEAN /\ ep \in K
      BY <2>1
    <3> HIDE DEF ep, lc
    <3> QED
      BY <2>3, <2>4, <3>1, SearchPhase
  <2> HIDE DEF ep, lc, q
  <2> QED
    BY <2>5, <2>6 DEF q
<1> QED
  BY <1>1, <1>2

(* Steps 1 to 3 begin with nothing but the entry point. *)
LEMMA ReadMetaStep ==
  ASSUME SelectionAssumption, InsertAssumption, LInv, NEW e \in Elements, ReadMeta(e)
  PROVE  LInv'
<1> DEFINE total == TotalSlots(Level[e], opt_m)
           blank == [s \in 0..(total - 1) |-> None]
           r == [ins[e] EXCEPT !.m = opt_m, !.entry = meta.entry,
                               !.entry_level = meta.level, !.tids = blank]
           none == [r EXCEPT !.pc = "neighbors"]
           down == [r EXCEPT !.pc = "descend", !.ep = meta.entry, !.lc = meta.level]
           at == Search(e, r, meta.entry, meta.level, FALSE)
<1>0. PageInv /\ Layout(index) /\ Known \in SUBSET Elements /\ None \notin Known
  BY Basics DEF LInv
<1>1. ins[e] \in Locals /\ ins[e].pc = "idle" /\ e \notin elements
  BY DEF ReadMeta, LInv, PageInv, Phase, Early
<1>2. Slots(index, e) = 0..(total - 1) /\ opt_m = index.m /\ Level[e] \in Nat /\ index.m \in Nat
  BY <1>0, SameGeometry DEF PageInv, SelectionAssumption, Layout
<1>3. blank = [s \in Slots(index, e) |-> None]
  BY <1>2
<1> HIDE DEF blank, total
<1>4. Sound(index, Known, e, blank) /\ blank \in SlotArrays
        /\ \A s \in Slots(index, e) : blank[s] = None
  BY <1>0, <1>3, SoundBlank, SoundArray
<1>5. meta \in [entry : Known \cup {None}, level : Nat \cup {-1}]
      /\ (meta.entry # None => meta.level = Level[meta.entry])
  BY <1>0 DEF PageInv
<1>12. meta.entry \in Elements \cup {None} /\ meta.level \in Int
  BY <1>0, <1>5
<1>6. r \in Locals /\ r.m = index.m /\ r.tids = blank
  BY <1>1, <1>2, <1>4, <1>12 DEF Locals
<1> HIDE DEF r
<1>7. ASSUME meta.entry = None
      PROVE  none \in Locals /\ none.pc = "neighbors" /\ Phase(index, Known, elements, nbr, e, none)
  <2>1. none \in Locals /\ none.pc = "neighbors" /\ none.tids = blank /\ none.m = index.m
    BY <1>6 DEF Locals, States
  <2> HIDE DEF none
  <2> QED
    BY <1>1, <1>4, <2>1 DEF Phase, Early, Reverse, Busy
<1>8. ASSUME meta.entry # None, meta.level > Level[e]
      PROVE  down \in Locals /\ down.pc = "descend" /\ Phase(index, Known, elements, nbr, e, down)
  <2>1. /\ down \in Locals /\ down.pc = "descend" /\ down.tids = blank /\ down.m = index.m
        /\ down.ep = meta.entry /\ down.lc = meta.level
    BY <1>6, <1>12 DEF Locals, States
  <2> HIDE DEF down
  <2>2. Descending(index, Known, e, down)
    BY <1>2, <1>4, <1>5, <1>8, <2>1 DEF Descending
  <2> QED
    BY <1>1, <1>4, <2>1, <2>2 DEF Phase, Early, Reverse, Busy
<1>9. ASSUME meta.entry # None, ~(meta.level > Level[e])
      PROVE  at \in Locals /\ at.pc = "search" /\ Phase(index, Known, elements, nbr, e, at)
  <2>1. meta.entry \in Known /\ Level[meta.entry] \in Nat
    BY <1>0, <1>5, <1>9 DEF SelectionAssumption
  <2>2. meta.level \in 0..Level[e] /\ meta.level <= Level[meta.entry] /\ FALSE \in BOOLEAN
    BY <1>2, <1>5, <1>9, <2>1
  <2>3. \A s \in Slots(index, e) : LayerOf(index, e, s) <= meta.level => r.tids[s] = None
    BY <1>4, <1>6
  <2> QED
    BY <1>0, <1>1, <1>4, <1>6, <2>1, <2>2, <2>3, SearchPhase
<1>10. PICK q \in {none, down, at} :
         Become(e, q) /\ q \in Locals /\ q.pc # "entry" /\ Phase(index, Known, elements, nbr, e, q)
  <2>1. Become(e, IF meta.entry = None THEN none ELSE IF meta.level > Level[e] THEN down ELSE at)
    BY DEF ReadMeta, none, down, at, r, blank, total
  <2> HIDE DEF none, down, at
  <2> QED
    BY <1>7, <1>8, <1>9, <2>1
<1>11. UNCHANGED <<index, opt_m, meta, elements, nbr>> /\ inl' \in [Elements -> SlotArrays]
       /\ overlap' \in BOOLEAN
  BY <1>0 DEF ReadMeta, PageInv
<1> HIDE DEF none, down, at
<1> QED
  BY <1>10, <1>11, LocalStep

(* A turn of the greedy descent stays above the element's own layers. *)
LEMMA DescendStep ==
  ASSUME SelectionAssumption, InsertAssumption, LInv, NEW e \in Elements, Descend(e)
  PROVE  LInv'
<1> DEFINE r == ins[e]
           nearer == {n \in NbrTidsAtLayer(r.ep, r.lc, r.m) : Dist(n, e) < Dist(r.ep, e)}
           move == [r EXCEPT !.ep = Closest(e, nearer)]
           down == [r EXCEPT !.lc = @ - 1]
           at == Search(e, r, r.ep, r.lc - 1, FALSE)
<1>0. PageInv /\ Layout(index) /\ Known \in SUBSET Elements /\ None \notin Known
  BY Basics DEF LInv
<1>1. r \in Locals /\ r.pc = "descend" /\ e \notin elements
      /\ r.m = index.m /\ Sound(index, Known, e, r.tids) /\ Descending(index, Known, e, r)
  BY DEF Descend, LInv, PageInv, Phase, Early, Busy
<1>2. /\ r.ep \in Known /\ r.lc <= Level[r.ep] /\ Level[e] < r.lc /\ r.lc \in Int
      /\ \A s \in Slots(index, e) : r.tids[s] = None
  BY <1>1 DEF Descending, Locals
<1>3. Level[e] \in Nat /\ Level[r.ep] \in Nat
  BY <1>0, <1>2 DEF SelectionAssumption
<1>4. Follows(Known, NbrTidsAtLayer(r.ep, r.lc, r.m), r.lc)
  <2>1. r.lc \in 0..Level[r.ep]
    BY <1>2, <1>3
  <2> HIDE DEF r
  <2> QED
    BY <1>0, <1>1, <1>2, <2>1, FollowLayer
<1>5. ASSUME nearer # {}
      PROVE  move \in Locals /\ move.pc = "descend" /\ Phase(index, Known, elements, nbr, e, move)
  <2>1. Closest(e, nearer) \in nearer
    <3>1. nearer \subseteq NbrTidsAtLayer(r.ep, r.lc, r.m)
      OBVIOUS
    <3>2. IsFiniteSet(nearer) /\ nearer \subseteq Elements
      <4> HIDE DEF nearer, r
      <4> QED
        BY <1>0, <1>4, <3>1, FS_Subset DEF Follows
    <3> HIDE DEF nearer
    <3> QED
      BY <1>5, <3>2, EndsIn
  <2>2. Closest(e, nearer) \in Known /\ r.lc <= Level[Closest(e, nearer)]
    BY <1>4, <2>1 DEF Follows
  <2> HIDE DEF nearer
  <2>3. /\ move \in Locals /\ move.pc = "descend" /\ move.tids = r.tids /\ move.m = r.m
        /\ move.ep = Closest(e, nearer) /\ move.lc = r.lc
    BY <1>0, <1>1, <2>2 DEF Locals
  <2> HIDE DEF move, r
  <2>4. Descending(index, Known, e, move)
    BY <1>2, <2>2, <2>3 DEF Descending
  <2> QED
    BY <1>1, <2>3, <2>4 DEF Phase, Early, Reverse, Busy
<1>6. ASSUME r.lc - 1 > Level[e]
      PROVE  down \in Locals /\ down.pc = "descend" /\ Phase(index, Known, elements, nbr, e, down)
  <2>1. /\ down \in Locals /\ down.pc = "descend" /\ down.tids = r.tids /\ down.m = r.m
        /\ down.ep = r.ep /\ down.lc = r.lc - 1
    BY <1>1, <1>2 DEF Locals
  <2> HIDE DEF down, r
  <2>2. Descending(index, Known, e, down)
    BY <1>2, <1>3, <1>6, <2>1 DEF Descending
  <2> QED
    BY <1>1, <2>1, <2>2 DEF Phase, Early, Reverse, Busy
<1>7. ASSUME ~(r.lc - 1 > Level[e])
      PROVE  at \in Locals /\ at.pc = "search" /\ Phase(index, Known, elements, nbr, e, at)
  <2>1. r.lc - 1 \in 0..Level[e] /\ r.lc - 1 <= Level[r.ep] /\ FALSE \in BOOLEAN
    BY <1>2, <1>3, <1>7
  <2> HIDE DEF r
  <2> QED
    BY <1>0, <1>1, <1>2, <2>1, SearchPhase
<1>8. PICK q \in {move, down, at} :
         Become(e, q) /\ q \in Locals /\ q.pc # "entry" /\ Phase(index, Known, elements, nbr, e, q)
  <2>1. Become(e, IF nearer # {} THEN move ELSE IF r.lc - 1 > Level[e] THEN down ELSE at)
    BY DEF Descend
  <2> HIDE DEF move, down, at
  <2> QED
    BY <1>5, <1>6, <1>7, <2>1
<1>9. UNCHANGED <<index, opt_m, meta, elements, nbr>> /\ inl' \in [Elements -> SlotArrays]
       /\ overlap' \in BOOLEAN
  BY <1>0 DEF Descend, PageInv
<1> HIDE DEF move, down, at
<1> QED
  BY <1>8, <1>9, LocalStep

(* An expansion takes in neighbours at the layer that is searched. *)
LEMMA ExpandStep ==
  ASSUME SelectionAssumption, InsertAssumption, LInv, NEW e \in Elements, Expand(e)
  PROVE  LInv'
<1> DEFINE r == ins[e]
           c == Closest(e, r.C)
           new == Unvisited(e, c)
           members == {n \in new : r.restricted => Partition[n] = Partition[e]}
           C2 == (r.C \ {c}) \cup new
           W2 == Range(Nearest(e, r.W \cup members, Efc))
           q == [r EXCEPT !.C = C2, !.visited = @ \cup new, !.expansions = @ + 1, !.W = W2]
<1>0. PageInv /\ Layout(index) /\ Known \in SUBSET Elements /\ None \notin Known /\ Efc \in Nat
  BY Basics DEF LInv
<1>1. r \in Locals /\ r.pc = "search" /\ e \notin elements
      /\ r.m = index.m /\ Sound(index, Known, e, r.tids) /\ Searching(index, Known, e, r)
  BY DEF Expand, LInv, PageInv, Phase, Early, Busy
<1>2. Follows(Known, r.C, r.lc) /\ Follows(Known, r.W, r.lc) /\ r.lc \in 0..Level[e]
  BY <1>1 DEF Searching
<1>3. r.C # {}
  BY DEF Expand, SearchOver
<1>4. c \in Known /\ r.lc <= Level[c]
  <2>1. c \in r.C
    BY <1>0, <1>2, <1>3, EndsIn DEF Follows
  <2> QED
    BY <1>2, <2>1 DEF Follows
<1>5. Follows(Known, new, r.lc)
  <2>1. Level[c] \in Nat /\ Level[e] \in Nat
    BY <1>0, <1>4 DEF SelectionAssumption
  <2>2. r.lc \in 0..Level[c]
    BY <1>2, <1>4, <2>1
  <2>3. Follows(Known, NbrTidsAtLayer(c, r.lc, r.m), r.lc)
    <3> HIDE DEF c, r
    <3> QED
      BY <1>0, <1>1, <1>4, <2>2, FollowLayer
  <2>4. new = NbrTidsAtLayer(c, r.lc, r.m) \ r.visited
    BY DEF Unvisited
  <2> HIDE DEF new, c, r
  <2> QED
    BY <2>3, <2>4, FS_Subset DEF Follows
<1>6. Follows(Known, C2, r.lc)
  <2>1. IsFiniteSet(r.C \ {c})
    BY <1>2, FS_Subset DEF Follows
  <2> HIDE DEF new, c, r
  <2> QED
    BY <1>2, <1>5, <2>1, FS_Union DEF Follows
<1>7. Follows(Known, W2, r.lc)
  <2> DEFINE U == r.W \cup members
  <2>1. Follows(Known, members, r.lc)
    <3>1. members \subseteq new
      OBVIOUS
    <3> HIDE DEF members, new, r
    <3> QED
      BY <1>5, <3>1, FS_Subset DEF Follows
  <2>2. Follows(Known, U, r.lc)
    <3> HIDE DEF members, r
    <3> QED
      BY <1>2, <2>1, FS_Union DEF Follows
  <2> HIDE DEF U
  <2>3. Chosen(Nearest(e, U, Efc), U, Efc)
    BY <1>0, <2>2, NearestChosen DEF Follows
  <2>4. IsFiniteSet(Range(Nearest(e, U, Efc))) /\ Range(Nearest(e, U, Efc)) \subseteq U
    BY <1>0, <2>3, ChosenRange
  <2> QED
    BY <2>2, <2>4 DEF Follows, U
<1> HIDE DEF C2, W2, new
<1>8. /\ q \in Locals /\ q.pc = "search" /\ q.tids = r.tids /\ q.m = r.m /\ q.C = C2 /\ q.W = W2
      /\ q.lc = r.lc /\ q.ep = r.ep /\ q.restricted = r.restricted /\ q.cands = r.cands
  <2>1. C2 \subseteq Elements /\ W2 \subseteq Elements /\ new \subseteq Elements
    BY <1>0, <1>5, <1>6, <1>7 DEF Follows
  <2>2. q = [r EXCEPT !.C = C2, !.visited = @ \cup new, !.expansions = @ + 1, !.W = W2]
    OBVIOUS
  <2>3. r.visited \cup new \subseteq Elements /\ r.expansions + 1 \in Nat
    BY <1>1, <2>1 DEF Locals
  <2> HIDE DEF q, r
  <2> QED
    BY <1>1, <2>1, <2>2, <2>3 DEF Locals
<1>9. Become(e, q) /\ UNCHANGED <<index, opt_m, meta, elements, nbr>>
      /\ inl' \in [Elements -> SlotArrays] /\ overlap' \in BOOLEAN
  BY <1>0 DEF Expand, PageInv, C2, W2, new
<1> HIDE DEF q, r
<1>10. Searching(index, Known, e, q)
  BY <1>1, <1>6, <1>7, <1>8 DEF Searching, Restricted
<1>11. Phase(index, Known, elements, nbr, e, q)
  BY <1>1, <1>8, <1>10 DEF Phase, Early, Reverse, Busy
<1> QED
  BY <1>8, <1>9, <1>11, LocalStep

-----------------------------------------------------------------------------
(* The selection of neighbours *)

(* k slots from `at` on are slots of layer l; nothing of S stands in it;   *)
(* between T and T2 some of these slots have got something of S.           *)
Room(o, x, l, at, k) == \A s \in at..(at + k - 1) : s \in Slots(o, x) /\ LayerOf(o, x, s) = l
Absent(o, x, l, T, S) == \A s \in Slots(o, x) : LayerOf(o, x, s) = l => T[s] \notin S
Filled(o, x, T, T2, at, k, S) ==
  \A s \in Slots(o, x) : T2[s] = T[s] \/ (s \in at..(at + k - 1) /\ T2[s] \in S)

(* Writing a selection to slots of a layer leaves the array sound, if what *)
(* is selected does not stand in the layer already.                        *)
LEMMA PutSound ==
  ASSUME SelectionAssumption, NEW o, NEW K \in SUBSET Elements,
         NEW x \in Elements, x \notin K, NEW T, Sound(o, K, x, T),
         NEW l, NEW S, NEW k \in Nat, NEW sel, Chosen(sel, S, k), Follows(K, S, l),
         NEW at \in Int, Room(o, x, l, at, k), Absent(o, x, l, T, S)
  PROVE  Sound(o, K, x, Put(T, at, sel)) /\ Filled(o, x, T, Put(T, at, sel), at, k, S)
<1> DEFINE D == Slots(o, x)
           P == Put(T, at, sel)
           R == at..(at + Len(sel) - 1)
<1>1. sel \in Seq(S) /\ Len(sel) \in Nat /\ Len(sel) <= k
      /\ \A i, j \in 1..Len(sel) : sel[i] = sel[j] => i = j
  BY DEF Chosen
<1>2. DOMAIN T = D /\ P = [s \in D |-> IF s \in R THEN sel[s - at + 1] ELSE T[s]]
  BY DEF Sound, Put
<1> HIDE DEF P
<1>3. \A s \in R : s \in at..(at + k - 1) /\ s - at + 1 \in 1..Len(sel)
  BY <1>1
<1>4. ASSUME NEW s \in R
      PROVE  s \in D /\ LayerOf(o, x, s) = l /\ P[s] = sel[s - at + 1] /\ P[s] \in S
  <2>1. s \in D /\ LayerOf(o, x, s) = l /\ s - at + 1 \in 1..Len(sel)
    BY <1>3 DEF Room
  <2>2. P[s] = sel[s - at + 1]
    BY <1>2, <2>1
  <2>3. sel[s - at + 1] \in S
    BY <1>1, <2>1
  <2> QED
    BY <2>1, <2>2, <2>3
<1>5. \A s \in D : s \notin R => P[s] = T[s]
  BY <1>2
<1>6. S \subseteq K /\ \A c \in S : l <= Level[c]
  BY DEF Follows
<1>7. P \in [D -> K \cup {None}]
  <2>1. \A s \in D : P[s] \in K \cup {None}
    BY <1>4, <1>5, <1>6 DEF Sound
  <2>2. DOMAIN P = D /\ P = [s \in D |-> P[s]]
    BY <1>2
  <2> HIDE DEF D, R
  <2> QED
    BY <2>1, <2>2
<1>8. ASSUME NEW s \in D, P[s] # None
      PROVE  P[s] # x /\ LayerOf(o, x, s) <= Level[P[s]]
  BY <1>4, <1>5, <1>6, <1>8 DEF Sound
<1>9. ASSUME NEW s \in D, NEW t \in D, P[s] # None, P[s] = P[t],
             LayerOf(o, x, s) = LayerOf(o, x, t)
      PROVE  s = t
  <2> HIDE DEF D, R
  <2>1. CASE s \in R /\ t \in R
    <3>1. s - at + 1 \in 1..Len(sel) /\ t - at + 1 \in 1..Len(sel)
          /\ sel[s - at + 1] = sel[t - at + 1]
      BY <1>3, <1>4, <1>9, <2>1
    <3>2. s - at + 1 = t - at + 1
      BY <1>1, <3>1
    <3>3. s \in Int /\ t \in Int
      BY <2>1 DEF R
    <3> QED
      BY <3>2, <3>3
  <2>2. CASE s \in R /\ t \notin R
    BY <1>4, <1>5, <1>9, <2>2 DEF D, Absent
  <2>3. CASE s \notin R /\ t \in R
    BY <1>4, <1>5, <1>9, <2>3 DEF D, Absent
  <2>4. CASE s \notin R /\ t \notin R
    BY <1>5, <1>9, <2>4 DEF D, Sound
  <2> QED
    BY <2>1, <2>2, <2>3, <2>4
<1>10. Sound(o, K, x, P)
  BY <1>7, <1>8, <1>9 DEF Sound
<1>11. \A s \in D : P[s] = T[s] \/ (s \in at..(at + k - 1) /\ P[s] \in S)
  <2> HIDE DEF R, D
  <2> QED
    BY <1>3, <1>4, <1>5
<1> QED
  BY <1>10, <1>11 DEF P, Filled

(* Either way of selecting chooses at most k of the candidates. *)
LEMMA SelectChosen ==
  ASSUME SelectionAssumption, NEW e \in Elements, NEW K \in SUBSET Elements,
         NEW l, NEW S, Follows(K, S, l), NEW k \in Nat
  PROVE  Chosen(Select(e, S, k), S, k)
<1>1. S \in SUBSET Elements /\ IsFiniteSet(S)
  BY DEF Follows
<1> QED
  BY <1>1, NearestChosen, DiverseChosen DEF Select

(* Layer 0: the global half and the payload half. *)
LEMMA Bottom ==
  ASSUME SelectionAssumption, NEW o, Layout(o), NEW x \in Elements
  PROVE  /\ Base(o, x) \in Nat /\ o.m \in Nat \ {0} /\ o.payload_m \in Nat
         /\ \A s \in Base(o, x)..(Base(o, x) + o.m + o.payload_m - 1) :
              s \in Slots(o, x) /\ LayerOf(o, x, s) = 0
         /\ \A s \in Slots(o, x) : s >= Base(o, x) =>
              s \in Base(o, x)..(Base(o, x) + o.m + o.payload_m - 1)
         /\ NeighborStart(o.m, Level[x], 0) = Base(o, x)
<1>1. Level[x] \in Nat /\ Base(o, x) \in Nat /\ o.m \in Nat \ {0} /\ o.payload_m \in Nat
  BY Geometry DEF Layout
<1>2. (Level[x] - 0) * o.m = Base(o, x)
  BY <1>1 DEF Base
<1>3. LayerAt(o, x, 0) = Base(o, x)..(Base(o, x) + o.m + o.payload_m - 1)
  <2>1. Base(o, x) + (o.m + o.payload_m) - 1 = Base(o, x) + o.m + o.payload_m - 1
    BY <1>1
  <2> QED
    BY <1>2, <2>1 DEF LayerAt, Width
<1>4. 0 \in 0..Level[x]
  BY <1>1
<1>5. \A s \in Slots(o, x) : s >= Base(o, x) => LayerOf(o, x, s) = 0
  BY DEF LayerOf
<1>6. \A s \in Slots(o, x) : s \in LayerAt(o, x, LayerOf(o, x, s))
  BY Geometry
<1>7. \A s \in LayerAt(o, x, 0) : s \in Slots(o, x) /\ LayerOf(o, x, s) = 0
  BY <1>4, Geometry
<1>8. NeighborStart(o.m, Level[x], 0) = Base(o, x)
  BY <1>2 DEF NeighborStart
<1>9. \A s \in Slots(o, x) : s >= Base(o, x) => s \in LayerAt(o, x, 0)
  BY <1>5, <1>6
<1> QED
  BY <1>1, <1>3, <1>7, <1>8, <1>9

(* The slots of a layer take what the search of the layer found. *)
LEMMA SelectLayerStep ==
  ASSUME SelectionAssumption, InsertAssumption, LInv, NEW e \in Elements, SelectLayer(e)
  PROVE  LInv'
<1> DEFINE r == ins[e]
           at == NeighborStart(r.m, Level[e], r.lc)
           k == LayerM(r.lc, r.m)
           sel == Select(e, r.W, k)
           T == Put(r.tids, at, sel)
           r2 == [r EXCEPT !.tids = T]
           q == BelowLayer(e, r2, r.W)
<1>0. PageInv /\ Layout(index) /\ Known \in SUBSET Elements /\ None \notin Known /\ Known \subseteq elements
  BY Basics DEF LInv
<1>1. r \in Locals /\ r.pc = "search" /\ e \notin elements /\ e \notin Known
      /\ r.m = index.m /\ Sound(index, Known, e, r.tids) /\ Searching(index, Known, e, r)
  BY <1>0 DEF SelectLayer, LInv, PageInv, Phase, Early, Busy
<1>2. /\ Follows(Known, r.W, r.lc) /\ r.lc \in 0..Level[e] /\ r.ep \in Known /\ r.lc <= Level[r.ep]
      /\ \A s \in Slots(index, e) : LayerOf(index, e, s) <= r.lc => r.tids[s] = None
  BY <1>1 DEF Searching, SelectLayer
<1>3. Level[e] \in Nat /\ index.m \in Nat \ {0} /\ index.payload_m \in Nat /\ r.lc \in Nat
  BY <1>0, <1>2 DEF SelectionAssumption, Layout
<1>4. k \in Nat /\ k = Width(index, r.lc)
  BY <1>1, <1>3 DEF LayerM, Width
<1>5. at \in Int /\ at..(at + k - 1) = LayerAt(index, e, r.lc)
  <2>1. at = (Level[e] - r.lc) * index.m
    BY <1>1 DEF NeighborStart
  <2>2. (Level[e] - r.lc) * index.m \in Int
    BY <1>3
  <2> HIDE DEF at, k
  <2> QED
    BY <1>4, <2>1, <2>2 DEF LayerAt
<1>6. Room(index, e, r.lc, at, k)
  <2> SUFFICES ASSUME NEW s \in LayerAt(index, e, r.lc)
               PROVE  s \in Slots(index, e) /\ LayerOf(index, e, s) = r.lc
    BY <1>5 DEF Room
  <2> HIDE DEF r
  <2> QED
    BY <1>0, <1>2, Geometry
<1>7. Chosen(sel, r.W, k)
  <2> HIDE DEF k, r
  <2> QED
    BY <1>0, <1>2, <1>4, SelectChosen
<1>8. Absent(index, e, r.lc, r.tids, r.W)
  <2> HIDE DEF r
  <2> QED
    BY <1>0, <1>2, <1>3 DEF Follows, Absent
<1>9. Sound(index, Known, e, T) /\ Filled(index, e, r.tids, T, at, k, r.W)
  <2> HIDE DEF k, r, at, sel
  <2> QED
    BY <1>0, <1>1, <1>2, <1>4, <1>5, <1>6, <1>7, <1>8, PutSound
<1>10. /\ r2 \in Locals /\ r2.m = r.m /\ r2.tids = T /\ r2.ep = r.ep /\ r2.lc = r.lc
  <2>1. T \in SlotArrays
    <3> HIDE DEF T
    <3> QED
      BY <1>0, <1>9, SoundArray
  <2> HIDE DEF T, r
  <2> QED
    BY <1>1, <2>1 DEF Locals
<1>11. \A s \in Slots(index, e) : LayerOf(index, e, s) < r.lc => T[s] = None
  <2> SUFFICES ASSUME NEW s \in Slots(index, e), LayerOf(index, e, s) < r.lc PROVE T[s] = None
    OBVIOUS
  <2>1. LayerOf(index, e, s) \in Int
    BY <1>0, Geometry
  <2> HIDE DEF T, r, at, k
  <2> QED
    BY <1>2, <1>3, <1>6, <1>9, <2>1 DEF Room, Filled
<1>12. q \in Locals /\ q.pc \in {"search", "neighbors"} /\ Phase(index, Known, elements, nbr, e, q)
  <2> DEFINE W == r.W
  <2>1. r2.m = index.m /\ r2.ep \in Known /\ r2.lc \in 0..Level[e] /\ r2.lc <= Level[r2.ep]
        /\ Sound(index, Known, e, r2.tids) /\ Follows(Known, W, r2.lc)
    BY <1>1, <1>2, <1>9, <1>10
  <2>2. r2.lc # 0 => \A s \in Slots(index, e) : LayerOf(index, e, s) < r2.lc => r2.tids[s] = None
    BY <1>10, <1>11
  <2> HIDE DEF r2, W
  <2>3. BelowLayer(e, r2, W) \in Locals /\ BelowLayer(e, r2, W).pc \in {"search", "neighbors"}
        /\ Phase(index, Known, elements, nbr, e, BelowLayer(e, r2, W))
    BY <1>0, <1>1, <1>10, <2>1, <2>2, BelowPhase
  <2> QED
    BY <2>3 DEF W
<1>13. Become(e, q) /\ UNCHANGED <<index, opt_m, meta, elements, nbr>>
      /\ inl' \in [Elements -> SlotArrays] /\ overlap' \in BOOLEAN
  BY <1>0 DEF SelectLayer, PageInv
<1> HIDE DEF q
<1> QED
  BY <1>12, <1>13, LocalStep

(* With payload edges the first m slots of layer 0 take what the search    *)
(* found, and the rest stay empty for the members of the partition.        *)
LEMMA SelectGlobalHalfStep ==
  ASSUME SelectionAssumption, InsertAssumption, LInv, NEW e \in Elements, SelectGlobalHalf(e)
  PROVE  LInv'
<1> DEFINE r == ins[e]
           at == Start0(e)
           k == r.m
           W == r.W
           sel == Select(e, W, k)
           T == Put(r.tids, at, sel)
           r2 == [r EXCEPT !.tids = T, !.cands = W]
           q == Search(e, r2, r.ep, 0, TRUE)
<1>0. PageInv /\ Layout(index) /\ Known \in SUBSET Elements /\ None \notin Known /\ Known \subseteq elements
  BY Basics DEF LInv
<1>1. r \in Locals /\ r.pc = "search" /\ e \notin elements /\ e \notin Known
      /\ r.m = index.m /\ Sound(index, Known, e, r.tids) /\ Searching(index, Known, e, r)
  BY <1>0 DEF SelectGlobalHalf, LInv, PageInv, Phase, Early, Busy
<1>2. /\ r.lc = 0 /\ index.payload_edges /\ Follows(Known, W, 0) /\ r.ep \in Known /\ 0 <= Level[r.ep]
      /\ \A s \in Slots(index, e) : LayerOf(index, e, s) <= 0 => r.tids[s] = None
  BY <1>1 DEF Searching, SelectGlobalHalf
<1>3. /\ Base(index, e) \in Nat /\ index.m \in Nat \ {0} /\ index.payload_m \in Nat
      /\ \A s \in Base(index, e)..(Base(index, e) + index.m + index.payload_m - 1) :
           s \in Slots(index, e) /\ LayerOf(index, e, s) = 0
      /\ \A s \in Slots(index, e) : s >= Base(index, e) =>
           s \in Base(index, e)..(Base(index, e) + index.m + index.payload_m - 1)
      /\ at = Base(index, e)
  BY <1>0, <1>1, Bottom DEF Start0
<1>4. Room(index, e, 0, at, k) /\ at \in Int /\ k \in Nat /\ Level[e] \in Nat
  <2>1. \A s \in at..(at + k - 1) :
          s \in Base(index, e)..(Base(index, e) + index.m + index.payload_m - 1)
    <3> HIDE DEF at, r
    <3> QED
      BY <1>1, <1>3
  <2> HIDE DEF at, r
  <2> QED
    BY <1>1, <1>3, <2>1 DEF Room, SelectionAssumption
<1>5. Chosen(sel, W, k)
  <2> HIDE DEF W, r
  <2> QED
    BY <1>0, <1>2, <1>4, SelectChosen
<1>6. Absent(index, e, 0, r.tids, W)
  <2> HIDE DEF W, r
  <2> QED
    BY <1>0, <1>2 DEF Follows, Absent
<1>7. Sound(index, Known, e, T) /\ Filled(index, e, r.tids, T, at, k, W)
  <2> HIDE DEF k, r, at, sel, W
  <2> QED
    BY <1>0, <1>1, <1>2, <1>4, <1>5, <1>6, PutSound
<1>8. r2 \in Locals /\ r2.m = r.m /\ r2.tids = T /\ r2.cands = W
  <2>1. T \in SlotArrays
    <3> HIDE DEF T
    <3> QED
      BY <1>0, <1>7, SoundArray
  <2>2. W \in SUBSET Elements
    BY <1>1 DEF Locals
  <2> HIDE DEF T, W, r
  <2> QED
    BY <1>1, <2>1, <2>2 DEF Locals
<1>9. \A s \in Slots(index, e) : s >= Base(index, e) + index.m => T[s] = None
  <2> SUFFICES ASSUME NEW s \in Slots(index, e), s >= Base(index, e) + index.m PROVE T[s] = None
    OBVIOUS
  <2>1. s \in Int
    BY <1>3 DEF Slots
  <2>2. LayerOf(index, e, s) = 0
    BY <1>3, <2>1 DEF LayerOf
  <2>3. s \notin at..(at + k - 1)
    <3> HIDE DEF at, r
    <3> QED
      BY <1>1, <1>3, <2>1
  <2> HIDE DEF T, r, at, k
  <2> QED
    BY <1>2, <1>7, <2>2, <2>3 DEF Filled
<1>10. q \in Locals /\ q.pc = "search" /\ Phase(index, Known, elements, nbr, e, q)
  <2>1. /\ r2.m = index.m /\ Sound(index, Known, e, r2.tids) /\ Follows(Known, r2.cands, 0)
        /\ \A s \in Slots(index, e) : s >= Base(index, e) + index.m => r2.tids[s] = None
    BY <1>1, <1>2, <1>7, <1>8, <1>9
  <2>2. 0 \in 0..Level[e] /\ TRUE \in BOOLEAN /\ e \notin elements
    BY <1>1, <1>4
  <2> DEFINE ep == r.ep
  <2>3. ep \in Known /\ 0 <= Level[ep]
    BY <1>2
  <2> HIDE DEF r2, ep
  <2>4. Restricted(index, Known, e, r2, 0)
    BY <1>2, <2>1 DEF Restricted
  <2>5. Search(e, r2, ep, 0, TRUE) \in Locals /\ Search(e, r2, ep, 0, TRUE).pc = "search"
        /\ Phase(index, Known, elements, nbr, e, Search(e, r2, ep, 0, TRUE))
    BY <1>0, <1>8, <2>1, <2>2, <2>3, <2>4, SearchPhase
  <2> QED
    BY <2>5 DEF ep
<1>11. Become(e, q) /\ UNCHANGED <<index, opt_m, meta, elements, nbr>>
      /\ inl' \in [Elements -> SlotArrays] /\ overlap' \in BOOLEAN
  BY <1>0 DEF SelectGlobalHalf, PageInv
<1> HIDE DEF q
<1> QED
  BY <1>10, <1>11, LocalStep

(* What is chosen from fewer candidates is chosen from more. *)
LEMMA ChosenMore ==
  ASSUME NEW S, NEW S2, S \subseteq S2, NEW k, NEW sel, Chosen(sel, S, k)
  PROVE  Chosen(sel, S2, k)
<1>1. sel \in Seq(S) /\ sel = [i \in 1..Len(sel) |-> sel[i]] /\ Len(sel) \in Nat
  BY DEF Chosen
<1>2. sel \in Seq(S2)
  <2>1. \A i \in 1..Len(sel) : sel[i] \in S2
    BY <1>1
  <2>2. sel \in [1..Len(sel) -> S2]
    BY <1>1, <2>1
  <2> QED
    BY <1>1, <2>2, SeqDef
<1> QED
  BY <1>2 DEF Chosen

(* The payload half takes members of the partition, then leftovers, none   *)
(* of which the global half has.                                           *)
LEMMA SelectPayloadHalfStep ==
  ASSUME SelectionAssumption, InsertAssumption, LInv, NEW e \in Elements, SelectPayloadHalf(e)
  PROVE  LInv'
<1> DEFINE r == ins[e]
           at == Start0(e) + r.m
           k == index.payload_m
           W == r.W
           G == GlobalHalf(e)
           S == (W \cup r.cands) \ G
           psel == Select(e, PayloadCands(e), k)
           rest == r.cands \ (G \cup Range(psel))
           more == Backfill(e, psel)
           sel == psel \o more
           T == Put(r.tids, at, sel)
           r2 == [r EXCEPT !.tids = T, !.payload_real = Len(psel)]
           q == BelowLayer(e, r2, r.cands)
<1>0. PageInv /\ Layout(index) /\ Known \in SUBSET Elements /\ None \notin Known /\ Known \subseteq elements
  BY Basics DEF LInv
<1>1. r \in Locals /\ r.pc = "search" /\ e \notin elements /\ e \notin Known
      /\ r.m = index.m /\ Sound(index, Known, e, r.tids) /\ Searching(index, Known, e, r)
  BY <1>0 DEF SelectPayloadHalf, LInv, PageInv, Phase, Early, Busy
<1>2. /\ r.lc = 0 /\ Follows(Known, W, 0) /\ Follows(Known, r.cands, 0)
      /\ r.ep \in Known /\ 0 <= Level[r.ep]
      /\ \A s \in Slots(index, e) : s >= Base(index, e) + index.m => r.tids[s] = None
  BY <1>1 DEF Searching, Restricted, SelectPayloadHalf
<1>3. /\ Base(index, e) \in Nat /\ index.m \in Nat \ {0} /\ index.payload_m \in Nat
      /\ \A s \in Base(index, e)..(Base(index, e) + index.m + index.payload_m - 1) :
           s \in Slots(index, e) /\ LayerOf(index, e, s) = 0
      /\ \A s \in Slots(index, e) : s >= Base(index, e) =>
           s \in Base(index, e)..(Base(index, e) + index.m + index.payload_m - 1)
      /\ Start0(e) = Base(index, e)
  BY <1>0, <1>1, Bottom DEF Start0
<1>4. Room(index, e, 0, at, k) /\ at \in Int /\ k \in Nat /\ Level[e] \in Nat
  <2>1. \A s \in at..(at + k - 1) :
          s \in Base(index, e)..(Base(index, e) + index.m + index.payload_m - 1)
    <3> HIDE DEF r
    <3> QED
      BY <1>1, <1>3
  <2> HIDE DEF r
  <2> QED
    BY <1>1, <1>3, <2>1 DEF Room, SelectionAssumption
<1>5. Follows(Known, PayloadCands(e), 0) /\ PayloadCands(e) \subseteq S
  <2>1. PayloadCands(e) = W \ G
    BY DEF PayloadCands
  <2> HIDE DEF W, G, r
  <2> QED
    BY <1>2, <2>1, FS_Subset DEF Follows
<1>6. Chosen(psel, PayloadCands(e), k)
  <2> HIDE DEF r
  <2> QED
    BY <1>0, <1>4, <1>5, SelectChosen
<1>7. Chosen(psel, S, k) /\ Len(psel) \in Nat /\ Len(psel) <= k /\ DOMAIN psel = 1..Len(psel)
  <2> HIDE DEF psel, S
  <2>1. Chosen(psel, S, k)
    BY <1>5, <1>6, ChosenMore
  <2> QED
    BY <1>4, <2>1 DEF Chosen
<1>8. Chosen(more, rest, k - Len(psel))
  <2>1. rest \in SUBSET Elements /\ IsFiniteSet(rest)
    <3> HIDE DEF psel, G, r
    <3> QED
      BY <1>0, <1>2, FS_Subset DEF Follows
  <2>2. more = Nearest(e, rest, k - Len(psel))
    BY DEF Backfill
  <2>3. k - Len(psel) \in Nat
    BY <1>4, <1>7
  <2> HIDE DEF rest, psel, more, k
  <2> QED
    BY <2>1, <2>2, <2>3, NearestChosen
<1>9. Chosen(sel, S, k)
  <2>1. Chosen(more, S, k - Len(psel)) /\ k - Len(psel) \in Nat
    <3>1. rest \subseteq S
      OBVIOUS
    <3> HIDE DEF rest, psel, more, S, k
    <3> QED
      BY <1>4, <1>7, <1>8, <3>1, ChosenMore
  <2>2. \A i \in 1..Len(psel), j \in 1..Len(more) : psel[i] # more[j]
    <3>1. \A i \in 1..Len(psel) : psel[i] \in Range(psel)
      <4> HIDE DEF psel
      <4> QED
        BY <1>7 DEF Range
    <3>2. \A j \in 1..Len(more) : more[j] \in rest
      <4> HIDE DEF more, rest
      <4> QED
        BY <1>8 DEF Chosen
    <3> HIDE DEF psel, more
    <3> QED
      BY <3>1, <3>2
  <2>3. Len(psel) + (k - Len(psel)) = k
    BY <1>4, <1>7
  <2> DEFINE d == k - Len(psel)
  <2> HIDE DEF psel, more, S, d
  <2>4. Chosen(psel \o more, S, Len(psel) + d)
    BY <1>4, <1>7, <2>1, <2>2, Joined DEF d
  <2> QED
    BY <2>3, <2>4 DEF d
<1>10. Absent(index, e, 0, r.tids, S)
  <2> SUFFICES ASSUME NEW s \in Slots(index, e), LayerOf(index, e, s) = 0
               PROVE  r.tids[s] \notin S
    BY DEF Absent
  <2>1. s \in Int /\ s >= Base(index, e)
    <3>1. LayerOf(index, e, s) \in 0..Level[e] /\ s \in LayerAt(index, e, LayerOf(index, e, s))
      BY <1>0, Geometry
    <3>2. s \in LayerAt(index, e, 0)
      BY <3>1
    <3>3. (Level[e] - 0) * index.m = Base(index, e)
      BY <1>4 DEF Base
    <3> QED
      BY <1>3, <3>2, <3>3 DEF LayerAt, Width
  <2>2. CASE s >= Base(index, e) + index.m
    <3>1. r.tids[s] = None /\ S \subseteq Known
      <4>1. S \subseteq W \cup r.cands
        OBVIOUS
      <4> HIDE DEF S, W, r
      <4> QED
        BY <1>2, <2>2, <4>1 DEF Follows
    <3> HIDE DEF S, r
    <3> QED
      BY <1>0, <3>1
  <2>3. CASE s < Base(index, e) + index.m
    <3>1. s \in Start0(e)..(Start0(e) + r.m - 1)
      <4> HIDE DEF r
      <4> QED
        BY <1>1, <1>3, <2>1, <2>3
    <3>2. r.tids[s] \in G \cup {None}
      BY <3>1 DEF GlobalHalf
    <3>3. None \notin S /\ S \cap G = {}
      <4>1. None \notin W /\ None \notin r.cands
        <5> HIDE DEF W, r
        <5> QED
          BY <1>0, <1>2 DEF Follows
      <4> HIDE DEF W, G, r
      <4> QED
        BY <4>1
    <3> HIDE DEF S, G, r
    <3> QED
      BY <3>2, <3>3
  <2> QED
    BY <1>3, <2>1, <2>2, <2>3
<1>11. Follows(Known, S, 0)
  <2> HIDE DEF W, G, r
  <2>1. IsFiniteSet(W \cup r.cands)
    BY <1>2, FS_Union DEF Follows
  <2> QED
    BY <1>2, <2>1, FS_Subset DEF Follows
<1>12. Sound(index, Known, e, T)
  <2> HIDE DEF k, r, at, sel, S
  <2> QED
    BY <1>0, <1>1, <1>4, <1>9, <1>10, <1>11, PutSound
<1>13. r2 \in Locals /\ r2.m = r.m /\ r2.tids = T /\ r2.ep = r.ep /\ r2.lc = r.lc
  <2>1. T \in SlotArrays
    <3> HIDE DEF T
    <3> QED
      BY <1>0, <1>12, SoundArray
  <2> DEFINE len == Len(psel)
  <2>2. len \in Nat
    BY <1>7
  <2>3. r2 = [r EXCEPT !.tids = T, !.payload_real = len]
    OBVIOUS
  <2> HIDE DEF T, r, len, r2
  <2> QED
    BY <1>1, <2>1, <2>2, <2>3 DEF Locals
<1>14. q \in Locals /\ q.pc \in {"search", "neighbors"} /\ Phase(index, Known, elements, nbr, e, q)
  <2> DEFINE C == r.cands
  <2>1. r2.m = index.m /\ r2.ep \in Known /\ r2.lc \in 0..Level[e] /\ r2.lc <= Level[r2.ep]
        /\ Sound(index, Known, e, r2.tids) /\ Follows(Known, C, r2.lc) /\ r2.lc = 0
    BY <1>1, <1>2, <1>4, <1>12, <1>13
  <2> HIDE DEF r2, C
  <2>2. BelowLayer(e, r2, C) \in Locals /\ BelowLayer(e, r2, C).pc \in {"search", "neighbors"}
        /\ Phase(index, Known, elements, nbr, e, BelowLayer(e, r2, C))
    BY <1>0, <1>1, <1>13, <2>1, BelowPhase
  <2> QED
    BY <2>2 DEF C
<1>15. Become(e, q) /\ UNCHANGED <<index, opt_m, meta, elements, nbr>>
      /\ inl' \in [Elements -> SlotArrays] /\ overlap' \in BOOLEAN
  BY <1>0 DEF SelectPayloadHalf, PageInv
<1> HIDE DEF q
<1> QED
  BY <1>14, <1>15, LocalStep

-----------------------------------------------------------------------------
(* Steps that write the new element's tuples *)

(* A sound array has slots. *)
LEMMA NotBlank ==
  ASSUME SelectionAssumption, NEW o, Layout(o), NEW K, NEW x \in Elements, NEW T, Sound(o, K, x, T)
  PROVE  T # <<>>
<1>1. 0 \in Slots(o, x)
  <2>1. Level[x] \in Nat /\ o.m \in Nat \ {0} /\ o.payload_m \in Nat /\ Base(o, x) \in Nat
    BY Geometry DEF Layout
  <2>2. (Level[x] + 1) * o.m = Base(o, x) + o.m
    BY <2>1 DEF Base
  <2> QED
    BY <2>1, <2>2 DEF Slots
<1>2. 0 \in DOMAIN T
  BY <1>1 DEF Sound
<1>3. DOMAIN <<>> = {}
  OBVIOUS
<1> QED
  BY <1>2, <1>3

(* The neighbour tuple is written where nobody looks yet. *)
LEMMA WriteNeighborTupleStep ==
  ASSUME SelectionAssumption, InsertAssumption, LInv, NEW e \in Elements, WriteNeighborTuple(e)
  PROVE  LInv'
<1> DEFINE r == ins[e]
           q == [r EXCEPT !.pc = "element"]
           layer0 == 0..(LayerM(0, r.m) - 1)
           I == [j \in layer0 |-> r.tids[Start0(e) + j]]
<1>0. PageInv /\ Layout(index) /\ Known \in SUBSET Elements /\ None \notin Known /\ Known \subseteq elements
  BY Basics DEF LInv
<1>1. r \in Locals /\ r.pc = "neighbors" /\ e \notin elements /\ e \notin Known
  BY <1>0 DEF WriteNeighborTuple, LInv, PageInv, Phase, Early
<1>2. r.m = index.m /\ Sound(index, Known, e, r.tids)
  BY <1>0, <1>1 DEF LInv, Phase, Early, Busy
<1>3. q \in Locals /\ q.pc = "element" /\ q.tids = r.tids /\ q.m = r.m
  <2> HIDE DEF r
  <2> QED
    BY <1>1 DEF Locals, States
<1>4. /\ ins' = [ins EXCEPT ![e] = q] /\ nbr' = [nbr EXCEPT ![e] = r.tids]
      /\ inl' = IF index.inline THEN [inl EXCEPT ![e] = I] ELSE inl
      /\ UNCHANGED <<index, opt_m, meta, elements, overlap>>
  BY DEF WriteNeighborTuple, Become
<1>5. /\ ins' \in [Elements -> Locals] /\ ins'[e] = q
      /\ \A x \in Elements \ {e} : ins'[x] = ins[x]
      /\ DOMAIN nbr' = Elements /\ nbr'[e] = r.tids
      /\ \A x \in Elements \ {e} : nbr'[x] = nbr[x]
  <2> HIDE DEF q
  <2> QED
    BY <1>0, <1>3, <1>4 DEF PageInv
<1>6. Known' = Known
  BY <1>0, <1>1, <1>4, <1>5 DEF Known
<1>7. inl' \in [Elements -> SlotArrays]
  <2>1. I \in SlotArrays
    <3>1. /\ Base(index, e) \in Nat /\ index.m \in Nat \ {0} /\ index.payload_m \in Nat
          /\ \A s \in Base(index, e)..(Base(index, e) + index.m + index.payload_m - 1) :
               s \in Slots(index, e)
          /\ Start0(e) = Base(index, e)
      BY <1>0, <1>2, Bottom DEF Start0
    <3>2. layer0 = 0..(index.m + index.payload_m - 1)
      <4> DEFINE w == LayerM(0, r.m)
      <4>1. w = index.m + index.payload_m
        BY <1>2 DEF LayerM
      <4> HIDE DEF w
      <4>2. 0..(w - 1) = 0..(index.m + index.payload_m - 1)
        BY <3>1, <4>1
      <4> QED
        BY <4>2 DEF w
    <3>3. ASSUME NEW j \in layer0 PROVE r.tids[Start0(e) + j] \in Elements \cup {None}
      <4>1. Start0(e) + j \in Base(index, e)..(Base(index, e) + index.m + index.payload_m - 1)
        <5> HIDE DEF layer0
        <5> QED
          BY <3>1, <3>2
      <4>2. Start0(e) + j \in Slots(index, e)
        BY <3>1, <4>1
      <4> HIDE DEF r
      <4> QED
        BY <1>0, <1>2, <4>2 DEF Sound
    <3>4. layer0 \in SUBSET Nat
      BY <3>2
    <3>5. I \in [layer0 -> Elements \cup {None}]
      <4> HIDE DEF layer0
      <4> QED
        BY <3>3
    <3> HIDE DEF layer0, I
    <3> QED
      BY <3>4, <3>5 DEF SlotArrays
  <2> HIDE DEF I
  <2> QED
    BY <1>0, <1>4, <2>1 DEF PageInv
<1> HIDE DEF q, r
<1>8. PageInv'
  <2>1. \A x \in Elements : nbr'[x] = <<>> \/ Sound(index, Known, x, nbr'[x])
    BY <1>0, <1>2, <1>5 DEF PageInv
  <2>2. \A x \in elements : nbr'[x] # <<>>
    BY <1>0, <1>1, <1>5 DEF PageInv
  <2> QED
    BY <1>0, <1>4, <1>5, <1>6, <1>7, <2>1, <2>2 DEF PageInv
<1>9. ASSUME NEW x \in Elements
      PROVE  Phase(index, Known, elements, nbr', x, ins'[x])
  <2>1. CASE x = e
    <3>1. nbr'[e] # <<>>
      BY <1>0, <1>2, <1>5, NotBlank
    <3>2. Phase(index, Known, elements, nbr', e, q)
      BY <1>1, <1>2, <1>3, <3>1 DEF Phase, Early, Reverse, Busy
    <3> QED
      BY <1>5, <2>1, <3>2
  <2>2. CASE x # e
    <3>1. Phase(index, Known, elements, nbr, x, ins[x])
      BY DEF LInv
    <3>2. \A y \in Known : nbr'[y] = nbr[y]
      BY <1>0, <1>1, <1>5
    <3>3. nbr'[x] = nbr[x]
      BY <1>5, <2>2
    <3>4. Phase(index, Known, elements, nbr', x, ins[x])
      BY <3>1, <3>2, <3>3, PhaseKept
    <3> QED
      BY <1>5, <2>2, <3>4
  <2> QED
    BY <2>1, <2>2
<1> QED
  BY <1>4, <1>6, <1>8, <1>9 DEF LInv

(* The element tuple comes after its neighbour tuple. *)
LEMMA WriteElementTupleStep ==
  ASSUME SelectionAssumption, InsertAssumption, LInv, NEW e \in Elements, WriteElementTuple(e)
  PROVE  LInv'
<1> DEFINE r == ins[e]
           q == [r EXCEPT !.pc = "entry"]
<1>0. PageInv /\ Layout(index) /\ Known \in SUBSET Elements /\ None \notin Known /\ Known \subseteq elements
  BY Basics DEF LInv
<1>1. r \in Locals /\ r.pc = "element" /\ e \notin elements /\ e \notin Known
  BY <1>0 DEF WriteElementTuple, LInv, PageInv, Phase, Early
<1>2. r.m = index.m /\ Sound(index, Known, e, r.tids) /\ nbr[e] # <<>>
  BY <1>0, <1>1 DEF LInv, Phase, Early, Busy
<1>3. q \in Locals /\ q.pc = "entry" /\ q.tids = r.tids /\ q.m = r.m
  <2> HIDE DEF r
  <2> QED
    BY <1>1 DEF Locals, States
<1>4. /\ ins' = [ins EXCEPT ![e] = q] /\ elements' = elements \cup {e}
      /\ UNCHANGED <<index, opt_m, meta, nbr, inl, overlap>>
  BY DEF WriteElementTuple, Become
<1>5. /\ ins' \in [Elements -> Locals] /\ ins'[e] = q
      /\ \A x \in Elements \ {e} : ins'[x] = ins[x]
  <2> HIDE DEF q
  <2> QED
    BY <1>0, <1>3, <1>4 DEF PageInv
<1> HIDE DEF q, r
<1>6. Known' = Known
  BY <1>0, <1>1, <1>3, <1>4, <1>5 DEF Known, PageInv
<1>7. PageInv'
  <2>1. \A x \in elements' : nbr[x] # <<>>
    BY <1>0, <1>2, <1>4 DEF PageInv
  <2>2. elements' \subseteq Elements
    BY <1>0, <1>4 DEF PageInv
  <2> QED
    BY <1>0, <1>4, <1>5, <1>6, <2>1, <2>2 DEF PageInv
<1>8. ASSUME NEW x \in Elements
      PROVE  Phase(index, Known, elements', nbr, x, ins'[x])
  <2>1. CASE x = e
    <3>1. Phase(index, Known, elements', nbr, e, q)
      BY <1>2, <1>3, <1>4 DEF Phase, Early, Reverse, Busy
    <3> QED
      BY <1>5, <2>1, <3>1
  <2>2. CASE x # e
    <3>1. Phase(index, Known, elements, nbr, x, ins[x])
      BY DEF LInv
    <3>2. elements \subseteq elements' /\ (x \in elements' => x \in elements)
      BY <1>4, <2>2
    <3>3. Phase(index, Known, elements', nbr, x, ins[x])
      BY <3>1, <3>2, PhaseKept
    <3> QED
      BY <1>5, <2>2, <3>3
  <2> QED
    BY <2>1, <2>2
<1> QED
  BY <1>4, <1>6, <1>7, <1>8 DEF LInv

(* After its turn at the meta page the element may be come across.  No     *)
(* list names it yet.                                                      *)
LEMMA MaybeUpdateEntryStep ==
  ASSUME SelectionAssumption, InsertAssumption, LInv, NEW e \in Elements, MaybeUpdateEntry(e)
  PROVE  LInv'
<1> DEFINE r == ins[e]
           todo == ReverseSlots(e)
           q == [r EXCEPT !.pc = "reverse", !.todo = todo]
<1>0. PageInv /\ Layout(index) /\ Known \in SUBSET Elements /\ None \notin Known /\ Known \subseteq elements
      /\ \A x \in Known : Sound(index, Known, x, nbr[x])
  BY Basics DEF LInv
<1>1. r \in Locals /\ r.pc = "entry" /\ e \in elements /\ e \notin Known
  BY DEF MaybeUpdateEntry, LInv, PageInv, Phase, Known
<1>2. r.m = index.m /\ Sound(index, Known, e, r.tids)
  BY <1>0, <1>1 DEF LInv, Phase, Busy
<1>3. \A s \in todo : s \in Slots(index, e) /\ r.tids[s] # None
  <2>1. DOMAIN r.tids = Slots(index, e)
    BY <1>2 DEF Sound
  <2> QED
    BY <2>1 DEF ReverseSlots
<1>4. q \in Locals /\ q.pc = "reverse" /\ q.tids = r.tids /\ q.m = r.m /\ q.todo = todo
  <2>1. todo \in SUBSET Nat
    <3> HIDE DEF todo
    <3> QED
      BY <1>3 DEF Slots
  <2> HIDE DEF r, todo
  <2> QED
    BY <1>1, <2>1 DEF Locals, States
<1>5. /\ ins' = [ins EXCEPT ![e] = q]
      /\ meta' = IF Raises(e) THEN [entry |-> e, level |-> Level[e]] ELSE meta
      /\ UNCHANGED <<index, opt_m, elements, nbr, inl, overlap>>
  BY DEF MaybeUpdateEntry, Become
<1>6. /\ ins' \in [Elements -> Locals] /\ ins'[e] = q
      /\ \A x \in Elements \ {e} : ins'[x] = ins[x]
  <2> HIDE DEF q
  <2> QED
    BY <1>0, <1>4, <1>5 DEF PageInv
<1> HIDE DEF q, r, todo
<1>7. Known' = Known \cup {e}
  BY <1>0, <1>1, <1>4, <1>5, <1>6 DEF Known, PageInv
<1>8. PageInv'
  <2>1. \A x \in Elements : nbr[x] = <<>> \/ Sound(index, Known', x, nbr[x])
    <3>1. Known \subseteq Known'
      BY <1>7
    <3> QED
      BY <1>0, <3>1, SoundMore DEF PageInv
  <2>2. meta' \in [entry : Known' \cup {None}, level : Nat \cup {-1}]
        /\ (meta'.entry # None => meta'.level = Level[meta'.entry])
    BY <1>0, <1>5, <1>7 DEF PageInv, SelectionAssumption
  <2> QED
    BY <1>0, <1>5, <1>6, <2>1, <2>2 DEF PageInv
<1>9. ASSUME NEW x \in Elements
      PROVE  Phase(index, Known', elements, nbr, x, ins'[x])
  <2>1. CASE x = e
    <3>1. Sound(index, Known', e, r.tids)
      BY <1>2, <1>7, SoundMore
    <3>2. ASSUME NEW s \in todo, NEW t \in DOMAIN nbr[r.tids[s]]
          PROVE  nbr[r.tids[s]][t] # e
      <4>1. r.tids[s] \in Known
        BY <1>2, <1>3 DEF Sound
      <4>2. nbr[r.tids[s]][t] \in Known \cup {None}
        BY <1>0, <4>1 DEF Sound
      <4> QED
        BY <1>1, <4>2 DEF SelectionAssumption
    <3>3. Offering(index, nbr, e, q)
      BY <1>3, <1>4, <3>2 DEF Offering, Pending
    <3>4. Phase(index, Known', elements, nbr, e, q)
      BY <1>1, <1>2, <1>4, <3>1, <3>3 DEF Phase, Early, Reverse, Busy
    <3> QED
      BY <1>6, <2>1, <3>4
  <2>2. CASE x # e
    <3>1. Phase(index, Known, elements, nbr, x, ins[x])
      BY DEF LInv
    <3>2. Known \subseteq Known'
      BY <1>7
    <3>3. Phase(index, Known', elements, nbr, x, ins[x])
      BY <3>1, <3>2, PhaseKept
    <3> QED
      BY <1>6, <2>2, <3>3
  <2> QED
    BY <2>1, <2>2
<1> QED
  BY <1>5, <1>8, <1>9 DEF LInv

-----------------------------------------------------------------------------
(* Reverse edges *)

(* What the neighbour offers e is in the neighbour's tuple, in the layer   *)
(* that e's slot stands in.                                                *)
LEMMA RangeInLayer ==
  ASSUME SelectionAssumption, Layout(index), NEW e \in Elements, ins[e].m = index.m,
         NEW s \in Slots(index, e), NEW n \in Elements, n = ins[e].tids[s],
         LayerOf(index, e, s) <= Level[n]
  PROVE  \A t \in ReverseRange(e, s) :
           t \in Slots(index, n) /\ LayerOf(index, n, t) = LayerOf(index, e, s)
<1> DEFINE l == LayerOf(index, e, s)
           m == index.m
           p == index.payload_m
           L == Level[n]
<1>1. l \in 0..Level[e] /\ L \in Nat /\ m \in Nat \ {0} /\ p \in Nat /\ s \in Int
      /\ Base(index, e) \in Nat /\ Level[e] \in Nat
  <2>1. l \in 0..Level[e] /\ Level[e] \in Nat /\ Base(index, e) \in Nat
    BY Geometry
  <2> QED
    BY <2>1 DEF SelectionAssumption, Layout, Slots
<1>2. l \in 0..L /\ (L - l) * m \in Int
  BY <1>1
<1>3. LayerOfSlot(e, s) = l /\ Start0(e) = Base(index, e)
  <2>1. Start0(e) = Base(index, e)
    BY Bottom DEF Start0
  <2> QED
    BY <2>1 DEF LayerOfSlot, LayerOf
<1>4. \/ l = 0 /\ RangeOff(e, s) = m /\ RangeLen(e, s) = p
      \/ RangeOff(e, s) = 0 /\ RangeLen(e, s) \in {m, Width(index, l)}
  <2>1. CASE InPayloadHalf(e, s)
    <3>1. s >= Base(index, e)
      BY <1>1, <1>3, <2>1 DEF InPayloadHalf
    <3>2. l = 0
      BY <3>1 DEF LayerOf
    <3>3. RangeOff(e, s) = m /\ RangeLen(e, s) = p
      BY <2>1 DEF RangeOff, RangeLen
    <3> QED
      BY <3>2, <3>3
  <2>2. CASE ~InPayloadHalf(e, s)
    BY <1>3, <2>2 DEF RangeOff, RangeLen, LayerM, Width
  <2> QED
    BY <2>1, <2>2
<1>5. NeighborStart(ins[e].m, Level[n], LayerOfSlot(e, s)) = (L - l) * m
  BY <1>3 DEF NeighborStart
<1>6. ReverseRange(e, s) =
        ((L - l) * m + RangeOff(e, s))..((L - l) * m + RangeOff(e, s) + RangeLen(e, s) - 1)
  BY <1>5 DEF ReverseRange
<1>7. Width(index, l) \in Nat /\ m <= Width(index, l) /\ (l = 0 => Width(index, l) = m + p)
  BY <1>1 DEF Width
<1> DEFINE a == (L - l) * m
           w == Width(index, l)
           off == RangeOff(e, s)
           len == RangeLen(e, s)
<1>8. LayerAt(index, n, l) = a..(a + w - 1)
  BY DEF LayerAt
<1>9. \A t \in ReverseRange(e, s) : t \in LayerAt(index, n, l)
  <2>1. ReverseRange(e, s) = (a + off)..(a + off + len - 1)
    BY <1>6
  <2>2. a \in Int /\ w \in Nat /\ m \in Nat /\ p \in Nat /\ m <= w
        /\ (l = 0 => w = m + p)
        /\ \/ l = 0 /\ off = m /\ len = p
           \/ off = 0 /\ len \in {m, w}
    BY <1>1, <1>2, <1>4, <1>7
  <2> HIDE DEF a, w, off, len, m, p, l, L
  <2> SUFFICES ASSUME NEW t \in (a + off)..(a + off + len - 1)
               PROVE  t \in a..(a + w - 1)
    BY <1>8, <2>1
  <2>3. CASE l = 0 /\ off = m /\ len = p
    BY <2>2, <2>3
  <2>4. CASE off = 0 /\ len \in {m, w}
    BY <2>2, <2>4
  <2> QED
    BY <2>2, <2>3, <2>4
<1>10. \A t \in LayerAt(index, n, l) : t \in Slots(index, n) /\ LayerOf(index, n, t) = l
  <2> HIDE DEF l
  <2> QED
    BY <1>2, Geometry
<1> QED
  BY <1>9, <1>10

(* What a reverse edge is chosen from: the slots of the neighbour, at the  *)
(* layer that the slot of the edge stands in.                              *)
LEMMA RangeRead ==
  ASSUME SelectionAssumption, InsertAssumption, LInv, NEW e \in Elements,
         ins[e].pc = "reverse", ins[e].todo # {}
  PROVE  LET s == LeastOf(ins[e].todo)
             n == ins[e].tids[s]
             D == ReverseRange(e, s)
         IN /\ s \in ins[e].todo /\ s \in Slots(index, e)
            /\ n \in Known /\ n # None /\ LayerOf(index, e, s) <= Level[n]
            /\ \A t \in D : t \in Slots(index, n) /\ LayerOf(index, n, t) = LayerOf(index, e, s)
            /\ D \in SUBSET Nat /\ IsFiniteSet(D)
            /\ \A x \in D : Slot(n, x) \in Elements \cup {None}
<1> DEFINE r == ins[e]
           s == LeastOf(r.todo)
           n == r.tids[s]
           D == ReverseRange(e, s)
<1>0. PageInv /\ Layout(index) /\ Known \in SUBSET Elements /\ None \notin Known /\ Known \subseteq elements
      /\ \A x \in Known : Sound(index, Known, x, nbr[x])
  BY Basics DEF LInv
<1>1. r \in Locals /\ r.pc = "reverse" /\ r.todo # {} /\ e \in elements
  BY DEF LInv, PageInv, Phase, Reverse
<1>2. r.m = index.m /\ Sound(index, Known, e, r.tids) /\ Offering(index, nbr, e, r)
  BY <1>1 DEF LInv, Phase, Busy, Reverse
<1>3. s \in r.todo /\ s \in Slots(index, e)
  <2>1. r.todo \in SUBSET Nat
    BY <1>1 DEF Locals
  <2>2. s \in r.todo
    <3> HIDE DEF r
    <3> QED
      BY <1>1, <2>1, LeastIn
  <2> HIDE DEF s, r
  <2> QED
    BY <1>2, <2>2 DEF Offering
<1>4. n \in Known /\ n # None /\ LayerOf(index, e, s) <= Level[n]
  <2> HIDE DEF s, r
  <2> QED
    BY <1>2, <1>3 DEF Offering, Sound
<1>5. \A t \in D : t \in Slots(index, n) /\ LayerOf(index, n, t) = LayerOf(index, e, s)
  <2>1. ins[e].m = index.m /\ n = ins[e].tids[s] /\ n \in Elements
    BY <1>0, <1>2, <1>4
  <2> HIDE DEF n, s
  <2> QED
    BY <1>0, <1>3, <1>4, <2>1, RangeInLayer
<1>6. D \in SUBSET Nat /\ IsFiniteSet(D)
  <2>1. IsFiniteSet(Slots(index, n)) /\ Slots(index, n) \subseteq Nat
    <3> DEFINE top == (Level[n] + 1) * index.m + index.payload_m - 1
    <3>1. Level[n] \in Nat /\ index.m \in Nat /\ index.payload_m \in Nat
      <4> HIDE DEF n
      <4> QED
        BY <1>0, <1>4 DEF SelectionAssumption, Layout
    <3>2. top \in Int /\ 0 \in Int
      <4> HIDE DEF n
      <4>1. (Level[n] + 1) * index.m \in Int
        BY <3>1
      <4> QED
        BY <3>1, <4>1
    <3> HIDE DEF top
    <3>3. IsFiniteSet(0..top) /\ 0..top \subseteq Nat
      BY <3>2, FS_Interval
    <3> QED
      BY <3>3 DEF Slots, top
  <2>2. D \subseteq Slots(index, n)
    BY <1>5
  <2> HIDE DEF D, n
  <2> QED
    BY <2>1, <2>2, FS_Subset
<1>7. \A x \in D : Slot(n, x) \in Elements \cup {None}
  <2>1. Sound(index, Known, n, nbr[n])
    BY <1>0, <1>4
  <2> HIDE DEF D, n, s
  <2> QED
    BY <1>0, <1>5, <2>1 DEF Slot, Sound
<1> QED
  BY <1>3, <1>4, <1>5, <1>6, <1>7

(* A reverse edge is dropped, or has a slot of the layer to go to. *)
LEMMA ReadReverseStep ==
  ASSUME SelectionAssumption, InsertAssumption, LInv, NEW e \in Elements, ReadReverse(e)
  PROVE  LInv'
<1> DEFINE r == ins[e]
           s == LeastOf(r.todo)
           n == r.tids[s]
           D == ReverseRange(e, s)
           snap == [x \in D |-> Slot(n, x)]
           target == TargetSlot(index.diversify, e, n, snap, InPayloadHalf(e, s))
           drop == [r EXCEPT !.todo = @ \ {s}]
           link == [r EXCEPT !.pc = "link", !.snap = snap, !.target = target]
<1>0. PageInv /\ Layout(index) /\ Known \in SUBSET Elements /\ None \notin Known /\ Known \subseteq elements
      /\ \A x \in Known : Sound(index, Known, x, nbr[x])
  BY Basics DEF LInv
<1>1. r \in Locals /\ r.pc = "reverse" /\ r.todo # {} /\ e \in elements
  BY DEF ReadReverse, LInv, PageInv, Phase, Reverse
<1>2. r.m = index.m /\ Sound(index, Known, e, r.tids) /\ Offering(index, nbr, e, r)
  BY <1>1 DEF LInv, Phase, Busy, Reverse
<1>3. /\ s \in r.todo /\ s \in Slots(index, e)
      /\ n \in Known /\ n # None /\ LayerOf(index, e, s) <= Level[n]
      /\ \A t \in D : t \in Slots(index, n) /\ LayerOf(index, n, t) = LayerOf(index, e, s)
      /\ D \in SUBSET Nat /\ IsFiniteSet(D)
      /\ snap \in [D -> Elements \cup {None}]
  <2>1. /\ s \in r.todo /\ s \in Slots(index, e)
        /\ n \in Known /\ n # None /\ LayerOf(index, e, s) <= Level[n]
        /\ \A t \in D : t \in Slots(index, n) /\ LayerOf(index, n, t) = LayerOf(index, e, s)
        /\ D \in SUBSET Nat /\ IsFiniteSet(D)
        /\ \A x \in D : Slot(n, x) \in Elements \cup {None}
    BY <1>1, RangeRead
  <2> HIDE DEF s, n, D
  <2> QED
    BY <2>1
<1>4. target \in D \cup {None}
  <2> DEFINE half == InPayloadHalf(e, s)
             d == index.diversify
  <2>1. n \in Elements
    BY <1>0, <1>3
  <2> HIDE DEF D, n, snap, s, half, d
  <2>2. TargetSlot(d, e, n, snap, half) \in D \cup {None}
    BY <1>3, <2>1, TargetIn
  <2> QED
    BY <2>2 DEF d, half
<1>9. snap \in SlotArrays
  <2> HIDE DEF D, snap
  <2> QED
    BY <1>3 DEF SlotArrays
<1> HIDE DEF target, snap, D
<1>10. /\ drop \in Locals /\ drop.pc = "reverse" /\ drop.tids = r.tids /\ drop.m = r.m
       /\ drop.todo = r.todo \ {s}
       /\ Phase(index, Known, elements, nbr, e, drop)
  <2>1. /\ drop \in Locals /\ drop.pc = "reverse" /\ drop.tids = r.tids /\ drop.m = r.m
        /\ drop.todo = r.todo \ {s}
    <3> HIDE DEF s, r
    <3> QED
      BY <1>1 DEF Locals
  <2> HIDE DEF drop, s, r
  <2>2. Offering(index, nbr, e, drop)
    BY <1>1, <1>2, <2>1 DEF Offering, Pending
  <2> QED
    BY <1>1, <1>2, <2>1, <2>2 DEF Phase, Early, Reverse, Busy
<1>11. ASSUME target # None
       PROVE  link \in Locals /\ link.pc = "link" /\ Phase(index, Known, elements, nbr, e, link)
  <2>1. /\ target \in Nat /\ target \in Slots(index, n)
        /\ LayerOf(index, n, target) = LayerOf(index, e, s)
    <3> HIDE DEF n, s
    <3> QED
      BY <1>3, <1>4, <1>11
  <2>2. /\ link \in Locals /\ link.pc = "link" /\ link.tids = r.tids /\ link.m = r.m
        /\ link.todo = r.todo /\ link.target = target
    <3> HIDE DEF r, n, s
    <3> QED
      BY <1>1, <1>9, <2>1 DEF Locals, States
  <2> DEFINE n2 == link.tids[LeastOf(link.todo)]
             s2 == LeastOf(link.todo)
  <2>3. n2 = n /\ s2 = s
    <3> HIDE DEF link
    <3> QED
      BY <2>2
  <2>4. link.target \in Slots(index, n2) /\ LayerOf(index, n2, link.target) = LayerOf(index, e, s2)
    <3> HIDE DEF link, n2, s2, n, s, r
    <3> QED
      BY <2>1, <2>2, <2>3
  <2>5. Offering(index, nbr, e, link)
    <3>1. \A x \in link.todo : x \in Slots(index, e) /\ link.tids[x] # None
      <4> HIDE DEF link, r
      <4> QED
        BY <1>2, <2>2 DEF Offering
    <3>2. \A x \in Pending(link) : \A t \in DOMAIN nbr[link.tids[x]] :
            LayerOf(index, link.tids[x], t) = LayerOf(index, e, x) => nbr[link.tids[x]][t] # e
      <4> HIDE DEF link, r
      <4>1. Pending(link) = Pending(r)
        BY <1>1, <2>2 DEF Pending
      <4> QED
        BY <1>2, <2>2, <4>1 DEF Offering
    <3>3. link.todo # {}
      <4> HIDE DEF link, r
      <4> QED
        BY <1>1, <2>2
    <3> QED
      BY <2>4, <3>1, <3>2, <3>3 DEF Offering
  <2> HIDE DEF link, r, s
  <2> QED
    BY <1>1, <1>2, <2>2, <2>5 DEF Phase, Early, Reverse, Busy
<1>12. PICK q \in {drop, link} :
         Become(e, q) /\ q \in Locals /\ q.pc # "entry" /\ Phase(index, Known, elements, nbr, e, q)
  <2>1. Become(e, IF target = None THEN drop ELSE link)
    BY DEF ReadReverse, target, snap, D
  <2> HIDE DEF drop, link
  <2> QED
    BY <1>10, <1>11, <2>1
<1>13. UNCHANGED <<index, opt_m, meta, elements, nbr>> /\ inl' \in [Elements -> SlotArrays]
       /\ overlap' \in BOOLEAN
  BY <1>0 DEF ReadReverse, PageInv
<1> HIDE DEF drop, link
<1> QED
  BY <1>12, <1>13, LocalStep

(* The slot chosen earlier is overwritten whatever it holds by now.  Only  *)
(* its own inserter writes e, once per layer of a list, so no list of a    *)
(* layer comes to name e twice.                                            *)
LEMMA WriteReverseStep ==
  ASSUME SelectionAssumption, InsertAssumption, LInv, NEW e \in Elements, WriteReverse(e)
  PROVE  LInv'
<1> DEFINE r == ins[e]
           s == LeastOf(r.todo)
           n == r.tids[s]
           target == r.target
           N == [x \in DOMAIN nbr[n] |-> IF x = target THEN e ELSE nbr[n][x]]
           coloc == [r EXCEPT !.pc = "colocate"]
           linked == Linked(e, r)
<1>0. PageInv /\ Layout(index) /\ Known \in SUBSET Elements /\ None \notin Known /\ Known \subseteq elements
      /\ \A x \in Known : Sound(index, Known, x, nbr[x])
  BY Basics DEF LInv
<1>1. r \in Locals /\ r.pc = "link" /\ e \in elements /\ e \in Known
  BY DEF WriteReverse, LInv, PageInv, Phase, Reverse, Known
<1>2. r.m = index.m /\ Sound(index, Known, e, r.tids) /\ Offering(index, nbr, e, r)
  BY <1>1 DEF LInv, Phase, Busy, Reverse
<1>3. s \in r.todo /\ s \in Slots(index, e) /\ r.todo \in SUBSET Nat
  <2>1. r.todo \in SUBSET Nat /\ r.todo # {}
    BY <1>1, <1>2 DEF Locals, Offering
  <2>2. s \in r.todo
    <3> HIDE DEF r
    <3> QED
      BY <2>1, LeastIn
  <2> HIDE DEF s, r
  <2> QED
    BY <1>2, <2>1, <2>2 DEF Offering
<1>4. n \in Known /\ n # None /\ n # e /\ LayerOf(index, e, s) <= Level[n]
  <2> HIDE DEF s, r
  <2> QED
    BY <1>2, <1>3 DEF Offering, Sound
<1>5. target \in Slots(index, n) /\ LayerOf(index, n, target) = LayerOf(index, e, s)
  BY <1>1, <1>2 DEF Offering
<1>6. /\ Become(e, IF index.inline /\ LayerOfSlot(e, s) = 0 THEN coloc ELSE linked)
      /\ nbr' = [nbr EXCEPT ![n] = N]
      /\ UNCHANGED <<index, opt_m, meta, elements, inl, overlap>>
  BY DEF WriteReverse
<1>7. /\ coloc \in Locals /\ coloc.pc = "colocate" /\ coloc.tids = r.tids /\ coloc.m = r.m
      /\ coloc.todo = r.todo
  <2> HIDE DEF r
  <2> QED
    BY <1>1 DEF Locals, States
<1>8. /\ linked \in Locals /\ linked.pc = "reverse" /\ linked.tids = r.tids /\ linked.m = r.m
      /\ linked.todo = r.todo \ {s}
  <2>1. linked = [r EXCEPT !.pc = "reverse", !.todo = @ \ {s}, !.snap = <<>>, !.target = 0]
    BY DEF Linked
  <2> HIDE DEF linked, r, s
  <2> QED
    BY <1>1, <2>1, NoSlots DEF Locals, States
<1>9. PICK q \in {coloc, linked} : ins' = [ins EXCEPT ![e] = q]
  <2> HIDE DEF coloc, linked, s
  <2> QED
    BY <1>6 DEF Become
<1>10. /\ q \in Locals /\ q.pc \in {"colocate", "reverse"} /\ q.tids = r.tids /\ q.m = r.m
       /\ Pending(q) = r.todo \ {s} /\ q.todo \in {r.todo, r.todo \ {s}}
       /\ (q.pc = "colocate" => q.todo = r.todo)
  <2>1. Pending(coloc) = r.todo \ {s}
    <3> HIDE DEF coloc, r
    <3> QED
      BY <1>7 DEF Pending
  <2>2. Pending(linked) = r.todo \ {s}
    <3> HIDE DEF linked, r, s
    <3> QED
      BY <1>8 DEF Pending
  <2> HIDE DEF coloc, linked, r, s
  <2> QED
    BY <1>7, <1>8, <1>9, <2>1, <2>2
<1>11. /\ ins' \in [Elements -> Locals] /\ ins'[e] = q
       /\ \A x \in Elements \ {e} : ins'[x] = ins[x]
  <2>1. ins \in [Elements -> Locals] /\ q \in Locals
    BY <1>0, <1>10 DEF PageInv
  <2> HIDE DEF coloc, linked, r, s
  <2> QED
    BY ONLY <1>9, <2>1
<1>12. Known' = Known
  <2>1. elements' = elements /\ elements \subseteq Elements
    BY <1>0, <1>6 DEF PageInv
  <2> HIDE DEF coloc, linked, s, n, N
  <2> QED
    BY ONLY <1>1, <1>10, <1>11, <2>1 DEF Known
<1>13. DOMAIN nbr' = Elements /\ nbr'[n] = N /\ \A x \in Elements \ {n} : nbr'[x] = nbr[x]
  <2> HIDE DEF N, n
  <2> QED
    BY <1>0, <1>4, <1>6 DEF PageInv
<1> DEFINE D == Slots(index, n)
<1>14. Sound(index, Known, n, nbr[n]) /\ DOMAIN nbr[n] = D
  BY <1>0, <1>4 DEF Sound
<1>15. N = [x \in D |-> IF x = target THEN e ELSE nbr[n][x]]
  BY <1>14
<1>16. \A t \in D : LayerOf(index, n, t) = LayerOf(index, n, target) => nbr[n][t] # e
  <2>1. s \in Pending(r)
    <3> HIDE DEF r, s
    <3> QED
      BY <1>1, <1>3 DEF Pending
  <2>2. \A t \in DOMAIN nbr[r.tids[s]] :
          LayerOf(index, r.tids[s], t) = LayerOf(index, e, s) => nbr[r.tids[s]][t] # e
    <3> HIDE DEF r, s
    <3> QED
      BY <1>2, <2>1 DEF Offering
  <2> HIDE DEF r, s, target
  <2> QED
    BY <1>5, <1>14, <2>2
<1> HIDE DEF N, coloc, linked
<1>17. Sound(index, Known, n, N)
  <2> HIDE DEF n, r, s, target
  <2>1. N \in [D -> Known \cup {None}]
    BY <1>1, <1>14, <1>15 DEF Sound
  <2>2. LayerOf(index, e, s) <= Level[e]
    <3>1. LayerOf(index, e, s) \in 0..Level[e]
      BY <1>0, <1>3, Geometry
    <3>2. Level[e] \in Int
      BY DEF SelectionAssumption
    <3> QED
      BY <3>1, <3>2
  <2>3. \A t \in D : N[t] # None => N[t] # n /\ LayerOf(index, n, t) <= Level[N[t]]
    BY <1>4, <1>5, <1>14, <1>15, <2>2 DEF Sound
  <2>4. \A t, u \in D :
          N[t] # None /\ N[t] = N[u] /\ LayerOf(index, n, t) = LayerOf(index, n, u) => t = u
    <3> SUFFICES ASSUME NEW t \in D, NEW u \in D, N[t] # None, N[t] = N[u],
                        LayerOf(index, n, t) = LayerOf(index, n, u)
                 PROVE  t = u
      OBVIOUS
    <3>1. CASE t = target /\ u = target
      BY <3>1
    <3>2. CASE t = target /\ u # target
      BY <1>15, <1>16, <3>2
    <3>3. CASE t # target /\ u = target
      BY <1>15, <1>16, <3>3
    <3>4. CASE t # target /\ u # target
      BY <1>14, <1>15, <3>4 DEF Sound
    <3> QED
      BY <3>1, <3>2, <3>3, <3>4
  <2> QED
    BY <2>1, <2>3, <2>4 DEF Sound
<1>18. N # <<>>
  BY <1>0, <1>4, <1>17, NotBlank
<1>19. PageInv'
  <2> HIDE DEF n
  <2>1. \A x \in Elements : nbr'[x] = <<>> \/ Sound(index, Known, x, nbr'[x])
    BY <1>0, <1>13, <1>17 DEF PageInv
  <2>2. \A x \in elements : nbr'[x] # <<>>
    BY <1>0, <1>13, <1>18 DEF PageInv
  <2> QED
    BY <1>0, <1>6, <1>11, <1>12, <1>13, <2>1, <2>2 DEF PageInv
<1>20. \A t \in D : t # target => N[t] = nbr[n][t]
  BY <1>15
<1>21. N[target] = e
  BY <1>5, <1>15
<1>22. ASSUME NEW x \in Elements
      PROVE  Phase(index, Known, elements, nbr', x, ins'[x])
  <2>1. CASE x = e
    <3>1. ASSUME NEW z \in r.todo \ {s}, NEW t \in DOMAIN nbr'[r.tids[z]],
                 LayerOf(index, r.tids[z], t) = LayerOf(index, e, z)
          PROVE  nbr'[r.tids[z]][t] # e
      <4>1. z \in Pending(r) /\ z \in Slots(index, e) /\ r.tids[z] # None /\ z # s
        <5> HIDE DEF r, s
        <5> QED
          BY <1>1, <1>2, <3>1 DEF Pending, Offering
      <4>2. \A u \in DOMAIN nbr[r.tids[z]] :
              LayerOf(index, r.tids[z], u) = LayerOf(index, e, z) => nbr[r.tids[z]][u] # e
        <5> HIDE DEF r
        <5> QED
          BY <1>2, <4>1 DEF Offering
      <4>3. CASE r.tids[z] = n
        <5>1. t # target
          <6>1. CASE LayerOf(index, e, z) = LayerOf(index, e, s)
            <7>1. z = s
              <8>1. r.tids[z] # None /\ r.tids[z] = r.tids[s]
                BY <4>1, <4>3
              <8> HIDE DEF r, s
              <8> QED
                BY <1>2, <1>3, <4>1, <6>1, <8>1 DEF Sound
            <7> QED
              BY <4>1, <7>1
          <6>2. CASE LayerOf(index, e, z) # LayerOf(index, e, s)
            <7> HIDE DEF n, s, r, target
            <7>1. LayerOf(index, n, t) = LayerOf(index, e, z)
              BY ONLY <3>1, <4>3
            <7>2. LayerOf(index, n, target) = LayerOf(index, e, s)
              BY ONLY <1>5
            <7> QED
              BY ONLY <6>2, <7>1, <7>2
          <6> QED
            BY <6>1, <6>2
        <5> HIDE DEF n, r, s, target
        <5>2. t \in D
          <6>1. t \in DOMAIN N
            BY ONLY <1>13, <3>1, <4>3
          <6> QED
            BY ONLY <1>15, <6>1
        <5>3. nbr'[r.tids[z]][t] = nbr[n][t]
          BY <1>13, <1>20, <4>3, <5>1, <5>2
        <5>4. nbr[n][t] # e
          BY <1>14, <3>1, <4>2, <4>3, <5>2
        <5> QED
          BY <5>3, <5>4
      <4>4. CASE r.tids[z] # n
        <5>1. r.tids[z] \in Elements
          <6> HIDE DEF r
          <6> QED
            BY <1>0, <1>2, <4>1 DEF Sound
        <5> HIDE DEF n, r, s
        <5> QED
          BY <1>13, <3>1, <4>2, <4>4, <5>1
      <4> QED
        BY <4>3, <4>4
    <3>2. \A z \in q.todo : z \in Slots(index, e) /\ q.tids[z] # None
      <4> HIDE DEF r, s
      <4> QED
        BY <1>2, <1>10 DEF Offering
    <3>3. q.pc = "colocate" => q.todo # {}
      <4> HIDE DEF r, s
      <4> QED
        BY <1>3, <1>10
    <3>4. Offering(index, nbr', e, q)
      <4> HIDE DEF r, s
      <4> QED
        BY <1>10, <3>1, <3>2, <3>3 DEF Offering
    <3>5. Phase(index, Known, elements, nbr', e, q)
      <4> HIDE DEF r, s
      <4> QED
        BY <1>1, <1>2, <1>10, <3>4 DEF Phase, Early, Reverse, Busy
    <3> QED
      BY <1>11, <2>1, <3>5
  <2>2. CASE x # e
    <3>1. Phase(index, Known, elements, nbr, x, ins[x])
      BY DEF LInv
    <3>2. \A y \in Known : \A t \in DOMAIN nbr'[y] :
            nbr'[y][t] = x => t \in DOMAIN nbr[y] /\ nbr[y][t] = x
      <4> SUFFICES ASSUME NEW y \in Known, NEW t \in DOMAIN nbr'[y], nbr'[y][t] = x
                   PROVE  t \in DOMAIN nbr[y] /\ nbr[y][t] = x
        OBVIOUS
      <4>1. CASE y = n
        <5>1. t \in D /\ N[t] = x
          BY <1>13, <1>15, <4>1
        <5> HIDE DEF n, r, s, target
        <5> QED
          BY <1>14, <1>20, <1>21, <2>2, <4>1, <5>1
      <4>2. CASE y # n
        <5> HIDE DEF n
        <5> QED
          BY <1>0, <1>13, <4>2
      <4> QED
        BY <4>1, <4>2
    <3>3. nbr[x] # <<>> => nbr'[x] # <<>>
      <4> HIDE DEF n
      <4> QED
        BY <1>13, <1>18
    <3>4. Phase(index, Known, elements, nbr', x, ins[x])
      BY <3>1, <3>2, <3>3, PhaseKept
    <3> QED
      BY <1>11, <2>2, <3>4
  <2> QED
    BY <2>1, <2>2
<1> QED
  BY <1>6, <1>12, <1>19, <1>22 DEF LInv

(* The co-located entry of a reverse edge is no link. *)
LEMMA InlineWriteEntryStep ==
  ASSUME SelectionAssumption, InsertAssumption, LInv, NEW e \in Elements, InlineWriteEntry(e)
  PROVE  LInv'
<1> DEFINE r == ins[e]
           s == LeastOf(r.todo)
           n == r.tids[s]
           I == [j \in DOMAIN inl[n] |-> IF j = InlinePlace(e, s) THEN e ELSE inl[n][j]]
           q == Linked(e, r)
<1>0. PageInv
  BY DEF LInv
<1>1. r \in Locals /\ r.pc = "colocate" /\ e \in elements
  BY DEF InlineWriteEntry, LInv, PageInv, Phase, Reverse
<1>2. r.m = index.m /\ Sound(index, Known, e, r.tids) /\ Offering(index, nbr, e, r)
  BY <1>1 DEF LInv, Phase, Busy, Reverse
<1>3. q \in Locals /\ q.pc = "reverse" /\ q.tids = r.tids /\ q.m = r.m /\ q.todo = r.todo \ {s}
  <2>1. q = [r EXCEPT !.pc = "reverse", !.todo = @ \ {s}, !.snap = <<>>, !.target = 0]
    BY DEF Linked
  <2> HIDE DEF q, r, s
  <2> QED
    BY <1>1, <2>1, NoSlots DEF Locals, States
<1>4. Phase(index, Known, elements, nbr, e, q)
  <2>1. Pending(q) = Pending(r)
    <3> HIDE DEF q, r
    <3> QED
      BY <1>1, <1>3 DEF Pending, s
  <2>2. Offering(index, nbr, e, q)
    <3> HIDE DEF q, r, s
    <3> QED
      BY <1>2, <1>3, <2>1 DEF Offering
  <2> HIDE DEF q, r
  <2> QED
    BY <1>1, <1>2, <1>3, <2>2 DEF Phase, Early, Reverse, Busy
<1>5. Become(e, q) /\ UNCHANGED <<index, opt_m, meta, elements, nbr>> /\ overlap' \in BOOLEAN
      /\ inl' = [inl EXCEPT ![n] = I]
  BY <1>0 DEF InlineWriteEntry, PageInv
<1>6. inl' \in [Elements -> SlotArrays]
  <2>1. n \in Elements => I \in SlotArrays
    <3> SUFFICES ASSUME n \in Elements PROVE I \in SlotArrays
      OBVIOUS
    <3>1. inl[n] \in SlotArrays
      <4> HIDE DEF n
      <4> QED
        BY <1>0 DEF PageInv
    <3> HIDE DEF n
    <3>2. PICK D \in SUBSET Nat : inl[n] \in [D -> Elements \cup {None}]
      BY <3>1 DEF SlotArrays
    <3>3. I \in [D -> Elements \cup {None}]
      BY <3>2
    <3> HIDE DEF I
    <3> QED
      BY <3>2, <3>3 DEF SlotArrays
  <2> HIDE DEF n, I
  <2> QED
    BY <1>0, <1>5, <2>1 DEF PageInv
<1> HIDE DEF q
<1> QED
  BY <1>3, <1>4, <1>5, <1>6, LocalStep

(* An insert that ends, one way or the other, leaves the pages as they are. *)
LEMMA EndStep ==
  ASSUME SelectionAssumption, InsertAssumption, LInv, NEW e \in Elements, Finish(e) \/ Fail(e)
  PROVE  LInv'
<1> DEFINE done == [Idle EXCEPT !.pc = "done"]
           aborted == [Idle EXCEPT !.pc = "aborted"]
<1>1. PICK q \in {done, aborted} :
        Become(e, q) /\ UNCHANGED <<index, opt_m, meta, elements, nbr, inl, overlap>>
  BY DEF Finish, Fail
<1>2. q \in Locals /\ q.pc \in {"done", "aborted"}
  <2>1. Idle \in Locals
    BY NoSlots DEF Idle, Locals, States
  <2>2. {done, aborted} \subseteq Locals /\ done.pc = "done" /\ aborted.pc = "aborted"
    BY <2>1 DEF Locals, States
  <2> HIDE DEF done, aborted
  <2> QED
    BY <2>2
<1>3. Phase(index, Known, elements, nbr, e, q)
  BY <1>2 DEF Phase, Early, Reverse, Busy
<1>4. inl' \in [Elements -> SlotArrays] /\ overlap' \in BOOLEAN
  BY <1>1 DEF LInv, PageInv
<1> QED
  BY <1>1, <1>2, <1>3, <1>4, LocalStep

-----------------------------------------------------------------------------
(* The theorems *)

(* Every step of every insert preserves the invariant. *)
LEMMA LinksInductive ==
  ASSUME SelectionAssumption, InsertAssumption, LInv, [Next]_vars
  PROVE  LInv'
<1>1. ASSUME NEW e \in Elements, Step(e) PROVE LInv'
  BY <1>1, ReadMetaStep, DescendStep, ExpandStep, SelectLayerStep, SelectGlobalHalfStep,
     SelectPayloadHalfStep, WriteNeighborTupleStep, WriteElementTupleStep,
     MaybeUpdateEntryStep, ReadReverseStep, WriteReverseStep, InlineWriteEntryStep, EndStep
  DEF Step
<1>2. ASSUME NEW e \in Elements, Fail(e) PROVE LInv'
  BY <1>2, EndStep
<1>3. ASSUME UNCHANGED vars PROVE LInv'
  <2>1. UNCHANGED <<index, opt_m, meta, elements, nbr, inl, ins, overlap>>
    BY <1>3 DEF vars
  <2>2. Known' = Known
    BY <2>1 DEF Known
  <2>3. PageInv'
    BY <2>1, <2>2 DEF LInv, PageInv
  <2>4. ASSUME NEW x \in Elements PROVE Phase(index', Known', elements', nbr', x, ins'[x])
    BY <2>1, <2>2 DEF LInv
  <2> QED
    BY <2>3, <2>4 DEF LInv
<1> QED
  BY <1>1, <1>2, <1>3 DEF Next

(* The invariant holds in every reachable state. *)
LEMMA LinksInvariance == Spec => []LInv
<1>1. Init => LInv
  BY LinksInit, SelectionAssumption, InsertAssumption
<1>2. LInv /\ [Next]_vars => LInv'
  BY LinksInductive, SelectionAssumption, InsertAssumption
<1> QED
  BY <1>1, <1>2, PTL DEF Spec

(* Every variable stays in its type, however inserts overlap and fail: in  *)
(* particular a neighbour tuple has the slots of its element's level, and  *)
(* acorn_append_tuple never finds another number of them.                  *)
THEOREM LinksTyped == Spec => []TypeOK
<1>1. LInv => TypeOK
  <2> SUFFICES ASSUME LInv PROVE TypeOK
    OBVIOUS
  <2>1. PageInv /\ Layout(index) /\ Known \in SUBSET Elements /\ Known \subseteq elements
    BY Basics, SelectionAssumption, InsertAssumption DEF LInv
  <2>2. index \in Indexes /\ opt_m \in Nat /\ overlap \in BOOLEAN
    BY <2>1 DEF PageInv, Layout
  <2>3. meta \in [entry : Elements \cup {None}, level : Nat \cup {-1}] /\ elements \subseteq Elements
    BY <2>1 DEF PageInv
  <2>4. ASSUME NEW T \in SlotArrays PROVE Range(T) \subseteq Elements \cup {None}
    <3>1. PICK D \in SUBSET Nat : T \in [D -> Elements \cup {None}]
      BY DEF SlotArrays
    <3> QED
      BY <3>1 DEF Range
  <2>5. ASSUME NEW e \in Elements
        PROVE  /\ Range(nbr[e]) \cup Range(inl[e]) \cup Range(ins[e].tids)
                    \subseteq Elements \cup {None}
               /\ nbr[e] # <<>> =>
                    DOMAIN nbr[e] = 0..((Level[e] + 1) * index.m + index.payload_m - 1)
               /\ ins[e].pc \in States
    <3>1. inl[e] \in SlotArrays /\ ins[e].tids \in SlotArrays /\ ins[e].pc \in States
      BY <2>1 DEF PageInv, Locals
    <3>2. nbr[e] \in SlotArrays
      BY <2>1, NoSlots, SoundArray, SelectionAssumption DEF PageInv
    <3>3. nbr[e] # <<>> => DOMAIN nbr[e] = Slots(index, e)
      BY <2>1 DEF PageInv, Sound
    <3>4. /\ Range(nbr[e]) \subseteq Elements \cup {None}
          /\ Range(inl[e]) \subseteq Elements \cup {None}
          /\ Range(ins[e].tids) \subseteq Elements \cup {None}
      BY <2>4, <3>1, <3>2
    <3> QED
      BY <3>1, <3>3, <3>4 DEF Slots
  <2> QED
    BY <2>2, <2>3, <2>5 DEF TypeOK
<1> QED
  BY <1>1, LinksInvariance, PTL

(* Whatever inserts overlap, fail or crash, each slot names an element     *)
(* that is on its page and has the slot's layer, no list of a layer names  *)
(* an element twice and none names its owner: a slot chosen under SHARE    *)
(* may hold something else when it is overwritten under EXCLUSIVE, but     *)
(* only the inserter of an element ever writes it into a list.             *)
THEOREM LinksSafe == Spec => []LayerSafe
<1>1. LInv => LayerSafe
  <2> SUFFICES ASSUME LInv PROVE LayerSafe
    OBVIOUS
  <2>1. PageInv /\ Layout(index) /\ Known \in SUBSET Elements /\ Known \subseteq elements
        /\ None \notin Known
    BY Basics, SelectionAssumption, InsertAssumption DEF LInv
  <2>2. ASSUME NEW n \in elements, NEW l \in Layers(n)
        PROVE  /\ n \notin Range(ListOf(n, l))
               /\ \A s, t \in LayerSlots(n, l, index.m) :
                    Slot(n, s) # None /\ Slot(n, s) = Slot(n, t) => s = t
    <3>1. n \in Elements /\ Sound(index, Known, n, nbr[n])
      BY <2>1 DEF PageInv
    <3>2. l \in 0..Level[n] /\ l \in Nat
      BY <2>2, <3>1 DEF Layers
    <3>3. LayerSlots(n, l, index.m) = LayerAt(index, n, l)
      BY <2>1, <3>1, <3>2, SameGeometry, SelectionAssumption
    <3>4. \A s \in LayerAt(index, n, l) : s \in Slots(index, n) /\ LayerOf(index, n, s) = l
      BY <2>1, <3>1, <3>2, Geometry, SelectionAssumption
    <3>5. \A s \in LayerAt(index, n, l) : Slot(n, s) = nbr[n][s]
      BY <3>1, <3>4 DEF Slot, Sound
    <3>6. n # None
      BY <3>1, SelectionAssumption DEF SelectionAssumption
    <3>7. \A s \in LayerAt(index, n, l) : Slot(n, s) # n
      BY <3>1, <3>4, <3>5, <3>6 DEF Sound
    <3>8. n \notin Range(ListOf(n, l))
      BY <3>3, <3>7 DEF ListOf, Range
    <3>9. \A s, t \in LayerAt(index, n, l) :
            Slot(n, s) # None /\ Slot(n, s) = Slot(n, t) => s = t
      BY <3>1, <3>4, <3>5 DEF Sound
    <3> QED
      BY <3>3, <3>8, <3>9
  <2>3. ASSUME NEW e \in Elements, NEW s \in DOMAIN nbr[e], nbr[e][s] # None
        PROVE  /\ nbr[e][s] \in elements
               /\ s < NeighborStart(index.m, Level[e], 0) =>
                    Level[nbr[e][s]] >= Level[e] - s \div index.m
    <3>1. Sound(index, Known, e, nbr[e])
      <4>1. nbr[e] # <<>>
        <5>1. DOMAIN <<>> = {}
          OBVIOUS
        <5> QED
          BY <2>3, <5>1
      <4> QED
        BY <2>1, <4>1 DEF PageInv
    <3>2. s \in Slots(index, e) /\ nbr[e][s] \in Known /\ LayerOf(index, e, s) <= Level[nbr[e][s]]
      BY <2>3, <3>1 DEF Sound
    <3>3. NeighborStart(index.m, Level[e], 0) = Base(index, e) /\ Base(index, e) \in Nat
          /\ index.m \in Nat \ {0}
      BY <2>1, Bottom, SelectionAssumption
    <3>4. s \in Int /\ Level[e] \in Nat /\ Level[nbr[e][s]] \in Nat
      BY <2>1, <3>2, SelectionAssumption DEF Slots, SelectionAssumption
    <3>5. ASSUME s < Base(index, e) PROVE Level[nbr[e][s]] >= Level[e] - s \div index.m
      <4>1. LayerOf(index, e, s) = Level[e] - s \div index.m
        BY <3>3, <3>4, <3>5 DEF LayerOf
      <4>2. s \div index.m \in Int
        BY <3>3, <3>4
      <4> QED
        BY <3>2, <3>4, <4>1, <4>2
    <3> QED
      BY <2>1, <3>2, <3>3, <3>5
  <2> QED
    BY <2>2, <2>3 DEF LayerSafe, NoDoubleLink
<1> QED
  BY <1>1, LinksInvariance, PTL

-----------------------------------------------------------------------------
(* One insert at a time *)

(* What holds as long as no two inserts have been in flight at once: there *)
(* is one inserter, and nobody else changes what it is about to complete.  *)
Alone == \A x, y \in Elements : ins[x].pc \in Busy /\ ins[y].pc \in Busy => x = y

(* The neighbour that x's reverse edge goes to. *)
Offered(x) == ins[x].tids[LeastOf(ins[x].todo)]

(* A reverse edge without its co-located entry stands in layer 0. *)
Placed ==
  \A x \in Elements : ins[x].pc = "colocate" =>
    /\ ins[x].target \in DOMAIN nbr[Offered(x)]
    /\ Base(index, Offered(x)) <= ins[x].target
    /\ nbr[Offered(x)][ins[x].target] = x

Awaits(x, n, j) ==
  ins[x].pc = "colocate" /\ n = Offered(x) /\ ins[x].target = Base(index, n) + j

(* The co-located entry of slot j of layer 0. *)
InSync(n, j) == inl[n][j] = Slot(n, Base(index, n) + j)

(* The co-located entries describe the slots, but for the one that an      *)
(* inserter will write next.                                               *)
Described ==
  \A n \in Elements : \A j \in DOMAIN inl[n] :
    InSync(n, j) \/ \E x \in Elements : Awaits(x, n, j)

(* Writing x to slot t of n leaves something as near as each of R.         *)
Spares(x, n, R, t) ==
  \A s \in R : Slot(n, s) # None =>
    \E y \in ({Slot(n, u) : u \in R \ {t}} \ {None}) \cup {x} :
      Dist(y, n) <= Dist(Slot(n, s), n)

(* The slot an inserter has chosen is still the right one. *)
Sparing ==
  \A x \in Elements : ins[x].pc = "link" =>
    LET s == LeastOf(ins[x].todo)
    IN /\ ins[x].target \in ReverseRange(x, s)
       /\ ~InPayloadHalf(x, s) => Spares(x, Offered(x), ReverseRange(x, s), ins[x].target)

Calm == index.inline /\ ~overlap /\ \A x \in Elements : ins[x].pc # "aborted"

SyncInv ==
  /\ LInv
  /\ ~overlap => Alone /\ Placed /\ Sparing
  /\ Calm => Described

(* A step is one inserter's. *)
LEMMA Mover ==
  ASSUME LInv, NEW e \in Elements, Step(e) \/ Fail(e)
  PROVE  /\ index' = index
         /\ DOMAIN ins' = Elements /\ \A x \in Elements \ {e} : ins'[x] = ins[x]
         /\ \/ ReadMeta(e) /\ ins[e].pc = "idle"
            \/ ins[e].pc \in Busy /\ overlap' = overlap
<1>1. DOMAIN ins = Elements /\ ins[e].pc \in States
  BY DEF LInv, PageInv, Locals
<1>2. ASSUME NEW r, Become(e, r)
      PROVE  DOMAIN ins' = Elements /\ \A x \in Elements \ {e} : ins'[x] = ins[x]
  BY <1>1, <1>2 DEF Become
<1>3. CASE ReadMeta(e)
  BY <1>2, <1>3, Zenon DEF ReadMeta
<1>4. CASE Descend(e)
  <2>1. ins[e].pc \in Busy
    BY <1>4 DEF Descend, Busy, Early
  <2> QED
    BY <1>2, <1>4, <2>1, Zenon DEF Descend
<1>5. CASE Expand(e)
  <2>1. ins[e].pc \in Busy
    BY <1>5 DEF Expand, Busy, Early
  <2> QED
    BY <1>2, <1>5, <2>1, Zenon DEF Expand
<1>6. CASE SelectLayer(e) \/ SelectGlobalHalf(e) \/ SelectPayloadHalf(e)
  <2>1. ins[e].pc \in Busy
    BY <1>6 DEF SelectLayer, SelectGlobalHalf, SelectPayloadHalf, Busy, Early
  <2> QED
    BY <1>2, <1>6, <2>1, Zenon DEF SelectLayer, SelectGlobalHalf, SelectPayloadHalf
<1>7. CASE WriteNeighborTuple(e) \/ WriteElementTuple(e) \/ MaybeUpdateEntry(e)
  <2>1. ins[e].pc \in Busy
    BY <1>7 DEF WriteNeighborTuple, WriteElementTuple, MaybeUpdateEntry, Busy, Early
  <2> QED
    BY <1>2, <1>7, <2>1, Zenon DEF WriteNeighborTuple, WriteElementTuple, MaybeUpdateEntry
<1>8. CASE ReadReverse(e) \/ WriteReverse(e) \/ InlineWriteEntry(e)
  <2>1. ins[e].pc \in Busy
    BY <1>8 DEF ReadReverse, WriteReverse, InlineWriteEntry, Busy, Reverse
  <2> QED
    BY <1>2, <1>8, <2>1, Zenon DEF ReadReverse, WriteReverse, InlineWriteEntry
<1>9. CASE Finish(e) \/ Fail(e)
  <2>1. ins[e].pc \in Busy
    BY <1>1, <1>9 DEF Finish, Fail, InFlight, Busy, Early, Reverse, States
  <2> QED
    BY <1>2, <1>9, <2>1, Zenon DEF Finish, Fail
<1> QED
  BY <1>3, <1>4, <1>5, <1>6, <1>7, <1>8, <1>9 DEF Step

(* As long as inserts do not overlap, the others are idle. *)
LEMMA OnlyMover ==
  ASSUME SyncInv, NEW e \in Elements, Step(e) \/ Fail(e), ~overlap'
  PROVE  /\ ~overlap /\ Alone'
         /\ \A x \in Elements \ {e} : ins'[x] = ins[x] /\ ins[x].pc \notin Busy
<1>1. LInv /\ (~overlap => Alone)
  BY DEF SyncInv
<1>2. ~overlap /\ \A x \in Elements \ {e} : ins[x].pc \notin Busy
  <2>1. CASE ReadMeta(e)
    <3>1. ~overlap /\ InFlight = {}
      BY <2>1 DEF ReadMeta
    <3>2. \A x \in Elements : ins[x].pc \notin Busy
      BY <3>1 DEF InFlight, Busy, Early, Reverse
    <3> QED
      BY <3>1, <3>2
  <2>2. CASE ins[e].pc \in Busy /\ overlap' = overlap
    BY <1>1, <2>2 DEF Alone
  <2> QED
    BY <1>1, <2>1, <2>2, Mover
<1>3. \A x \in Elements \ {e} : ins'[x] = ins[x]
  BY <1>1, Mover
<1> QED
  BY <1>2, <1>3 DEF Alone

(* A step that changes nothing on the neighbour pages, and does not leave  *)
(* an edge half-written behind, except by failing.                         *)
LEMMA QuietStep ==
  ASSUME SyncInv, LInv', NEW e \in Elements, Step(e) \/ Fail(e),
         UNCHANGED <<nbr, inl>>, ins'[e].pc \notin {"link", "colocate"},
         ins[e].pc = "colocate" => ins'[e].pc = "aborted"
  PROVE  SyncInv'
<1>1. LInv /\ index' = index
  BY Mover DEF SyncInv
<1>2. ASSUME ~overlap' PROVE Alone' /\ Placed' /\ Sparing'
  <2>1. \A x \in Elements : ins'[x].pc \notin {"link", "colocate"}
    BY <1>2, OnlyMover DEF Busy, Reverse
  <2> QED
    BY <1>2, <2>1, OnlyMover DEF Placed, Sparing
<1>3. ASSUME Calm' PROVE Described'
  <2>1. /\ index.inline /\ ~overlap' /\ \A x \in Elements : ins'[x].pc # "aborted"
    BY <1>1, <1>3 DEF Calm
  <2>2. /\ ~overlap
        /\ \A x \in Elements \ {e} : ins'[x] = ins[x] /\ ins[x].pc \notin Busy
    BY <2>1, OnlyMover
  <2>3. ins[e].pc # "aborted"
    BY <1>1, Mover DEF Busy, Early, Reverse
  <2>4. Described
    BY <2>1, <2>2, <2>3 DEF SyncInv, Calm
  <2>5. \A x \in Elements : ins[x].pc # "colocate"
    BY <2>1, <2>2 DEF Busy, Reverse
  <2>6. \A n \in Elements : \A j \in DOMAIN inl[n] : InSync(n, j)
    BY <2>4, <2>5 DEF Described, Awaits
  <2>7. \A n \in Elements : \A j \in DOMAIN inl'[n] : InSync(n, j)'
    BY <1>1, <2>6 DEF InSync, Slot
  <2> QED
    BY <2>7 DEF Described
<1> QED
  BY <1>2, <1>3 DEF SyncInv

(* The steps that leave the neighbour pages alone. *)
LEMMA QuietSteps ==
  ASSUME SyncInv, LInv', NEW e \in Elements, Step(e) \/ Fail(e),
         ~WriteNeighborTuple(e), ~ReadReverse(e), ~WriteReverse(e), ~InlineWriteEntry(e)
  PROVE  SyncInv'
<1>1. DOMAIN ins = Elements /\ ins \in [Elements -> Locals]
  BY DEF SyncInv, LInv, PageInv
<1> DEFINE r == ins[e]
<1>2. r \in Locals /\ "pc" \in DOMAIN r
  BY <1>1 DEF Locals
<1>3. ASSUME NEW q, Become(e, q) PROVE ins'[e] = q
  BY <1>1, <1>3 DEF Become
<1> DEFINE Quiet == /\ UNCHANGED <<nbr, inl>> /\ ins'[e].pc \notin {"link", "colocate"}
                    /\ ins[e].pc = "colocate" => ins'[e].pc = "aborted"
<1>4. CASE ReadMeta(e)
  <2> DEFINE q == [r EXCEPT !.m = opt_m, !.entry = meta.entry, !.entry_level = meta.level,
                     !.tids = [s \in 0..(TotalSlots(Level[e], opt_m) - 1) |-> None]]
  <2>1. "pc" \in DOMAIN q
    BY <1>2
  <2>2. \E z \in {"neighbors", "descend", "search"} : \E d : Become(e, d) /\ d.pc = z
    <3>1. \/ Become(e, [q EXCEPT !.pc = "neighbors"])
          \/ Become(e, [q EXCEPT !.pc = "descend", !.ep = meta.entry, !.lc = meta.level])
          \/ Become(e, Search(e, q, meta.entry, meta.level, FALSE))
      BY <1>4, Zenon DEF ReadMeta
    <3> DEFINE no == FALSE
    <3>2. Search(e, q, meta.entry, meta.level, no).pc = "search"
      <4> HIDE DEF q, no
      <4> QED
        BY <2>1, SearchEarly
    <3>3. /\ [q EXCEPT !.pc = "neighbors"].pc = "neighbors"
          /\ [q EXCEPT !.pc = "descend", !.ep = meta.entry, !.lc = meta.level].pc = "descend"
      <4> HIDE DEF q
      <4> QED
        BY <2>1
    <3> HIDE DEF q
    <3> QED
      BY <3>1, <3>2, <3>3, Zenon
  <2>3. ins[e].pc = "idle" /\ UNCHANGED <<nbr, inl>>
    BY <1>4 DEF ReadMeta
  <2> QED
    BY <1>3, <2>2, <2>3, QuietStep
<1>5. CASE Descend(e)
  <2>1. r.pc = "descend" /\ UNCHANGED <<nbr, inl>>
    BY <1>5 DEF Descend
  <2>2. \E d : Become(e, d) /\ d.pc \in {"descend", "search"}
    <3> DEFINE nearer == {n \in NbrTidsAtLayer(r.ep, r.lc, r.m) : Dist(n, e) < Dist(r.ep, e)}
               near == [r EXCEPT !.ep = Closest(e, nearer)]
               down == [r EXCEPT !.lc = @ - 1]
    <3>1. \/ Become(e, near) \/ Become(e, down)
          \/ Become(e, Search(e, r, r.ep, r.lc - 1, FALSE))
      BY <1>5, Zenon DEF Descend
    <3>2. near.pc = "descend" /\ down.pc = "descend"
      <4> HIDE DEF nearer, r
      <4> QED
        BY <1>2, <2>1
    <3> DEFINE no == FALSE
    <3>3. Search(e, r, r.ep, r.lc - 1, no).pc = "search"
      <4> HIDE DEF r, no
      <4> QED
        BY <1>2, SearchEarly
    <3> HIDE DEF near, down, r
    <3> QED
      BY <3>1, <3>2, <3>3, Zenon
  <2> QED
    BY <1>3, <2>1, <2>2, QuietStep
<1>6. CASE Expand(e)
  <2> DEFINE c == Closest(e, r.C)
             new == Unvisited(e, c)
             members == {n \in new : r.restricted => Partition[n] = Partition[e]}
             q == [r EXCEPT !.C = (@ \ {c}) \cup new, !.visited = @ \cup new,
                            !.expansions = @ + 1,
                            !.W = Range(Nearest(e, @ \cup members, Efc))]
  <2>1. r.pc = "search" /\ Become(e, q) /\ UNCHANGED <<nbr, inl>>
    BY <1>6 DEF Expand
  <2>2. q.pc = "search"
    <3> HIDE DEF c, new, members, r
    <3> QED
      BY <1>2, <2>1
  <2> HIDE DEF q
  <2> QED
    BY <1>3, <2>1, <2>2, QuietStep
<1>7. CASE SelectLayer(e) \/ SelectGlobalHalf(e) \/ SelectPayloadHalf(e)
  <2>1. r.pc = "search" /\ UNCHANGED <<nbr, inl>>
    BY <1>7 DEF SelectLayer, SelectGlobalHalf, SelectPayloadHalf
  <2>2. \E d : Become(e, d) /\ d.pc \in {"search", "neighbors"}
    <3>1. CASE SelectLayer(e)
      <4> DEFINE q == [r EXCEPT !.tids = Put(@, NeighborStart(r.m, Level[e], r.lc),
                                             Select(e, r.W, LayerM(r.lc, r.m)))]
      <4>1. Become(e, BelowLayer(e, q, r.W))
        BY <3>1 DEF SelectLayer
      <4>2. "pc" \in DOMAIN q
        <5> HIDE DEF r
        <5> QED
          BY <1>2
      <4> HIDE DEF q
      <4> QED
        BY <4>1, <4>2, BelowEarly
    <3>2. CASE SelectGlobalHalf(e)
      <4> DEFINE q == [r EXCEPT !.tids = Put(@, Start0(e), Select(e, r.W, r.m)), !.cands = r.W]
                 yes == TRUE
      <4>1. Become(e, Search(e, q, r.ep, 0, yes))
        BY <3>2 DEF SelectGlobalHalf
      <4>2. "pc" \in DOMAIN q
        <5> HIDE DEF r
        <5> QED
          BY <1>2
      <4> HIDE DEF q, yes
      <4>3. Search(e, q, r.ep, 0, yes).pc = "search"
        BY <4>2, SearchEarly
      <4> QED
        BY <4>1, <4>3
    <3>3. CASE SelectPayloadHalf(e)
      <4> DEFINE psel == Select(e, PayloadCands(e), index.payload_m)
                 q == [r EXCEPT !.tids = Put(@, Start0(e) + r.m, psel \o Backfill(e, psel)),
                                !.payload_real = Len(psel)]
      <4>1. Become(e, BelowLayer(e, q, r.cands))
        BY <3>3 DEF SelectPayloadHalf
      <4>2. "pc" \in DOMAIN q
        <5> HIDE DEF r, psel
        <5> QED
          BY <1>2
      <4> HIDE DEF q
      <4> QED
        BY <4>1, <4>2, BelowEarly
    <3> QED
      BY <1>7, <3>1, <3>2, <3>3
  <2> QED
    BY <1>3, <2>1, <2>2, QuietStep
<1>8. CASE WriteElementTuple(e) \/ MaybeUpdateEntry(e)
  <2>1. r.pc \in {"element", "entry"} /\ UNCHANGED <<nbr, inl>>
    BY <1>8 DEF WriteElementTuple, MaybeUpdateEntry
  <2>2. \E d : Become(e, d) /\ d.pc \in {"entry", "reverse"}
    <3>1. \/ Become(e, [r EXCEPT !.pc = "entry"])
          \/ Become(e, [r EXCEPT !.pc = "reverse", !.todo = ReverseSlots(e)])
      BY <1>8 DEF WriteElementTuple, MaybeUpdateEntry
    <3>2. /\ [r EXCEPT !.pc = "entry"].pc = "entry"
          /\ [r EXCEPT !.pc = "reverse", !.todo = ReverseSlots(e)].pc = "reverse"
      <4> HIDE DEF r
      <4> QED
        BY <1>2
    <3> HIDE DEF r
    <3> QED
      BY <3>1, <3>2, Zenon
  <2> QED
    BY <1>3, <2>1, <2>2, QuietStep
<1>9. CASE Finish(e) \/ Fail(e)
  <2>1. UNCHANGED <<nbr, inl>> /\ (Finish(e) => r.pc = "reverse")
    BY <1>9 DEF Finish, Fail
  <2>2. /\ "pc" \in DOMAIN Idle
        /\ Finish(e) => Become(e, [Idle EXCEPT !.pc = "done"])
        /\ Fail(e) => Become(e, [Idle EXCEPT !.pc = "aborted"])
    BY DEF Finish, Fail, Idle
  <2>3. /\ [Idle EXCEPT !.pc = "done"].pc = "done"
        /\ [Idle EXCEPT !.pc = "aborted"].pc = "aborted"
    BY <2>2
  <2> QED
    BY <1>3, <1>9, <2>1, <2>2, <2>3, QuietStep
<1> QED
  BY <1>4, <1>5, <1>6, <1>7, <1>8, <1>9 DEF Step

(* A new neighbour tuple goes out with its co-located entries. *)
LEMMA TupleInSync ==
  ASSUME SelectionAssumption, InsertAssumption, SyncInv, LInv', NEW e \in Elements,
         WriteNeighborTuple(e)
  PROVE  SyncInv'
<1> DEFINE r == ins[e]
           q == [r EXCEPT !.pc = "element"]
           layer0 == 0..(LayerM(0, r.m) - 1)
           I == [j \in layer0 |-> r.tids[Start0(e) + j]]
<1>0. LInv /\ PageInv /\ Layout(index)
  BY Basics DEF SyncInv, LInv
<1>1. r \in Locals /\ r.pc = "neighbors"
  BY <1>0 DEF WriteNeighborTuple, PageInv
<1>2. r.m = index.m /\ Sound(index, Known, e, r.tids)
  BY <1>0, <1>1 DEF LInv, Phase, Early, Busy
<1>3. q.pc = "element"
  <2> HIDE DEF r
  <2> QED
    BY <1>1 DEF Locals
<1>4. /\ ins' = [ins EXCEPT ![e] = q] /\ nbr' = [nbr EXCEPT ![e] = r.tids]
      /\ inl' = IF index.inline THEN [inl EXCEPT ![e] = I] ELSE inl
      /\ index' = index
  BY DEF WriteNeighborTuple, Become
<1> HIDE DEF q
<1>5. ins'[e].pc = "element"
  BY <1>0, <1>3, <1>4 DEF PageInv
<1>6. Step(e)
  BY DEF Step
<1>7. ASSUME ~overlap' PROVE Alone' /\ Placed' /\ Sparing'
  <2>1. \A x \in Elements : ins'[x].pc \notin {"link", "colocate"}
    BY <1>5, <1>6, <1>7, OnlyMover DEF Busy, Reverse
  <2> QED
    BY <1>6, <1>7, <2>1, OnlyMover DEF Placed, Sparing
<1>8. ASSUME Calm' PROVE Described'
  <2>1. /\ index.inline /\ ~overlap' /\ \A x \in Elements : ins'[x].pc # "aborted"
    BY <1>4, <1>8 DEF Calm
  <2>2. /\ ~overlap
        /\ \A x \in Elements \ {e} : ins'[x] = ins[x] /\ ins[x].pc \notin Busy
    BY <1>6, <2>1, OnlyMover
  <2>3. Calm
    BY <1>1, <2>1, <2>2 DEF Calm
  <2>4. \A x \in Elements : ins[x].pc # "colocate"
    BY <1>1, <2>2 DEF Busy, Reverse
  <2>5. \A n \in Elements : \A j \in DOMAIN inl[n] : InSync(n, j)
    BY <2>3, <2>4 DEF SyncInv, Described, Awaits
  <2>6. /\ nbr'[e] = r.tids /\ inl'[e] = I
        /\ \A n \in Elements \ {e} : nbr'[n] = nbr[n] /\ inl'[n] = inl[n]
    <3> HIDE DEF I, r
    <3> QED
      BY <1>0, <1>4, <2>1 DEF PageInv
  <2>7. ASSUME NEW j \in layer0
        PROVE  Start0(e) + j \in Slots(index, e) /\ Start0(e) = Base(index, e)
    <3>1. /\ Base(index, e) \in Nat /\ index.m \in Nat \ {0} /\ index.payload_m \in Nat
          /\ \A s \in Base(index, e)..(Base(index, e) + index.m + index.payload_m - 1) :
               s \in Slots(index, e)
          /\ Start0(e) = Base(index, e)
      BY <1>0, <1>2, Bottom DEF Start0
    <3>2. LayerM(0, r.m) = index.m + index.payload_m
      BY <1>2 DEF LayerM
    <3>3. Start0(e) + j \in Base(index, e)..(Base(index, e) + index.m + index.payload_m - 1)
      <4> DEFINE w == LayerM(0, r.m)
      <4> HIDE DEF w
      <4> QED
        BY <3>1, <3>2 DEF w
    <3> QED
      BY <3>1, <3>3
  <2>8. ASSUME NEW j \in DOMAIN inl'[e] PROVE InSync(e, j)'
    <3>1. j \in layer0 /\ inl'[e][j] = r.tids[Start0(e) + j]
      BY <2>6, <2>8
    <3>2. Start0(e) + j \in DOMAIN r.tids /\ Start0(e) = Base(index, e)
      <4> HIDE DEF r, layer0
      <4> QED
        BY <1>2, <2>7, <3>1 DEF Sound
    <3> HIDE DEF r, layer0, I
    <3> QED
      BY <1>4, <2>6, <3>1, <3>2 DEF InSync, Slot
  <2>9. ASSUME NEW n \in Elements \ {e}, NEW j \in DOMAIN inl'[n] PROVE InSync(n, j)'
    BY <1>4, <2>5, <2>6 DEF InSync, Slot
  <2> QED
    BY <2>8, <2>9 DEF Described
<1> QED
  BY <1>7, <1>8 DEF SyncInv

(* The inserter of the edge that is being written. *)
LEMMA EdgeFacts ==
  ASSUME SelectionAssumption, InsertAssumption, LInv, NEW e \in Elements,
         ins[e].pc \in {"link", "colocate"}
  PROVE  LET s == LeastOf(ins[e].todo)
             n == Offered(e)
         IN /\ n \in Known /\ n \in Elements /\ s \in Slots(index, e) /\ n = ins[e].tids[s]
            /\ Sound(index, Known, n, nbr[n])
            /\ ins[e].m = index.m /\ LayerOf(index, e, s) <= Level[n]
            /\ LayerOfSlot(e, s) = LayerOf(index, e, s)
            /\ ins[e].pc = "link" => /\ ins[e].target \in Slots(index, n)
                                     /\ LayerOf(index, n, ins[e].target) = LayerOf(index, e, s)
<1> DEFINE r == ins[e]
           s == LeastOf(r.todo)
           n == Offered(e)
<1>0. PageInv /\ Layout(index) /\ Known \in SUBSET Elements /\ \A x \in Known : Sound(index, Known, x, nbr[x])
  BY Basics DEF LInv
<1>1. r \in Locals /\ r.m = index.m /\ Sound(index, Known, e, r.tids) /\ Offering(index, nbr, e, r)
  BY <1>0 DEF LInv, PageInv, Phase, Busy, Reverse
<1>2. s \in r.todo /\ n = r.tids[s]
  <2>1. r.todo \in SUBSET Nat /\ r.todo # {}
    BY <1>1 DEF Locals, Offering
  <2> HIDE DEF r
  <2> QED
    BY <2>1, LeastIn DEF r, Offered
<1>3. s \in Slots(index, e) /\ r.tids[s] # None
  <2> HIDE DEF s, r
  <2> QED
    BY <1>1, <1>2 DEF Offering
<1>4. n \in Known /\ LayerOf(index, e, s) <= Level[n]
  <2> HIDE DEF s, r, n
  <2> QED
    BY <1>1, <1>2, <1>3 DEF Sound
<1>5. LayerOfSlot(e, s) = LayerOf(index, e, s)
  <2>1. Start0(e) = Base(index, e)
    BY <1>0, <1>1, Bottom DEF Start0
  <2> HIDE DEF s
  <2> QED
    BY <1>1, <2>1 DEF LayerOfSlot, LayerOf
<1>6. ASSUME r.pc = "link"
      PROVE  r.target \in Slots(index, n) /\ LayerOf(index, n, r.target) = LayerOf(index, e, s)
  BY <1>1, <1>6 DEF Offering, Offered
<1> QED
  BY <1>0, <1>1, <1>2, <1>3, <1>4, <1>5, <1>6

(* The slots of layer 0 are those from Base on. *)
LEMMA BottomLayer ==
  ASSUME SelectionAssumption, Layout(index), NEW n \in Elements, NEW t \in Slots(index, n)
  PROVE  Base(index, n) <= t <=> LayerOf(index, n, t) = 0
<1>1. /\ Base(index, n) \in Nat /\ t \in Int /\ Level[n] \in Nat
      /\ LayerOf(index, n, t) \in 0..Level[n] /\ t \in LayerAt(index, n, LayerOf(index, n, t))
  BY Geometry DEF Slots
<1>2. ASSUME Base(index, n) <= t PROVE LayerOf(index, n, t) = 0
  BY <1>1, <1>2 DEF LayerOf
<1>3. ASSUME LayerOf(index, n, t) = 0 PROVE Base(index, n) <= t
  <2>1. t \in LayerAt(index, n, 0)
    BY <1>1, <1>3
  <2>2. (Level[n] - 0) * index.m = Base(index, n)
    BY <1>1 DEF Base
  <2> QED
    BY <1>1, <2>1, <2>2 DEF LayerAt
<1> QED
  BY <1>2, <1>3

(* Co-located entries are numbered from 0. *)
LEMMA EntryPlaces ==
  ASSUME PageInv, NEW n \in Elements
  PROVE  \A j \in DOMAIN inl[n] : j \in Nat
<1>1. inl[n] \in SlotArrays
  BY DEF PageInv
<1>2. PICK D \in SUBSET Nat : inl[n] \in [D -> Elements \cup {None}]
  BY <1>1 DEF SlotArrays
<1> QED
  BY <1>2

(* A reverse edge goes out, its co-located entry will follow. *)
LEMMA LinkInSync ==
  ASSUME SelectionAssumption, InsertAssumption, SyncInv, LInv', NEW e \in Elements,
         WriteReverse(e), NEW n, n = Offered(e)
  PROVE  SyncInv'
<1> DEFINE r == ins[e]
           s == LeastOf(r.todo)
           target == r.target
           N == [x \in DOMAIN nbr[n] |-> IF x = target THEN e ELSE nbr[n][x]]
           coloc == [r EXCEPT !.pc = "colocate"]
           linked == Linked(e, r)
           last == index.inline /\ LayerOfSlot(e, s) = 0
<1>0. LInv /\ PageInv /\ Layout(index)
  BY Basics DEF SyncInv, LInv
<1>1. r \in Locals /\ r.pc = "link"
  BY <1>0 DEF WriteReverse, PageInv
<1>2. /\ n \in Elements /\ Sound(index, Known, n, nbr[n])
      /\ LayerOfSlot(e, s) = LayerOf(index, e, s)
      /\ target \in Slots(index, n) /\ LayerOf(index, n, target) = LayerOf(index, e, s)
  BY <1>0, <1>1, EdgeFacts
<1>3. /\ ins' = [ins EXCEPT ![e] = IF last THEN coloc ELSE linked]
      /\ nbr' = [nbr EXCEPT ![n] = N]
      /\ index' = index /\ inl' = inl
  BY DEF WriteReverse, Become, Offered
<1>4. /\ coloc.pc = "colocate" /\ coloc.tids = r.tids /\ coloc.todo = r.todo
      /\ coloc.target = r.target /\ linked.pc = "reverse"
  <2>1. /\ coloc.pc = "colocate" /\ coloc.tids = r.tids /\ coloc.todo = r.todo
        /\ coloc.target = r.target
    <3> HIDE DEF r
    <3> QED
      BY <1>1 DEF Locals
  <2>2. linked.pc = "reverse"
    <3>1. linked = [r EXCEPT !.pc = "reverse", !.todo = @ \ {s}, !.snap = <<>>, !.target = 0]
      BY DEF Linked
    <3> HIDE DEF linked, r, s
    <3> QED
      BY <1>1, <3>1 DEF Locals
  <2> QED
    BY <2>1, <2>2
<1> HIDE DEF coloc, linked
<1>5. /\ last => ins'[e].pc = "colocate" /\ Offered(e)' = n /\ ins'[e].target = target
      /\ ~last => ins'[e].pc = "reverse"
  <2>1. /\ last => ins'[e] = coloc
        /\ ~last => ins'[e] = linked
    <3> HIDE DEF last
    <3> QED
      BY <1>0, <1>3 DEF PageInv
  <2> HIDE DEF last
  <2> QED
    BY <1>4, <2>1 DEF Offered
<1>6. Step(e)
  BY DEF Step
<1>7. DOMAIN nbr[n] = Slots(index, n)
  BY <1>2 DEF Sound
<1>8. /\ nbr'[n] = N /\ \A x \in Elements \ {n} : nbr'[x] = nbr[x]
      /\ DOMAIN N = DOMAIN nbr[n] /\ N[target] = e
      /\ \A x \in DOMAIN N : x # target => N[x] = nbr[n][x]
  <2>1. /\ DOMAIN N = DOMAIN nbr[n] /\ N[target] = e
        /\ \A x \in DOMAIN N : x # target => N[x] = nbr[n][x]
    <3> HIDE DEF target
    <3> QED
      BY <1>2, <1>7
  <2> HIDE DEF N
  <2> QED
    BY <1>0, <1>2, <1>3, <2>1 DEF PageInv
<1> HIDE DEF N
<1>9. Base(index, n) <= target <=> LayerOfSlot(e, s) = 0
  <2> HIDE DEF target, s
  <2> QED
    BY <1>0, <1>2, BottomLayer
<1>10. ASSUME ~overlap' PROVE Alone' /\ Placed' /\ Sparing'
  <2>1. \A x \in Elements \ {e} : ins'[x].pc \notin {"link", "colocate"}
    BY <1>6, <1>10, OnlyMover DEF Busy, Reverse
  <2>2. ins'[e].pc # "link" /\ (ins'[e].pc = "colocate" => last)
    BY <1>5
  <2>3. Sparing'
    BY <2>1, <2>2 DEF Sparing
  <2>4. ASSUME last
        PROVE  /\ ins'[e].target \in DOMAIN nbr'[Offered(e)']
               /\ Base(index', Offered(e)') <= ins'[e].target
               /\ nbr'[Offered(e)'][ins'[e].target] = e
    <3> HIDE DEF target, s
    <3> QED
      BY <1>2, <1>3, <1>5, <1>7, <1>8, <1>9, <2>4 DEF last
  <2>5. Placed'
    <3> HIDE DEF last
    <3> QED
      BY <2>1, <2>2, <2>4 DEF Placed
  <2> QED
    BY <1>6, <1>10, <2>3, <2>5, OnlyMover
<1>11. ASSUME Calm' PROVE Described'
  <2>1. /\ index.inline /\ ~overlap' /\ \A x \in Elements : ins'[x].pc # "aborted"
    BY <1>3, <1>11 DEF Calm
  <2>2. /\ ~overlap
        /\ \A x \in Elements \ {e} : ins'[x] = ins[x] /\ ins[x].pc \notin Busy
    BY <1>6, <2>1, OnlyMover
  <2>3. Calm
    BY <1>1, <2>1, <2>2 DEF Calm
  <2>4. \A x \in Elements : ins[x].pc # "colocate"
    BY <1>1, <2>2 DEF Busy, Reverse
  <2>5. \A x \in Elements : \A j \in DOMAIN inl[x] : InSync(x, j)
    BY <2>3, <2>4 DEF SyncInv, Described, Awaits
  <2>6. ASSUME NEW x \in Elements \ {n}, NEW j \in DOMAIN inl'[x] PROVE InSync(x, j)'
    BY <1>3, <1>8, <2>5 DEF InSync, Slot
  <2>7. ASSUME NEW j \in DOMAIN inl'[n] PROVE InSync(n, j)' \/ Awaits(e, n, j)'
    <3>0. j \in Nat /\ Base(index, n) \in Nat
      <4>1. j \in Nat
        BY <1>0, <1>2, <1>3, <2>7, EntryPlaces
      <4>2. Base(index, n) \in Nat
        BY <1>0, <1>2, Bottom
      <4> QED
        BY <4>1, <4>2
    <3>1. CASE Base(index, n) + j = target
      <4>1. last
        <5> HIDE DEF target, s
        <5>1. Base(index, n) <= target
          BY <3>0, <3>1
        <5> QED
          BY <1>9, <2>1, <5>1 DEF last
      <4> HIDE DEF target, last
      <4> QED
        BY <1>3, <1>5, <3>1, <4>1 DEF Awaits
    <3>2. CASE Base(index, n) + j # target
      <4>1. inl[n][j] = Slot(n, Base(index, n) + j)
        BY <1>2, <1>3, <2>5, <2>7 DEF InSync
      <4>2. Slot(n, Base(index, n) + j)' = Slot(n, Base(index, n) + j)
        <5> HIDE DEF target
        <5> QED
          BY <1>3, <1>8, <3>2 DEF Slot
      <4> QED
        BY <1>3, <4>1, <4>2 DEF InSync
    <3> QED
      BY <3>1, <3>2
  <2> QED
    BY <2>6, <2>7 DEF Described
<1> QED
  BY <1>10, <1>11 DEF SyncInv

(* The co-located entry follows. *)
LEMMA EntryInSync ==
  ASSUME SelectionAssumption, InsertAssumption, SyncInv, LInv', NEW e \in Elements,
         InlineWriteEntry(e), NEW n, n = Offered(e)
  PROVE  SyncInv'
<1> DEFINE r == ins[e]
           s == LeastOf(r.todo)
           at == InlinePlace(e, s)
           I == [j \in DOMAIN inl[n] |-> IF j = at THEN e ELSE inl[n][j]]
           linked == Linked(e, r)
<1>0. LInv /\ PageInv /\ Layout(index)
  BY Basics DEF SyncInv, LInv
<1>1. r \in Locals /\ r.pc = "colocate"
  BY <1>0 DEF InlineWriteEntry, PageInv
<1>2. n \in Elements /\ r.m = index.m /\ n = r.tids[s] /\ Sound(index, Known, n, nbr[n])
  BY <1>0, <1>1, EdgeFacts
<1>3. /\ ins' = [ins EXCEPT ![e] = linked]
      /\ inl' = [inl EXCEPT ![n] = I]
      /\ index' = index /\ nbr' = nbr
  BY DEF InlineWriteEntry, Become, Offered
<1>4. linked.pc = "reverse"
  <2>1. linked = [r EXCEPT !.pc = "reverse", !.todo = @ \ {s}, !.snap = <<>>, !.target = 0]
    BY DEF Linked
  <2> HIDE DEF linked, r, s
  <2> QED
    BY <1>1, <2>1 DEF Locals
<1> HIDE DEF linked
<1>5. ins'[e].pc = "reverse"
  BY <1>0, <1>3, <1>4 DEF PageInv
<1>6. Step(e)
  BY DEF Step
<1>7. at = r.target - Base(index, n) /\ Base(index, n) \in Nat
  <2>1. NeighborStart(r.m, Level[n], 0) = Base(index, n) /\ Base(index, n) \in Nat
    BY <1>0, <1>2, Bottom
  <2>2. at = r.target - NeighborStart(r.m, Level[r.tids[s]], 0)
    BY <1>2 DEF InlinePlace
  <2> HIDE DEF at, r, s
  <2> QED
    BY <1>2, <2>1, <2>2
<1> HIDE DEF at
<1>8. /\ inl'[n] = I /\ \A x \in Elements \ {n} : inl'[x] = inl[x]
      /\ DOMAIN I = DOMAIN inl[n]
      /\ \A j \in DOMAIN inl[n] : I[j] = IF j = at THEN e ELSE inl[n][j]
  <2>1. /\ DOMAIN I = DOMAIN inl[n]
        /\ \A j \in DOMAIN inl[n] : I[j] = IF j = at THEN e ELSE inl[n][j]
    BY Zenon
  <2> HIDE DEF I
  <2> QED
    BY <1>0, <1>2, <1>3, <2>1 DEF PageInv
<1> HIDE DEF I
<1>9. ASSUME ~overlap' PROVE Alone' /\ Placed' /\ Sparing'
  <2>1. \A x \in Elements : ins'[x].pc \notin {"link", "colocate"}
    BY <1>5, <1>6, <1>9, OnlyMover DEF Busy, Reverse
  <2> QED
    BY <1>6, <1>9, <2>1, OnlyMover DEF Placed, Sparing
<1>10. ASSUME Calm' PROVE Described'
  <2>1. /\ index.inline /\ ~overlap' /\ \A x \in Elements : ins'[x].pc # "aborted"
    BY <1>3, <1>10 DEF Calm
  <2>2. /\ ~overlap
        /\ \A x \in Elements \ {e} : ins'[x] = ins[x] /\ ins[x].pc \notin Busy
    BY <1>6, <2>1, OnlyMover
  <2>3. Calm
    BY <1>1, <2>1, <2>2 DEF Calm
  <2>4. \A x \in Elements \ {e} : ins[x].pc # "colocate"
    BY <2>2 DEF Busy, Reverse
  <2>5. \A x \in Elements : \A j \in DOMAIN inl[x] : InSync(x, j) \/ Awaits(e, x, j)
    BY <2>3, <2>4 DEF SyncInv, Described, Awaits
  <2>6. r.target \in DOMAIN nbr[n] /\ nbr[n][r.target] = e
    BY <1>1, <2>2 DEF SyncInv, Placed
  <2>7. ASSUME NEW x \in Elements \ {n}, NEW j \in DOMAIN inl'[x] PROVE InSync(x, j)'
    <3>1. InSync(x, j)
      BY <1>8, <2>5, <2>7 DEF Awaits
    <3> QED
      BY <1>3, <1>8, <3>1 DEF InSync, Slot
  <2>8. ASSUME NEW j \in DOMAIN inl'[n] PROVE InSync(n, j)'
    <3>0. j \in DOMAIN inl[n] /\ j \in Nat /\ r.target \in Nat
      <4>1. j \in DOMAIN inl[n]
        BY <1>8, <2>8
      <4>2. j \in Nat
        BY <1>0, <1>2, <4>1, EntryPlaces
      <4>3. r.target \in Nat
        BY <1>1 DEF Locals
      <4> QED
        BY <4>1, <4>2, <4>3
    <3>1. CASE j = at
      <4>1. inl'[n][j] = e
        BY <1>8, <3>0, <3>1
      <4>2. Base(index, n) + j = r.target
        <5> HIDE DEF r
        <5> QED
          BY <1>7, <3>0, <3>1
      <4> HIDE DEF r
      <4> QED
        BY <1>3, <2>6, <4>1, <4>2 DEF InSync, Slot
    <3>2. CASE j # at
      <4>1. inl'[n][j] = inl[n][j]
        BY <1>8, <3>0, <3>2
      <4>2. Base(index, n) + j # r.target
        <5> HIDE DEF r
        <5> QED
          BY <1>7, <3>0, <3>2
      <4>3. InSync(n, j)
        <5>1. ~Awaits(e, n, j)
          BY <4>2 DEF Awaits
        <5> HIDE DEF r
        <5> QED
          BY <1>2, <2>5, <3>0, <5>1
      <4> HIDE DEF r
      <4> QED
        BY <1>3, <4>1, <4>3 DEF InSync, Slot
    <3> QED
      BY <3>1, <3>2
  <2> QED
    BY <2>7, <2>8 DEF Described
<1> QED
  BY <1>9, <1>10 DEF SyncInv

(* A slot is chosen for the reverse edge, or none. *)
LEMMA ChoiceInSync ==
  ASSUME SelectionAssumption, InsertAssumption, SyncInv, LInv', NEW e \in Elements,
         ReadReverse(e)
  PROVE  SyncInv'
<1> DEFINE r == ins[e]
           s == LeastOf(r.todo)
           n == r.tids[s]
           D == ReverseRange(e, s)
           snap == [x \in D |-> Slot(n, x)]
           half == InPayloadHalf(e, s)
           target == TargetSlot(index.diversify, e, n, snap, half)
           drop == [r EXCEPT !.todo = @ \ {s}]
           link == [r EXCEPT !.pc = "link", !.snap = snap, !.target = target]
<1>0. LInv /\ PageInv /\ Known \in SUBSET Elements
  BY Basics DEF SyncInv, LInv
<1>1. r \in Locals /\ r.pc = "reverse" /\ r.todo # {}
  BY <1>0 DEF ReadReverse, PageInv
<1>2. n \in Known /\ D \in SUBSET Nat /\ IsFiniteSet(D)
      /\ \A x \in D : Slot(n, x) \in Elements \cup {None}
  BY <1>0, <1>1, RangeRead
<1>3. snap \in [D -> Elements \cup {None}] /\ n \in Elements
  <2> HIDE DEF n, D
  <2> QED
    BY <1>0, <1>2
<1>4. target \in D \cup {None}
  <2> DEFINE d == index.diversify
  <2> HIDE DEF D, n, snap, s, half, d
  <2>1. TargetSlot(d, e, n, snap, half) \in D \cup {None}
    BY <1>2, <1>3, TargetIn
  <2> QED
    BY <2>1 DEF d
<1>5. ASSUME target # None, ~half PROVE Spares(e, n, D, target)
  <2> SUFFICES ASSUME NEW u \in D, Slot(n, u) # None
               PROVE  \E y \in ({Slot(n, v) : v \in D \ {target}} \ {None}) \cup {e} :
                        Dist(y, n) <= Dist(Slot(n, u), n)
    BY DEF Spares
  <2>1. CASE u # target
    <3>1. Slot(n, u) \in {Slot(n, v) : v \in D \ {target}} \ {None}
      <4> HIDE DEF n, D, target
      <4> QED
        BY <2>1
    <3>2. Slot(n, u) \in Elements
      <4> HIDE DEF n, D
      <4> QED
        BY <1>2
    <3>3. Dist(Slot(n, u), n) \in Int
      <4> HIDE DEF n, D
      <4> QED
        BY <1>3, <3>2, Distances
    <3> HIDE DEF n, D, target
    <3> QED
      BY <3>1, <3>3
  <2>2. CASE u = target
    <3> DEFINE d == index.diversify
    <3>1. target = TargetSlot(d, e, n, snap, half)
      OBVIOUS
    <3>2. snap[target] # None /\ snap[target] = Slot(n, target)
      <4> HIDE DEF n, D, target
      <4> QED
        BY <2>2
    <3>3. \E y \in ({snap[v] : v \in D \ {target}} \ {None}) \cup {e} :
            Dist(y, n) <= Dist(snap[target], n)
      <4> HIDE DEF n, D, target, snap, half, d, s
      <4> QED
        BY <1>2, <1>3, <1>5, <3>1, <3>2, TargetSpares
    <3>4. {snap[v] : v \in D \ {target}} = {Slot(n, v) : v \in D \ {target}}
      <4>1. \A v \in D : snap[v] = Slot(n, v)
        OBVIOUS
      <4> HIDE DEF n, D, target, snap
      <4> QED
        BY <4>1
    <3> HIDE DEF n, D, target, snap
    <3> QED
      BY <2>2, <3>2, <3>3, <3>4
  <2> QED
    BY <2>1, <2>2
<1>6. /\ Become(e, IF target = None THEN drop ELSE link)
      /\ index' = index /\ nbr' = nbr /\ inl' = inl
  BY DEF ReadReverse
<1> HIDE DEF target, snap
<1>7. /\ drop.pc = "reverse" /\ link.pc = "link" /\ link.tids = r.tids /\ link.todo = r.todo
      /\ link.m = r.m /\ link.target = target
  <2> HIDE DEF r, s
  <2> QED
    BY <1>1 DEF Locals
<1>8. ins'[e] = IF target = None THEN drop ELSE link
  <2> HIDE DEF drop, link
  <2> QED
    BY <1>0, <1>6 DEF PageInv, Become
<1> HIDE DEF drop, link
<1>9. Step(e)
  BY DEF Step
<1>10. CASE target = None
  BY <1>1, <1>6, <1>7, <1>8, <1>9, <1>10, QuietStep
<1>11. CASE target # None
  <2>1. /\ ins'[e].pc = "link" /\ ins'[e].tids = r.tids /\ ins'[e].todo = r.todo
        /\ ins'[e].m = r.m /\ ins'[e].target = target
    BY <1>7, <1>8, <1>11
  <2>2. ASSUME NEW z
        PROVE  ReverseRange(e, z)' = ReverseRange(e, z) /\ InPayloadHalf(e, z)' = InPayloadHalf(e, z)
    <3>1. Start0(e)' = Start0(e)
      BY <2>1 DEF Start0
    <3>2. LayerOfSlot(e, z)' = LayerOfSlot(e, z) /\ InPayloadHalf(e, z)' = InPayloadHalf(e, z)
      BY <1>6, <2>1, <3>1 DEF LayerOfSlot, InPayloadHalf
    <3>3. RangeOff(e, z)' = RangeOff(e, z) /\ RangeLen(e, z)' = RangeLen(e, z)
      BY <1>6, <2>1, <3>2 DEF RangeOff, RangeLen, LayerM
    <3> QED
      BY <2>1, <3>2, <3>3 DEF ReverseRange
  <2>3. ASSUME ~overlap' PROVE Alone' /\ Placed' /\ Sparing'
    <3>1. \A x \in Elements \ {e} : ins'[x].pc \notin {"link", "colocate"}
      BY <1>9, <2>3, OnlyMover DEF Busy, Reverse
    <3>2. Placed'
      BY <2>1, <3>1 DEF Placed
    <3> PICK z : z = s
      OBVIOUS
    <3> PICK q : q = n
      OBVIOUS
    <3>3. LeastOf(ins'[e].todo) = z /\ Offered(e)' = q
      BY <2>1 DEF Offered
    <3>4. target \in ReverseRange(e, z)' /\ (~InPayloadHalf(e, z)' => Spares(e, q, D, target))
      <4>1. target \in D
        BY <1>4, <1>11
      <4> QED
        BY <1>5, <1>11, <2>2, <4>1
    <3>5. Spares(e, q, D, target) => Spares(e, Offered(e), ReverseRange(e, z), ins[e].target)'
      <4>1. \A v : Slot(q, v)' = Slot(q, v)
        BY <1>6 DEF Slot
      <4>2. ReverseRange(e, z)' = D
        BY <2>2
      <4> HIDE DEF D, n, s, r
      <4> QED
        BY <2>1, <3>3, <4>1, <4>2 DEF Spares
    <3>6. Sparing'
      <4> HIDE DEF D, n, s, r
      <4> QED
        BY <2>1, <3>1, <3>3, <3>4, <3>5 DEF Sparing
    <3> QED
      BY <1>9, <2>3, <3>2, <3>6, OnlyMover
  <2>4. ASSUME Calm' PROVE Described'
    <3>1. /\ index.inline /\ ~overlap' /\ \A x \in Elements : ins'[x].pc # "aborted"
      BY <1>6, <2>4 DEF Calm
    <3>2. /\ ~overlap
          /\ \A x \in Elements \ {e} : ins'[x] = ins[x] /\ ins[x].pc \notin Busy
      BY <1>9, <3>1, OnlyMover
    <3>3. Calm
      BY <1>1, <3>1, <3>2 DEF Calm
    <3>4. \A x \in Elements : ins[x].pc # "colocate"
      BY <1>1, <3>2 DEF Busy, Reverse
    <3>5. \A x \in Elements : \A j \in DOMAIN inl[x] : InSync(x, j)
      BY <3>3, <3>4 DEF SyncInv, Described, Awaits
    <3>6. \A x \in Elements : \A j \in DOMAIN inl'[x] : InSync(x, j)'
      BY <1>6, <3>5 DEF InSync, Slot
    <3> QED
      BY <3>6 DEF Described
  <2> QED
    BY <2>3, <2>4 DEF SyncInv
<1> QED
  BY <1>10, <1>11

(* Every step of every insert preserves the invariant. *)
LEMMA SyncInductive ==
  ASSUME SelectionAssumption, InsertAssumption, SyncInv, [Next]_vars
  PROVE  SyncInv'
<1>1. LInv'
  BY LinksInductive DEF SyncInv
<1>2. ASSUME NEW e \in Elements, Step(e) \/ Fail(e) PROVE SyncInv'
  BY <1>1, <1>2, QuietSteps, TupleInSync, ChoiceInSync, LinkInSync, EntryInSync
<1>3. ASSUME UNCHANGED vars PROVE SyncInv'
  <2>1. UNCHANGED <<index, opt_m, meta, elements, nbr, inl, ins, overlap>>
    BY <1>3 DEF vars
  <2>2. \A x : Offered(x)' = Offered(x)
    BY <2>1 DEF Offered
  <2>3. Alone' = Alone /\ Placed' = Placed /\ Calm' = Calm
    BY <2>1, <2>2 DEF Alone, Placed, Calm
  <2>4. Described' = Described
    <3>1. \A x, n, j : Awaits(x, n, j)' = Awaits(x, n, j) /\ InSync(n, j)' = InSync(n, j)
      BY <2>1, <2>2 DEF Awaits, InSync, Slot
    <3> QED
      BY <2>1, <3>1 DEF Described
  <2>5. Sparing' = Sparing
    <3>1. \A x : Start0(x)' = Start0(x)
      BY <2>1 DEF Start0
    <3>2. \A x, s : LayerOfSlot(x, s)' = LayerOfSlot(x, s)
      BY <2>1, <3>1 DEF LayerOfSlot
    <3>3. \A x, s : InPayloadHalf(x, s)' = InPayloadHalf(x, s)
      BY <2>1, <3>1 DEF InPayloadHalf
    <3>4. \A x, s : RangeOff(x, s)' = RangeOff(x, s) /\ RangeLen(x, s)' = RangeLen(x, s)
      BY <2>1, <3>2, <3>3 DEF RangeOff, RangeLen, LayerM
    <3>5. \A x, s : ReverseRange(x, s)' = ReverseRange(x, s)
      BY <2>1, <3>2, <3>4 DEF ReverseRange
    <3>6. \A x, n, R, t : Spares(x, n, R, t)' = Spares(x, n, R, t)
      BY <2>1 DEF Spares, Slot
    <3> QED
      BY <2>1, <2>2, <3>3, <3>5, <3>6 DEF Sparing
  <2> QED
    BY <1>1, <2>1, <2>3, <2>4, <2>5 DEF SyncInv
<1> QED
  BY <1>2, <1>3 DEF Next

(* The invariant holds in every reachable state. *)
LEMMA SyncInvariance == Spec => []SyncInv
<1>1. Init => SyncInv
  <2> SUFFICES ASSUME Init PROVE SyncInv
    OBVIOUS
  <2>1. LInv
    BY LinksInit, SelectionAssumption, InsertAssumption
  <2>2. /\ \A x \in Elements : ins[x].pc = "idle"
        /\ \A x \in Elements : inl[x] = <<>>
    BY DEF Init, Idle
  <2>3. Alone /\ Placed /\ Sparing
    BY <2>2 DEF Alone, Placed, Sparing, Busy, Early, Reverse
  <2>4. Described
    <3>1. DOMAIN <<>> = {}
      OBVIOUS
    <3> QED
      BY <2>2, <3>1 DEF Described
  <2> QED
    BY <2>1, <2>3, <2>4 DEF SyncInv
<1>2. SyncInv /\ [Next]_vars => SyncInv'
  BY SyncInductive, SelectionAssumption, InsertAssumption
<1> QED
  BY <1>1, <1>2, PTL DEF Spec

(* acorn_t2_inline_write_entry: whenever every insert so far has completed *)
(* one after the other, each co-located entry describes the element its    *)
(* slot names.                                                             *)
THEOREM EntriesInSync == Spec => []InlineInSync
<1>1. SyncInv => InlineInSync
  <2> SUFFICES ASSUME SyncInv, index.inline, ~overlap, InFlight = {},
                      \A e \in Elements : ins[e].pc # "aborted",
                      NEW n \in elements, NEW j \in DOMAIN inl[n]
               PROVE  inl[n][j] = Slot(n, NeighborStart(index.m, Level[n], 0) + j)
    BY DEF InlineInSync
  <2>1. LInv /\ PageInv /\ Layout(index) /\ n \in Elements
    BY Basics, SelectionAssumption, InsertAssumption DEF SyncInv, LInv, PageInv
  <2>2. Described
    BY DEF SyncInv, Calm
  <2>3. \A x \in Elements : ins[x].pc # "colocate"
    BY DEF InFlight
  <2>4. inl[n][j] = Slot(n, Base(index, n) + j)
    BY <2>1, <2>2, <2>3 DEF Described, Awaits, InSync
  <2>5. NeighborStart(index.m, Level[n], 0) = Base(index, n)
    BY <2>1, Bottom, SelectionAssumption
  <2> QED
    BY <2>4, <2>5
<1> QED
  BY <1>1, SyncInvariance, PTL

-----------------------------------------------------------------------------
(* The nearest neighbour of a list *)

(* The slots of a list outside the payload half. *)
GlobalSlots(n, l) ==
  LET start == NeighborStart(index.m, Level[n], l)
      width == IF index.payload_edges THEN index.m ELSE LayerM(l, index.m)
  IN start..(start + width - 1)

LEMMA GlobalGeometry ==
  ASSUME SelectionAssumption, LInv, Layout(index), NEW n \in Elements, NEW l \in 0..Level[n]
  PROVE  /\ \A t \in GlobalSlots(n, l) : t \in Slots(index, n) /\ LayerOf(index, n, t) = l
         /\ GlobalList(n, l) = {Slot(n, t) : t \in GlobalSlots(n, l)} \ {None}
         /\ IsFiniteSet(GlobalSlots(n, l))
<1> DEFINE start == (Level[n] - l) * index.m
           width == IF index.payload_edges THEN index.m ELSE LayerM(l, index.m)
<1>1. Level[n] \in Nat /\ index.m \in Nat \ {0} /\ index.payload_m \in Nat
  BY DEF SelectionAssumption, Layout
<1>2. /\ width \in Nat /\ width <= Width(index, l) /\ Width(index, l) \in Nat
      /\ Level[n] - l \in Int
  BY <1>1 DEF LayerM, Width
<1>3. start \in Int
  BY <1>1, <1>2
<1>4. GlobalSlots(n, l) = start..(start + width - 1)
  BY DEF GlobalSlots, NeighborStart
<1>5. LayerAt(index, n, l) = start..(start + Width(index, l) - 1)
  BY DEF LayerAt
<1> HIDE DEF start, width
<1>6. \A t \in GlobalSlots(n, l) : t \in LayerAt(index, n, l)
  BY <1>2, <1>3, <1>4, <1>5
<1>7. IsFiniteSet(GlobalSlots(n, l))
  <2>1. start + width - 1 \in Int
    BY <1>2, <1>3
  <2> QED
    BY <1>3, <1>4, <2>1, FS_Interval
<1>8. GlobalList(n, l) = {Slot(n, t) : t \in GlobalSlots(n, l)} \ {None}
  BY DEF GlobalList, GlobalSlots
<1> QED
  BY <1>6, <1>7, <1>8, Geometry

(* A list that has members has a nearest one. *)
LEMMA NearestIn ==
  ASSUME SelectionAssumption, InsertAssumption, LInv, NEW n \in elements, NEW l \in 0..Level[n],
         GlobalList(n, l) # {}
  PROVE  /\ Closest(n, GlobalList(n, l)) \in GlobalList(n, l)
         /\ GlobalList(n, l) \subseteq Elements
<1>1. /\ PageInv /\ Layout(index) /\ n \in Elements /\ Sound(index, Known, n, nbr[n])
      /\ Known \subseteq Elements
  BY Basics DEF LInv, PageInv
<1> DEFINE G == GlobalSlots(n, l)
           L == GlobalList(n, l)
           V == {Slot(n, t) : t \in G}
<1>2. /\ IsFiniteSet(G) /\ L = V \ {None} /\ \A t \in G : t \in Slots(index, n)
  BY <1>1, GlobalGeometry
<1>3. L \subseteq Elements
  <2> HIDE DEF G
  <2> QED
    BY <1>1, <1>2 DEF Slot, Sound
<1>4. IsFiniteSet(L)
  <2> HIDE DEF G
  <2> DEFINE f == [t \in G |-> Slot(n, t)]
  <2>1. Range(f) = V
    BY DEF Range
  <2>2. DOMAIN f = G /\ f = [t \in G |-> f[t]]
    OBVIOUS
  <2> HIDE DEF f, V
  <2>3. IsFiniteSet(V)
    BY <1>2, <2>1, <2>2, FiniteRange
  <2> QED
    BY <1>2, <2>3, FS_Subset
<1> HIDE DEF G, V
<1> QED
  BY <1>1, <1>3, <1>4, EndsIn

(* A slot is overwritten without losing the nearest neighbour. *)
LEMMA LinkKeepsNearest ==
  ASSUME SelectionAssumption, InsertAssumption, SyncInv, NEW e \in Elements, WriteReverse(e),
         ~overlap', NEW n \in elements, n = Offered(e), NEW l \in 0..Level[n],
         GlobalList(n, l) # {}
  PROVE  \E x \in GlobalList(n, l)' : Dist(n, x) <= Dist(n, Closest(n, GlobalList(n, l)))
<1> DEFINE r == ins[e]
           s == LeastOf(r.todo)
           G == GlobalSlots(n, l)
<1> PICK t : t = r.target
  OBVIOUS
<1> PICK near : near = Closest(n, GlobalList(n, l))
  OBVIOUS
<1>0. /\ LInv /\ PageInv /\ Layout(index) /\ n \in Elements /\ ~overlap /\ Sparing
      /\ r.pc = "link" /\ index' = index
  <2>1. LInv /\ PageInv /\ Layout(index) /\ n \in Elements
    BY Basics DEF SyncInv, LInv, PageInv
  <2>2. ~overlap /\ r.pc = "link" /\ index' = index
    BY DEF WriteReverse
  <2> QED
    BY <2>1, <2>2 DEF SyncInv
<1>1. /\ Sound(index, Known, n, nbr[n]) /\ DOMAIN nbr[n] = Slots(index, n)
      /\ LayerOfSlot(e, s) = LayerOf(index, e, s)
      /\ t \in Slots(index, n) /\ LayerOf(index, n, t) = LayerOf(index, e, s)
      /\ r.m = index.m /\ n = r.tids[s]
  BY <1>0, EdgeFacts DEF Sound
<1>2. nbr'[n] = [x \in DOMAIN nbr[n] |-> IF x = t THEN e ELSE nbr[n][x]]
  BY <1>0, <1>1 DEF WriteReverse, PageInv
<1>3. /\ \A u : u # t => Slot(n, u)' = Slot(n, u)
      /\ Slot(n, t)' = e
  BY <1>1, <1>2 DEF Slot
<1>4. /\ \A u \in G : u \in Slots(index, n) /\ LayerOf(index, n, u) = l
      /\ GlobalList(n, l) = {Slot(n, u) : u \in G} \ {None}
  BY <1>0, GlobalGeometry
<1>5. GlobalSlots(n, l)' = G
  BY <1>0 DEF GlobalSlots, LayerM
<1>6. GlobalList(n, l)' = {Slot(n, u)' : u \in G} \ {None}
  BY <1>5 DEF GlobalList, GlobalSlots
<1>7. near \in GlobalList(n, l) /\ near \in Elements
  BY <1>0, NearestIn
<1>8. Dist(n, near) = Dist(near, n) /\ Dist(near, n) \in Int
  BY <1>0, <1>7, Distances
<1> HIDE DEF G
<1>9. CASE t \notin G
  <2>1. PICK u \in G : Slot(n, u) = near /\ near # None
    BY <1>4, <1>7
  <2>2. Slot(n, u)' = near
    BY <1>3, <1>9, <2>1
  <2>3. near \in GlobalList(n, l)'
    BY <1>6, <2>1, <2>2
  <2> QED
    BY <1>8, <2>3
<1>10. CASE t \in G
  <2>1. LayerOfSlot(e, s) = l /\ t \in ReverseRange(e, s)
    <3>1. LayerOfSlot(e, s) = l
      BY <1>1, <1>4, <1>10
    <3> QED
      BY <1>0, <3>1 DEF Sparing
  <2> DEFINE start == NeighborStart(index.m, Level[n], l)
  <2>2. ReverseRange(e, s) = (start + RangeOff(e, s))..(start + RangeOff(e, s) + RangeLen(e, s) - 1)
    BY <1>1, <2>1 DEF ReverseRange
  <2>3. start \in Int /\ index.m \in Nat
    <3>1. Level[n] - l \in Int /\ index.m \in Int
      BY <1>0 DEF SelectionAssumption, Layout
    <3> QED
      BY <1>0, <3>1 DEF NeighborStart, Layout
  <2>4. ~InPayloadHalf(e, s)
    <3> SUFFICES ASSUME InPayloadHalf(e, s) PROVE FALSE
      OBVIOUS
    <3>1. RangeOff(e, s) = index.m /\ index.payload_edges
      BY <1>1 DEF RangeOff, InPayloadHalf
    <3>2. G = start..(start + index.m - 1)
      BY <3>1 DEF G, GlobalSlots
    <3> HIDE DEF start, s
    <3>3. t \in Int /\ t < start + index.m /\ start + index.m <= t
      BY <1>10, <2>1, <2>2, <2>3, <3>1, <3>2
    <3> QED
      BY <2>3, <3>3
  <2>5. ReverseRange(e, s) = G
    <3>1. RangeOff(e, s) = 0
          /\ RangeLen(e, s) = IF index.payload_edges THEN index.m ELSE LayerM(l, index.m)
      BY <1>1, <2>1, <2>4 DEF RangeOff, RangeLen
    <3>2. G = start..(start + (IF index.payload_edges THEN index.m ELSE LayerM(l, index.m)) - 1)
      BY DEF G, GlobalSlots
    <3>3. start + 0 = start
      BY <2>3
    <3> HIDE DEF start, s
    <3> QED
      BY <2>2, <3>1, <3>2, <3>3
  <2>6. Spares(e, n, G, t)
    BY <1>0, <2>4, <2>5 DEF Sparing
  <2>7. PICK u \in G : Slot(n, u) = near /\ near # None
    BY <1>4, <1>7
  <2>8. PICK y \in ({Slot(n, v) : v \in G \ {t}} \ {None}) \cup {e} : Dist(y, n) <= Dist(near, n)
    BY <2>6, <2>7 DEF Spares
  <2>9. e # None /\ y \in Elements
    <3>1. \A v \in G : Slot(n, v) # None => Slot(n, v) \in Elements
      BY <1>0, <1>4, NearestIn
    <3> QED
      BY <2>8, <3>1 DEF SelectionAssumption
  <2>10. y \in GlobalList(n, l)'
    <3>1. CASE y = e
      <4>1. y = Slot(n, t)'
        BY <1>3, <3>1
      <4> QED
        BY <1>6, <1>10, <2>9, <3>1, <4>1
    <3>2. CASE y # e
      <4>1. PICK v \in G \ {t} : y = Slot(n, v) /\ y # None
        BY <2>8, <3>2
      <4>2. y = Slot(n, v)'
        BY <1>3, <4>1
      <4> QED
        BY <1>6, <4>1, <4>2
    <3> QED
      BY <3>1, <3>2
  <2>11. Dist(n, y) = Dist(y, n)
    BY <1>0, <2>9, Distances
  <2> QED
    BY <1>8, <2>8, <2>10, <2>11
<1> QED
  BY <1>9, <1>10

(* A step writes to the tuple of a new element, which is in no list yet,   *)
(* or one reverse edge.                                                    *)
LEMMA TuplesKept ==
  ASSUME SelectionAssumption, InsertAssumption, LInv, NEW e \in Elements, Step(e) \/ Fail(e),
         NEW n \in elements, ~(WriteReverse(e) /\ n = Offered(e))
  PROVE  nbr'[n] = nbr[n]
<1>1. PageInv /\ n \in Elements
  BY DEF LInv, PageInv
<1>2. CASE WriteNeighborTuple(e)
  <2>1. e \notin elements
    BY <1>2 DEF WriteNeighborTuple, LInv, Phase, Early
  <2> QED
    BY <1>1, <1>2, <2>1 DEF WriteNeighborTuple, PageInv
<1>3. CASE WriteReverse(e)
  <2> PICK y : y = Offered(e)
    OBVIOUS
  <2>1. \E N : nbr' = [nbr EXCEPT ![y] = N]
    BY <1>3 DEF WriteReverse, Offered
  <2> QED
    BY <1>1, <1>3, <2>1 DEF PageInv
<1>4. CASE ~WriteNeighborTuple(e) /\ ~WriteReverse(e)
  <2>1. nbr' = nbr
    <3>1. CASE ReadMeta(e) \/ Descend(e) \/ Expand(e)
      BY <3>1 DEF ReadMeta, Descend, Expand
    <3>2. CASE SelectLayer(e) \/ SelectGlobalHalf(e) \/ SelectPayloadHalf(e)
      BY <3>2 DEF SelectLayer, SelectGlobalHalf, SelectPayloadHalf
    <3>3. CASE WriteElementTuple(e) \/ MaybeUpdateEntry(e) \/ ReadReverse(e)
      BY <3>3 DEF WriteElementTuple, MaybeUpdateEntry, ReadReverse
    <3>4. CASE InlineWriteEntry(e) \/ Finish(e) \/ Fail(e)
      BY <3>4 DEF InlineWriteEntry, Finish, Fail
    <3> QED
      BY <1>4, <3>1, <3>2, <3>3, <3>4 DEF Step
  <2> QED
    BY <2>1
<1> QED
  BY <1>2, <1>3, <1>4

(* acorn_add_reverse_edge_at_layer: without overlap, no replacement in a   *)
(* list outside the payload half loses its nearest member, except to a     *)
(* nearer one.                                                             *)
THEOREM NearestStays == Spec => NearestKept
<1>1. ASSUME SyncInv, [Next]_vars, ~UNCHANGED vars, ~overlap',
             NEW n \in elements, NEW l \in Layers(n), GlobalList(n, l) # {}
      PROVE  \E x \in GlobalList(n, l)' : Dist(n, x) <= Dist(n, Closest(n, GlobalList(n, l)))
  <2>1. PICK e \in Elements : Step(e) \/ Fail(e)
    BY <1>1 DEF Next
  <2>2. LInv /\ l \in 0..Level[n] /\ n \in Elements
    BY <1>1 DEF SyncInv, LInv, PageInv, Layers
  <2>3. CASE WriteReverse(e) /\ n = Offered(e)
    BY <1>1, <2>2, <2>3, LinkKeepsNearest, SelectionAssumption, InsertAssumption
  <2>4. CASE ~(WriteReverse(e) /\ n = Offered(e))
    <3>1. nbr'[n] = nbr[n] /\ index' = index
      BY <2>1, <2>2, <2>4, TuplesKept, Mover, SelectionAssumption, InsertAssumption
    <3>2. GlobalList(n, l)' = GlobalList(n, l)
      BY <3>1 DEF GlobalList, LayerM, Slot
    <3>3. Closest(n, GlobalList(n, l)) \in GlobalList(n, l) /\ GlobalList(n, l) \subseteq Elements
      BY <1>1, <2>2, NearestIn, SelectionAssumption, InsertAssumption
    <3>4. Dist(n, Closest(n, GlobalList(n, l))) \in Int
      BY <2>2, <3>3, Distances, SelectionAssumption
    <3> QED
      BY <3>2, <3>3, <3>4
  <2> QED
    BY <2>3, <2>4
<1>2. SyncInv /\ [Next]_vars =>
        [\A n \in elements : \A l \in Layers(n) :
           ~overlap' /\ GlobalList(n, l) # {} =>
             \E x \in GlobalList(n, l)' :
               Dist(n, x) <= Dist(n, Closest(n, GlobalList(n, l)))]_vars
  BY <1>1
<1> QED
  BY <1>2, SyncInvariance, PTL DEF Spec, NearestKept

-----------------------------------------------------------------------------
(* The loops of an insert *)

(* What a step does to the variables of an insert that goes on searching.  *)
Progress(e, old, new) ==
  LET same(p) == old.pc = p /\ new.pc = p /\ old.lc = new.lc
  IN /\ same("descend") => Dist(new.ep, e) < Dist(old.ep, e)
     /\ same("search") /\ old.restricted = new.restricted =>
          \/ new.visited # old.visited /\ old.visited \subseteq new.visited
          \/ new.C # old.C /\ new.C \subseteq old.C

(* Below a layer the next is searched, or none. *)
LEMMA LayerBelow ==
  ASSUME NEW e, NEW r, NEW cands, r.lc \in Int, DOMAIN r = DOMAIN Idle
  PROVE  BelowLayer(e, r, cands).pc = "neighbors" \/ BelowLayer(e, r, cands).lc # r.lc
<1>1. {"pc", "ep", "lc", "restricted", "C", "W", "visited", "expansions", "cands"} \subseteq DOMAIN r
  BY DEF Idle
<1> DEFINE ep == IF cands = {} THEN r.ep ELSE Closest(e, cands)
           no == FALSE
<1>2. Search(e, r, ep, r.lc - 1, no).lc = r.lc - 1
  <2> HIDE DEF ep, no
  <2> QED
    BY <1>1 DEF Search
<1>3. CASE r.lc = 0
  <2>1. BelowLayer(e, r, cands).pc = "neighbors"
    BY <1>1, <1>3 DEF BelowLayer
  <2> QED
    BY <2>1
<1>4. CASE r.lc # 0
  <2>1. BelowLayer(e, r, cands) = Search(e, r, ep, r.lc - 1, no)
    BY <1>4 DEF BelowLayer
  <2> HIDE DEF ep, no
  <2> QED
    BY <1>2, <2>1
<1> QED
  BY <1>3, <1>4

(* One turn of a loop. *)
LEMMA StepProgress ==
  ASSUME SelectionAssumption, InsertAssumption, LInv, NEW e \in Elements, Step(e) \/ Fail(e)
  PROVE  Progress(e, ins[e], ins'[e])
<1> DEFINE r == ins[e]
<1>0. PageInv /\ Layout(index) /\ Known \in SUBSET Elements
  BY Basics DEF LInv
<1>1. r \in Locals /\ r.lc \in Int /\ DOMAIN r = DOMAIN Idle
  <2>1. r \in Locals
    BY <1>0 DEF PageInv
  <2> HIDE DEF r
  <2> QED
    BY <2>1 DEF Locals, Idle
<1>2. ASSUME NEW q, Become(e, q) PROVE ins'[e] = q
  BY <1>0, <1>2 DEF Become, PageInv
<1>3. CASE Descend(e)
  <2> DEFINE nearer == {n \in NbrTidsAtLayer(r.ep, r.lc, r.m) : Dist(n, e) < Dist(r.ep, e)}
             near == [r EXCEPT !.ep = Closest(e, nearer)]
             down == [r EXCEPT !.lc = @ - 1]
             no == FALSE
             below == Search(e, r, r.ep, r.lc - 1, no)
  <2>1. /\ r.pc = "descend"
        /\ \/ nearer # {} /\ Become(e, near)
           \/ Become(e, down) \/ Become(e, below)
    BY <1>3, Zenon DEF Descend
  <2>2. /\ down.lc = r.lc - 1 /\ near.ep = Closest(e, nearer) /\ near.pc = "descend"
        /\ below.pc = "search"
    <3>1. below.pc = "search"
      <4> HIDE DEF r, no
      <4> QED
        BY <1>1, SearchEarly DEF Idle
    <3> HIDE DEF nearer, r, below
    <3> QED
      BY <1>1, <2>1, <3>1 DEF Locals
  <2>3. ASSUME nearer # {} PROVE Dist(near.ep, e) < Dist(r.ep, e)
    <3>1. Descending(index, Known, e, r) /\ r.m = index.m
      BY <2>1 DEF LInv, Phase, Busy, Early
    <3>2. r.ep \in Known /\ r.lc \in 0..Level[r.ep]
      <4>1. r.ep \in Known /\ r.lc <= Level[r.ep] /\ Level[e] < r.lc
        BY <3>1 DEF Descending
      <4>2. Level[e] \in Nat /\ Level[r.ep] \in Nat
        BY <1>0, <4>1 DEF SelectionAssumption
      <4> HIDE DEF r
      <4> QED
        BY <1>1, <4>1, <4>2
    <3>3. IsFiniteSet(nearer) /\ nearer \in SUBSET Elements
      <4>1. /\ IsFiniteSet(NbrTidsAtLayer(r.ep, r.lc, r.m))
            /\ NbrTidsAtLayer(r.ep, r.lc, r.m) \subseteq Elements
        <5> HIDE DEF r
        <5> QED
          BY <1>0, <3>1, <3>2, FollowLayer DEF Follows
      <4>2. nearer \subseteq NbrTidsAtLayer(r.ep, r.lc, r.m)
        OBVIOUS
      <4> HIDE DEF nearer
      <4> QED
        BY <4>1, <4>2, FS_Subset
    <3>4. Closest(e, nearer) \in nearer
      <4> HIDE DEF nearer
      <4> QED
        BY <2>3, <3>3, EndsIn
    <3> HIDE DEF near, r
    <3> QED
      BY <2>2, <3>4
  <2> HIDE DEF near, down, below, nearer, r
  <2> QED
    BY <1>1, <1>2, <2>1, <2>2, <2>3 DEF Progress, r
<1>4. CASE Expand(e)
  <2> DEFINE c == Closest(e, r.C)
             new == Unvisited(e, c)
             members == {n \in new : r.restricted => Partition[n] = Partition[e]}
             q == [r EXCEPT !.C = (@ \ {c}) \cup new, !.visited = @ \cup new,
                            !.expansions = @ + 1,
                            !.W = Range(Nearest(e, @ \cup members, Efc))]
  <2>1. r.pc = "search" /\ Become(e, q) /\ r.C # {}
    BY <1>4 DEF Expand, SearchOver
  <2>2. q.pc = "search" /\ q.C = (r.C \ {c}) \cup new /\ q.visited = r.visited \cup new
    <3> HIDE DEF c, new, members, r
    <3> QED
      BY <1>1, <2>1 DEF Locals
  <2>3. c \in r.C
    <3>1. Searching(index, Known, e, r)
      BY <2>1 DEF LInv, Phase
    <3>2. IsFiniteSet(r.C) /\ r.C \in SUBSET Elements
      BY <1>0, <3>1 DEF Searching, Follows
    <3> HIDE DEF r
    <3> QED
      BY <2>1, <3>2, EndsIn DEF r
  <2>4. new \cap r.visited = {}
    BY DEF Unvisited
  <2>5. \/ q.visited # r.visited /\ r.visited \subseteq q.visited
        \/ q.C # r.C /\ q.C \subseteq r.C
    <3> HIDE DEF q, r, c, new
    <3> QED
      BY <2>2, <2>3, <2>4
  <2> HIDE DEF q, r
  <2> QED
    BY <1>2, <2>1, <2>2, <2>5 DEF Progress, r
<1>5. CASE SelectLayer(e) \/ SelectGlobalHalf(e) \/ SelectPayloadHalf(e)
  <2>1. r.pc = "search"
    BY <1>5 DEF SelectLayer, SelectGlobalHalf, SelectPayloadHalf
  <2>2. \E d : /\ Become(e, d)
               /\ d.pc = "neighbors" \/ d.lc # r.lc \/ d.restricted # r.restricted
    <3>1. CASE SelectLayer(e)
      <4> DEFINE q == [r EXCEPT !.tids = Put(@, NeighborStart(r.m, Level[e], r.lc),
                                             Select(e, r.W, LayerM(r.lc, r.m)))]
      <4>1. Become(e, BelowLayer(e, q, r.W))
        BY <3>1 DEF SelectLayer
      <4>2. q.lc = r.lc /\ q.lc \in Int /\ DOMAIN q = DOMAIN Idle
        <5> HIDE DEF r
        <5> QED
          BY <1>1 DEF Locals
      <4> HIDE DEF q
      <4>3. BelowLayer(e, q, r.W).pc = "neighbors" \/ BelowLayer(e, q, r.W).lc # r.lc
        BY <4>2, LayerBelow
      <4> QED
        BY <4>1, <4>3
    <3>2. CASE SelectGlobalHalf(e)
      <4> DEFINE q == [r EXCEPT !.tids = Put(@, Start0(e), Select(e, r.W, r.m)), !.cands = r.W]
                 yes == TRUE
      <4>1. Become(e, Search(e, q, r.ep, 0, yes)) /\ ~r.restricted
        BY <3>2 DEF SelectGlobalHalf
      <4>2. "restricted" \in DOMAIN q
        <5> HIDE DEF r
        <5> QED
          BY <1>1 DEF Locals
      <4>3. yes
        OBVIOUS
      <4> HIDE DEF q, yes
      <4>4. Search(e, q, r.ep, 0, yes).restricted = yes
        BY <4>2 DEF Search
      <4> HIDE DEF r
      <4>5. r.restricted # yes
        BY <4>1, <4>3, Zenon
      <4> QED
        BY <4>1, <4>4, <4>5, Zenon
    <3>3. CASE SelectPayloadHalf(e)
      <4> DEFINE psel == Select(e, PayloadCands(e), index.payload_m)
                 q == [r EXCEPT !.tids = Put(@, Start0(e) + r.m, psel \o Backfill(e, psel)),
                                !.payload_real = Len(psel)]
      <4>1. Become(e, BelowLayer(e, q, r.cands))
        BY <3>3 DEF SelectPayloadHalf
      <4>2. q.lc = r.lc /\ q.lc \in Int /\ DOMAIN q = DOMAIN Idle
        <5> HIDE DEF r, psel
        <5> QED
          BY <1>1 DEF Locals
      <4> HIDE DEF q
      <4>3. BelowLayer(e, q, r.cands).pc = "neighbors" \/ BelowLayer(e, q, r.cands).lc # r.lc
        BY <4>2, LayerBelow
      <4> QED
        BY <4>1, <4>3
    <3> QED
      BY <1>5, <3>1, <3>2, <3>3
  <2>3. PICK d : /\ Become(e, d)
                 /\ d.pc = "neighbors" \/ d.lc # r.lc \/ d.restricted # r.restricted
    BY <2>2
  <2> HIDE DEF r
  <2> QED
    BY <1>2, <2>1, <2>3, Zenon DEF Progress, r
<1>6. CASE r.pc \notin {"descend", "search"}
  BY <1>6 DEF Progress
<1>7. r.pc \notin {"descend", "search"}
      \/ Descend(e) \/ Expand(e) \/ SelectLayer(e) \/ SelectGlobalHalf(e) \/ SelectPayloadHalf(e)
      \/ Fail(e)
  BY DEF Step, ReadMeta, WriteNeighborTuple, WriteElementTuple, MaybeUpdateEntry, ReadReverse,
         WriteReverse, InlineWriteEntry, Finish
<1>8. CASE Fail(e)
  <2>1. Become(e, [Idle EXCEPT !.pc = "aborted"])
    BY <1>8 DEF Fail
  <2>2. [Idle EXCEPT !.pc = "aborted"].pc = "aborted"
    BY DEF Idle
  <2>3. ins'[e].pc = "aborted"
    BY <1>2, <2>1, <2>2
  <2> QED
    BY <2>3 DEF Progress
<1> QED
  BY <1>3, <1>4, <1>5, <1>6, <1>7, <1>8

(* acorn_greedy_descend_build, acorn_search_layer_construction: each turn  *)
(* of an insert's loops that is not the last has come nearer, has visited  *)
(* more, or has fewer candidates left, whatever others rewire under it.    *)
THEOREM LoopsProgress == Spec => LoopsEnd
<1>1. ASSUME LInv, [Next]_vars, ~UNCHANGED vars, NEW x \in Elements, ins[x] # ins'[x]
      PROVE  Progress(x, ins[x], ins'[x])
  <2>1. PICK e \in Elements : Step(e) \/ Fail(e)
    BY <1>1 DEF Next
  <2>2. x = e
    BY <1>1, <2>1, Mover
  <2> QED
    BY <1>1, <2>1, <2>2, StepProgress, SelectionAssumption, InsertAssumption
<1>2. LInv /\ [Next]_vars =>
        [\A e \in Elements :
           LET old == ins[e] new == ins'[e]
               same(p) == old.pc = p /\ new.pc = p /\ old.lc = new.lc
           IN old # new =>
                /\ same("descend") => Dist(new.ep, e) < Dist(old.ep, e)
                /\ same("search") /\ old.restricted = new.restricted =>
                     \/ new.visited # old.visited /\ old.visited \subseteq new.visited
                     \/ new.C # old.C /\ new.C \subseteq old.C]_vars
  BY <1>1 DEF Progress
<1> QED
  BY <1>2, LinksInvariance, PTL DEF Spec, LoopsEnd
=============================================================================
