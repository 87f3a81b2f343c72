------------------------ MODULE CodeCacheSlotsProofs ------------------------
(***************************************************************************)
(* The directory slots of the code cache, for any number of backends,      *)
(* slots, indexes, areas, scans and savepoints: a servable slot has its    *)
(* creator pin, the generation alone tells incarnations apart, a load has  *)
(* its slot for itself, an insert that passed its test stays in its        *)
(* incarnation, and active_scans counts every reference there is.          *)
(***************************************************************************)
EXTENDS CodeCacheSlots, FiniteSetTheorems, SequenceTheorems, NaturalsInduction, TLAPS

-----------------------------------------------------------------------------
(* The inductive invariant *)

Evicting == {"choose", "clear", "check"}
Working  == {"lookup", "state", "attach", "acquire", "validate", "snapshot",
             "admit", "create", "publish", "blocks", "fill",
             "cold", "wlookup", "wlock", "write"}
Labels   == Working \cup Evicting \cup {"idle", "drain", "abort"}

RegType  == [idx : Indexes \cup {NoIndex}, cc : Nat, slot : Slots,
             area : Areas \cup {NoArea}, op : {"scan", "insert", "invalidate"},
             cached : BOOLEAN, dies : BOOLEAN, ret : {"idle", "abort", "create"},
             victim : Slots, vkey : Indexes \cup {NoIndex}]
ScanType == [idx : Indexes, cc : Elems, level : Nat]

\* The types, with every area in use one that has been created.
MemoryInv ==
  /\ dirLock \in Backends \cup {NoBackend}
  /\ wlock \in [Slots -> Backends \cup {NoBackend}]
  /\ slot \in [Slots -> SlotType]
  /\ active \in [Slots -> Nat]
  /\ contents \in Seq(Indexes) /\ Len(contents) <= MaxAreas
  /\ creatorPin \subseteq 1..Len(contents)
  /\ mapped \in [Backends -> SUBSET (1..Len(contents))]
  /\ handle \in [Backends -> [Elems -> HandleType]]
  /\ freeList \in [Backends -> Seq(Elems)]
  /\ depth \in [Backends -> 0..MaxDepth]
  /\ dirKnown \in [Backends -> BOOLEAN]
  /\ pc \in [Backends -> Labels]
  /\ reg \in [Backends -> RegType]
  /\ DOMAIN scans = Backends
  /\ \A b \in Backends : \A k \in DOMAIN scans[b] : scans[b][k] \in ScanType

\* A backend's attachment table: its free elements, each once, and the
\* others, each for an index and an area of its own, which is mapped.
Table(b) ==
  /\ IsInjective(freeList[b])
  /\ ToSet(freeList[b]) = {e \in Elems : ~handle[b][e].present}
  /\ \A e \in Elems : handle[b][e].present =>
       handle[b][e].key \in Indexes /\ handle[b][e].area \in mapped[b]
  /\ \A e, f \in Elems : (handle[b][e].present /\ handle[b][f].present /\ e # f) =>
       handle[b][e].key # handle[b][f].key /\ handle[b][e].area # handle[b][f].area
TableInv == \A b \in Backends : Table(b)

\* What a backend's locals and locks are at each point of its operation.
Phase(b) ==
  /\ pc[b] \in Working => reg[b].idx \in Indexes
  /\ pc[b] \in Evicting =>
       /\ dirLock = b
       /\ reg[b].ret = "idle" \/ (reg[b].ret = "create" /\ reg[b].idx \in Indexes)
  /\ At(b, "drain") => reg[b].ret # "create"
  /\ pc[b] \in {"acquire", "validate", "snapshot", "wlock", "write", "drain"} =>
       reg[b].cc \in Elems
  /\ pc[b] \in {"wlock", "write"} => handle[b][reg[b].cc].present
  /\ At(b, "write") =>
       LET h == handle[b][reg[b].cc] IN
       /\ wlock[h.slot] = b
       /\ reg[b].op = "insert" => h.gen = slot[h.slot].gen
PhaseInv == \A b \in Backends : Phase(b)

\* The state of the slots: creator pins are recorded once, and a servable
\* slot has one, and a block directory in its area.
SlotInv ==
  /\ \A s \in Slots :
       /\ slot[s].area \in 0..Len(contents)
       /\ slot[s].pinned => slot[s].area \in creatorPin
       /\ Servable(slot[s].state) => slot[s].pinned /\ slot[s].blocks = slot[s].area
  /\ \A s, t \in Slots :
       (slot[s].pinned /\ slot[t].pinned /\ s # t) => slot[s].area # slot[t].area

\* An evictor's victim: servable until it is cleared, and then not before
\* the evictor lets dir->lock go, since a loader needs it to publish.
VictimInv ==
  \A b \in Backends :
    /\ At(b, "clear") => Servable(slot[reg[b].victim].state)
    /\ At(b, "check") =>
         /\ ~Servable(slot[reg[b].victim].state)
         /\ \A c \in Backends : (Loading(c) /\ reg[c].slot = reg[b].victim) =>
              pc[c] \in {"admit", "create", "publish"}

\* A loader's area is its own until it is published in the slot.
UnpublishedInv ==
  \A b \in Backends :
    At(b, "publish") =>
      /\ reg[b].area \in creatorPin /\ reg[b].area \in mapped[b]
      /\ \A s \in Slots : slot[s].area # reg[b].area
      /\ \A e \in Elems : handle[b][e].present => handle[b][e].area # reg[b].area
      /\ \A c \in Backends \ {b} : At(c, "publish") => reg[c].area # reg[b].area

PublishedInv ==
  \A b \in Backends :
    /\ pc[b] \in {"blocks", "fill"} =>
         slot[reg[b].slot].pinned /\ slot[reg[b].slot].area = reg[b].area
    /\ At(b, "blocks") =>
         /\ reg[b].area \in mapped[b]
         /\ \A e \in Elems : handle[b][e].present => handle[b][e].area # reg[b].area
    /\ At(b, "fill") => slot[reg[b].slot].blocks = reg[b].area

\* No handle is of the slot's generation, or of a later one.
Fresh(s) ==
  \A b \in Backends, e \in Elems :
    (handle[b][e].present /\ handle[b][e].slot = s) => handle[b][e].gen < slot[s].gen

\* Generations: a handle's is at most its slot's, it is less as long as the
\* slot has not been attached again, and if it is the slot's, then so is the
\* handle's area.
GenInv ==
  /\ \A b \in Backends, e \in Elems :
       LET h == handle[b][e] IN
       h.present =>
         /\ h.gen <= slot[h.slot].gen
         /\ h.gen = slot[h.slot].gen =>
              slot[h.slot].area = h.area /\ slot[h.slot].blocks = h.area
  /\ \A s \in Slots : slot[s].state = "EMPTY" => Fresh(s)
  /\ \A b \in Backends : (Loading(b) /\ ~At(b, "fill")) => Fresh(reg[b].slot)

RefsInv == \A s \in Slots : IsFiniteSet(References(s)) /\ active[s] >= Cardinality(References(s))

IInv ==
  /\ MemoryInv /\ TableInv /\ PhaseInv /\ SlotInv /\ LoaderAlone /\ VictimInv
  /\ UnpublishedInv /\ PublishedInv /\ GenInv /\ RefsInv
-----------------------------------------------------------------------------
(* Facts about the operators of the model                                  *)

\* A non-empty set of natural numbers has a least element, and it is Min.
LEMMA MinIn ==
  ASSUME NEW S \in SUBSET Nat, S # {}
  PROVE  Min(S) \in S
  <1> DEFINE R == {ss \in Nat \X Nat : ss[1] < ss[2]}
  <1>1. OpToRel(<, Nat) = R
    BY Zenon DEF OpToRel
  <1>2. IsWellFoundedOn(R, Nat)
    BY <1>1, NatLessThanWellFounded, Zenon
  <1>3. PICK x \in S : \A y \in S : ~(<<y, x>> \in R)
    <2> HIDE DEF R
    <2> QED BY <1>2, WFMin, Zenon
  <1>4. ASSUME NEW y \in S
        PROVE  x <= y
    <2>1. y \in Nat /\ x \in Nat
      OBVIOUS
    <2>2. <<y, x>> \in R <=> y < x
      BY <2>1
    <2> QED BY <1>3, <2>1, <2>2
  <1> QED
    BY <1>4 DEF Min

\* A free element put at the head of a free list.
LEMMA Pushed ==
  ASSUME NEW S, NEW q \in Seq(S), IsInjective(q), NEW e \in S, e \notin ToSet(q)
  PROVE  /\ <<e>> \o q \in Seq(S)
         /\ IsInjective(<<e>> \o q)
         /\ ToSet(<<e>> \o q) = ToSet(q) \cup {e}
  <1> DEFINE r == <<e>> \o q
  <1>1. r \in Seq(S) /\ Len(r) = Len(q) + 1 /\ r[1] = e
    OBVIOUS
  <1>2. \A i \in 1..Len(q) : r[i + 1] = q[i]
    OBVIOUS
  <1>3. \A j \in 2..Len(r) : j - 1 \in 1..Len(q) /\ r[j] = q[j - 1]
    BY <1>1, <1>2
  <1>4. DOMAIN r = 1..Len(r) /\ DOMAIN q = 1..Len(q)
    BY <1>1
  <1>5. ToSet(r) = ToSet(q) \cup {e}
    <2>1. ToSet(r) \subseteq ToSet(q) \cup {e}
      BY <1>1, <1>3, <1>4 DEF ToSet
    <2>2. e \in ToSet(r)
      BY <1>1, <1>4 DEF ToSet
    <2>3. ASSUME NEW i \in 1..Len(q)
          PROVE  q[i] \in ToSet(r)
      <3>1. i + 1 \in DOMAIN r /\ r[i + 1] = q[i]
        BY <1>1, <1>2, <1>4
      <3> QED BY <3>1, Zenon DEF ToSet
    <2> QED BY <2>1, <2>2, <2>3, <1>4 DEF ToSet
  <1>6. IsInjective(r)
    <2> SUFFICES ASSUME NEW i \in 1..Len(r), NEW j \in 1..Len(r), r[i] = r[j]
                 PROVE  i = j
      BY <1>4 DEF IsInjective
    <2>1. \A k \in 2..Len(r) : r[k] # e
      BY <1>3, <1>4 DEF ToSet
    <2>2. CASE i = 1 \/ j = 1
      BY <2>1, <2>2, <1>1
    <2>3. CASE i # 1 /\ j # 1
      <3>1. i - 1 \in DOMAIN q /\ j - 1 \in DOMAIN q /\ q[i - 1] = q[j - 1]
        BY <2>3, <1>3, <1>4, <1>1
      <3>2. i - 1 = j - 1
        BY <3>1, Zenon DEF IsInjective
      <3> QED BY <3>2
    <2> QED BY <2>2, <2>3
  <1> QED BY <1>1, <1>5, <1>6

\* The first element of a free list, taken.
LEMMA Popped ==
  ASSUME NEW S, NEW q \in Seq(S), IsInjective(q), q # <<>>
  PROVE  /\ Head(q) \in S /\ Head(q) \in ToSet(q)
         /\ Tail(q) \in Seq(S)
         /\ IsInjective(Tail(q))
         /\ ToSet(Tail(q)) = ToSet(q) \ {Head(q)}
  <1> DEFINE r == Tail(q)
  <1>1. /\ Head(q) \in S /\ r \in Seq(S) /\ Len(r) = Len(q) - 1
        /\ \A i \in 1..Len(r) : r[i] = q[i + 1]
    BY HeadTailProperties
  <1>2. Head(q) = q[1] /\ DOMAIN q = 1..Len(q) /\ DOMAIN r = 1..Len(r) /\ Len(q) \in Nat \ {0}
    BY <1>1, EmptySeq
  <1>3. \A i, j \in 1..Len(q) : q[i] = q[j] => i = j
    BY <1>2 DEF IsInjective
  <1>4. IsInjective(r)
    <2> SUFFICES ASSUME NEW i \in 1..Len(r), NEW j \in 1..Len(r), r[i] = r[j]
                 PROVE  i = j
      BY <1>2 DEF IsInjective
    <2>1. i + 1 \in 1..Len(q) /\ j + 1 \in 1..Len(q) /\ q[i + 1] = q[j + 1]
      BY <1>1, <1>2
    <2> QED BY <2>1, <1>3
  <1>5. ToSet(r) \subseteq ToSet(q) \ {Head(q)}
    <2> SUFFICES ASSUME NEW i \in 1..Len(r)
                 PROVE  r[i] \in ToSet(q) /\ r[i] # q[1]
      BY <1>2 DEF ToSet
    <2>1. i + 1 \in 1..Len(q) /\ r[i] = q[i + 1] /\ 1 \in 1..Len(q) /\ i + 1 # 1
      BY <1>1, <1>2
    <2> QED BY <2>1, <1>2, <1>3 DEF ToSet
  <1>6. ToSet(q) \ {Head(q)} \subseteq ToSet(r)
    <2> SUFFICES ASSUME NEW i \in 1..Len(q), i # 1
                 PROVE  q[i] \in ToSet(r)
      BY <1>2 DEF ToSet
    <2>1. i - 1 \in DOMAIN r /\ r[i - 1] = q[i]
      BY <1>1, <1>2
    <2> QED BY <2>1, Zenon DEF ToSet
  <1>7. Head(q) \in ToSet(q)
    BY <1>2 DEF ToSet
  <1> QED BY <1>1, <1>4, <1>5, <1>6, <1>7

\* The lookup of an attachment returns one.
LEMMA EntryFound ==
  ASSUME NEW b, NEW i, Attached(b, i)
  PROVE  EntryOf(b, i) \in Elems /\ handle[b][EntryOf(b, i)].present
         /\ handle[b][EntryOf(b, i)].key = i
  BY DEF Attached, EntryOf

\* A backend with no attachment for an index has a free element to store
\* one: its attachments are of different indexes, and there is an element
\* for each index.
LEMMA FreeElement ==
  ASSUME MemoryInv, NEW b \in Backends, Table(b), NEW i \in Indexes, ~Attached(b, i)
  PROVE  freeList[b] # <<>>
  <1> SUFFICES ASSUME freeList[b] = <<>>
               PROVE  FALSE
    OBVIOUS
  <1>1. \A e \in Elems : handle[b][e].present
    BY DEF Table, ToSet
  <1> DEFINE f == [e \in Elems |-> handle[b][e].key]
             T == Indexes \ {i}
  <1>2. IsFiniteSet(T) /\ Cardinality(T) = Cardinality(Indexes) - 1
    BY FS_RemoveElement, SlotsAssumption
  <1>3. f \in [Elems -> T]
    BY <1>1 DEF Table, Attached
  <1>4. Cardinality(Indexes) \in Nat
    BY FS_CardinalityType, SlotsAssumption
  <1>5. IsFiniteSet(Elems) /\ Cardinality(Elems) = Cardinality(Indexes)
    BY <1>4, FS_Interval DEF Elems
  <1>6. PICK e \in Elems, g \in Elems : e # g /\ f[e] = f[g]
    <2>1. Cardinality(T) < Cardinality(Elems)
      BY <1>2, <1>4, <1>5
    <2> HIDE DEF f, T
    <2> QED BY <1>2, <1>3, <1>5, <2>1, FS_PigeonHole, Zenon
  <1> QED BY <1>1, <1>6 DEF Table

-----------------------------------------------------------------------------
(* Updates of the records, and what the moves between control states do to *)
(* a backend's locals.                                                     *)

\* A backend's own step.
Move(b) ==
  \/ \E i \in Indexes : BeginScan(b, i) \/ WriterAttach(b, i)
  \/ EndScan(b) \/ Resolve(b) \/ EvictLock(b)
  \/ Savepoint(b) \/ ReleaseSavepoint(b) \/ Abort(b) \/ Terminate(b)
  \/ Step(b)

LEMMA SlotOne == 1 \in Slots /\ NoReg \in RegType /\ NoHandle \in HandleType
                 /\ FreeSlot \in SlotType
  BY SlotsAssumption DEF Slots, NoReg, RegType, NoHandle, HandleType, FreeSlot, SlotType,
     NoArea, Areas

LEMMA HandleEdits ==
  ASSUME NEW h \in HandleType
  PROVE  /\ [h EXCEPT !.present = FALSE] \in HandleType
         /\ \A n \in Nat : [h EXCEPT !.refs = n] \in HandleType
         /\ \A a \in Areas \cup {NoArea} : [h EXCEPT !.blocks = a] \in HandleType
  BY DEF HandleType

LEMMA SlotEdits ==
  ASSUME NEW st \in SlotType
  PROVE  /\ \A i \in Indexes : [st EXCEPT !.key = i] \in SlotType
         /\ \A x \in {"EMPTY", "LOADING", "READY", "PARTIAL"} : [st EXCEPT !.state = x] \in SlotType
         /\ \A a \in Areas \cup {NoArea} : [st EXCEPT !.blocks = a] \in SlotType
         /\ \A p \in BOOLEAN : [st EXCEPT !.pinned = p] \in SlotType
         /\ \A r \in SUBSET Areas : [st EXCEPT !.retired = r] \in SlotType
         /\ \A a \in Areas \cup {NoArea}, r \in SUBSET Areas :
              [st EXCEPT !.blocks = a, !.retired = r] \in SlotType
         /\ \A a \in Areas \cup {NoArea}, d \in Nat, g \in Nat :
              [st EXCEPT !.area = a, !.pinned = TRUE, !.dim = d, !.gen = g] \in SlotType
  BY DEF SlotType

LEMMA RegEdits ==
  ASSUME NEW r \in RegType
  PROVE  /\ \A n \in Nat : [r EXCEPT !.cc = n] \in RegType
         /\ \A s \in Slots : [r EXCEPT !.slot = s] \in RegType
         /\ \A a \in Areas \cup {NoArea} : [r EXCEPT !.area = a] \in RegType
         /\ \A x \in {"idle", "abort", "create"} : [r EXCEPT !.ret = x] \in RegType
         /\ \A n \in Nat, x \in {"idle", "abort", "create"} :
              [r EXCEPT !.cc = n, !.ret = x] \in RegType
         /\ \A s \in Slots : [r EXCEPT !.victim = s] \in RegType
         /\ \A i \in Indexes \cup {NoIndex} : [r EXCEPT !.vkey = i] \in RegType
         /\ [r EXCEPT !.cached = FALSE] \in RegType
         /\ \A x \in BOOLEAN : [r EXCEPT !.dies = x] \in RegType
  BY DEF RegType

\* One element of one backend's table, changed.
LEMMA OneHandle ==
  ASSUME MemoryInv, NEW b \in Backends, NEW e \in Elems, NEW h,
         handle' = [handle EXCEPT ![b][e] = h]
  PROVE  /\ h \in HandleType => handle' \in [Backends -> [Elems -> HandleType]]
         /\ handle'[b][e] = h
         /\ \A f \in Elems \ {e} : handle'[b][f] = handle[b][f]
         /\ \A c \in Backends \ {b} : handle'[c] = handle[c]
  BY DEF MemoryInv

\* One slot, changed.
LEMMA OneSlot ==
  ASSUME MemoryInv, NEW s \in Slots, NEW st, slot' = [slot EXCEPT ![s] = st]
  PROVE  /\ st \in SlotType => slot' \in [Slots -> SlotType]
         /\ slot'[s] = st
         /\ \A t \in Slots \ {s} : slot'[t] = slot[t]
  BY DEF MemoryInv

LEMMA GotoTypes ==
  ASSUME MemoryInv, NEW b \in Backends, NEW l, Goto(b, l)
  PROVE  /\ l \in Labels => pc' \in [Backends -> Labels]
         /\ pc'[b] = l
         /\ \A c \in Backends \ {b} : pc'[c] = pc[c]
  BY DEF MemoryInv, Goto

LEMMA RegTypes ==
  ASSUME MemoryInv, NEW b \in Backends, NEW r, reg' = [reg EXCEPT ![b] = r]
  PROVE  /\ r \in RegType => reg' \in [Backends -> RegType]
         /\ reg'[b] = r
         /\ \A c \in Backends \ {b} : reg'[c] = reg[c]
  BY DEF MemoryInv

LEMMA DoneTypes ==
  ASSUME MemoryInv, NEW b \in Backends, Done(b)
  PROVE  /\ pc' \in [Backends -> Labels] /\ reg' \in [Backends -> RegType]
         /\ pc'[b] = "idle" /\ reg'[b] = NoReg
         /\ \A c \in Backends \ {b} : pc'[c] = pc[c] /\ reg'[c] = reg[c]
  <1>1. Goto(b, "idle") /\ reg' = [reg EXCEPT ![b] = NoReg] /\ "idle" \in Labels
    BY DEF Done, Labels
  <1> QED BY <1>1, GotoTypes, RegTypes, SlotOne

LEMMA GoBackTypes ==
  ASSUME MemoryInv, NEW b \in Backends, GoBack(b)
  PROVE  /\ pc' \in [Backends -> Labels] /\ reg' \in [Backends -> RegType]
         /\ pc'[b] = reg[b].ret
         /\ reg'[b] = IF reg[b].ret = "idle" THEN NoReg ELSE reg[b]
         /\ \A c \in Backends \ {b} : pc'[c] = pc[c] /\ reg'[c] = reg[c]
  <1>1. CASE reg[b].ret = "idle"
    BY <1>1, DoneTypes DEF GoBack
  <1>2. CASE reg[b].ret # "idle"
    <2>1. Goto(b, reg[b].ret) /\ UNCHANGED reg
      BY <1>2 DEF GoBack, Go
    <2>2. reg[b].ret \in Labels
      BY DEF MemoryInv, RegType, Labels, Working
    <2>3. reg' \in [Backends -> RegType]
      BY <2>1 DEF MemoryInv
    <2> QED BY <1>2, <2>1, <2>2, <2>3, GotoTypes
  <1> QED BY <1>1, <1>2

\* An aborted backend has fewer open scans, and none of its locals left.
LEMMA RaiseTypes ==
  ASSUME MemoryInv, NEW b \in Backends, NEW dies \in BOOLEAN, Raise(b, dies)
  PROVE  /\ pc' \in [Backends -> Labels] /\ reg' \in [Backends -> RegType]
         /\ depth' \in [Backends -> 0..MaxDepth]
         /\ DOMAIN scans' = Backends
         /\ \A c \in Backends : \A k \in DOMAIN scans'[c] : scans'[c][k] \in ScanType
         /\ pc'[b] = "abort" /\ reg'[b] = [NoReg EXCEPT !.dies = dies]
         /\ \A c \in Backends \ {b} : pc'[c] = pc[c] /\ reg'[c] = reg[c]
  <1>1. Goto(b, "abort") /\ "abort" \in Labels
    BY DEF Raise, Labels
  <1>2. reg' = [reg EXCEPT ![b] = [NoReg EXCEPT !.dies = dies]]
    BY DEF Raise
  <1>3. [NoReg EXCEPT !.dies = dies] \in RegType
    BY SlotOne, RegEdits
  <1>4. depth' \in [Backends -> 0..MaxDepth]
    <2>1. depth \in [Backends -> 0..MaxDepth] /\ MaxDepth \in Nat
      BY SlotsAssumption DEF MemoryInv
    <2>2. depth' = [depth EXCEPT ![b] = IF @ = 0 \/ dies THEN 0 ELSE @ - 1]
      BY DEF Raise
    <2> QED BY <2>1, <2>2
  <1>5. /\ DOMAIN scans' = Backends
        /\ \A c \in Backends : \A k \in DOMAIN scans'[c] : scans'[c][k] \in ScanType
    <2>1. PICK S \in SUBSET DOMAIN scans[b] : scans' = [scans EXCEPT ![b] = Restrict(@, S)]
      BY DEF Raise
    <2>2. /\ DOMAIN scans = Backends
          /\ \A c \in Backends : \A k \in DOMAIN scans[c] : scans[c][k] \in ScanType
      BY DEF MemoryInv
    <2>3. scans'[b] = [k \in S |-> scans[b][k]] /\ \A c \in Backends \ {b} : scans'[c] = scans[c]
      BY <2>1, <2>2 DEF Restrict
    <2> QED BY <2>1, <2>2, <2>3
  <1>6. /\ pc' \in [Backends -> Labels] /\ pc'[b] = "abort"
        /\ \A c \in Backends \ {b} : pc'[c] = pc[c]
    BY <1>1, GotoTypes
  <1>7. /\ reg' \in [Backends -> RegType] /\ reg'[b] = [NoReg EXCEPT !.dies = dies]
        /\ \A c \in Backends \ {b} : reg'[c] = reg[c]
    BY <1>2, <1>3, RegTypes
  <1> QED BY <1>4, <1>5, <1>6, <1>7

-----------------------------------------------------------------------------
(* The attachment tables                                                   *)

\* Forgetting an attachment: the table loses one element and the area it
\* mapped; nothing else about any element changes.
LEMMA ForgetTypes ==
  ASSUME MemoryInv, TableInv, NEW b \in Backends, NEW i, Forget(b, i)
  PROVE  /\ mapped' \in [Backends -> SUBSET (1..Len(contents))]
         /\ handle' \in [Backends -> [Elems -> HandleType]]
         /\ freeList' \in [Backends -> Seq(Elems)]
         /\ \A c \in Backends \ {b} :
              mapped'[c] = mapped[c] /\ handle'[c] = handle[c] /\ freeList'[c] = freeList[c]
         /\ mapped'[b] \subseteq mapped[b]
         /\ \A e \in Elems :
              \/ handle'[b][e] = handle[b][e]
              \/ handle'[b][e] = [handle[b][e] EXCEPT !.present = FALSE]
  <1>1. CASE ~Attached(b, i)
    BY <1>1 DEF Forget, MemoryInv
  <1>2. CASE Attached(b, i)
    <2> DEFINE e == EntryOf(b, i)
    <2>1. e \in Elems /\ handle[b][e].present
      BY <1>2, EntryFound
    <2> HIDE DEF e
    <2>2. /\ mapped' = [mapped EXCEPT ![b] = @ \ {handle[b][e].area}]
          /\ handle' = [handle EXCEPT ![b][e] = [handle[b][e] EXCEPT !.present = FALSE]]
          /\ freeList' = [freeList EXCEPT ![b] = <<e>> \o @]
      BY <1>2 DEF Forget, e
    <2>3. handle[b][e] \in HandleType
      BY <2>1 DEF MemoryInv
    <2>4. /\ handle' \in [Backends -> [Elems -> HandleType]]
          /\ \A c \in Backends \ {b} : handle'[c] = handle[c]
          /\ handle'[b][e] = [handle[b][e] EXCEPT !.present = FALSE]
          /\ \A f \in Elems \ {e} : handle'[b][f] = handle[b][f]
      BY <2>1, <2>2, <2>3, HandleEdits, OneHandle
    <2>5. freeList \in [Backends -> Seq(Elems)] /\ <<e>> \o freeList[b] \in Seq(Elems)
      BY <2>1 DEF MemoryInv
    <2>6. /\ freeList' \in [Backends -> Seq(Elems)]
          /\ \A c \in Backends \ {b} : freeList'[c] = freeList[c]
      BY <2>2, <2>5
    <2>7. /\ mapped' \in [Backends -> SUBSET (1..Len(contents))]
          /\ mapped'[b] \subseteq mapped[b]
          /\ \A c \in Backends \ {b} : mapped'[c] = mapped[c]
      BY <2>2 DEF MemoryInv
    <2> QED BY <2>4, <2>6, <2>7
  <1> QED BY <1>1, <1>2

LEMMA ForgetTable ==
  ASSUME MemoryInv, TableInv, NEW b \in Backends, NEW i, Forget(b, i)
  PROVE  TableInv'
  <1>1. Table(b)'
    <2>1. CASE ~Attached(b, i)
      BY <2>1 DEF Forget, TableInv, Table
    <2>2. CASE Attached(b, i)
      <3> DEFINE e == EntryOf(b, i)
      <3>1. e \in Elems /\ handle[b][e].present
        BY <2>2, EntryFound
      <3> HIDE DEF e
      <3>2. /\ mapped' = [mapped EXCEPT ![b] = @ \ {handle[b][e].area}]
            /\ handle' = [handle EXCEPT ![b][e] = [handle[b][e] EXCEPT !.present = FALSE]]
            /\ freeList' = [freeList EXCEPT ![b] = <<e>> \o @]
        BY <2>2 DEF Forget, e
      <3>3. Table(b) /\ freeList[b] \in Seq(Elems) /\ handle[b][e] \in HandleType
        BY <3>1 DEF TableInv, MemoryInv
      <3>4. /\ handle'[b][e] = [handle[b][e] EXCEPT !.present = FALSE]
            /\ \A f \in Elems \ {e} : handle'[b][f] = handle[b][f]
        BY <3>1, <3>2 DEF MemoryInv
      <3>5. ~handle'[b][e].present
        BY <3>3, <3>4 DEF HandleType
      <3>6. /\ freeList'[b] = <<e>> \o freeList[b]
            /\ mapped'[b] = mapped[b] \ {handle[b][e].area}
        BY <3>2 DEF MemoryInv
      <3>7. e \notin ToSet(freeList[b])
        BY <3>1, <3>3 DEF Table
      <3>8. /\ IsInjective(freeList'[b])
            /\ ToSet(freeList'[b]) = ToSet(freeList[b]) \cup {e}
        BY <3>1, <3>3, <3>6, <3>7, Pushed DEF Table
      <3>9. ToSet(freeList'[b]) = {f \in Elems : ~handle'[b][f].present}
        BY <3>1, <3>3, <3>4, <3>5, <3>8 DEF Table
      <3>10. \A f \in Elems : handle'[b][f].present =>
               handle'[b][f].key \in Indexes /\ handle'[b][f].area \in mapped'[b]
        BY <3>1, <3>3, <3>4, <3>5, <3>6 DEF Table
      <3>11. \A f, g \in Elems : (handle'[b][f].present /\ handle'[b][g].present /\ f # g) =>
               handle'[b][f].key # handle'[b][g].key /\ handle'[b][f].area # handle'[b][g].area
        <4> SUFFICES ASSUME NEW f \in Elems, NEW g \in Elems,
                            handle'[b][f].present, handle'[b][g].present, f # g
                     PROVE  /\ handle'[b][f].key # handle'[b][g].key
                            /\ handle'[b][f].area # handle'[b][g].area
          OBVIOUS
        <4>1. handle'[b][f] = handle[b][f] /\ handle'[b][g] = handle[b][g]
          BY <3>4, <3>5
        <4> QED BY <3>3, <4>1 DEF Table
      <3> QED BY <3>8, <3>9, <3>10, <3>11 DEF Table
    <2> QED BY <2>1, <2>2
  <1>2. \A c \in Backends \ {b} : Table(c)'
    <2> TAKE c \in Backends \ {b}
    <2>1. mapped'[c] = mapped[c] /\ handle'[c] = handle[c] /\ freeList'[c] = freeList[c]
      BY ForgetTypes
    <2> QED BY <2>1 DEF Table, TableInv
  <1> QED BY <1>1, <1>2 DEF TableInv

\* Storing an attachment: one element is the new handle, the others are as
\* they were; it is taken from the free list, if it is not i's already.
LEMMA StoreTypes ==
  ASSUME MemoryInv, TableInv, NEW b \in Backends, NEW i \in Indexes, NEW s \in Slots,
         NEW a \in Areas, NEW l \in Labels, StoreHandle(b, i, s, a, l)
  PROVE  /\ handle' \in [Backends -> [Elems -> HandleType]]
         /\ freeList' \in [Backends -> Seq(Elems)]
         /\ reg' \in [Backends -> RegType] /\ pc' \in [Backends -> Labels]
         /\ pc'[b] = l
         /\ \A c \in Backends \ {b} :
              handle'[c] = handle[c] /\ freeList'[c] = freeList[c]
              /\ pc'[c] = pc[c] /\ reg'[c] = reg[c]
         /\ \E e \in Elems :
              /\ reg' = [reg EXCEPT ![b] = [reg[b] EXCEPT !.cc = e]]
              /\ handle'[b][e] =
                   [present |-> TRUE, key |-> i, area |-> a, slot |-> s,
                    gen |-> slot[s].gen, blocks |-> a, refs |-> 0]
              /\ \A f \in Elems \ {e} : handle'[b][f] = handle[b][f]
              /\ IF handle[b][e].present
                 THEN handle[b][e].key = i /\ freeList' = freeList
                 ELSE /\ freeList[b] # <<>> /\ e = Head(freeList[b]) /\ ~Attached(b, i)
                      /\ freeList' = [freeList EXCEPT ![b] = Tail(@)]
  <1> DEFINE e == IF Attached(b, i) THEN EntryOf(b, i) ELSE Head(freeList[b])
             h == [present |-> TRUE, key |-> i, area |-> a, slot |-> s,
                   gen |-> slot[s].gen, blocks |-> a, refs |-> 0]
  <1>1. /\ handle' = [handle EXCEPT ![b][e] = h]
        /\ freeList' = [freeList EXCEPT ![b] = IF Attached(b, i) THEN @ ELSE Tail(@)]
        /\ reg' = [reg EXCEPT ![b] = [reg[b] EXCEPT !.cc = e]]
        /\ Goto(b, l)
    BY DEF StoreHandle
  <1>2. Table(b) /\ freeList \in [Backends -> Seq(Elems)] /\ freeList[b] \in Seq(Elems)
    BY DEF TableInv, MemoryInv
  <1> HIDE DEF e
  <1>3. e \in Elems /\ freeList' \in [Backends -> Seq(Elems)]
        /\ (\A c \in Backends \ {b} : freeList'[c] = freeList[c])
        /\ IF handle[b][e].present
           THEN handle[b][e].key = i /\ freeList' = freeList
           ELSE /\ freeList[b] # <<>> /\ e = Head(freeList[b]) /\ ~Attached(b, i)
                /\ freeList' = [freeList EXCEPT ![b] = Tail(@)]
    <2>1. CASE Attached(b, i)
      <3>1. e = EntryOf(b, i)
        BY <2>1 DEF e
      <3>2. e \in Elems /\ handle[b][e].present /\ handle[b][e].key = i
        BY <2>1, <3>1, EntryFound
      <3>3. freeList' = freeList
        BY <1>1, <1>2, <2>1
      <3> QED BY <1>2, <3>2, <3>3
    <2>2. CASE ~Attached(b, i)
      <3>1. freeList[b] # <<>> /\ e = Head(freeList[b])
        BY <1>2, <2>2, FreeElement DEF e
      <3>2. e \in Elems /\ ~handle[b][e].present
        BY <1>2, <3>1, Popped DEF Table
      <3>3. freeList' = [freeList EXCEPT ![b] = Tail(@)]
        BY <1>1, <2>2
      <3>4. Tail(freeList[b]) \in Seq(Elems)
        BY <1>2, <3>1, Popped DEF Table
      <3> QED BY <1>2, <2>2, <3>1, <3>2, <3>3, <3>4
    <2> QED BY <2>1, <2>2
  <1>4. h \in HandleType
    <2>1. slot[s].gen \in Nat
      BY DEF MemoryInv, SlotType
    <2> QED BY <2>1 DEF HandleType
  <1> HIDE DEF h
  <1>5. /\ handle' \in [Backends -> [Elems -> HandleType]]
        /\ handle'[b][e] = h
        /\ \A f \in Elems \ {e} : handle'[b][f] = handle[b][f]
        /\ \A c \in Backends \ {b} : handle'[c] = handle[c]
    BY <1>1, <1>3, <1>4 DEF MemoryInv
  <1>6. /\ pc' \in [Backends -> Labels] /\ pc'[b] = l
        /\ \A c \in Backends \ {b} : pc'[c] = pc[c]
    BY <1>1, GotoTypes
  <1>7. reg[b] \in RegType /\ e \in Nat
    BY <1>3 DEF MemoryInv, Elems
  <1>8. reg' \in [Backends -> RegType] /\ \A c \in Backends \ {b} : reg'[c] = reg[c]
    BY <1>1, <1>7, RegEdits, RegTypes
  <1>9. h = [present |-> TRUE, key |-> i, area |-> a, slot |-> s,
             gen |-> slot[s].gen, blocks |-> a, refs |-> 0]
    BY DEF h
  <1>10. \A c \in Backends \ {b} :
           handle'[c] = handle[c] /\ freeList'[c] = freeList[c]
           /\ pc'[c] = pc[c] /\ reg'[c] = reg[c]
    BY <1>3, <1>5, <1>6, <1>8
  <1> QED BY <1>1, <1>3, <1>5, <1>6, <1>8, <1>9, <1>10

LEMMA StoreTable ==
  ASSUME MemoryInv, TableInv, NEW b \in Backends, NEW i \in Indexes, NEW s \in Slots,
         NEW a \in Areas, NEW l \in Labels, StoreHandle(b, i, s, a, l),
         \A e \in Elems : handle[b][e].present => handle[b][e].area # a,
         a \in mapped'[b], mapped[b] \subseteq mapped'[b],
         \A c \in Backends \ {b} : mapped'[c] = mapped[c]
  PROVE  TableInv'
  <1> DEFINE h(e) == [present |-> TRUE, key |-> i, area |-> a, slot |-> s,
                      gen |-> slot[s].gen, blocks |-> a, refs |-> 0]
  <1>1. PICK e \in Elems :
          /\ handle'[b][e] = h(e)
          /\ \A f \in Elems \ {e} : handle'[b][f] = handle[b][f]
          /\ IF handle[b][e].present
             THEN handle[b][e].key = i /\ freeList' = freeList
             ELSE /\ freeList[b] # <<>> /\ e = Head(freeList[b]) /\ ~Attached(b, i)
                  /\ freeList' = [freeList EXCEPT ![b] = Tail(@)]
    BY StoreTypes
  <1>2. handle'[b][e].present /\ handle'[b][e].key = i /\ handle'[b][e].area = a
    BY <1>1
  <1>3. Table(b) /\ freeList \in [Backends -> Seq(Elems)] /\ freeList[b] \in Seq(Elems)
    BY DEF TableInv, MemoryInv
  <1>4. IsInjective(freeList'[b]) /\ ToSet(freeList'[b]) = {f \in Elems : ~handle'[b][f].present}
    <2>1. CASE handle[b][e].present
      BY <1>1, <1>2, <1>3, <2>1 DEF Table
    <2>2. CASE ~handle[b][e].present
      <3>1. freeList[b] # <<>> /\ e = Head(freeList[b]) /\ freeList'[b] = Tail(freeList[b])
        BY <1>1, <1>3, <2>2
      <3>2. IsInjective(freeList'[b]) /\ ToSet(freeList'[b]) = ToSet(freeList[b]) \ {e}
        BY <1>3, <3>1, Popped DEF Table
      <3> QED BY <1>1, <1>2, <1>3, <3>2 DEF Table
    <2> QED BY <2>1, <2>2
  <1>5. \A f \in Elems : handle'[b][f].present =>
          handle'[b][f].key \in Indexes /\ handle'[b][f].area \in mapped'[b]
    BY <1>1, <1>2, <1>3 DEF Table
  <1>6. \A f \in Elems \ {e} : handle[b][f].present => handle[b][f].key # i
    BY <1>1, <1>3 DEF Table, Attached
  <1>7. \A f, g \in Elems : (handle'[b][f].present /\ handle'[b][g].present /\ f # g) =>
          handle'[b][f].key # handle'[b][g].key /\ handle'[b][f].area # handle'[b][g].area
    <2> SUFFICES ASSUME NEW f \in Elems, NEW g \in Elems,
                        handle'[b][f].present, handle'[b][g].present, f # g
                 PROVE  /\ handle'[b][f].key # handle'[b][g].key
                        /\ handle'[b][f].area # handle'[b][g].area
      OBVIOUS
    <2>1. CASE f = e
      BY <1>1, <1>2, <1>6, <2>1
    <2>2. CASE g = e
      BY <1>1, <1>2, <1>6, <2>2
    <2>3. CASE f # e /\ g # e
      BY <1>1, <1>3, <2>3 DEF Table
    <2> QED BY <2>1, <2>2, <2>3
  <1>8. Table(b)'
    BY <1>4, <1>5, <1>7 DEF Table
  <1>9. \A c \in Backends \ {b} : Table(c)'
    <2> TAKE c \in Backends \ {b}
    <2>1. mapped'[c] = mapped[c] /\ handle'[c] = handle[c] /\ freeList'[c] = freeList[c]
      BY StoreTypes
    <2> QED BY <2>1 DEF Table, TableInv
  <1> QED BY <1>8, <1>9 DEF TableInv

\* A table whose elements keep their presence, index and area is a table
\* still, and a larger address space does no harm.
LEMMA TableSame ==
  ASSUME TableInv, freeList' = freeList,
         \A c \in Backends : mapped[c] \subseteq mapped'[c],
         \A c \in Backends, e \in Elems :
           /\ handle'[c][e].present = handle[c][e].present
           /\ handle'[c][e].key = handle[c][e].key
           /\ handle'[c][e].area = handle[c][e].area
  PROVE  TableInv'
  <1> SUFFICES ASSUME NEW c \in Backends
               PROVE  Table(c)'
    BY DEF TableInv
  <1>1. Table(c)
    BY DEF TableInv
  <1>2. ToSet(freeList'[c]) = {e \in Elems : ~handle'[c][e].present}
    BY <1>1 DEF Table
  <1>3. \A e \in Elems : handle'[c][e].present =>
          handle'[c][e].key \in Indexes /\ handle'[c][e].area \in mapped'[c]
    BY <1>1 DEF Table
  <1>4. \A e, f \in Elems : (handle'[c][e].present /\ handle'[c][f].present /\ e # f) =>
          handle'[c][e].key # handle'[c][f].key /\ handle'[c][e].area # handle'[c][f].area
    BY <1>1 DEF Table
  <1> QED BY <1>1, <1>2, <1>3, <1>4 DEF Table

\* An edit of one element's count or block directory.
LEMMA EditTable ==
  ASSUME MemoryInv, TableInv, freeList' = freeList, mapped' = mapped,
         NEW b \in Backends, NEW e \in Elems,
         \/ \E n : handle' = [handle EXCEPT ![b][e].refs = n]
         \/ \E a : handle' = [handle EXCEPT ![b][e].blocks = a]
  PROVE  TableInv'
  <1>1. handle \in [Backends -> [Elems -> HandleType]]
    BY DEF MemoryInv
  <1>2. \A c \in Backends, f \in Elems :
           /\ handle'[c][f].present = handle[c][f].present
           /\ handle'[c][f].key = handle[c][f].key
           /\ handle'[c][f].area = handle[c][f].area
    <2>1. CASE \E n : handle' = [handle EXCEPT ![b][e].refs = n]
      <3>1. PICK n : handle' = [handle EXCEPT ![b][e].refs = n]
        BY <2>1
      <3> QED BY <1>1, <3>1 DEF HandleType
    <2>2. CASE \E a : handle' = [handle EXCEPT ![b][e].blocks = a]
      <3>1. PICK a : handle' = [handle EXCEPT ![b][e].blocks = a]
        BY <2>2
      <3> QED BY <1>1, <3>1 DEF HandleType
    <2> QED BY <2>1, <2>2
  <1> QED BY <1>2, TableSame

\* The table of a backend that has ended.
LEMMA ResetTable ==
  ASSUME MemoryInv, TableInv, NEW b \in Backends,
         mapped' = [mapped EXCEPT ![b] = {}],
         handle' = [handle EXCEPT ![b] = [e \in Elems |-> NoHandle]],
         freeList' = [freeList EXCEPT ![b] = [k \in Elems |-> k]]
  PROVE  /\ TableInv'
         /\ handle' \in [Backends -> [Elems -> HandleType]]
         /\ freeList' \in [Backends -> Seq(Elems)]
         /\ mapped' \in [Backends -> SUBSET (1..Len(contents))]
  <1> DEFINE all == [k \in Elems |-> k]
  <1>1. all \in Seq(Elems) /\ IsInjective(all) /\ ToSet(all) = Elems
    <2>1. Cardinality(Indexes) \in Nat
      BY FS_CardinalityType, SlotsAssumption
    <2>2. all \in [1..Cardinality(Indexes) -> Elems]
      BY DEF Elems
    <2>3. all \in Seq(Elems)
      <3> HIDE DEF all
      <3> QED BY <2>1, <2>2, SeqDef
    <2> QED BY <2>3 DEF IsInjective, ToSet
  <1>2. [e \in Elems |-> NoHandle] \in [Elems -> HandleType]
    BY SlotOne
  <1>3. /\ handle' \in [Backends -> [Elems -> HandleType]]
        /\ freeList' \in [Backends -> Seq(Elems)]
        /\ mapped' \in [Backends -> SUBSET (1..Len(contents))]
    BY <1>1, <1>2 DEF MemoryInv
  <1>4. Table(b)'
    <2>1. freeList'[b] = all /\ \A e \in Elems : handle'[b][e] = NoHandle
      BY DEF MemoryInv
    <2>2. \A e \in Elems : ~handle'[b][e].present
      BY <2>1 DEF NoHandle
    <2> QED BY <1>1, <2>1, <2>2 DEF Table
  <1>5. \A c \in Backends \ {b} : Table(c)'
    <2> TAKE c \in Backends \ {b}
    <2>1. mapped'[c] = mapped[c] /\ handle'[c] = handle[c] /\ freeList'[c] = freeList[c]
      BY DEF MemoryInv
    <2> QED BY <2>1 DEF Table, TableInv
  <1> QED BY <1>3, <1>4, <1>5 DEF TableInv

-----------------------------------------------------------------------------
(* The types                                                               *)

LEMMA InitMemory == Init => MemoryInv
  <1> SUFFICES ASSUME Init PROVE MemoryInv
    OBVIOUS
  <1>1. Cardinality(Indexes) \in Nat
    BY FS_CardinalityType, SlotsAssumption
  <1> DEFINE all == [k \in Elems |-> k]
  <1>2. all \in Seq(Elems)
    <2>1. all \in [1..Cardinality(Indexes) -> Elems]
      BY DEF Elems
    <2> HIDE DEF all
    <2> QED BY <1>1, <2>1, SeqDef
  <1>3. freeList \in [Backends -> Seq(Elems)]
    BY <1>2 DEF Init
  <1>4. slot \in [Slots -> SlotType] /\ reg \in [Backends -> RegType]
        /\ handle \in [Backends -> [Elems -> HandleType]]
    BY SlotOne DEF Init
  <1>5. contents \in Seq(Indexes) /\ Len(contents) = 0 /\ creatorPin = {}
    BY DEF Init
  <1>6. mapped \in [Backends -> SUBSET (1..Len(contents))]
    BY <1>5 DEF Init
  <1>7. /\ DOMAIN scans = Backends
        /\ \A b \in Backends : \A k \in DOMAIN scans[b] : scans[b][k] \in ScanType
    BY DEF Init
  <1>8. pc \in [Backends -> Labels] /\ depth \in [Backends -> 0..MaxDepth]
        /\ dirKnown \in [Backends -> BOOLEAN]
    BY SlotsAssumption DEF Init, Labels
  <1>9. dirLock \in Backends \cup {NoBackend} /\ wlock \in [Slots -> Backends \cup {NoBackend}]
        /\ active \in [Slots -> Nat]
    BY DEF Init
  <1> QED BY <1>3, <1>4, <1>5, <1>6, <1>7, <1>8, <1>9, SlotsAssumption DEF MemoryInv

\* Steps that leave the tables and the slots alone.
Quiet(b) ==
  \/ SkipAdmission(b) \/ EvictChoose(b) \/ WriterCold(b) \/ WriterLookup(b)
  \/ Abort(b) \/ Terminate(b) \/ LoadCreateFails(b) \/ LoadAllocateFails(b)
  \/ Savepoint(b) \/ ReleaseSavepoint(b) \/ EvictLock(b) \/ EvictUnlock(b) \/ WriterLock(b)

LEMMA QuietFrame ==
  ASSUME NEW b \in Backends, Quiet(b)
  PROVE  UNCHANGED <<slot, active, contents, creatorPin, mapped, handle, freeList>>
  BY DEF Quiet, SkipAdmission, EvictChoose, WriterCold, WriterLookup, Abort, Terminate,
     LoadCreateFails, LoadAllocateFails, Savepoint, ReleaseSavepoint, EvictLock, EvictUnlock, WriterLock, shared

\* Savepoints change the depth, and the levels of the open scans.
LEMMA SavepointTypes ==
  ASSUME MemoryInv, NEW b \in Backends, Savepoint(b) \/ ReleaseSavepoint(b)
  PROVE  /\ depth' \in [Backends -> 0..MaxDepth]
         /\ DOMAIN scans' = Backends
         /\ \A c \in Backends : \A k \in DOMAIN scans'[c] : scans'[c][k] \in ScanType
         /\ UNCHANGED <<dirLock, wlock, dirKnown, pc, reg>>
  <1>1. depth \in [Backends -> 0..MaxDepth] /\ MaxDepth \in Nat
    BY SlotsAssumption DEF MemoryInv
  <1>2. CASE Savepoint(b)
    <2>1. depth' \in [Backends -> 0..MaxDepth]
      BY <1>1, <1>2 DEF Savepoint
    <2> QED BY <1>2, <2>1 DEF Savepoint, MemoryInv, shared
  <1>3. CASE ReleaseSavepoint(b)
    <2>1. depth' \in [Backends -> 0..MaxDepth]
      BY <1>1, <1>3 DEF ReleaseSavepoint
    <2>2. depth[b] - 1 \in Nat
      BY <1>1, <1>3 DEF ReleaseSavepoint
    <2>3. \A n \in Nat : Min({n, depth[b] - 1}) \in Nat
      BY <2>2, MinIn
    <2>4. scans' = [scans EXCEPT ![b] =
            [k \in DOMAIN scans[b] |->
               [scans[b][k] EXCEPT !.level = Min({scans[b][k].level, depth[b] - 1})]]]
      BY <1>3 DEF ReleaseSavepoint
    <2>5. /\ DOMAIN scans = Backends
          /\ \A c \in Backends : \A k \in DOMAIN scans[c] : scans[c][k] \in ScanType
      BY DEF MemoryInv
    <2>6. \A k \in DOMAIN scans[b] :
            [scans[b][k] EXCEPT !.level = Min({scans[b][k].level, depth[b] - 1})] \in ScanType
      BY <2>3, <2>5 DEF ScanType
    <2>7. /\ scans'[b] = [k \in DOMAIN scans[b] |->
               [scans[b][k] EXCEPT !.level = Min({scans[b][k].level, depth[b] - 1})]]
          /\ \A c \in Backends \ {b} : scans'[c] = scans[c]
      BY <2>4, <2>5
    <2>8. \A k \in DOMAIN scans'[b] : scans'[b][k] \in ScanType
      BY <2>6, <2>7
    <2> QED BY <1>3, <2>1, <2>4, <2>5, <2>7, <2>8 DEF ReleaseSavepoint, shared
  <1> QED BY <1>2, <1>3

LEMMA QuietMemory ==
  ASSUME MemoryInv, NEW b \in Backends, Quiet(b)
  PROVE  MemoryInv'
  <1> USE QuietFrame
  <1>1. reg[b] \in RegType /\ reg \in [Backends -> RegType]
    BY DEF MemoryInv
  <1>2. CASE SkipAdmission(b)
    <2>1. pc' \in [Backends -> Labels]
      BY <1>2, GotoTypes DEF SkipAdmission, Labels, Working
    <2> QED BY <1>2, <2>1 DEF SkipAdmission, MemoryInv, shared
  <1>3. CASE EvictChoose(b)
    <2>1. PICK s \in Slots : reg' = [reg EXCEPT ![b] = [reg[b] EXCEPT !.victim = s]]
      BY <1>3 DEF EvictChoose
    <2>2. reg' \in [Backends -> RegType]
      BY <1>1, <2>1, RegEdits, RegTypes
    <2>3. pc' \in [Backends -> Labels]
      BY <1>3, GotoTypes DEF EvictChoose, Labels, Evicting
    <2> QED BY <1>3, <2>2, <2>3 DEF EvictChoose, MemoryInv, shared
  <1>4. CASE WriterCold(b)
    <2>1. pc' \in [Backends -> Labels] /\ reg' \in [Backends -> RegType]
      BY <1>4, DoneTypes DEF WriterCold
    <2> QED BY <1>4, <2>1 DEF WriterCold, MemoryInv, shared
  <1>5. CASE WriterLookup(b)
    <2>1. pc' \in [Backends -> Labels] /\ reg' \in [Backends -> RegType]
      <3>1. CASE Done(b)
        BY <3>1, DoneTypes
      <3>2. CASE \E s \in Slots : reg' = [reg EXCEPT ![b].slot = s] /\ Goto(b, "attach")
        <4>1. PICK s \in Slots : reg' = [reg EXCEPT ![b] = [reg[b] EXCEPT !.slot = s]]
          BY <3>2
        <4>2. reg' \in [Backends -> RegType]
          BY <1>1, <4>1, RegEdits, RegTypes
        <4> QED BY <3>2, <4>2, GotoTypes DEF Labels, Working
      <3> QED BY <1>5, <3>1, <3>2 DEF WriterLookup, SlotsOf
    <2> QED BY <1>5, <2>1 DEF WriterLookup, MemoryInv, shared
  <1>6. CASE Abort(b) \/ Terminate(b) \/ LoadCreateFails(b) \/ LoadAllocateFails(b)
    <2>1. PICK dies \in BOOLEAN : Raise(b, dies)
      BY <1>6 DEF Abort, Terminate, LoadCreateFails, LoadAllocateFails
    <2>2. /\ pc' \in [Backends -> Labels] /\ reg' \in [Backends -> RegType]
          /\ depth' \in [Backends -> 0..MaxDepth]
          /\ DOMAIN scans' = Backends
          /\ \A c \in Backends : \A k \in DOMAIN scans'[c] : scans'[c][k] \in ScanType
      BY <2>1, RaiseTypes
    <2>3. UNCHANGED <<dirLock, wlock, dirKnown>>
      BY <1>6 DEF Abort, Terminate, LoadCreateFails, LoadAllocateFails, shared
    <2> QED BY <2>2, <2>3 DEF MemoryInv
  <1>7. CASE Savepoint(b) \/ ReleaseSavepoint(b)
    <2>1. /\ depth' \in [Backends -> 0..MaxDepth]
          /\ DOMAIN scans' = Backends
          /\ \A c \in Backends : \A k \in DOMAIN scans'[c] : scans'[c][k] \in ScanType
          /\ UNCHANGED <<dirLock, wlock, dirKnown, pc, reg>>
      BY <1>7, SavepointTypes
    <2> QED BY <2>1 DEF MemoryInv
  <1>8. CASE EvictLock(b)
    <2>1. /\ Goto(b, "choose") /\ dirLock' = b /\ UNCHANGED <<wlock, scans, depth>>
          /\ dirKnown' = [dirKnown EXCEPT ![b] = TRUE]
          /\ \E x \in {"idle", "create"} : reg' = [reg EXCEPT ![b] = [reg[b] EXCEPT !.ret = x]]
      BY <1>8 DEF EvictLock
    <2>2. pc' \in [Backends -> Labels]
      BY <2>1, GotoTypes DEF Labels, Evicting
    <2>3. reg' \in [Backends -> RegType]
      <3>1. PICK x \in {"idle", "create"} : reg' = [reg EXCEPT ![b] = [reg[b] EXCEPT !.ret = x]]
        BY <2>1
      <3>2. [reg[b] EXCEPT !.ret = x] \in RegType
        BY <1>1, RegEdits
      <3> QED BY <3>1, <3>2, RegTypes
    <2>4. dirKnown' \in [Backends -> BOOLEAN]
      BY <2>1 DEF MemoryInv
    <2> QED BY <2>1, <2>2, <2>3, <2>4 DEF MemoryInv
  <1>9. CASE EvictUnlock(b)
    <2>1. pc' \in [Backends -> Labels] /\ reg' \in [Backends -> RegType]
      BY <1>9, GoBackTypes DEF EvictUnlock
    <2> QED BY <1>9, <2>1 DEF EvictUnlock, MemoryInv
  <1>10. CASE WriterLock(b)
    <2>1. pc' \in [Backends -> Labels] /\ reg' \in [Backends -> RegType]
      <3>1. CASE Done(b)
        BY <3>1, DoneTypes
      <3>2. CASE Go(b, "write")
        BY <1>1, <3>2, GotoTypes DEF Go, Labels, Working
      <3> QED BY <1>10, <3>1, <3>2 DEF WriterLock
    <2>2. wlock' \in [Slots -> Backends \cup {NoBackend}]
      <3>1. UNCHANGED wlock \/ \E s : wlock' = [wlock EXCEPT ![s] = b]
        BY <1>10 DEF WriterLock
      <3>2. wlock \in [Slots -> Backends \cup {NoBackend}]
        BY DEF MemoryInv
      <3> QED BY ONLY <3>1, <3>2, b \in Backends
    <2> QED BY <1>10, <2>1, <2>2 DEF WriterLock, MemoryInv
  <1> QED BY <1>2, <1>3, <1>4, <1>5, <1>6, <1>7, <1>8, <1>9, <1>10 DEF Quiet

\* Steps on the backend's own table.
LEMMA TablesMemory ==
  ASSUME IInv, NEW b \in Backends,
         (\E i \in Indexes : BeginScan(b, i) \/ WriterAttach(b, i)) \/ Attach(b) \/ AbortDone(b)
  PROVE  MemoryInv' /\ TableInv'
  <1> USE DEF IInv
  <1>1. reg[b] \in RegType /\ reg \in [Backends -> RegType] /\ NoReg \in RegType
    BY SlotOne DEF MemoryInv
  <1>2. ASSUME UNCHANGED <<mapped, handle, freeList>>
        PROVE  TableInv'
    BY <1>2, TableSame
  <1>3. CASE \E i \in Indexes : BeginScan(b, i)
    <2> PICK i \in Indexes : BeginScan(b, i)
      BY <1>3
    <2>1. UNCHANGED <<shared, scans, depth>> /\ dirKnown' \in [Backends -> BOOLEAN]
      BY DEF BeginScan, MemoryInv
    <2>2. CASE Attached(b, i) /\ Live(handle[b][EntryOf(b, i)], i)
      <3>1. /\ UNCHANGED <<mapped, handle, freeList>> /\ Goto(b, "acquire")
            /\ reg' = [reg EXCEPT ![b] = [NoReg EXCEPT !.idx = i,
                         !.cc = EntryOf(b, i), !.cached = TRUE]]
        BY <2>2 DEF BeginScan
      <3>2. EntryOf(b, i) \in Nat
        BY <2>2, EntryFound DEF Elems
      <3>3. [NoReg EXCEPT !.idx = i, !.cc = EntryOf(b, i), !.cached = TRUE] \in RegType
        BY <1>1, <3>2 DEF RegType
      <3>4. reg' \in [Backends -> RegType]
        BY <3>1, <3>3, RegTypes
      <3>5. pc' \in [Backends -> Labels]
        BY <3>1, GotoTypes DEF Labels, Working
      <3> QED BY <1>2, <2>1, <3>1, <3>4, <3>5 DEF MemoryInv, shared
    <2>3. CASE ~(Attached(b, i) /\ Live(handle[b][EntryOf(b, i)], i))
      <3>1. /\ Forget(b, i) /\ Goto(b, "lookup")
            /\ reg' = [reg EXCEPT ![b] = [NoReg EXCEPT !.idx = i]]
        BY <2>3 DEF BeginScan
      <3>2. [NoReg EXCEPT !.idx = i] \in RegType
        BY <1>1 DEF RegType
      <3>3. reg' \in [Backends -> RegType]
        BY <3>1, <3>2, RegTypes
      <3>4. pc' \in [Backends -> Labels]
        BY <3>1, GotoTypes DEF Labels, Working
      <3>5. /\ mapped' \in [Backends -> SUBSET (1..Len(contents))]
            /\ handle' \in [Backends -> [Elems -> HandleType]]
            /\ freeList' \in [Backends -> Seq(Elems)]
        BY <3>1, ForgetTypes
      <3> QED BY <2>1, <3>1, <3>3, <3>4, <3>5, ForgetTable DEF MemoryInv, shared
    <2> QED BY <2>2, <2>3
  <1>4. CASE \E i \in Indexes : WriterAttach(b, i)
    <2> PICK i \in Indexes : WriterAttach(b, i)
      BY <1>4
    <2>1. UNCHANGED <<shared, scans, depth, dirKnown>>
      BY DEF WriterAttach
    <2>2. PICK o \in {"insert", "invalidate"} :
            reg' = [reg EXCEPT ![b] = [NoReg EXCEPT !.idx = i, !.op = o,
                       !.cc = IF Attached(b, i) THEN EntryOf(b, i) ELSE @]]
      BY DEF WriterAttach
    <2> DEFINE n == IF Attached(b, i) THEN EntryOf(b, i) ELSE NoReg.cc
    <2>3. n \in Nat
      BY EntryFound DEF Elems, NoReg
    <2>4. [NoReg EXCEPT !.idx = i, !.op = o, !.cc = n] \in RegType
      <3> HIDE DEF n
      <3> QED BY <1>1, <2>3 DEF RegType
    <2>5. reg' \in [Backends -> RegType]
      BY <2>2, <2>4, RegTypes
    <2>6. CASE UNCHANGED <<mapped, handle, freeList>> /\ Goto(b, "wlock")
      <3>1. pc' \in [Backends -> Labels]
        BY <2>6, GotoTypes DEF Labels, Working
      <3> QED BY <1>2, <2>1, <2>5, <2>6, <3>1 DEF MemoryInv, shared
    <2>7. CASE Forget(b, i) /\ \E l \in {"wlookup", "cold"} : Goto(b, l)
      <3>1. pc' \in [Backends -> Labels]
        BY <2>7, GotoTypes DEF Labels, Working
      <3>2. /\ mapped' \in [Backends -> SUBSET (1..Len(contents))]
            /\ handle' \in [Backends -> [Elems -> HandleType]]
            /\ freeList' \in [Backends -> Seq(Elems)]
        BY <2>7, ForgetTypes
      <3> QED BY <2>1, <2>5, <2>7, <3>1, <3>2, ForgetTable DEF MemoryInv, shared
    <2> QED BY <2>6, <2>7 DEF WriterAttach
  <1>5. CASE Attach(b)
    <2> DEFINE i == reg[b].idx
               s == reg[b].slot
               next == IF reg[b].op = "scan" THEN "acquire" ELSE "wlock"
    <2>1. UNCHANGED <<shared, dirKnown>>
      BY <1>5 DEF Attach
    <2>2. i \in Indexes /\ s \in Slots /\ next \in Labels
      BY <1>1, <1>5 DEF Attach, At, PhaseInv, Phase, RegType, Working, Labels
    <2>3. CASE Attached(b, i) /\ reg' = [reg EXCEPT ![b].cc = EntryOf(b, i)] /\ Goto(b, next)
               /\ UNCHANGED <<mapped, handle, freeList, scans, depth>>
      <3>1. EntryOf(b, i) \in Nat
        BY <2>3, EntryFound DEF Elems
      <3>2. reg' = [reg EXCEPT ![b] = [reg[b] EXCEPT !.cc = EntryOf(b, i)]]
        BY <2>3
      <3>3. reg' \in [Backends -> RegType]
        BY <1>1, <3>1, <3>2, RegEdits, RegTypes
      <3>4. pc' \in [Backends -> Labels]
        BY <2>2, <2>3, GotoTypes
      <3> QED BY <1>2, <2>1, <2>3, <3>3, <3>4 DEF MemoryInv, shared
    <2>4. CASE Done(b) /\ UNCHANGED <<mapped, handle, freeList, scans, depth>>
      <3>1. pc' \in [Backends -> Labels] /\ reg' \in [Backends -> RegType]
        BY <2>4, DoneTypes
      <3> QED BY <1>2, <2>1, <2>4, <3>1 DEF MemoryInv, shared
    <2>5. CASE Raise(b, FALSE) /\ UNCHANGED <<mapped, handle, freeList>>
      <3>1. /\ pc' \in [Backends -> Labels] /\ reg' \in [Backends -> RegType]
            /\ depth' \in [Backends -> 0..MaxDepth]
            /\ DOMAIN scans' = Backends
            /\ \A c \in Backends : \A k \in DOMAIN scans'[c] : scans'[c][k] \in ScanType
        BY <2>5, RaiseTypes
      <3> QED BY <1>2, <2>1, <2>5, <3>1 DEF MemoryInv, shared
    <2>6. CASE /\ slot[s].area \notin mapped[b] /\ Servable(slot[s].state)
               /\ mapped' = [mapped EXCEPT ![b] = @ \cup {slot[s].area}]
               /\ StoreHandle(b, i, s, slot[s].area, next)
               /\ UNCHANGED <<scans, depth>>
      <3> DEFINE a == slot[s].area
      <3>1. a \in 1..Len(contents) /\ a \in Areas
        <4>1. a \in creatorPin
          BY <2>2, <2>6 DEF SlotInv
        <4>2. creatorPin \subseteq 1..Len(contents) /\ Len(contents) \in Nat
              /\ Len(contents) <= MaxAreas /\ MaxAreas \in Nat
          BY SlotsAssumption DEF MemoryInv
        <4>3. \A x \in 1..Len(contents) : x \in Areas
          BY <4>2 DEF Areas
        <4> QED BY <4>1, <4>2, <4>3
      <3>2. mapped' \in [Backends -> SUBSET (1..Len(contents))]
        BY <2>6, <3>1 DEF MemoryInv
      <3>3. /\ handle' \in [Backends -> [Elems -> HandleType]]
            /\ freeList' \in [Backends -> Seq(Elems)]
            /\ reg' \in [Backends -> RegType] /\ pc' \in [Backends -> Labels]
        BY <2>2, <2>6, <3>1, StoreTypes
      <3>4. /\ a \in mapped'[b] /\ mapped[b] \subseteq mapped'[b]
            /\ \A c \in Backends \ {b} : mapped'[c] = mapped[c]
        BY <2>6 DEF MemoryInv
      <3>5. \A e \in Elems : handle[b][e].present => handle[b][e].area # a
        BY <2>6 DEF TableInv, Table
      <3>6. TableInv'
        BY <2>2, <2>6, <3>1, <3>4, <3>5, StoreTable
      <3> QED BY <2>1, <2>6, <3>2, <3>3, <3>6 DEF MemoryInv, shared
    <2> QED BY <1>5, <2>3, <2>4, <2>5, <2>6 DEF Attach
  <1>6. CASE AbortDone(b)
    <2>1. UNCHANGED <<shared, scans, depth>>
      BY <1>6 DEF AbortDone
    <2>2. pc' \in [Backends -> Labels] /\ reg' \in [Backends -> RegType]
      BY <1>6, DoneTypes DEF AbortDone
    <2>3. CASE UNCHANGED <<mapped, handle, freeList, dirKnown>>
      BY <1>2, <2>1, <2>2, <2>3 DEF MemoryInv, shared
    <2>4. CASE /\ mapped' = [mapped EXCEPT ![b] = {}]
               /\ handle' = [handle EXCEPT ![b] = [e \in Elems |-> NoHandle]]
               /\ freeList' = [freeList EXCEPT ![b] = [k \in Elems |-> k]]
               /\ dirKnown' = [dirKnown EXCEPT ![b] = FALSE]
      <3>1. /\ TableInv'
            /\ handle' \in [Backends -> [Elems -> HandleType]]
            /\ freeList' \in [Backends -> Seq(Elems)]
            /\ mapped' \in [Backends -> SUBSET (1..Len(contents))]
        BY <2>4, ResetTable
      <3>2. dirKnown' \in [Backends -> BOOLEAN]
        BY <2>4 DEF MemoryInv
      <3> QED BY <2>1, <2>2, <3>1, <3>2 DEF MemoryInv, shared
    <2> QED BY <1>6, <2>3, <2>4 DEF AbortDone
  <1> QED BY <1>3, <1>4, <1>5, <1>6

\* Steps on the references: what they do to the counters is RefsInv's
\* subject, that no counter wraps included.
CountSteps(b) ==
  AcquireInc(b) \/ AcquireValidate(b) \/ AcquireSnapshot(b) \/ EndScan(b)
  \/ AbortRelease(b) \/ Resolve(b)

\* Giving references back, by the types.
LEMMA ReleaseTypes ==
  ASSUME MemoryInv, NEW b \in Backends, NEW e \in Elems, NEW n \in Nat,
         n <= handle[b][e].refs, NEW ret \in {"idle", "abort"}, Release(b, e, n, ret)
  PROVE  /\ handle' = [handle EXCEPT ![b][e].refs = handle[b][e].refs - n]
         /\ handle' \in [Backends -> [Elems -> HandleType]]
         /\ active' = [active EXCEPT ![handle[b][e].slot] = @ - n]
         /\ pc' \in [Backends -> Labels] /\ reg' \in [Backends -> RegType]
         /\ \A c \in Backends \ {b} : pc'[c] = pc[c] /\ reg'[c] = reg[c]
         /\ \/ pc'[b] = ret /\ reg' = reg
            \/ /\ pc'[b] = "drain"
               /\ reg' = [reg EXCEPT ![b] = [reg[b] EXCEPT !.cc = e, !.ret = ret]]
  <1>1. handle' = [handle EXCEPT ![b][e].refs = handle[b][e].refs - n]
    BY DEF Release
  <1>2. handle[b][e] \in HandleType /\ handle[b][e].refs - n \in Nat
    <2>1. handle[b][e] \in HandleType
      BY DEF MemoryInv
    <2> QED BY <2>1 DEF HandleType
  <1>3. handle' \in [Backends -> [Elems -> HandleType]]
    <2>1. handle' = [handle EXCEPT ![b][e] = [handle[b][e] EXCEPT !.refs = handle[b][e].refs - n]]
      BY <1>1
    <2>2. [handle[b][e] EXCEPT !.refs = handle[b][e].refs - n] \in HandleType
      BY <1>2, HandleEdits
    <2> QED BY <2>1, <2>2 DEF MemoryInv
  <1>4. active' = [active EXCEPT ![handle[b][e].slot] = @ - n]
    BY DEF Release
  <1>5. reg[b] \in RegType /\ reg \in [Backends -> RegType]
    BY DEF MemoryInv
  <1>6. CASE Go(b, ret)
    <2>1. Goto(b, ret) /\ reg' = reg /\ ret \in Labels
      BY <1>6 DEF Go, Labels
    <2> QED BY <1>1, <1>3, <1>4, <1>5, <2>1, GotoTypes
  <1>7. CASE /\ reg' = [reg EXCEPT ![b] = [reg[b] EXCEPT !.cc = e, !.ret = ret]]
             /\ Goto(b, "drain")
    <2>1. [reg[b] EXCEPT !.cc = e, !.ret = ret] \in RegType
      <3>1. e \in Nat
        BY DEF Elems
      <3> QED BY <1>5, <3>1, RegEdits
    <2>2. /\ reg' \in [Backends -> RegType]
          /\ \A c \in Backends \ {b} : reg'[c] = reg[c]
      BY <1>7, <2>1, RegTypes
    <2>3. /\ pc' \in [Backends -> Labels] /\ pc'[b] = "drain"
          /\ \A c \in Backends \ {b} : pc'[c] = pc[c]
      BY <1>7, GotoTypes DEF Labels
    <2> QED BY <1>1, <1>3, <1>4, <1>7, <2>2, <2>3
  <1> QED BY <1>6, <1>7 DEF Release

LEMMA CountMemory ==
  ASSUME IInv, NEW b \in Backends, CountSteps(b), active' \in [Slots -> Nat]
  PROVE  MemoryInv' /\ TableInv'
  <1> USE DEF IInv
  <1>1. reg[b] \in RegType /\ reg \in [Backends -> RegType]
        /\ handle \in [Backends -> [Elems -> HandleType]] /\ slot \in [Slots -> SlotType]
    BY DEF MemoryInv
  <1>2. CASE AcquireInc(b)
    <2>1. UNCHANGED <<dirLock, wlock, slot, contents, creatorPin,
                      mapped, handle, freeList, scans, depth, dirKnown, reg>>
      BY <1>2 DEF AcquireInc
    <2>2. pc' \in [Backends -> Labels]
      BY <1>2, GotoTypes DEF AcquireInc, Labels, Working
    <2> QED BY <2>1, <2>2, TableSame DEF MemoryInv
  <1>3. CASE AcquireValidate(b)
    <2> DEFINE e == reg[b].cc
    <2>1. UNCHANGED <<dirLock, wlock, slot, contents, creatorPin, scans, depth, dirKnown>>
          /\ e \in Elems
      BY <1>3 DEF AcquireValidate, PhaseInv, Phase, At
    <2> HIDE DEF e
    <2>2. CASE /\ handle' = [handle EXCEPT ![b][e].refs = handle[b][e].refs + 1]
               /\ Go(b, "snapshot") /\ UNCHANGED <<active, mapped, freeList>>
      <3>1. handle' = [handle EXCEPT ![b][e] =
                        [handle[b][e] EXCEPT !.refs = handle[b][e].refs + 1]]
        BY <2>2
      <3>2. [handle[b][e] EXCEPT !.refs = handle[b][e].refs + 1] \in HandleType
        <4>1. handle[b][e] \in HandleType
          BY <1>1, <2>1
        <4>2. handle[b][e].refs + 1 \in Nat
          BY <4>1 DEF HandleType
        <4> QED BY <4>1, <4>2, HandleEdits
      <3>3. handle' \in [Backends -> [Elems -> HandleType]]
        BY <1>1, <2>1, <3>1, <3>2
      <3>4. pc' \in [Backends -> Labels] /\ reg' = reg
        BY <2>2, GotoTypes DEF Go, Labels, Working
      <3>5. TableInv'
        BY <2>1, <2>2, EditTable
      <3> QED BY <2>1, <2>2, <3>3, <3>4, <3>5 DEF MemoryInv
    <2>3. CASE Forget(b, reg[b].idx) /\ Goto(b, "lookup")
               /\ reg' = [reg EXCEPT ![b].cached = FALSE]
      <3>1. reg' = [reg EXCEPT ![b] = [reg[b] EXCEPT !.cached = FALSE]]
        BY <2>3
      <3>2. reg' \in [Backends -> RegType]
        BY <1>1, <3>1, RegEdits, RegTypes
      <3>3. pc' \in [Backends -> Labels]
        BY <2>3, GotoTypes DEF Labels, Working
      <3>4. /\ mapped' \in [Backends -> SUBSET (1..Len(contents))]
            /\ handle' \in [Backends -> [Elems -> HandleType]]
            /\ freeList' \in [Backends -> Seq(Elems)]
        BY <2>3, ForgetTypes
      <3> QED BY <2>1, <2>3, <3>2, <3>3, <3>4, ForgetTable DEF MemoryInv
    <2>4. CASE UNCHANGED <<mapped, handle, freeList>> /\ Done(b)
      <3>1. pc' \in [Backends -> Labels] /\ reg' \in [Backends -> RegType]
        BY <2>4, DoneTypes
      <3> QED BY <2>1, <2>4, <3>1, TableSame DEF MemoryInv
    <2> QED BY <1>3, <2>2, <2>3, <2>4 DEF AcquireValidate, e
  <1>4. CASE AcquireSnapshot(b)
    <2> DEFINE e == reg[b].cc
               a == slot[handle[b][e].slot].blocks
    <2>1. /\ UNCHANGED <<shared, mapped, freeList, depth, dirKnown>>
          /\ e \in Elems /\ reg[b].idx \in Indexes
          /\ handle' = [handle EXCEPT ![b][e].blocks = a]
          /\ Done(b)
      BY <1>4 DEF AcquireSnapshot, PhaseInv, Phase, At, Working
    <2>2. handle[b][e] \in HandleType /\ a \in Areas \cup {NoArea}
      <3>1. handle[b][e] \in HandleType
        BY <1>1, <2>1
      <3>2. handle[b][e].slot \in Slots
        BY <3>1 DEF HandleType
      <3>3. slot[handle[b][e].slot] \in SlotType
        BY <1>1, <3>2
      <3> QED BY <3>1, <3>3 DEF SlotType
    <2> HIDE DEF e, a
    <2>3. handle' \in [Backends -> [Elems -> HandleType]]
      <3>1. handle' = [handle EXCEPT ![b][e] = [handle[b][e] EXCEPT !.blocks = a]]
        BY <2>1
      <3>2. [handle[b][e] EXCEPT !.blocks = a] \in HandleType
        BY <2>2, HandleEdits
      <3> QED BY <1>1, <2>1, <3>1, <3>2
    <2>4. /\ DOMAIN scans' = Backends
          /\ \A c \in Backends : \A k \in DOMAIN scans'[c] : scans'[c][k] \in ScanType
      <3> DEFINE sc == [idx |-> reg[b].idx, cc |-> e, level |-> depth[b]]
      <3>1. PICK k \in (1..MaxScans) \ DOMAIN scans[b] :
              scans' = [scans EXCEPT ![b] = [j \in DOMAIN scans[b] \cup {k} |->
                          IF j = k THEN sc ELSE scans[b][j]]]
        BY <1>4 DEF AcquireSnapshot, e
      <3>2. depth[b] \in Nat
        BY SlotsAssumption DEF MemoryInv
      <3>3. sc \in ScanType
        BY <2>1, <3>2 DEF ScanType
      <3>4. /\ DOMAIN scans = Backends
            /\ \A c \in Backends : \A j \in DOMAIN scans[c] : scans[c][j] \in ScanType
        BY DEF MemoryInv
      <3> HIDE DEF sc
      <3>5. /\ DOMAIN scans' = Backends
            /\ scans'[b] = [j \in DOMAIN scans[b] \cup {k} |->
                              IF j = k THEN sc ELSE scans[b][j]]
            /\ \A c \in Backends \ {b} : scans'[c] = scans[c]
        BY <3>1, <3>4 DEF sc
      <3>6. \A j \in DOMAIN scans'[b] : scans'[b][j] \in ScanType
        BY <3>3, <3>4, <3>5
      <3> QED BY <3>4, <3>5, <3>6
    <2>5. pc' \in [Backends -> Labels] /\ reg' \in [Backends -> RegType]
      BY <2>1, DoneTypes
    <2>6. TableInv'
      BY <2>1, EditTable
    <2> QED BY <2>1, <2>3, <2>4, <2>5, <2>6 DEF MemoryInv, shared
  <1>5. CASE EndScan(b)
    <2>1. PICK k \in DOMAIN scans[b] :
            /\ scans' = [scans EXCEPT ![b] = Restrict(@, DOMAIN @ \ {k})]
            /\ IF handle[b][scans[b][k].cc].refs > 0
               THEN Release(b, scans[b][k].cc, 1, "idle")
               ELSE UNCHANGED <<handle, active, reg, pc>>
      BY <1>5 DEF EndScan
    <2> DEFINE e == scans[b][k].cc
    <2>2. /\ UNCHANGED <<dirLock, wlock, slot, contents, creatorPin,
                         mapped, freeList, depth, dirKnown>>
          /\ e \in Elems
      <3>1. scans[b][k] \in ScanType
        BY DEF MemoryInv
      <3> QED BY <1>5, <3>1 DEF EndScan, ScanType
    <2>3. /\ DOMAIN scans' = Backends
          /\ \A c \in Backends : \A j \in DOMAIN scans'[c] : scans'[c][j] \in ScanType
      <3>1. scans' = [scans EXCEPT ![b] = [j \in DOMAIN scans[b] \ {k} |-> scans[b][j]]]
        BY <2>1 DEF Restrict
      <3>2. /\ DOMAIN scans = Backends
            /\ \A c \in Backends : \A j \in DOMAIN scans[c] : scans[c][j] \in ScanType
        BY DEF MemoryInv
      <3>3. /\ scans'[b] = [j \in DOMAIN scans[b] \ {k} |-> scans[b][j]]
            /\ \A c \in Backends \ {b} : scans'[c] = scans[c]
        BY <3>1, <3>2
      <3> QED BY <3>1, <3>2, <3>3
    <2> HIDE DEF e
    <2>4. CASE handle[b][e].refs > 0 /\ Release(b, e, 1, "idle")
      <3>1. 1 <= handle[b][e].refs
        <4>1. handle[b][e] \in HandleType
          BY <1>1, <2>2
        <4> QED BY <2>4, <4>1 DEF HandleType
      <3>2. /\ handle' \in [Backends -> [Elems -> HandleType]]
            /\ handle' = [handle EXCEPT ![b][e].refs = handle[b][e].refs - 1]
            /\ pc' \in [Backends -> Labels] /\ reg' \in [Backends -> RegType]
        <4>1. 1 \in Nat /\ "idle" \in {"idle", "abort"}
          OBVIOUS
        <4>2. MemoryInv
          OBVIOUS
        <4>3. handle' \in [Backends -> [Elems -> HandleType]]
          BY <2>2, <2>4, <3>1, <4>1, <4>2, ReleaseTypes
        <4>4. handle' = [handle EXCEPT ![b][e].refs = handle[b][e].refs - 1]
          BY <2>4 DEF Release
        <4>5. pc' \in [Backends -> Labels] /\ reg' \in [Backends -> RegType]
          BY <2>2, <2>4, <3>1, <4>1, <4>2, ReleaseTypes
        <4> QED BY <4>3, <4>4, <4>5
      <3>3. TableInv'
        BY <2>2, <3>2, EditTable
      <3> QED BY <2>2, <2>3, <3>2, <3>3 DEF MemoryInv
    <2>5. CASE UNCHANGED <<handle, active, reg, pc>>
      BY <2>2, <2>3, <2>5, TableSame DEF MemoryInv
    <2> QED BY <2>1, <2>4, <2>5 DEF e
  <1>6. CASE AbortRelease(b)
    <2>1. PICK e \in Held(b) : Release(b, e, handle[b][e].refs, "abort")
      BY <1>6 DEF AbortRelease
    <2>2. /\ UNCHANGED <<dirLock, wlock, slot, contents, creatorPin,
                         mapped, freeList, scans, depth, dirKnown>>
          /\ e \in Elems
      BY <1>6 DEF AbortRelease, Held
    <2>3. handle[b][e].refs \in Nat
      <3>1. handle[b][e] \in HandleType
        BY <1>1, <2>2
      <3> QED BY <3>1 DEF HandleType
    <2>4. /\ handle' \in [Backends -> [Elems -> HandleType]]
          /\ handle' = [handle EXCEPT ![b][e].refs = handle[b][e].refs - handle[b][e].refs]
          /\ pc' \in [Backends -> Labels] /\ reg' \in [Backends -> RegType]
      <3>1. "abort" \in {"idle", "abort"} /\ handle[b][e].refs <= handle[b][e].refs
        BY <2>3
      <3>2. MemoryInv
        OBVIOUS
      <3>3. handle' = [handle EXCEPT ![b][e].refs = handle[b][e].refs - handle[b][e].refs]
        BY <2>1 DEF Release
      <3>4. handle' \in [Backends -> [Elems -> HandleType]]
        BY <2>1, <2>2, <2>3, <3>1, <3>2, ReleaseTypes
      <3>5. pc' \in [Backends -> Labels] /\ reg' \in [Backends -> RegType]
        BY <2>1, <2>2, <2>3, <3>1, <3>2, ReleaseTypes
      <3> QED BY <3>3, <3>4, <3>5
    <2>5. TableInv'
      BY <2>2, <2>4, EditTable
    <2> QED BY <2>2, <2>4, <2>5 DEF MemoryInv
  <1>7. CASE Resolve(b)
    <2>1. PICK k \in DOMAIN scans[b] :
            handle' = [handle EXCEPT ![b][scans[b][k].cc].blocks =
                         slot[handle[b][scans[b][k].cc].slot].blocks]
      BY <1>7 DEF Resolve
    <2> DEFINE e == scans[b][k].cc
               a == slot[handle[b][e].slot].blocks
    <2>2. UNCHANGED <<shared, mapped, freeList, scans, depth, dirKnown, pc, reg>>
      BY <1>7 DEF Resolve
    <2>3. e \in Elems /\ handle[b][e] \in HandleType /\ a \in Areas \cup {NoArea}
      <3>1. scans[b][k] \in ScanType
        BY DEF MemoryInv
      <3>2. e \in Elems /\ handle[b][e] \in HandleType
        BY <1>1, <3>1 DEF ScanType
      <3>3. handle[b][e].slot \in Slots
        BY <3>2 DEF HandleType
      <3>4. slot[handle[b][e].slot] \in SlotType
        BY <1>1, <3>3
      <3> QED BY <3>2, <3>4 DEF SlotType
    <2> HIDE DEF e, a
    <2>4. handle' = [handle EXCEPT ![b][e].blocks = a]
      BY <2>1 DEF e, a
    <2>5. handle' \in [Backends -> [Elems -> HandleType]]
      <3>1. handle' = [handle EXCEPT ![b][e] = [handle[b][e] EXCEPT !.blocks = a]]
        BY <2>4
      <3>2. [handle[b][e] EXCEPT !.blocks = a] \in HandleType
        BY <2>3, HandleEdits
      <3> QED BY <1>1, <2>3, <3>1, <3>2
    <2>6. TableInv'
      BY <2>2, <2>3, <2>4, EditTable
    <2> QED BY <2>2, <2>5, <2>6 DEF MemoryInv, shared
  <1> QED BY <1>2, <1>3, <1>4, <1>5, <1>6, <1>7 DEF CountSteps

\* Steps on the slots.
SlotSteps(b) ==
  SlotLookup(b) \/ ReadState(b) \/ LoadCreate(b) \/ LoadPublish(b) \/ LoadBlocks(b)
  \/ LoadFinish(b) \/ LoadError(b) \/ Drain(b) \/ EvictClear(b) \/ EvictCheck(b) \/ Write(b)

\* A writer of an insert writes into its slot's incarnation.
LEMMA WriterOwns ==
  ASSUME IInv, NEW b \in Backends, At(b, "write"), reg[b].op = "insert"
  PROVE  LET h == handle[b][reg[b].cc]
             st == slot[h.slot] IN
         /\ reg[b].cc \in Elems /\ h.present /\ h \in HandleType
         /\ h.slot \in Slots /\ h.gen = st.gen /\ st.area = h.area /\ st.blocks = h.area
         /\ h.area \in mapped[b] /\ h.area \in Areas
  <1> DEFINE h == handle[b][reg[b].cc]
  <1>1. reg[b].cc \in Elems /\ h.present /\ h.gen = slot[h.slot].gen
    BY DEF IInv, PhaseInv, Phase, At
  <1>2. h \in HandleType
    BY <1>1 DEF IInv, MemoryInv
  <1>3. h.slot \in Slots
    BY <1>2 DEF HandleType
  <1>4. slot[h.slot].area = h.area /\ slot[h.slot].blocks = h.area
    BY <1>1 DEF IInv, GenInv
  <1>5. h.area \in mapped[b]
    BY <1>1 DEF IInv, TableInv, Table
  <1>6. h.area \in Areas
    <2>1. mapped[b] \subseteq 1..Len(contents) /\ Len(contents) \in Nat
          /\ Len(contents) <= MaxAreas /\ MaxAreas \in Nat
      BY SlotsAssumption DEF IInv, MemoryInv
    <2>2. \A x \in 1..Len(contents) : x \in Areas
      BY <2>1 DEF Areas
    <2> QED BY <1>5, <2>1, <2>2
  <1> QED BY <1>1, <1>2, <1>3, <1>4, <1>5, <1>6

LEMMA LookupSlot ==
  ASSUME MemoryInv, NEW b \in Backends, SlotLookup(b)
  PROVE  \/ Done(b) /\ slot' = slot
         \/ \E s \in Slots :
              /\ slot' = [slot EXCEPT ![s] = [slot[s] EXCEPT !.key = reg[b].idx]]
              /\ reg' = [reg EXCEPT ![b] = [reg[b] EXCEPT !.slot = s]]
              /\ Goto(b, "state")
  <1> DEFINE i == reg[b].idx
             found == IF SlotsOf(i) # {} THEN SlotsOf(i) ELSE SlotsOf(NoIndex)
  <1>1. CASE found = {}
    BY <1>1 DEF SlotLookup
  <1>2. CASE found # {}
    <2>1. found \in SUBSET Nat /\ found \subseteq Slots
      BY DEF SlotsOf, Slots
    <2>2. Min(found) \in Slots
      <3> HIDE DEF found
      <3> QED BY <1>2, <2>1, MinIn
    <2> DEFINE s == Min(found)
    <2>3. /\ slot' = [slot EXCEPT ![s].key = i] /\ reg' = [reg EXCEPT ![b].slot = s]
          /\ Goto(b, "state")
      BY <1>2 DEF SlotLookup
    <2> HIDE DEF found
    <2> QED BY <2>2, <2>3
  <1> QED BY <1>1, <1>2

LEMMA SlotMemory ==
  ASSUME IInv, NEW b \in Backends, SlotSteps(b)
  PROVE  MemoryInv' /\ TableInv'
  <1> USE DEF IInv
  <1>1. reg[b] \in RegType /\ reg \in [Backends -> RegType]
        /\ handle \in [Backends -> [Elems -> HandleType]] /\ slot \in [Slots -> SlotType]
    BY DEF MemoryInv
  <1>2. reg[b].slot \in Slots /\ reg[b].victim \in Slots /\ reg[b].vkey \in Indexes \cup {NoIndex}
        /\ reg[b].area \in Areas \cup {NoArea}
    BY <1>1 DEF RegType
  <1>3. ASSUME UNCHANGED <<mapped, handle, freeList>>
        PROVE  TableInv'
    BY <1>3, TableSame
  <1>4. CASE SlotLookup(b)
    <2>1. UNCHANGED <<dirLock, wlock, active, contents, creatorPin,
                      mapped, handle, freeList, scans, depth, dirKnown>>
          /\ reg[b].idx \in Indexes
      BY <1>4 DEF SlotLookup, PhaseInv, Phase, At, Working
    <2>2. CASE Done(b) /\ slot' = slot
      BY <1>3, <2>1, <2>2, DoneTypes DEF MemoryInv
    <2>3. ASSUME NEW s \in Slots,
                 slot' = [slot EXCEPT ![s] = [slot[s] EXCEPT !.key = reg[b].idx]],
                 reg' = [reg EXCEPT ![b] = [reg[b] EXCEPT !.slot = s]],
                 Goto(b, "state")
          PROVE  MemoryInv' /\ TableInv'
      <3>1. slot' \in [Slots -> SlotType]
        BY <1>1, <2>1, <2>3, SlotEdits, OneSlot
      <3>2. reg' \in [Backends -> RegType]
        BY <1>1, <2>3, RegEdits, RegTypes
      <3>3. pc' \in [Backends -> Labels]
        BY <2>3, GotoTypes DEF Labels, Working
      <3> QED BY <1>3, <2>1, <3>1, <3>2, <3>3 DEF MemoryInv
    <2> QED BY <1>4, <2>2, <2>3, LookupSlot
  <1>5. CASE ReadState(b)
    <2>1. UNCHANGED <<dirLock, wlock, active, contents, creatorPin,
                      mapped, handle, freeList, scans, depth, dirKnown>>
      BY <1>5 DEF ReadState
    <2>2. \/ slot' = [slot EXCEPT ![reg[b].slot].state = "LOADING"] /\ Go(b, "admit")
          \/ Done(b) /\ slot' = slot
          \/ Go(b, "attach") /\ slot' = slot
      BY <1>5 DEF ReadState
    <2>3. pc' \in [Backends -> Labels] /\ reg' \in [Backends -> RegType]
      BY <1>1, <2>2, DoneTypes, GotoTypes DEF Go, Labels, Working
    <2>4. slot' \in [Slots -> SlotType]
      <3>1. CASE slot' = [slot EXCEPT ![reg[b].slot].state = "LOADING"]
        <4>1. [slot[reg[b].slot] EXCEPT !.state = "LOADING"] \in SlotType
          BY <1>1, <1>2, SlotEdits
        <4> QED BY <1>1, <1>2, <3>1, <4>1
      <3> QED BY <1>1, <2>2, <3>1
    <2> QED BY <1>3, <2>1, <2>3, <2>4 DEF MemoryInv
  <1>6. CASE LoadCreate(b)
    <2> DEFINE a == Len(contents) + 1
    <2>1. /\ UNCHANGED <<dirLock, wlock, slot, active, handle, freeList, scans, depth,
                         dirKnown>>
          /\ a <= MaxAreas /\ contents' = Append(contents, reg[b].idx)
          /\ creatorPin' = creatorPin \cup {a}
          /\ mapped' = [mapped EXCEPT ![b] = @ \cup {a}]
          /\ reg' = [reg EXCEPT ![b] = [reg[b] EXCEPT !.area = a]]
          /\ Goto(b, "publish") /\ reg[b].idx \in Indexes
      BY <1>6 DEF LoadCreate, PhaseInv, Phase, At, Working
    <2>2. contents' \in Seq(Indexes) /\ Len(contents') = a /\ Len(contents) \in Nat
      BY <2>1 DEF MemoryInv
    <2>3. creatorPin' \subseteq 1..Len(contents')
      BY <2>1, <2>2 DEF MemoryInv
    <2>4. \A c \in Backends : mapped[c] \subseteq 1..Len(contents') /\ mapped[c] \subseteq mapped'[c]
      BY <2>1, <2>2 DEF MemoryInv
    <2>5. mapped' \in [Backends -> SUBSET (1..Len(contents'))]
      <3>1. a \in 1..Len(contents')
        BY <2>2
      <3>2. mapped \in [Backends -> SUBSET (1..Len(contents'))]
        BY <2>4 DEF MemoryInv
      <3> HIDE DEF a
      <3> QED BY <2>1, <3>1, <3>2
    <2>6. a \in Areas
      BY <2>1, <2>2 DEF Areas
    <2>7. reg' \in [Backends -> RegType]
      BY <1>1, <2>1, <2>6, RegEdits, RegTypes
    <2>8. pc' \in [Backends -> Labels]
      BY <2>1, GotoTypes DEF Labels, Working
    <2>9. TableInv'
      BY <2>1, <2>4, TableSame
    <2>10. Len(contents') <= MaxAreas
      BY <2>1, <2>2
    <2> HIDE DEF a
    <2> QED BY <2>1, <2>2, <2>3, <2>5, <2>7, <2>8, <2>9, <2>10 DEF MemoryInv
  <1>7. CASE LoadPublish(b)
    <2> DEFINE s == reg[b].slot
               st == [slot[s] EXCEPT !.area = reg[b].area, !.pinned = TRUE,
                                     !.dim = Dim[reg[b].idx], !.gen = slot[s].gen + 1]
    <2>1. /\ UNCHANGED <<dirLock, wlock, active, contents, creatorPin,
                         mapped, handle, freeList, scans, depth, dirKnown, reg>>
          /\ slot' = [slot EXCEPT ![s] = st] /\ Goto(b, "blocks") /\ reg[b].idx \in Indexes
      BY <1>7 DEF LoadPublish, PhaseInv, Phase, At, Working
    <2>2. Dim[reg[b].idx] \in Nat /\ slot[s] \in SlotType
      BY <1>1, <1>2, <2>1, SlotsAssumption
    <2>3. slot[s].gen + 1 \in Nat
      BY <2>2 DEF SlotType
    <2>4. st \in SlotType
      BY <1>2, <2>2, <2>3, SlotEdits
    <2> HIDE DEF s, st
    <2>5. slot' \in [Slots -> SlotType]
      BY <1>1, <2>1, <2>4
    <2>6. pc' \in [Backends -> Labels]
      BY <2>1, GotoTypes DEF Labels, Working
    <2> QED BY <1>3, <2>1, <2>5, <2>6 DEF MemoryInv
  <1>8. CASE LoadBlocks(b)
    <2> DEFINE s == reg[b].slot
    <2>1. /\ UNCHANGED <<dirLock, wlock, active, contents, creatorPin,
                         mapped, scans, depth, dirKnown>>
          /\ slot' = [slot EXCEPT ![s].blocks = reg[b].area]
          /\ StoreHandle(b, reg[b].idx, s, reg[b].area, "fill") /\ reg[b].idx \in Indexes
          /\ At(b, "blocks")
      BY <1>8 DEF LoadBlocks, PhaseInv, Phase, At, Working
    <2>2. /\ reg[b].area \in mapped[b]
          /\ \A e \in Elems : handle[b][e].present => handle[b][e].area # reg[b].area
      BY <2>1 DEF PublishedInv
    <2>3. reg[b].area \in Areas /\ "fill" \in Labels
      <3>1. reg[b].area # NoArea
        BY <2>2 DEF MemoryInv, NoArea
      <3> QED BY <1>2, <3>1 DEF Labels, Working
    <2>4. slot' \in [Slots -> SlotType]
      <3>1. [slot[s] EXCEPT !.blocks = reg[b].area] \in SlotType
        BY <1>1, <1>2, SlotEdits
      <3> QED BY <1>1, <1>2, <2>1, <3>1
    <2>5. /\ handle' \in [Backends -> [Elems -> HandleType]]
          /\ freeList' \in [Backends -> Seq(Elems)]
          /\ reg' \in [Backends -> RegType] /\ pc' \in [Backends -> Labels]
      BY <1>2, <2>1, <2>3, StoreTypes
    <2>6. TableInv'
      <3>1. reg[b].area \in mapped'[b] /\ mapped[b] \subseteq mapped'[b]
            /\ \A c \in Backends \ {b} : mapped'[c] = mapped[c]
        BY <2>1, <2>2
      <3> QED BY <1>2, <2>1, <2>2, <2>3, <3>1, StoreTable
    <2> QED BY <2>1, <2>4, <2>5, <2>6 DEF MemoryInv
  <1>9. CASE LoadFinish(b) \/ LoadError(b)
    <2>1. PICK x \in {"READY", "PARTIAL"} : slot' = [slot EXCEPT ![reg[b].slot].state = x]
      BY <1>9 DEF LoadFinish, LoadError
    <2>2. slot' \in [Slots -> SlotType]
      <3>1. [slot[reg[b].slot] EXCEPT !.state = x] \in SlotType
        BY <1>1, <1>2, SlotEdits
      <3> QED BY <1>1, <1>2, <2>1, <3>1
    <2>3. UNCHANGED <<dirLock, wlock, active, contents, creatorPin,
                      mapped, handle, freeList, dirKnown>>
      BY <1>9 DEF LoadFinish, LoadError
    <2>4. CASE LoadFinish(b)
      <3>1. pc' \in [Backends -> Labels]
        BY <2>4, GotoTypes DEF LoadFinish, Labels, Working
      <3> QED BY <1>3, <2>2, <2>3, <2>4, <3>1 DEF LoadFinish, MemoryInv
    <2>5. CASE LoadError(b)
      <3>1. /\ pc' \in [Backends -> Labels] /\ reg' \in [Backends -> RegType]
            /\ depth' \in [Backends -> 0..MaxDepth]
            /\ DOMAIN scans' = Backends
            /\ \A c \in Backends : \A k \in DOMAIN scans'[c] : scans'[c][k] \in ScanType
        BY <2>5, RaiseTypes DEF LoadError
      <3> QED BY <1>3, <2>2, <2>3, <3>1 DEF MemoryInv
    <2> QED BY <1>9, <2>4, <2>5
  <1>10. CASE Drain(b)
    <2> DEFINE s == handle[b][reg[b].cc].slot
    <2>1. /\ UNCHANGED <<dirLock, wlock, active, contents, creatorPin,
                         mapped, handle, freeList, scans, depth, dirKnown>>
          /\ slot' = [slot EXCEPT ![s].retired = IF active[s] = 0 THEN {} ELSE @]
          /\ GoBack(b) /\ reg[b].cc \in Elems
      BY <1>10 DEF Drain, PhaseInv, Phase, At
    <2>2. s \in Slots
      <3>1. handle[b][reg[b].cc] \in HandleType
        BY <1>1, <2>1
      <3> QED BY <3>1 DEF HandleType
    <2> HIDE DEF s
    <2>3. slot' \in [Slots -> SlotType]
      <3> DEFINE r == IF active[s] = 0 THEN {} ELSE slot[s].retired
      <3>1. slot[s] \in SlotType /\ r \in SUBSET Areas
        <4>1. slot[s] \in SlotType
          BY <1>1, <2>2
        <4> QED BY <4>1 DEF SlotType
      <3>2. slot' = [slot EXCEPT ![s] = [slot[s] EXCEPT !.retired = r]]
        BY <2>1
      <3> HIDE DEF r
      <3>3. [slot[s] EXCEPT !.retired = r] \in SlotType
        BY <3>1, SlotEdits
      <3> QED BY <1>1, <2>2, <3>2, <3>3
    <2>4. pc' \in [Backends -> Labels] /\ reg' \in [Backends -> RegType]
      BY <2>1, GoBackTypes
    <2> QED BY <1>3, <2>1, <2>3, <2>4 DEF MemoryInv
  <1>11. CASE EvictClear(b)
    <2> DEFINE s == reg[b].victim
               st == [FreeSlot EXCEPT !.gen = slot[s].gen + 1,
                        !.area = slot[s].area, !.pinned = slot[s].pinned]
    <2>1. /\ UNCHANGED <<dirLock, wlock, active, contents, creatorPin,
                         mapped, handle, freeList, scans, depth, dirKnown>>
          /\ slot' = [slot EXCEPT ![s] = st] /\ Goto(b, "check")
          /\ reg' = [reg EXCEPT ![b] = [reg[b] EXCEPT !.vkey = slot[s].key]]
      BY <1>11 DEF EvictClear
    <2>2. slot[s] \in SlotType
      BY <1>1, <1>2
    <2>3. st \in SlotType /\ slot[s].key \in Indexes \cup {NoIndex}
      <3>1. \A g \in Nat, a \in Areas \cup {NoArea}, p \in BOOLEAN :
              [FreeSlot EXCEPT !.gen = g, !.area = a, !.pinned = p] \in SlotType
        BY SlotOne DEF SlotType
      <3>2. /\ slot[s].gen + 1 \in Nat /\ slot[s].area \in Areas \cup {NoArea}
            /\ slot[s].pinned \in BOOLEAN /\ slot[s].key \in Indexes \cup {NoIndex}
        BY <2>2 DEF SlotType
      <3> HIDE DEF s
      <3> QED BY <3>1, <3>2
    <2> HIDE DEF s, st
    <2>4. slot' \in [Slots -> SlotType]
      BY <1>1, <2>1, <2>3
    <2>5. reg' \in [Backends -> RegType]
      BY <1>1, <2>1, <2>3, RegEdits, RegTypes
    <2>6. pc' \in [Backends -> Labels]
      BY <2>1, GotoTypes DEF Labels, Evicting
    <2> QED BY <1>3, <2>1, <2>4, <2>5, <2>6 DEF MemoryInv
  <1>12. CASE EvictCheck(b)
    <2>1. /\ UNCHANGED <<wlock, active, contents, dirKnown>>
          /\ Forget(b, reg[b].vkey)
          /\ \E p \in BOOLEAN : slot' = [slot EXCEPT ![reg[b].victim].pinned = p]
      <3>1. slot[reg[b].victim].pinned \in BOOLEAN
        BY <1>1, <1>2 DEF SlotType
      <3> QED BY <1>12, <3>1 DEF EvictCheck
    <2>2. /\ mapped' \in [Backends -> SUBSET (1..Len(contents))]
          /\ handle' \in [Backends -> [Elems -> HandleType]]
          /\ freeList' \in [Backends -> Seq(Elems)]
          /\ TableInv'
      BY <2>1, ForgetTypes, ForgetTable
    <2>3. slot' \in [Slots -> SlotType]
      <3>1. PICK p \in BOOLEAN : slot' = [slot EXCEPT ![reg[b].victim].pinned = p]
        BY <2>1
      <3>2. [slot[reg[b].victim] EXCEPT !.pinned = p] \in SlotType
        BY <1>1, <1>2, SlotEdits
      <3> QED BY <1>1, <1>2, <3>1, <3>2
    <2>4. CASE dirLock' = NoBackend /\ Raise(b, FALSE) /\ UNCHANGED creatorPin
      <3>1. /\ pc' \in [Backends -> Labels] /\ reg' \in [Backends -> RegType]
            /\ depth' \in [Backends -> 0..MaxDepth]
            /\ DOMAIN scans' = Backends
            /\ \A c \in Backends : \A k \in DOMAIN scans'[c] : scans'[c][k] \in ScanType
        BY <2>4, RaiseTypes
      <3> QED BY <2>1, <2>2, <2>3, <2>4, <3>1 DEF MemoryInv
    <2>5. CASE /\ creatorPin' \subseteq creatorPin /\ Goto(b, "choose")
               /\ UNCHANGED <<dirLock, scans, depth, reg>>
      <3>1. pc' \in [Backends -> Labels]
        BY <2>5, GotoTypes DEF Labels, Evicting
      <3> QED BY <2>1, <2>2, <2>3, <2>5, <3>1 DEF MemoryInv
    <2> QED BY <1>12, <2>4, <2>5 DEF EvictCheck
  <1>13. CASE Write(b)
    <2> DEFINE e == reg[b].cc
               s == handle[b][e].slot
               a == handle[b][e].area
    <2>1. /\ UNCHANGED <<dirLock, active, contents, creatorPin,
                         mapped, freeList, scans, depth, dirKnown>>
          /\ wlock' = [wlock EXCEPT ![s] = NoBackend] /\ Done(b) /\ At(b, "write")
      BY <1>13 DEF Write
    <2>2. pc' \in [Backends -> Labels] /\ reg' \in [Backends -> RegType]
      BY <2>1, DoneTypes
    <2>3. wlock' \in [Slots -> Backends \cup {NoBackend}]
      BY <2>1 DEF MemoryInv
    <2>4. CASE UNCHANGED <<slot, handle>>
      BY <1>3, <2>1, <2>2, <2>3, <2>4 DEF MemoryInv
    <2>5. CASE /\ reg[b].op = "insert"
               /\ slot' = [slot EXCEPT ![s] =
                    [slot[s] EXCEPT !.blocks = a,
                       !.retired = IF active[s] = 0 THEN {}
                                   ELSE slot[s].retired \cup {slot[s].blocks}]]
               /\ handle' = [handle EXCEPT ![b][e].blocks = a]
      <3>1. /\ e \in Elems /\ handle[b][e] \in HandleType /\ s \in Slots
            /\ a \in Areas /\ slot[s].blocks \in Areas
        BY <2>1, <2>5, WriterOwns
      <3> DEFINE r == IF active[s] = 0 THEN {} ELSE slot[s].retired \cup {slot[s].blocks}
      <3>2. slot[s] \in SlotType
        BY <1>1, <3>1
      <3>3. r \in SUBSET Areas
        BY <3>1, <3>2 DEF SlotType
      <3> HIDE DEF e, s, a, r
      <3>4. slot' = [slot EXCEPT ![s] = [slot[s] EXCEPT !.blocks = a, !.retired = r]]
        BY <2>5 DEF r
      <3>5. [slot[s] EXCEPT !.blocks = a, !.retired = r] \in SlotType
        BY <3>1, <3>2, <3>3, SlotEdits
      <3>6. slot' \in [Slots -> SlotType]
        BY <1>1, <3>1, <3>4, <3>5
      <3>7. handle' = [handle EXCEPT ![b][e] = [handle[b][e] EXCEPT !.blocks = a]]
        BY <2>5
      <3>8. [handle[b][e] EXCEPT !.blocks = a] \in HandleType
        BY <3>1, HandleEdits
      <3>9. handle' \in [Backends -> [Elems -> HandleType]]
        BY <1>1, <3>1, <3>7, <3>8
      <3>10. TableInv'
        BY <2>1, <2>5, <3>1, EditTable
      <3> QED BY <2>1, <2>2, <2>3, <3>6, <3>9, <3>10 DEF MemoryInv
    <2> QED BY <1>13, <2>4, <2>5 DEF Write
  <1> QED BY <1>4, <1>5, <1>6, <1>7, <1>8, <1>9, <1>10, <1>11, <1>12, <1>13 DEF SlotSteps

-----------------------------------------------------------------------------
(* What a step leaves alone                                                *)

\* Every step is in one of the four groups.
LEMMA Groups ==
  ASSUME NEW b \in Backends, Move(b)
  PROVE  \/ Quiet(b)
         \/ (\E i \in Indexes : BeginScan(b, i) \/ WriterAttach(b, i)) \/ Attach(b) \/ AbortDone(b)
         \/ CountSteps(b)
         \/ SlotSteps(b)
  BY DEF Move, Step, Quiet, CountSteps, SlotSteps

\* A backend's locals, attachments and address space are its own.
LEMMA Others ==
  ASSUME IInv, NEW b \in Backends, Move(b), NEW c \in Backends \ {b}
  PROVE  pc'[c] = pc[c] /\ reg'[c] = reg[c] /\ handle'[c] = handle[c] /\ mapped'[c] = mapped[c]
  <1>1. /\ pc \in [Backends -> Labels] /\ reg \in [Backends -> RegType]
        /\ mapped \in [Backends -> SUBSET (1..Len(contents))]
        /\ handle \in [Backends -> [Elems -> HandleType]] /\ c \in Backends /\ c # b
    BY DEF IInv, MemoryInv
  <1> USE DEF Goto, Go, Done, GoBack, Raise, Release
  <1>2. CASE Quiet(b)
    <2>1. handle'[c] = handle[c] /\ mapped'[c] = mapped[c]
      BY <1>2, QuietFrame
    <2>2. CASE SkipAdmission(b) \/ EvictChoose(b) \/ WriterCold(b) \/ WriterLookup(b)
      BY <1>1, <2>1, <2>2 DEF SkipAdmission, EvictChoose, WriterCold, WriterLookup
    <2>3. CASE Abort(b) \/ Terminate(b) \/ LoadCreateFails(b) \/ LoadAllocateFails(b)
      BY <1>1, <2>1, <2>3 DEF Abort, Terminate, LoadCreateFails, LoadAllocateFails
    <2>4. CASE Savepoint(b) \/ ReleaseSavepoint(b) \/ EvictLock(b)
      BY <1>1, <2>1, <2>4 DEF Savepoint, ReleaseSavepoint, EvictLock
    <2>5. CASE EvictUnlock(b) \/ WriterLock(b)
      BY <1>1, <2>1, <2>5 DEF EvictUnlock, WriterLock
    <2> QED BY <1>2, <2>2, <2>3, <2>4, <2>5 DEF Quiet
  <1>3. CASE (\E i \in Indexes : BeginScan(b, i) \/ WriterAttach(b, i)) \/ Attach(b) \/ AbortDone(b)
    <2> USE DEF Forget
    <2>1. CASE \E i \in Indexes : BeginScan(b, i)
      BY <1>1, <2>1 DEF BeginScan
    <2>2. CASE \E i \in Indexes : WriterAttach(b, i)
      BY <1>1, <2>2 DEF WriterAttach
    <2>3. CASE Attach(b)
      BY <1>1, <2>3 DEF Attach, StoreHandle
    <2>4. CASE AbortDone(b)
      BY <1>1, <2>4 DEF AbortDone
    <2> QED BY <1>3, <2>1, <2>2, <2>3, <2>4
  <1>4. CASE CountSteps(b)
    <2>1. CASE AcquireInc(b) \/ AcquireSnapshot(b) \/ Resolve(b)
      BY <1>1, <2>1 DEF AcquireInc, AcquireSnapshot, Resolve
    <2>2. CASE AcquireValidate(b)
      BY <1>1, <2>2 DEF AcquireValidate, Forget
    <2>3. CASE EndScan(b)
      BY <1>1, <2>3 DEF EndScan
    <2>4. CASE AbortRelease(b)
      BY <1>1, <2>4 DEF AbortRelease
    <2> QED BY <1>4, <2>1, <2>2, <2>3, <2>4 DEF CountSteps
  <1>5. CASE SlotSteps(b)
    <2>1. CASE SlotLookup(b) \/ ReadState(b)
      BY <1>1, <2>1 DEF SlotLookup, ReadState
    <2>2. CASE LoadCreate(b) \/ LoadPublish(b)
      BY <1>1, <2>2 DEF LoadCreate, LoadPublish
    <2>3. CASE LoadBlocks(b)
      BY <1>1, <2>3 DEF LoadBlocks, StoreHandle
    <2>4. CASE LoadFinish(b) \/ LoadError(b) \/ Drain(b)
      BY <1>1, <2>4 DEF LoadFinish, LoadError, Drain
    <2>5. CASE EvictClear(b) \/ Write(b)
      BY <1>1, <2>5 DEF EvictClear, Write
    <2>6. CASE EvictCheck(b)
      BY <1>1, <2>6 DEF EvictCheck, Forget
    <2> QED BY <1>5, <2>1, <2>2, <2>3, <2>4, <2>5, <2>6 DEF SlotSteps
  <1> QED BY <1>2, <1>3, <1>4, <1>5, Groups

\* Outside the steps on slots, no slot changes.
LEMMA SlotKept ==
  ASSUME NEW b \in Backends, Move(b), ~SlotSteps(b)
  PROVE  slot' = slot /\ contents' = contents /\ creatorPin' = creatorPin
  <1>1. CASE Quiet(b)
    BY <1>1, QuietFrame
  <1>2. CASE (\E i \in Indexes : BeginScan(b, i) \/ WriterAttach(b, i)) \/ Attach(b) \/ AbortDone(b)
    BY <1>2 DEF BeginScan, WriterAttach, Attach, AbortDone, shared
  <1>3. CASE CountSteps(b)
    BY <1>3 DEF CountSteps, AcquireInc, AcquireValidate, AcquireSnapshot, EndScan, AbortRelease,
       Resolve, shared
  <1> QED BY <1>1, <1>2, <1>3, Groups

\* A lock is released by its holder.
LEMMA LocksKept ==
  ASSUME IInv, NEW b \in Backends, Move(b), NEW c \in Backends \ {b}
  PROVE  /\ dirLock = c => dirLock' = c
         /\ \A s \in Slots : wlock[s] = c => wlock'[s] = c
  <1>1. /\ wlock \in [Slots -> Backends \cup {NoBackend}] /\ c # NoBackend /\ c # b
        /\ Phase(b)
    BY SlotsAssumption DEF IInv, MemoryInv, PhaseInv
  <1>2. CASE EvictLock(b) \/ EvictUnlock(b) \/ EvictCheck(b)
    <2>1. wlock' = wlock
      BY <1>2 DEF EvictLock, EvictUnlock, EvictCheck
    <2>2. CASE EvictLock(b)
      BY <1>1, <2>1, <2>2 DEF EvictLock, DirFree
    <2>3. CASE EvictUnlock(b) \/ EvictCheck(b)
      <3>1. dirLock = b
        BY <1>1, <2>3 DEF EvictUnlock, EvictCheck, Phase, Evicting, At
      <3> QED BY <1>1, <2>1, <3>1
    <2> QED BY <1>2, <2>2, <2>3
  <1>3. CASE WriterLock(b) \/ Write(b)
    <2>1. dirLock' = dirLock
      BY <1>3 DEF WriterLock, Write
    <2>2. CASE WriterLock(b)
      BY <1>1, <2>1, <2>2 DEF WriterLock
    <2>3. CASE Write(b)
      <3>1. wlock[handle[b][reg[b].cc].slot] = b
        BY <1>1, <2>3 DEF Write, Phase, At
      <3>2. wlock' = [wlock EXCEPT ![handle[b][reg[b].cc].slot] = NoBackend]
        BY <2>3 DEF Write
      <3> QED BY <1>1, <2>1, <3>1, <3>2
    <2> QED BY <1>3, <2>2, <2>3
  <1>4. CASE ~(EvictLock(b) \/ EvictUnlock(b) \/ EvictCheck(b) \/ WriterLock(b) \/ Write(b))
    <2>1. UNCHANGED <<dirLock, wlock>>
      <3>1. CASE Quiet(b)
        BY <1>4, <3>1 DEF Quiet, SkipAdmission, EvictChoose, WriterCold, WriterLookup, Abort,
           Terminate, LoadCreateFails, LoadAllocateFails, Savepoint, ReleaseSavepoint, shared
      <3>2. CASE (\E i \in Indexes : BeginScan(b, i) \/ WriterAttach(b, i)) \/ Attach(b) \/ AbortDone(b)
        BY <3>2 DEF BeginScan, WriterAttach, Attach, AbortDone, shared
      <3>3. CASE CountSteps(b)
        BY <3>3 DEF CountSteps, AcquireInc, AcquireValidate, AcquireSnapshot, EndScan,
           AbortRelease, Resolve, shared
      <3>4. CASE SlotSteps(b)
        BY <1>4, <3>4 DEF SlotSteps, SlotLookup, ReadState, LoadCreate, LoadPublish, LoadBlocks,
           LoadFinish, LoadError, Drain, EvictClear
      <3> QED BY <3>1, <3>2, <3>3, <3>4, Groups
    <2> QED BY <2>1
  <1> QED BY <1>2, <1>3, <1>4

\* The fields of a slot that its life is about, unchanged.
SlotSame(s) ==
  /\ slot'[s].state = slot[s].state /\ slot'[s].gen = slot[s].gen
  /\ slot'[s].area = slot[s].area /\ slot'[s].pinned = slot[s].pinned
  /\ slot'[s].blocks = slot[s].blocks

\* What each step on slots does to those fields.
LEMMA LookupFields ==
  ASSUME IInv, NEW b \in Backends, SlotLookup(b) \/ LoadCreate(b) \/ Drain(b)
  PROVE  \A s \in Slots : SlotSame(s)
  <1>1. slot \in [Slots -> SlotType] /\ MemoryInv
    BY DEF IInv, MemoryInv
  <1>2. CASE SlotLookup(b)
    <2>1. CASE slot' = slot
      BY <2>1 DEF SlotSame
    <2>2. CASE \E s \in Slots : slot' = [slot EXCEPT ![s] = [slot[s] EXCEPT !.key = reg[b].idx]]
      <3>1. PICK s \in Slots : slot' = [slot EXCEPT ![s] = [slot[s] EXCEPT !.key = reg[b].idx]]
        BY <2>2
      <3>2. slot'[s] = [slot[s] EXCEPT !.key = reg[b].idx] /\ slot[s] \in SlotType
            /\ \A t \in Slots \ {s} : slot'[t] = slot[t]
        BY <1>1, <3>1
      <3>3. SlotSame(s)
        BY <3>2 DEF SlotSame, SlotType
      <3> QED BY <3>2, <3>3 DEF SlotSame
    <2> QED BY <1>1, <1>2, <2>1, <2>2, LookupSlot
  <1>3. CASE LoadCreate(b)
    BY <1>3 DEF LoadCreate, SlotSame
  <1>4. CASE Drain(b)
    <2> DEFINE s == handle[b][reg[b].cc].slot
               r == IF active[s] = 0 THEN {} ELSE slot[s].retired
    <2>1. slot' = [slot EXCEPT ![s] = [slot[s] EXCEPT !.retired = r]]
      BY <1>4 DEF Drain
    <2>2. s \in Slots
      <3>1. reg[b].cc \in Elems /\ handle \in [Backends -> [Elems -> HandleType]]
        BY <1>4 DEF Drain, At, IInv, PhaseInv, Phase, MemoryInv
      <3> QED BY <3>1 DEF HandleType
    <2> HIDE DEF s, r
    <2>3. slot'[s] = [slot[s] EXCEPT !.retired = r] /\ slot[s] \in SlotType
          /\ \A t \in Slots \ {s} : slot'[t] = slot[t]
      BY <1>1, <2>1, <2>2
    <2>4. SlotSame(s)
      BY <2>3 DEF SlotSame, SlotType
    <2> QED BY <2>3, <2>4 DEF SlotSame
  <1> QED BY <1>2, <1>3, <1>4

LEMMA ReadFields ==
  ASSUME IInv, NEW b \in Backends, ReadState(b)
  PROVE  LET s == reg[b].slot IN
         \/ slot' = slot /\ (Done(b) \/ Go(b, "attach"))
         \/ /\ Go(b, "admit")
            /\ slot[s].state = "EMPTY" /\ slot'[s].state = "LOADING" /\ slot'[s].gen = slot[s].gen
            /\ slot'[s].area = slot[s].area /\ slot'[s].pinned = slot[s].pinned
            /\ slot'[s].blocks = slot[s].blocks
            /\ \A t \in Slots \ {s} : slot'[t] = slot[t]
  <1> DEFINE s == reg[b].slot
  <1>1. slot \in [Slots -> SlotType] /\ s \in Slots
    BY DEF IInv, MemoryInv, RegType
  <1>2. \/ slot' = slot /\ (Done(b) \/ Go(b, "attach"))
        \/ /\ Go(b, "admit") /\ slot[s].state = "EMPTY"
           /\ slot' = [slot EXCEPT ![s].state = "LOADING"]
    BY DEF ReadState
  <1> HIDE DEF s
  <1>3. ASSUME slot' = [slot EXCEPT ![s].state = "LOADING"]
        PROVE  /\ slot'[s] = [slot[s] EXCEPT !.state = "LOADING"] /\ slot[s] \in SlotType
               /\ \A t \in Slots \ {s} : slot'[t] = slot[t]
    BY <1>1, <1>3
  <1>4. ASSUME slot' = [slot EXCEPT ![s].state = "LOADING"]
        PROVE  /\ slot'[s].state = "LOADING" /\ slot'[s].gen = slot[s].gen
               /\ slot'[s].area = slot[s].area /\ slot'[s].pinned = slot[s].pinned
               /\ slot'[s].blocks = slot[s].blocks
    BY <1>3, <1>4 DEF SlotType
  <1> QED BY <1>2, <1>3, <1>4 DEF s

LEMMA PublishFields ==
  ASSUME IInv, NEW b \in Backends, LoadPublish(b)
  PROVE  LET s == reg[b].slot IN
         /\ s \in Slots
         /\ slot'[s].state = slot[s].state /\ slot'[s].gen = slot[s].gen + 1
         /\ slot'[s].area = reg[b].area /\ slot'[s].pinned /\ slot'[s].blocks = slot[s].blocks
         /\ \A t \in Slots \ {s} : slot'[t] = slot[t]
  <1> DEFINE s == reg[b].slot
             st == [slot[s] EXCEPT !.area = reg[b].area, !.pinned = TRUE,
                                   !.dim = Dim[reg[b].idx], !.gen = slot[s].gen + 1]
  <1>1. slot \in [Slots -> SlotType] /\ s \in Slots
    BY DEF IInv, MemoryInv, RegType
  <1>2. slot' = [slot EXCEPT ![s] = st]
    BY DEF LoadPublish
  <1>3. slot[s] \in SlotType /\ slot'[s] = st /\ \A t \in Slots \ {s} : slot'[t] = slot[t]
    <2> HIDE DEF s, st
    <2> QED BY <1>1, <1>2
  <1> QED BY <1>1, <1>3 DEF SlotType

LEMMA BlocksFields ==
  ASSUME IInv, NEW b \in Backends, LoadBlocks(b)
  PROVE  LET s == reg[b].slot IN
         /\ s \in Slots
         /\ slot'[s].state = slot[s].state /\ slot'[s].gen = slot[s].gen
         /\ slot'[s].area = slot[s].area /\ slot'[s].pinned = slot[s].pinned
         /\ slot'[s].blocks = reg[b].area
         /\ \A t \in Slots \ {s} : slot'[t] = slot[t]
  <1> DEFINE s == reg[b].slot
             st == [slot[s] EXCEPT !.blocks = reg[b].area]
  <1>1. slot \in [Slots -> SlotType] /\ s \in Slots
    BY DEF IInv, MemoryInv, RegType
  <1>2. slot' = [slot EXCEPT ![s] = st]
    BY DEF LoadBlocks
  <1>3. slot[s] \in SlotType /\ slot'[s] = st /\ \A t \in Slots \ {s} : slot'[t] = slot[t]
    <2> HIDE DEF s, st
    <2> QED BY <1>1, <1>2
  <1> QED BY <1>1, <1>3 DEF SlotType

LEMMA FinishFields ==
  ASSUME IInv, NEW b \in Backends, LoadFinish(b) \/ LoadError(b)
  PROVE  LET s == reg[b].slot IN
         /\ s \in Slots
         /\ slot'[s].state \in {"READY", "PARTIAL"} /\ slot'[s].gen = slot[s].gen
         /\ slot'[s].area = slot[s].area /\ slot'[s].pinned = slot[s].pinned
         /\ slot'[s].blocks = slot[s].blocks
         /\ \A t \in Slots \ {s} : slot'[t] = slot[t]
  <1> DEFINE s == reg[b].slot
  <1>1. slot \in [Slots -> SlotType] /\ s \in Slots
    BY DEF IInv, MemoryInv, RegType
  <1>2. PICK x \in {"READY", "PARTIAL"} : slot' = [slot EXCEPT ![s] = [slot[s] EXCEPT !.state = x]]
    BY DEF LoadFinish, LoadError
  <1>3. /\ slot[s] \in SlotType /\ slot'[s] = [slot[s] EXCEPT !.state = x]
        /\ \A t \in Slots \ {s} : slot'[t] = slot[t]
    <2> HIDE DEF s
    <2> QED BY <1>1, <1>2
  <1> QED BY <1>1, <1>3 DEF SlotType

LEMMA ClearFields ==
  ASSUME IInv, NEW b \in Backends, EvictClear(b)
  PROVE  LET s == reg[b].victim IN
         /\ s \in Slots
         /\ slot'[s].state = "EMPTY" /\ slot'[s].gen = slot[s].gen + 1
         /\ slot'[s].area = slot[s].area /\ slot'[s].pinned = slot[s].pinned
         /\ \A t \in Slots \ {s} : slot'[t] = slot[t]
  <1> DEFINE s == reg[b].victim
             st == [FreeSlot EXCEPT !.gen = slot[s].gen + 1,
                      !.area = slot[s].area, !.pinned = slot[s].pinned]
  <1>1. slot \in [Slots -> SlotType] /\ s \in Slots
    BY DEF IInv, MemoryInv, RegType
  <1>2. slot' = [slot EXCEPT ![s] = st]
    BY DEF EvictClear
  <1>3. slot'[s] = st /\ \A t \in Slots \ {s} : slot'[t] = slot[t]
    <2> HIDE DEF s, st
    <2> QED BY <1>1, <1>2
  <1>4. st.state = "EMPTY" /\ st.gen = slot[s].gen + 1 /\ st.area = slot[s].area
        /\ st.pinned = slot[s].pinned
    BY DEF FreeSlot
  <1> QED BY <1>1, <1>3, <1>4

LEMMA CheckFields ==
  ASSUME IInv, NEW b \in Backends, EvictCheck(b)
  PROVE  LET s == reg[b].victim IN
         /\ s \in Slots
         /\ slot'[s].state = slot[s].state /\ slot'[s].gen = slot[s].gen
         /\ slot'[s].area = slot[s].area /\ slot'[s].blocks = slot[s].blocks
         /\ slot'[s].pinned => slot[s].pinned
         /\ slot'[s].pinned => creatorPin' = creatorPin
         /\ creatorPin' = creatorPin
            \/ (slot[s].pinned /\ ~slot'[s].pinned /\ creatorPin' = creatorPin \ {slot[s].area})
         /\ \A t \in Slots \ {s} : slot'[t] = slot[t]
  <1> DEFINE s == reg[b].victim
             drops == active[s] = 0 /\ slot[s].pinned
             p == IF drops THEN FALSE ELSE slot[s].pinned
  <1>1. slot \in [Slots -> SlotType] /\ s \in Slots
    BY DEF IInv, MemoryInv, RegType
  <1>2. slot' = [slot EXCEPT ![s] = [slot[s] EXCEPT !.pinned = p]]
    BY DEF EvictCheck
  <1>3. /\ slot[s] \in SlotType /\ slot'[s] = [slot[s] EXCEPT !.pinned = p]
        /\ \A t \in Slots \ {s} : slot'[t] = slot[t]
    <2> HIDE DEF s, p
    <2> QED BY <1>1, <1>2
  <1>4. slot'[s].pinned = p
    BY <1>3 DEF SlotType
  <1>5. creatorPin' = creatorPin \/ creatorPin' = creatorPin \ (IF drops THEN {slot[s].area} ELSE {})
    BY DEF EvictCheck
  <1>6. CASE drops
    BY <1>1, <1>3, <1>4, <1>5, <1>6 DEF SlotType
  <1>7. CASE ~drops
    <2>1. creatorPin' = creatorPin
      BY <1>5, <1>7
    <2> QED BY <1>1, <1>3, <1>4, <1>7, <2>1 DEF SlotType
  <1> QED BY <1>6, <1>7

LEMMA WriteFields ==
  ASSUME IInv, NEW b \in Backends, Write(b)
  PROVE  LET h == handle[b][reg[b].cc] IN
         \/ slot' = slot /\ handle' = handle
         \/ /\ reg[b].op = "insert"
            /\ handle' = [handle EXCEPT ![b][reg[b].cc].blocks = h.area]
            /\ slot'[h.slot].state = slot[h.slot].state /\ slot'[h.slot].gen = slot[h.slot].gen
            /\ slot'[h.slot].area = slot[h.slot].area
            /\ slot'[h.slot].pinned = slot[h.slot].pinned
            /\ slot'[h.slot].blocks = slot[h.slot].area
            /\ \A t \in Slots \ {h.slot} : slot'[t] = slot[t]
  <1> DEFINE h == handle[b][reg[b].cc]
             s == h.slot
             r == IF active[s] = 0 THEN {} ELSE slot[s].retired \cup {slot[s].blocks}
             st == [slot[s] EXCEPT !.blocks = h.area, !.retired = r]
  <1>1. slot \in [Slots -> SlotType] /\ At(b, "write")
    BY DEF IInv, MemoryInv, Write
  <1>2. CASE UNCHANGED <<slot, handle>>
    BY <1>2
  <1>3. CASE /\ reg[b].op = "insert" /\ slot' = [slot EXCEPT ![s] = st]
             /\ handle' = [handle EXCEPT ![b][reg[b].cc].blocks = h.area]
    <2>1. s \in Slots /\ slot[s].area = h.area
      BY <1>1, <1>3, WriterOwns
    <2>2. slot[s] \in SlotType /\ slot'[s] = st /\ \A t \in Slots \ {s} : slot'[t] = slot[t]
      <3> HIDE DEF s, st
      <3> QED BY <1>1, <1>3, <2>1
    <2>3. /\ slot'[s].state = slot[s].state /\ slot'[s].gen = slot[s].gen
          /\ slot'[s].area = slot[s].area /\ slot'[s].pinned = slot[s].pinned
          /\ slot'[s].blocks = h.area
      <3> HIDE DEF s, r, h
      <3> QED BY <2>2 DEF SlotType
    <2> QED BY <1>3, <2>1, <2>2, <2>3
  <1> QED BY <1>2, <1>3 DEF Write

\* Generations change when a load publishes its area and when an evictor
\* clears its victim, and they grow.
LEMMA GenChange ==
  ASSUME IInv, NEW b \in Backends, Move(b), NEW s \in Slots
  PROVE  \/ slot'[s].gen = slot[s].gen
         \/ /\ slot'[s].gen = slot[s].gen + 1
            /\ \/ LoadPublish(b) /\ s = reg[b].slot
               \/ EvictClear(b) /\ s = reg[b].victim
  <1>1. CASE ~SlotSteps(b)
    BY <1>1, SlotKept
  <1>2. CASE SlotLookup(b) \/ LoadCreate(b) \/ Drain(b)
    BY <1>2, LookupFields DEF SlotSame
  <1>3. CASE ReadState(b)
    BY <1>3, ReadFields
  <1>4. CASE LoadPublish(b)
    BY <1>4, PublishFields
  <1>5. CASE LoadBlocks(b)
    BY <1>5, BlocksFields
  <1>6. CASE LoadFinish(b) \/ LoadError(b)
    BY <1>6, FinishFields
  <1>7. CASE EvictClear(b)
    BY <1>7, ClearFields
  <1>8. CASE EvictCheck(b)
    BY <1>8, CheckFields
  <1>9. CASE Write(b)
    BY <1>9, WriteFields
  <1> QED BY <1>1, <1>2, <1>3, <1>4, <1>5, <1>6, <1>7, <1>8, <1>9 DEF SlotSteps

\* An attachment there was before.
Was(b, e) ==
  /\ handle[b][e].present
  /\ handle'[b][e].slot = handle[b][e].slot /\ handle'[b][e].gen = handle[b][e].gen
  /\ handle'[b][e].area = handle[b][e].area

\* Only an attach and a load make new attachments.
LEMMA HandleKept ==
  ASSUME IInv, NEW b \in Backends, Move(b), ~Attach(b), ~LoadBlocks(b),
         NEW e \in Elems, handle'[b][e].present
  PROVE  Was(b, e)
  <1>1. handle \in [Backends -> [Elems -> HandleType]] /\ handle[b][e] \in HandleType
        /\ MemoryInv /\ TableInv
    BY DEF IInv, MemoryInv
  <1>2. ASSUME handle' = handle
        PROVE  Was(b, e)
    BY <1>2 DEF Was
  <1>3. ASSUME NEW i, Forget(b, i)
        PROVE  Was(b, e)
    <2>1. handle'[b][e] = handle[b][e] \/ handle'[b][e] = [handle[b][e] EXCEPT !.present = FALSE]
      BY <1>1, <1>3, ForgetTypes
    <2> QED BY <1>1, <2>1 DEF Was, HandleType
  <1>4. ASSUME NEW f \in Elems,
               \/ \E n : handle' = [handle EXCEPT ![b][f].refs = n]
               \/ \E a : handle' = [handle EXCEPT ![b][f].blocks = a]
        PROVE  Was(b, e)
    <2>1. CASE \E n : handle' = [handle EXCEPT ![b][f].refs = n]
      <3>1. PICK n : handle' = [handle EXCEPT ![b][f].refs = n]
        BY <2>1
      <3> QED BY <1>1, <3>1 DEF Was, HandleType
    <2>2. CASE \E a : handle' = [handle EXCEPT ![b][f].blocks = a]
      <3>1. PICK a : handle' = [handle EXCEPT ![b][f].blocks = a]
        BY <2>2
      <3> QED BY <1>1, <3>1 DEF Was, HandleType
    <2> QED BY <1>4, <2>1, <2>2
  <1>5. CASE Quiet(b)
    BY <1>2, <1>5, QuietFrame
  <1>6. CASE \E i \in Indexes : BeginScan(b, i)
    BY <1>2, <1>3, <1>6 DEF BeginScan
  <1>7. CASE \E i \in Indexes : WriterAttach(b, i)
    BY <1>2, <1>3, <1>7 DEF WriterAttach
  <1>8. CASE AbortDone(b)
    <2>1. CASE handle' = [handle EXCEPT ![b] = [f \in Elems |-> NoHandle]]
      BY <1>1, <2>1 DEF NoHandle
    <2> QED BY <1>2, <1>8, <2>1 DEF AbortDone
  <1>9. CASE CountSteps(b)
    <2>1. CASE AcquireInc(b)
      BY <1>2, <2>1 DEF AcquireInc
    <2>2. CASE AcquireValidate(b) \/ AcquireSnapshot(b)
      <3>1. reg[b].cc \in Elems
        BY <2>2 DEF AcquireValidate, AcquireSnapshot, At, IInv, PhaseInv, Phase
      <3>2. CASE AcquireValidate(b)
        BY <1>2, <1>3, <1>4, <3>1, <3>2 DEF AcquireValidate
      <3>3. CASE AcquireSnapshot(b)
        BY <1>4, <3>1, <3>3 DEF AcquireSnapshot
      <3> QED BY <2>2, <3>2, <3>3
    <2>3. CASE EndScan(b) \/ Resolve(b)
      <3>1. \A k \in DOMAIN scans[b] : scans[b][k].cc \in Elems
        BY DEF IInv, MemoryInv, ScanType
      <3>2. CASE EndScan(b)
        <4>1. PICK k \in DOMAIN scans[b] :
                IF handle[b][scans[b][k].cc].refs > 0
                THEN Release(b, scans[b][k].cc, 1, "idle")
                ELSE UNCHANGED <<handle, active, reg, pc>>
          BY <3>2 DEF EndScan
        <4>2. CASE Release(b, scans[b][k].cc, 1, "idle")
          BY <1>4, <3>1, <4>2 DEF Release
        <4> QED BY <1>2, <4>1, <4>2
      <3>3. CASE Resolve(b)
        BY <1>4, <3>1, <3>3 DEF Resolve
      <3> QED BY <2>3, <3>2, <3>3
    <2>4. CASE AbortRelease(b)
      <3>1. PICK f \in Elems : Release(b, f, handle[b][f].refs, "abort")
        BY <2>4 DEF AbortRelease, Held
      <3> QED BY <1>4, <3>1 DEF Release
    <2> QED BY <1>9, <2>1, <2>2, <2>3, <2>4 DEF CountSteps
  <1>10. CASE SlotSteps(b)
    <2>1. CASE SlotLookup(b) \/ ReadState(b) \/ LoadCreate(b) \/ LoadPublish(b)
               \/ LoadFinish(b) \/ LoadError(b) \/ Drain(b) \/ EvictClear(b)
      BY <1>2, <2>1 DEF SlotLookup, ReadState, LoadCreate, LoadPublish, LoadFinish, LoadError,
         Drain, EvictClear
    <2>2. CASE EvictCheck(b)
      BY <1>3, <2>2 DEF EvictCheck
    <2>3. CASE Write(b)
      <3>1. reg[b].cc \in Elems
        BY <2>3 DEF Write, At, IInv, PhaseInv, Phase
      <3> QED BY <1>2, <1>4, <2>3, <3>1, WriteFields
    <2> QED BY <1>10, <2>1, <2>2, <2>3 DEF SlotSteps
  <1> QED BY <1>5, <1>6, <1>7, <1>8, <1>9, <1>10, Groups

LEMMA AttachedHandle ==
  ASSUME IInv, NEW b \in Backends, Attach(b), NEW e \in Elems, handle'[b][e].present
  PROVE  \/ Was(b, e)
         \/ LET s == reg[b].slot IN
            /\ Servable(slot[s].state) /\ handle'[b][e].slot = s
            /\ handle'[b][e].gen = slot[s].gen /\ handle'[b][e].area = slot[s].area
  <1> DEFINE i == reg[b].idx
             s == reg[b].slot
             next == IF reg[b].op = "scan" THEN "acquire" ELSE "wlock"
  <1>1. i \in Indexes /\ s \in Slots /\ next \in Labels /\ MemoryInv /\ TableInv
    BY DEF Attach, At, IInv, PhaseInv, Phase, MemoryInv, RegType, Working, Labels
  <1>2. CASE handle' = handle
    BY <1>2 DEF Was
  <1>3. CASE Servable(slot[s].state) /\ StoreHandle(b, i, s, slot[s].area, next)
    <2> DEFINE a == slot[s].area
    <2>1. a \in Areas
      <3>1. a \in creatorPin
        BY <1>1, <1>3 DEF IInv, SlotInv
      <3>2. creatorPin \subseteq 1..Len(contents) /\ Len(contents) \in Nat
            /\ Len(contents) <= MaxAreas /\ MaxAreas \in Nat
        BY SlotsAssumption DEF IInv, MemoryInv
      <3>3. \A x \in 1..Len(contents) : x \in Areas
        BY <3>2 DEF Areas
      <3> QED BY <3>1, <3>2, <3>3
    <2>2. PICK f \in Elems :
            /\ handle'[b][f] =
                 [present |-> TRUE, key |-> i, area |-> a, slot |-> s,
                  gen |-> slot[s].gen, blocks |-> a, refs |-> 0]
            /\ \A g \in Elems \ {f} : handle'[b][g] = handle[b][g]
      <3> HIDE DEF a, s, i, next
      <3> QED BY <1>1, <1>3, <2>1, StoreTypes DEF a
    <2>3. CASE e = f
      BY <1>3, <2>2, <2>3
    <2>4. CASE e # f
      BY <2>2, <2>4 DEF Was
    <2> QED BY <2>3, <2>4
  <1> QED BY <1>2, <1>3 DEF Attach

LEMMA LoadedHandle ==
  ASSUME IInv, NEW b \in Backends, LoadBlocks(b), NEW e \in Elems, handle'[b][e].present
  PROVE  \/ Was(b, e)
         \/ LET s == reg[b].slot IN
            /\ handle'[b][e].slot = s /\ handle'[b][e].gen = slot[s].gen
            /\ handle'[b][e].area = reg[b].area
  <1> DEFINE i == reg[b].idx
             s == reg[b].slot
             a == reg[b].area
  <1>1. i \in Indexes /\ s \in Slots /\ MemoryInv /\ TableInv /\ At(b, "blocks")
        /\ a \in Areas \cup {NoArea}
    BY DEF LoadBlocks, At, IInv, PhaseInv, Phase, MemoryInv, RegType, Working
  <1>2. a \in Areas
    <2>1. a \in mapped[b]
      BY <1>1 DEF IInv, PublishedInv
    <2> QED BY <1>1, <2>1 DEF MemoryInv, NoArea
  <1>3. PICK f \in Elems :
            /\ handle'[b][f] =
                 [present |-> TRUE, key |-> i, area |-> a, slot |-> s,
                  gen |-> slot[s].gen, blocks |-> a, refs |-> 0]
            /\ \A g \in Elems \ {f} : handle'[b][g] = handle[b][g]
    <2>1. StoreHandle(b, i, s, a, "fill") /\ "fill" \in Labels
      BY DEF LoadBlocks, Labels, Working
    <2> HIDE DEF a, s, i
    <2> QED BY <1>1, <1>2, <2>1, StoreTypes
  <1>4. CASE e = f
    BY <1>3, <1>4
  <1>5. CASE e # f
    BY <1>3, <1>5 DEF Was
  <1> QED BY <1>4, <1>5

-----------------------------------------------------------------------------
(* Loaders                                                                 *)

\* A backend is loading because it was, into the same slot, or because it
\* has just claimed the slot by its CAS.
LEMMA LoadingStep ==
  ASSUME IInv, NEW b \in Backends, Move(b), Loading(b)'
  PROVE  \/ /\ Loading(b) /\ reg'[b].slot = reg[b].slot /\ ~ReadState(b)
            /\ pc[b] = "fill" => pc'[b] = "fill"
         \/ /\ ReadState(b) /\ pc'[b] = "admit" /\ reg'[b] = reg[b]
            /\ slot[reg[b].slot].state = "EMPTY" /\ slot'[reg[b].slot].state = "LOADING"
  <1>1. MemoryInv /\ Phase(b) /\ reg[b] \in RegType /\ NoReg.ret = "idle"
    BY DEF IInv, PhaseInv, MemoryInv, NoReg
  <1>2. pc'[b] \in {"admit", "create", "publish", "blocks", "fill", "choose", "clear", "check"}
    BY DEF Loading
  <1>3. ~Done(b)
    BY <1>1, <1>2, DoneTypes
  <1>4. \A dies \in BOOLEAN : ~Raise(b, dies)
    <2> SUFFICES ASSUME NEW dies \in BOOLEAN, Raise(b, dies) PROVE FALSE
      OBVIOUS
    <2>1. pc'[b] = "abort"
      BY <1>1, RaiseTypes
    <2> QED BY <1>2, <2>1
  <1>5. \A l : Goto(b, l) => pc'[b] = l
    BY <1>1, GotoTypes
  <1>6. CASE ReadState(b)
    <2>1. reg' = reg /\ pc'[b] = "admit"
      <3>1. ~Go(b, "attach")
        BY <1>2, <1>5 DEF Go
      <3> QED BY <1>3, <1>5, <1>6, <3>1, ReadFields DEF Go
    <2>2. ~Go(b, "attach")
      BY <1>2, <1>5 DEF Go
    <2> QED BY <1>3, <1>6, <2>1, <2>2, ReadFields
  <1>7. CASE Quiet(b)
    <2>1. ~ReadState(b)
      BY <1>7 DEF Quiet, ReadState, At, SkipAdmission, EvictChoose, WriterCold, WriterLookup,
         Abort, Terminate, LoadCreateFails, LoadAllocateFails, Savepoint, ReleaseSavepoint, EvictLock, EvictUnlock,
         WriterLock
    <2>2. CASE SkipAdmission(b)
      BY <1>5, <2>1, <2>2 DEF SkipAdmission, At, Loading
    <2>3. CASE EvictChoose(b)
      <3>1. PICK s \in Slots : reg' = [reg EXCEPT ![b] = [reg[b] EXCEPT !.victim = s]]
        BY <2>3 DEF EvictChoose
      <3>2. reg'[b] = [reg[b] EXCEPT !.victim = s]
        BY <1>1, <3>1 DEF MemoryInv
      <3>3. reg'[b].slot = reg[b].slot /\ reg'[b].ret = reg[b].ret
        BY <1>1, <3>2 DEF RegType
      <3> QED BY <1>5, <2>1, <2>3, <3>3 DEF EvictChoose, At, Loading
    <2>4. CASE WriterCold(b) \/ WriterLookup(b)
      BY <1>2, <1>3, <1>5, <2>4 DEF WriterCold, WriterLookup
    <2>5. CASE Abort(b) \/ Terminate(b) \/ LoadCreateFails(b) \/ LoadAllocateFails(b)
      BY <1>4, <2>5 DEF Abort, Terminate, LoadCreateFails, LoadAllocateFails
    <2>6. CASE Savepoint(b) \/ ReleaseSavepoint(b)
      BY <1>2, <2>6 DEF Savepoint, ReleaseSavepoint, At
    <2>7. CASE EvictLock(b)
      <3>1. reg' = [reg EXCEPT ![b] = [reg[b] EXCEPT !.ret =
                      IF At(b, "admit") THEN "create" ELSE "idle"]]
        BY <2>7 DEF EvictLock
      <3>2. reg'[b] = [reg[b] EXCEPT !.ret = IF At(b, "admit") THEN "create" ELSE "idle"]
        BY <1>1, <3>1 DEF MemoryInv
      <3>3. reg'[b].slot = reg[b].slot /\ reg'[b].ret = IF At(b, "admit") THEN "create" ELSE "idle"
        BY <1>1, <3>2 DEF RegType
      <3> QED BY <1>5, <2>1, <2>7, <3>3 DEF EvictLock, At, Loading
    <2>8. CASE EvictUnlock(b)
      <3>1. pc'[b] = reg[b].ret /\ reg'[b] = IF reg[b].ret = "idle" THEN NoReg ELSE reg[b]
        BY <1>1, <2>8, GoBackTypes DEF EvictUnlock
      <3>2. reg[b].ret = "create" /\ reg'[b] = reg[b]
        BY <1>1, <1>2, <2>8, <3>1 DEF EvictUnlock, At, Phase, Evicting
      <3> QED BY <2>1, <2>8, <3>1, <3>2 DEF EvictUnlock, At, Loading
    <2>9. CASE WriterLock(b)
      BY <1>2, <1>3, <1>5, <2>9 DEF WriterLock, Go
    <2> QED BY <1>7, <2>2, <2>3, <2>4, <2>5, <2>6, <2>7, <2>8, <2>9 DEF Quiet
  <1>8. CASE (\E i \in Indexes : BeginScan(b, i) \/ WriterAttach(b, i)) \/ Attach(b) \/ AbortDone(b)
    <2>1. ~(\E i \in Indexes : BeginScan(b, i) \/ WriterAttach(b, i))
      BY <1>2, <1>5 DEF BeginScan, WriterAttach
    <2>2. ~Attach(b)
      BY <1>2, <1>3, <1>4, <1>5 DEF Attach, StoreHandle
    <2>3. ~AbortDone(b)
      BY <1>3 DEF AbortDone
    <2> QED BY <1>8, <2>1, <2>2, <2>3
  <1>9. CASE CountSteps(b)
    <2>1. ~(AcquireInc(b) \/ AcquireSnapshot(b) \/ Resolve(b))
      BY <1>2, <1>3, <1>5 DEF AcquireInc, AcquireSnapshot, Resolve, At
    <2>2. ~AcquireValidate(b)
      BY <1>2, <1>3, <1>5 DEF AcquireValidate, Go
    <2>3. ~(EndScan(b) \/ AbortRelease(b))
      BY <1>2, <1>5 DEF EndScan, AbortRelease, Release, Go, At
    <2> QED BY <1>9, <2>1, <2>2, <2>3 DEF CountSteps
  <1>10. CASE SlotSteps(b) /\ ~ReadState(b)
    <2>1. ~SlotLookup(b)
      BY <1>1, <1>2, <1>3, <1>5, LookupSlot
    <2>2. CASE LoadCreate(b)
      <3>1. reg' = [reg EXCEPT ![b] = [reg[b] EXCEPT !.area = Len(contents) + 1]]
        BY <2>2 DEF LoadCreate
      <3>2. reg'[b] = [reg[b] EXCEPT !.area = Len(contents) + 1]
        BY <1>1, <3>1 DEF MemoryInv
      <3>3. reg'[b].slot = reg[b].slot
        BY <1>1, <3>2 DEF RegType
      <3> QED BY <1>5, <1>10, <2>2, <3>3 DEF LoadCreate, At, Loading
    <2>3. CASE LoadPublish(b)
      BY <1>5, <1>10, <2>3 DEF LoadPublish, At, Loading
    <2>4. CASE LoadBlocks(b)
      <3>1. PICK e : reg' = [reg EXCEPT ![b] = [reg[b] EXCEPT !.cc = e]]
        BY <2>4 DEF LoadBlocks, StoreHandle
      <3>2. reg'[b] = [reg[b] EXCEPT !.cc = e]
        BY <1>1, <3>1 DEF MemoryInv
      <3>3. reg'[b].slot = reg[b].slot
        BY <1>1, <3>2 DEF RegType
      <3> QED BY <1>5, <1>10, <2>4, <3>3 DEF LoadBlocks, StoreHandle, At, Loading
    <2>5. ~(LoadFinish(b) \/ LoadError(b))
      BY <1>2, <1>4, <1>5 DEF LoadFinish, LoadError
    <2>6. ~Drain(b)
      BY <1>1, <1>2, GoBackTypes DEF Drain, At, Phase, RegType
    <2>7. CASE EvictClear(b)
      <3>1. PICK i : reg' = [reg EXCEPT ![b] = [reg[b] EXCEPT !.vkey = i]]
        BY <2>7 DEF EvictClear
      <3>2. reg'[b] = [reg[b] EXCEPT !.vkey = i]
        BY <1>1, <3>1 DEF MemoryInv
      <3>3. reg'[b].slot = reg[b].slot /\ reg'[b].ret = reg[b].ret
        BY <1>1, <3>2 DEF RegType
      <3> QED BY <1>5, <1>10, <2>7, <3>3 DEF EvictClear, At, Loading
    <2>8. CASE EvictCheck(b)
      BY <1>4, <1>5, <1>10, <2>8 DEF EvictCheck, At, Loading
    <2>9. ~Write(b)
      BY <1>3 DEF Write
    <2> QED BY <1>10, <2>1, <2>2, <2>3, <2>4, <2>5, <2>6, <2>7, <2>8, <2>9 DEF SlotSteps
  <1> QED BY <1>6, <1>7, <1>8, <1>9, <1>10, Groups

\* A loading slot stays so until its loader is through.
LEMMA StateKept ==
  ASSUME IInv, NEW b \in Backends, Move(b), NEW s \in Slots, slot[s].state = "LOADING",
         ~((LoadFinish(b) \/ LoadError(b)) /\ reg[b].slot = s)
  PROVE  slot'[s].state = "LOADING"
  <1>1. CASE ~SlotSteps(b)
    BY <1>1, SlotKept
  <1>2. CASE SlotLookup(b) \/ LoadCreate(b) \/ Drain(b)
    BY <1>2, LookupFields DEF SlotSame
  <1>3. CASE ReadState(b)
    BY <1>3, ReadFields
  <1>4. CASE LoadPublish(b)
    BY <1>4, PublishFields
  <1>5. CASE LoadBlocks(b)
    BY <1>5, BlocksFields
  <1>6. CASE LoadFinish(b) \/ LoadError(b)
    BY <1>6, FinishFields
  <1>7. CASE EvictClear(b)
    <2>1. Servable(slot[reg[b].victim].state)
      BY <1>7 DEF EvictClear, IInv, VictimInv
    <2>2. s # reg[b].victim
      BY <2>1 DEF Servable
    <2> QED BY <1>7, <2>2, ClearFields
  <1>8. CASE EvictCheck(b)
    BY <1>8, CheckFields
  <1>9. CASE Write(b)
    BY <1>9, WriteFields
  <1> QED BY <1>1, <1>2, <1>3, <1>4, <1>5, <1>6, <1>7, <1>8, <1>9 DEF SlotSteps

LEMMA FinishLeaves ==
  ASSUME IInv, NEW b \in Backends, LoadFinish(b) \/ LoadError(b)
  PROVE  ~Loading(b)' /\ At(b, "fill") /\ Loading(b)
  <1>1. MemoryInv /\ At(b, "fill")
    BY DEF IInv, LoadFinish, LoadError
  <1>2. CASE LoadFinish(b)
    <2>1. pc'[b] = "attach"
      BY <1>1, <1>2, GotoTypes DEF LoadFinish
    <2> QED BY <1>1, <2>1 DEF Loading, At
  <1>3. CASE LoadError(b)
    <2>1. pc'[b] = "abort"
      BY <1>1, <1>3, RaiseTypes DEF LoadError
    <2> QED BY <1>1, <2>1 DEF Loading, At
  <1> QED BY <1>2, <1>3

LEMMA LoaderStep ==
  ASSUME IInv, NEW b \in Backends, Move(b)
  PROVE  LoaderAlone'
  <1>1. \A c \in Backends \ {b} : pc'[c] = pc[c] /\ reg'[c] = reg[c]
    BY Others
  <1>2. \A c \in Backends \ {b} : Loading(c)' => Loading(c)
    BY <1>1 DEF Loading, At
  <1>3. LoaderAlone /\ \A c \in Backends : reg[c].slot \in Slots
    BY DEF IInv, MemoryInv, RegType
  <1>4. ASSUME NEW c \in Backends, Loading(c)'
        PROVE  slot'[reg'[c].slot].state = "LOADING"
    <2>1. CASE c # b
      <3>1. Loading(c) /\ reg'[c] = reg[c] /\ slot[reg[c].slot].state = "LOADING"
        BY <1>1, <1>2, <1>3, <1>4, <2>1 DEF LoaderAlone
      <3>2. ~((LoadFinish(b) \/ LoadError(b)) /\ reg[b].slot = reg[c].slot)
        BY <1>3, <2>1, <3>1, FinishLeaves DEF LoaderAlone
      <3> QED BY <1>3, <3>1, <3>2, StateKept
    <2>2. CASE c = b
      <3>1. CASE Loading(b) /\ reg'[b].slot = reg[b].slot
        <4>1. ~(LoadFinish(b) \/ LoadError(b)) /\ slot[reg[b].slot].state = "LOADING"
          BY <1>3, <1>4, <2>2, <3>1, FinishLeaves DEF LoaderAlone
        <4> QED BY <1>3, <2>2, <3>1, <4>1, StateKept
      <3> QED BY <1>4, <2>2, <3>1, LoadingStep
    <2> QED BY <2>1, <2>2
  <1>5. ASSUME NEW c \in Backends \ {b}, Loading(b)', Loading(c)'
        PROVE  reg'[c].slot # reg'[b].slot
    <2>1. Loading(c) /\ reg'[c] = reg[c] /\ slot[reg[c].slot].state = "LOADING"
      BY <1>1, <1>2, <1>3, <1>5 DEF LoaderAlone
    <2>2. CASE Loading(b) /\ reg'[b].slot = reg[b].slot
      BY <1>3, <2>1, <2>2 DEF LoaderAlone
    <2>3. CASE reg'[b] = reg[b] /\ slot[reg[b].slot].state = "EMPTY"
      BY <2>1, <2>3
    <2> QED BY <1>5, <2>2, <2>3, LoadingStep
  <1>6. ASSUME NEW c \in Backends \ {b}, NEW d \in Backends \ {b}, c # d, Loading(c)', Loading(d)'
        PROVE  reg'[c].slot # reg'[d].slot
    BY <1>1, <1>2, <1>3, <1>6 DEF LoaderAlone
  <1> SUFFICES ASSUME NEW c \in Backends, Loading(c)'
               PROVE  /\ slot'[reg'[c].slot].state = "LOADING"
                      /\ \A d \in Backends \ {c} : Loading(d)' => reg'[d].slot # reg'[c].slot
    BY DEF LoaderAlone
  <1>7. ASSUME NEW d \in Backends \ {c}, Loading(d)'
        PROVE  reg'[d].slot # reg'[c].slot
    <2>1. CASE c = b
      BY <1>5, <1>7, <2>1
    <2>2. CASE d = b
      BY <1>5, <1>7, <2>2
    <2>3. CASE c # b /\ d # b
      BY <1>6, <1>7, <2>3
    <2> QED BY <2>1, <2>2, <2>3
  <1> QED BY <1>4, <1>7

-----------------------------------------------------------------------------
(* Generations                                                             *)

\* Every attachment was there before, or is of the slot's current
\* incarnation and stored by this step.
LEMMA Handles ==
  ASSUME IInv, NEW b \in Backends, Move(b), NEW c \in Backends, NEW e \in Elems,
         handle'[c][e].present
  PROVE  \/ Was(c, e)
         \/ LET s == reg[b].slot IN
            /\ c = b /\ handle'[c][e].slot = s /\ handle'[c][e].gen = slot[s].gen
            /\ \/ Attach(b) /\ Servable(slot[s].state) /\ handle'[c][e].area = slot[s].area
               \/ LoadBlocks(b) /\ handle'[c][e].area = reg[b].area
  <1>1. CASE c # b
    <2>1. handle'[c] = handle[c]
      BY <1>1, Others
    <2> QED BY <2>1 DEF Was
  <1>2. CASE c = b
    BY <1>2, HandleKept, AttachedHandle, LoadedHandle
  <1> QED BY <1>1, <1>2

\* Within an incarnation that is attached, the area stays.
LEMMA AreaKept ==
  ASSUME IInv, NEW b \in Backends, Move(b), NEW s \in Slots, slot'[s].gen = slot[s].gen, ~Fresh(s)
  PROVE  /\ slot'[s].area = slot[s].area
         /\ slot'[s].blocks = slot[s].blocks \/ slot'[s].blocks = slot[s].area
  <1>1. slot[s].gen \in Nat
    BY DEF IInv, MemoryInv, SlotType
  <1>2. CASE ~SlotSteps(b)
    BY <1>2, SlotKept
  <1>3. CASE SlotLookup(b) \/ LoadCreate(b) \/ Drain(b)
    BY <1>3, LookupFields DEF SlotSame
  <1>4. CASE ReadState(b)
    BY <1>4, ReadFields
  <1>5. CASE LoadPublish(b)
    BY <1>1, <1>5, PublishFields
  <1>6. CASE LoadBlocks(b)
    <2>1. Loading(b) /\ ~At(b, "fill")
      BY <1>6 DEF LoadBlocks, At, Loading
    <2>2. Fresh(reg[b].slot)
      BY <2>1 DEF IInv, GenInv
    <2> QED BY <1>6, <2>2, BlocksFields
  <1>7. CASE LoadFinish(b) \/ LoadError(b)
    BY <1>7, FinishFields
  <1>8. CASE EvictClear(b)
    BY <1>1, <1>8, ClearFields
  <1>9. CASE EvictCheck(b)
    BY <1>9, CheckFields
  <1>10. CASE Write(b)
    BY <1>10, WriteFields
  <1> QED BY <1>2, <1>3, <1>4, <1>5, <1>6, <1>7, <1>8, <1>9, <1>10 DEF SlotSteps

\* A slot without current handles gets none but from an attach or its loader.
LEMMA FreshKept ==
  ASSUME IInv, MemoryInv', NEW b \in Backends, Move(b), NEW s \in Slots,
         Fresh(s) \/ slot'[s].gen = slot[s].gen + 1,
         ~Servable(slot[s].state) \/ ~Attach(b), ~(LoadBlocks(b) /\ reg[b].slot = s)
  PROVE  Fresh(s)'
  <1> SUFFICES ASSUME NEW c \in Backends, NEW e \in Elems,
                      handle'[c][e].present, handle'[c][e].slot = s
               PROVE  handle'[c][e].gen < slot'[s].gen
    BY DEF Fresh
  <1>1. Was(c, e)
    BY Handles
  <1>2. handle[c][e].present /\ handle[c][e].slot = s /\ handle'[c][e].gen = handle[c][e].gen
    BY <1>1 DEF Was
  <1>3. slot[s].gen \in Nat /\ slot'[s].gen \in Nat /\ handle[c][e].gen \in Nat
    <2>1. slot[s] \in SlotType /\ slot'[s] \in SlotType /\ handle[c][e] \in HandleType
      BY DEF IInv, MemoryInv
    <2> QED BY <2>1 DEF SlotType, HandleType
  <1>4. CASE Fresh(s)
    <2>1. handle[c][e].gen < slot[s].gen
      BY <1>2, <1>4 DEF Fresh
    <2> QED BY <1>2, <1>3, <2>1, GenChange
  <1>5. CASE slot'[s].gen = slot[s].gen + 1
    <2>1. handle[c][e].gen <= slot[s].gen
      BY <1>2 DEF IInv, GenInv
    <2> QED BY <1>2, <1>3, <1>5, <2>1
  <1> QED BY <1>4, <1>5

LEMMA GenStep ==
  ASSUME IInv, MemoryInv', NEW b \in Backends, Move(b)
  PROVE  GenInv'
  <1>1. \A c \in Backends : reg[c].slot \in Slots
    BY DEF IInv, MemoryInv, RegType
  <1>2. ASSUME NEW c \in Backends, NEW e \in Elems, handle'[c][e].present
        PROVE  LET h == handle'[c][e] IN
               /\ h.gen <= slot'[h.slot].gen
               /\ h.gen = slot'[h.slot].gen =>
                    slot'[h.slot].area = h.area /\ slot'[h.slot].blocks = h.area
    <2> DEFINE h == handle'[c][e]
               s == h.slot
    <2>1. s \in Slots /\ h.gen \in Nat
      <3>1. h \in HandleType
        BY DEF MemoryInv
      <3> QED BY <3>1 DEF HandleType
    <2>2. slot[s].gen \in Nat /\ slot'[s].gen \in Nat
      BY <2>1 DEF IInv, MemoryInv, SlotType
    <2>3. CASE Was(c, e)
      <3>1. handle[c][e].present /\ handle[c][e].slot = s /\ handle[c][e].gen = h.gen
            /\ handle[c][e].area = h.area
        BY <2>3 DEF Was
      <3> HIDE DEF h, s
      <3>2. h.gen <= slot[s].gen /\ (h.gen = slot[s].gen =>
              slot[s].area = h.area /\ slot[s].blocks = h.area)
        BY <3>1 DEF IInv, GenInv
      <3>3. slot'[s].gen = slot[s].gen \/ slot'[s].gen = slot[s].gen + 1
        BY <2>1, GenChange
      <3>4. h.gen <= slot'[s].gen
        BY <2>1, <2>2, <3>2, <3>3
      <3>5. ASSUME h.gen = slot'[s].gen
            PROVE  slot'[s].area = h.area /\ slot'[s].blocks = h.area
        <4>1. h.gen = slot[s].gen /\ slot'[s].gen = slot[s].gen
          BY <2>1, <2>2, <3>2, <3>3, <3>5
        <4>2. ~Fresh(s)
          BY <2>1, <2>2, <3>1, <4>1 DEF Fresh
        <4> QED BY <2>1, <3>2, <4>1, <4>2, AreaKept
      <3> QED BY <3>4, <3>5 DEF h, s
    <2>4. CASE /\ Attach(b) /\ s = reg[b].slot /\ h.gen = slot[s].gen
               /\ Servable(slot[s].state) /\ h.area = slot[s].area
      <3>1. slot' = slot
        BY <2>4 DEF Attach, shared
      <3>2. slot[s].blocks = slot[s].area
        BY <2>1, <2>4 DEF IInv, SlotInv
      <3> HIDE DEF h, s
      <3>3. h.gen <= slot'[s].gen /\ slot'[s].area = h.area /\ slot'[s].blocks = h.area
        BY <2>1, <2>4, <3>1, <3>2
      <3> QED BY <3>3 DEF h, s
    <2>5. CASE LoadBlocks(b) /\ s = reg[b].slot /\ h.gen = slot[s].gen /\ h.area = reg[b].area
      <3>1. slot'[s].gen = slot[s].gen /\ slot'[s].area = slot[s].area /\ slot'[s].blocks = reg[b].area
        BY <2>5, BlocksFields
      <3>2. slot[s].area = reg[b].area
        BY <2>5 DEF LoadBlocks, At, IInv, PublishedInv
      <3> HIDE DEF h, s
      <3>3. h.gen <= slot'[s].gen /\ slot'[s].area = h.area /\ slot'[s].blocks = h.area
        BY <2>1, <2>5, <3>1, <3>2
      <3> QED BY <3>3 DEF h, s
    <2> QED BY <1>2, <2>3, <2>4, <2>5, Handles
  <1>3. ASSUME NEW s \in Slots, slot'[s].state = "EMPTY"
        PROVE  Fresh(s)'
    <2>1. slot[s].state = "EMPTY" \/ slot'[s].gen = slot[s].gen + 1
      <3>1. CASE ~SlotSteps(b)
        BY <1>3, <3>1, SlotKept
      <3>2. CASE SlotLookup(b) \/ LoadCreate(b) \/ Drain(b)
        BY <1>3, <3>2, LookupFields DEF SlotSame
      <3>3. CASE ReadState(b)
        BY <1>3, <3>3, ReadFields
      <3>4. CASE LoadPublish(b)
        BY <1>3, <3>4, PublishFields
      <3>5. CASE LoadBlocks(b)
        BY <1>3, <3>5, BlocksFields
      <3>6. CASE LoadFinish(b) \/ LoadError(b)
        BY <1>3, <3>6, FinishFields
      <3>7. CASE EvictClear(b)
        BY <1>3, <3>7, ClearFields
      <3>8. CASE EvictCheck(b)
        BY <1>3, <3>8, CheckFields
      <3>9. CASE Write(b)
        BY <1>3, <3>9, WriteFields
      <3> QED BY <3>1, <3>2, <3>3, <3>4, <3>5, <3>6, <3>7, <3>8, <3>9 DEF SlotSteps
    <2>2. Fresh(s) \/ slot'[s].gen = slot[s].gen + 1
      BY <2>1 DEF IInv, GenInv
    <2>3. ~Servable(slot[s].state) \/ ~Attach(b)
      <3>1. CASE Attach(b)
        <4>1. slot' = slot
          BY <3>1 DEF Attach, shared
        <4> QED BY <1>3, <4>1 DEF Servable
      <3> QED BY <3>1
    <2>4. ~(LoadBlocks(b) /\ reg[b].slot = s)
      <3> SUFFICES ASSUME LoadBlocks(b), reg[b].slot = s PROVE FALSE
        OBVIOUS
      <3>1. slot[s].state = "LOADING"
        BY DEF LoadBlocks, At, Loading, IInv, LoaderAlone
      <3> QED BY <1>3, <3>1, BlocksFields
    <2> QED BY <2>2, <2>3, <2>4, FreshKept
  <1>4. ASSUME NEW c \in Backends, Loading(c)', pc'[c] # "fill"
        PROVE  Fresh(reg[c].slot)'
    <2> DEFINE s == reg'[c].slot
    <2>1. CASE c # b
      <3>1. pc'[c] = pc[c] /\ reg'[c] = reg[c]
        BY <2>1, Others
      <3>2. Loading(c) /\ ~At(c, "fill")
        BY <1>4, <3>1 DEF Loading, At
      <3>3. Fresh(reg[c].slot) /\ slot[reg[c].slot].state = "LOADING"
        BY <3>2 DEF IInv, GenInv, LoaderAlone
      <3>4. ~(LoadBlocks(b) /\ reg[b].slot = reg[c].slot)
        <4>1. LoadBlocks(b) => Loading(b)
          BY DEF LoadBlocks, At, Loading
        <4> QED BY <2>1, <3>2, <4>1 DEF IInv, LoaderAlone
      <3>5. s \in Slots /\ Fresh(s) /\ ~Servable(slot[s].state) /\ ~(LoadBlocks(b) /\ reg[b].slot = s)
        BY <1>1, <3>1, <3>3, <3>4 DEF Servable
      <3> HIDE DEF s
      <3>6. \A t \in Slots : t = s => Fresh(t)'
        BY <3>5, FreshKept
      <3> QED BY <3>5, <3>6 DEF s, Fresh
    <2>2. CASE c = b
      <3>1. CASE ReadState(b) /\ reg'[b] = reg[b] /\ slot[reg[b].slot].state = "EMPTY"
        <4>1. s \in Slots /\ Fresh(s) /\ ~Servable(slot[s].state)
          BY <1>1, <2>2, <3>1 DEF Servable, IInv, GenInv
        <4>2. ~LoadBlocks(b)
          BY <3>1 DEF ReadState, LoadBlocks, At
        <4> HIDE DEF s
        <4>3. \A t \in Slots : t = s => Fresh(t)'
          BY <4>1, <4>2, FreshKept
        <4> QED BY <4>1, <4>3, <2>2 DEF s, Fresh
      <3>2. CASE Loading(b) /\ reg'[b].slot = reg[b].slot /\ (pc[b] = "fill" => pc'[b] = "fill")
        <4>1. ~At(b, "fill")
          BY <1>4, <2>2, <3>2 DEF At
        <4>2. s \in Slots /\ Fresh(s) /\ ~Servable(slot[s].state)
          BY <1>1, <2>2, <3>2, <4>1 DEF Servable, IInv, GenInv, LoaderAlone
        <4>3. ~LoadBlocks(b)
          <5> SUFFICES ASSUME LoadBlocks(b) PROVE FALSE
            OBVIOUS
          <5>1. pc'[b] = "fill"
            BY GotoTypes DEF LoadBlocks, StoreHandle, IInv
          <5> QED BY <1>4, <2>2, <5>1
        <4> HIDE DEF s
        <4>4. \A t \in Slots : t = s => Fresh(t)'
          BY <4>2, <4>3, FreshKept
        <4> QED BY <4>2, <4>4, <2>2 DEF s, Fresh
      <3> QED BY <1>4, <2>2, <3>1, <3>2, LoadingStep
    <2> QED BY <2>1, <2>2
  <1> QED
    <2> SUFFICES ASSUME NEW c \in Backends, Loading(c)', ~At(c, "fill")'
                 PROVE  Fresh(reg[c].slot)'
      BY <1>2, <1>3 DEF GenInv
    <2> QED BY <1>4 DEF At

-----------------------------------------------------------------------------
(* The phases                                                              *)

\* What a backend has to have at each of its control states, but for the
\* last part of a write.
LEMMA PhaseCases ==
  ASSUME NEW b \in Backends, pc'[b] # "write",
         \/ pc'[b] \in {"idle", "abort"}
         \/ pc'[b] \in Working \ {"acquire", "validate", "snapshot", "wlock", "write"}
            /\ reg'[b].idx \in Indexes
         \/ pc'[b] \in {"acquire", "validate", "snapshot"}
            /\ reg'[b].idx \in Indexes /\ reg'[b].cc \in Elems
         \/ pc'[b] = "wlock" /\ reg'[b].idx \in Indexes /\ reg'[b].cc \in Elems
            /\ handle'[b][reg'[b].cc].present
         \/ pc'[b] \in Evicting /\ dirLock' = b
            /\ (reg'[b].ret = "idle" \/ (reg'[b].ret = "create" /\ reg'[b].idx \in Indexes))
         \/ pc'[b] = "drain" /\ reg'[b].ret # "create" /\ reg'[b].cc \in Elems
  PROVE  Phase(b)'
  BY DEF Phase, At, Working, Evicting

\* The phase of the backend that takes the step.
LEMMA OwnPhase ==
  ASSUME IInv, NEW b \in Backends, Move(b)
  PROVE  Phase(b)'
  <1>1. MemoryInv /\ TableInv /\ Phase(b) /\ reg[b] \in RegType /\ reg \in [Backends -> RegType]
    BY DEF IInv, PhaseInv, MemoryInv
  <1>2. \A l : Goto(b, l) => pc'[b] = l
    BY <1>1, GotoTypes
  <1>3. Done(b) => Phase(b)'
    <2> SUFFICES ASSUME Done(b) PROVE Phase(b)'
      OBVIOUS
    <2>1. pc'[b] = "idle"
      BY <1>1, DoneTypes
    <2> QED BY <2>1, PhaseCases
  <1>4. ASSUME NEW dies \in BOOLEAN, Raise(b, dies)
        PROVE  Phase(b)'
    <2>1. pc'[b] = "abort"
      BY <1>1, <1>4, RaiseTypes
    <2> QED BY <2>1, PhaseCases
  <1>5. ASSUME NEW l \in Working \ {"acquire", "validate", "snapshot", "wlock", "write"},
               Goto(b, l), reg'[b].idx \in Indexes
        PROVE  Phase(b)'
    BY <1>2, <1>5, PhaseCases
  <1>6. ASSUME NEW l \in Working \ {"acquire", "validate", "snapshot", "wlock", "write"},
               Goto(b, l), reg' = reg, pc[b] \in Working
        PROVE  Phase(b)'
    <2>1. reg[b].idx \in Indexes
      BY <1>1, <1>6 DEF Phase
    <2> QED BY <1>5, <1>6, <2>1
  <1>7. CASE Quiet(b)
    <2>1. CASE SkipAdmission(b)
      BY <1>6, <2>1 DEF SkipAdmission, At, Working
    <2>2. CASE EvictChoose(b)
      <3>1. PICK s \in Slots : reg' = [reg EXCEPT ![b] = [reg[b] EXCEPT !.victim = s]]
        BY <2>2 DEF EvictChoose
      <3>2. reg'[b] = [reg[b] EXCEPT !.victim = s]
        BY <1>1, <3>1
      <3>3. reg'[b].ret = reg[b].ret /\ reg'[b].idx = reg[b].idx
        BY <1>1, <3>2 DEF RegType
      <3>4. dirLock' = dirLock /\ pc'[b] = "clear" /\ pc[b] = "choose"
        BY <1>2, <2>2 DEF EvictChoose, At, shared
      <3> QED BY <1>1, <3>3, <3>4 DEF Phase, Evicting, Working, At
    <2>3. CASE WriterCold(b)
      BY <1>3, <2>3 DEF WriterCold
    <2>4. CASE WriterLookup(b)
      <3>1. CASE Done(b)
        BY <1>3, <3>1
      <3>2. CASE \E s : reg' = [reg EXCEPT ![b].slot = s] /\ Goto(b, "attach")
        <4>1. PICK s : reg' = [reg EXCEPT ![b] = [reg[b] EXCEPT !.slot = s]] /\ Goto(b, "attach")
          BY <3>2
        <4>2. reg'[b] = [reg[b] EXCEPT !.slot = s]
          BY <1>1, <4>1
        <4>3. reg'[b].idx = reg[b].idx
          BY <1>1, <4>2 DEF RegType
        <4>4. reg[b].idx \in Indexes
          BY <1>1, <2>4 DEF WriterLookup, At, Phase, Working
        <4> QED BY <1>5, <4>1, <4>3, <4>4 DEF Working
      <3> QED BY <2>4, <3>1, <3>2 DEF WriterLookup
    <2>5. CASE Abort(b) \/ Terminate(b) \/ LoadCreateFails(b) \/ LoadAllocateFails(b)
      BY <1>4, <2>5 DEF Abort, Terminate, LoadCreateFails, LoadAllocateFails
    <2>6. CASE Savepoint(b) \/ ReleaseSavepoint(b)
      <3>1. pc'[b] = "idle"
        BY <2>6 DEF Savepoint, ReleaseSavepoint, At
      <3> QED BY <3>1, PhaseCases
    <2>7. CASE EvictLock(b)
      <3>1. reg' = [reg EXCEPT ![b] = [reg[b] EXCEPT !.ret =
                      IF At(b, "admit") THEN "create" ELSE "idle"]]
        BY <2>7 DEF EvictLock
      <3>2. reg'[b] = [reg[b] EXCEPT !.ret = IF At(b, "admit") THEN "create" ELSE "idle"]
        BY <1>1, <3>1
      <3>3. reg'[b].idx = reg[b].idx /\ reg'[b].ret = IF At(b, "admit") THEN "create" ELSE "idle"
        BY <1>1, <3>2 DEF RegType
      <3>4. At(b, "admit") => reg[b].idx \in Indexes
        BY <1>1 DEF At, Phase, Working
      <3>5. pc'[b] = "choose" /\ dirLock' = b
        BY <1>2, <2>7 DEF EvictLock
      <3> QED BY <3>3, <3>4, <3>5, PhaseCases DEF Evicting
    <2>8. CASE EvictUnlock(b)
      <3>1. pc'[b] = reg[b].ret /\ reg'[b] = IF reg[b].ret = "idle" THEN NoReg ELSE reg[b]
        BY <1>1, <2>8, GoBackTypes DEF EvictUnlock
      <3>2. reg[b].ret = "idle" \/ (reg[b].ret = "create" /\ reg[b].idx \in Indexes)
        BY <1>1, <2>8 DEF EvictUnlock, At, Phase, Evicting
      <3>3. CASE reg[b].ret = "idle"
        BY <3>1, <3>3, PhaseCases
      <3>4. CASE reg[b].ret = "create" /\ reg[b].idx \in Indexes
        BY <3>1, <3>4, PhaseCases DEF Working
      <3> QED BY <3>2, <3>3, <3>4
    <2>9. CASE WriterLock(b)
      <3> DEFINE e == reg[b].cc
                 h == handle[b][e]
                 s == h.slot
      <3>1. CASE Done(b)
        BY <1>3, <3>1
      <3>2. CASE /\ ~(reg[b].op = "insert" /\ (h.gen # slot[s].gen \/ slot[s].key # reg[b].idx))
                 /\ Go(b, "write") /\ wlock' = [wlock EXCEPT ![s] = b]
        <4>1. e \in Elems /\ h.present /\ reg[b].idx \in Indexes
          BY <1>1, <2>9 DEF WriterLock, At, Phase, Working
        <4>2. s \in Slots
          <5>1. h \in HandleType
            BY <1>1, <4>1 DEF MemoryInv
          <5> QED BY <5>1 DEF HandleType
        <4>3. slot' = slot /\ handle' = handle /\ reg' = reg /\ pc'[b] = "write"
          BY <1>2, <2>9, <3>2 DEF WriterLock, Go
        <4>4. wlock'[s] = b
          <5> HIDE DEF s
          <5> QED BY <1>1, <3>2, <4>2 DEF MemoryInv
        <4>5. reg[b].op = "insert" => h.gen = slot[s].gen
          BY <3>2
        <4>6. handle'[b][reg'[b].cc] = h
          BY <4>3
        <4> QED BY <4>1, <4>3, <4>4, <4>5, <4>6 DEF Phase, At, Evicting, Working
      <3> QED BY <2>9, <3>1, <3>2 DEF WriterLock
    <2> QED BY <1>7, <2>1, <2>2, <2>3, <2>4, <2>5, <2>6, <2>7, <2>8, <2>9 DEF Quiet
  <1>8. CASE \E i \in Indexes : BeginScan(b, i)
    <2> PICK i \in Indexes : BeginScan(b, i)
      BY <1>8
    <2>1. CASE Attached(b, i) /\ Goto(b, "acquire")
               /\ reg' = [reg EXCEPT ![b] = [NoReg EXCEPT !.idx = i,
                            !.cc = EntryOf(b, i), !.cached = TRUE]]
      <3>1. reg'[b] = [NoReg EXCEPT !.idx = i, !.cc = EntryOf(b, i), !.cached = TRUE]
        BY <1>1, <2>1
      <3>2. reg'[b].idx = i /\ reg'[b].cc = EntryOf(b, i)
        BY <3>1 DEF NoReg
      <3> QED BY <1>2, <2>1, <3>2, EntryFound, PhaseCases
    <2>2. CASE Goto(b, "lookup") /\ reg' = [reg EXCEPT ![b] = [NoReg EXCEPT !.idx = i]]
      <3>1. reg'[b] = [NoReg EXCEPT !.idx = i]
        BY <1>1, <2>2
      <3>2. reg'[b].idx = i
        BY <3>1 DEF NoReg
      <3> QED BY <1>5, <2>2, <3>2 DEF Working
    <2> QED BY <2>1, <2>2 DEF BeginScan
  <1>9. CASE \E i \in Indexes : WriterAttach(b, i)
    <2> PICK i \in Indexes : WriterAttach(b, i)
      BY <1>9
    <2>1. PICK o : reg' = [reg EXCEPT ![b] = [NoReg EXCEPT !.idx = i, !.op = o,
                      !.cc = IF Attached(b, i) THEN EntryOf(b, i) ELSE NoReg.cc]]
      BY DEF WriterAttach
    <2>2. reg'[b] = [NoReg EXCEPT !.idx = i, !.op = o,
                      !.cc = IF Attached(b, i) THEN EntryOf(b, i) ELSE NoReg.cc]
      BY <1>1, <2>1
    <2>3. reg'[b].idx = i /\ reg'[b].cc = IF Attached(b, i) THEN EntryOf(b, i) ELSE NoReg.cc
      BY <2>2 DEF NoReg
    <2>4. CASE Attached(b, i) /\ Goto(b, "wlock") /\ UNCHANGED <<mapped, handle, freeList>>
      <3>1. pc'[b] = "wlock" /\ handle' = handle /\ reg'[b].cc = EntryOf(b, i)
        BY <1>2, <2>3, <2>4
      <3>2. reg'[b].cc \in Elems /\ handle'[b][reg'[b].cc].present
        BY <2>4, <3>1, EntryFound
      <3> QED BY <2>3, <3>1, <3>2, PhaseCases
    <2>5. CASE Goto(b, IF dirKnown[b] THEN "wlookup" ELSE "cold")
      BY <1>5, <2>3, <2>5 DEF Working
    <2> QED BY <2>4, <2>5 DEF WriterAttach
  <1>10. CASE Attach(b) \/ AbortDone(b)
    <2>1. CASE AbortDone(b)
      BY <1>3, <2>1 DEF AbortDone
    <2>2. CASE Attach(b)
      <3> DEFINE i == reg[b].idx
                 s == reg[b].slot
                 next == IF reg[b].op = "scan" THEN "acquire" ELSE "wlock"
      <3>1. i \in Indexes /\ s \in Slots
        BY <1>1, <2>2 DEF Attach, At, Phase, Working, RegType
      <3>2. ASSUME NEW e \in Elems, reg' = [reg EXCEPT ![b] = [reg[b] EXCEPT !.cc = e]],
                   handle'[b][e].present, Goto(b, next)
            PROVE  Phase(b)'
        <4>1. reg'[b] = [reg[b] EXCEPT !.cc = e]
          BY <1>1, <3>2
        <4>2. reg'[b].idx = i /\ reg'[b].cc = e
          BY <1>1, <4>1 DEF RegType
        <4>3. pc'[b] \in {"acquire", "wlock"}
          BY <1>2, <3>2
        <4> QED BY <3>1, <3>2, <4>2, <4>3, PhaseCases
      <3>3. CASE Attached(b, i) /\ reg' = [reg EXCEPT ![b].cc = EntryOf(b, i)]
                 /\ Goto(b, next) /\ handle' = handle
        BY <3>2, <3>3, EntryFound
      <3>4. CASE Done(b)
        BY <1>3, <3>4
      <3>5. CASE Raise(b, FALSE)
        BY <1>4, <3>5
      <3>6. CASE Servable(slot[s].state) /\ StoreHandle(b, i, s, slot[s].area, next)
        <4>1. reg' = [reg EXCEPT ![b] = [reg[b] EXCEPT !.cc =
                        IF Attached(b, i) THEN EntryOf(b, i) ELSE Head(freeList[b])]]
          BY <3>6 DEF StoreHandle
        <4>2. slot[s].area \in Areas
          <5>1. slot[s].area \in creatorPin
            BY <3>1, <3>6 DEF IInv, SlotInv
          <5>2. creatorPin \subseteq 1..Len(contents) /\ Len(contents) \in Nat
                /\ Len(contents) <= MaxAreas /\ MaxAreas \in Nat
            BY <1>1, SlotsAssumption DEF MemoryInv
          <5>3. \A x \in 1..Len(contents) : x \in Areas
            BY <5>2 DEF Areas
          <5> QED BY <5>1, <5>2, <5>3
        <4>3. next \in Labels
          BY DEF Labels, Working
        <4>4. PICK e \in Elems :
                /\ reg' = [reg EXCEPT ![b] = [reg[b] EXCEPT !.cc = e]]
                /\ handle'[b][e] = [present |-> TRUE, key |-> i, area |-> slot[s].area, slot |-> s,
                                    gen |-> slot[s].gen, blocks |-> slot[s].area, refs |-> 0]
          <5> HIDE DEF i, s, next
          <5> QED BY <1>1, <3>1, <3>6, <4>2, <4>3, StoreTypes
        <4>5. handle'[b][e].present
          BY <4>4
        <4>6. Goto(b, next)
          BY <3>6 DEF StoreHandle
        <4> QED BY <3>2, <4>4, <4>5, <4>6
      <3> QED BY <2>2, <3>3, <3>4, <3>5, <3>6 DEF Attach
    <2> QED BY <1>10, <2>1, <2>2
  <1>11. CASE CountSteps(b)
    <2>1. CASE AcquireInc(b)
      <3>1. reg' = reg /\ pc'[b] = "validate" /\ reg[b].idx \in Indexes /\ reg[b].cc \in Elems
        BY <1>1, <1>2, <2>1 DEF AcquireInc, At, Phase, Working
      <3> QED BY <3>1, PhaseCases
    <2>2. CASE AcquireValidate(b)
      <3>1. reg[b].idx \in Indexes /\ reg[b].cc \in Elems
        BY <1>1, <2>2 DEF AcquireValidate, At, Phase, Working
      <3>2. CASE Go(b, "snapshot")
        BY <1>2, <3>1, <3>2, PhaseCases DEF Go
      <3>3. CASE Goto(b, "lookup") /\ reg' = [reg EXCEPT ![b].cached = FALSE]
        <4>1. reg'[b] = [reg[b] EXCEPT !.cached = FALSE]
          BY <1>1, <3>3
        <4>2. reg'[b].idx = reg[b].idx
          BY <1>1, <4>1 DEF RegType
        <4> QED BY <1>5, <3>1, <3>3, <4>2 DEF Working
      <3> QED BY <1>3, <2>2, <3>2, <3>3 DEF AcquireValidate
    <2>3. CASE AcquireSnapshot(b)
      BY <1>3, <2>3 DEF AcquireSnapshot
    <2>4. CASE Resolve(b)
      <3>1. pc'[b] = "idle"
        BY <2>4 DEF Resolve, At
      <3> QED BY <3>1, PhaseCases
    <2>5. ASSUME NEW e \in Elems, NEW n \in Nat, n <= handle[b][e].refs,
                 NEW ret \in {"idle", "abort"}, Release(b, e, n, ret)
          PROVE  Phase(b)'
      <3>1. \/ pc'[b] = ret /\ reg' = reg
            \/ /\ pc'[b] = "drain"
               /\ reg' = [reg EXCEPT ![b] = [reg[b] EXCEPT !.cc = e, !.ret = ret]]
        BY <1>2, <2>5 DEF Release, Go
      <3>2. CASE pc'[b] = ret
        BY <3>2, PhaseCases
      <3>3. CASE /\ pc'[b] = "drain"
                 /\ reg' = [reg EXCEPT ![b] = [reg[b] EXCEPT !.cc = e, !.ret = ret]]
        <4>1. reg'[b] = [reg[b] EXCEPT !.cc = e, !.ret = ret]
          BY <1>1, <3>3
        <4>2. reg'[b].cc = e /\ reg'[b].ret = ret
          BY <1>1, <4>1 DEF RegType
        <4> QED BY <3>3, <4>2, PhaseCases
      <3> QED BY <3>1, <3>2, <3>3
    <2>6. \A e \in Elems : handle[b][e].refs \in Nat
      BY <1>1 DEF MemoryInv, HandleType
    <2>7. CASE EndScan(b)
      <3>1. PICK k \in DOMAIN scans[b] :
              IF handle[b][scans[b][k].cc].refs > 0
              THEN Release(b, scans[b][k].cc, 1, "idle")
              ELSE UNCHANGED <<handle, active, reg, pc>>
        BY <2>7 DEF EndScan
      <3>2. scans[b][k].cc \in Elems
        BY <1>1 DEF MemoryInv, ScanType
      <3>3. CASE handle[b][scans[b][k].cc].refs > 0
        BY <2>5, <2>6, <3>1, <3>2, <3>3
      <3>4. CASE pc' = pc
        BY <2>7, <3>4, PhaseCases DEF EndScan, At
      <3> QED BY <3>1, <3>3, <3>4
    <2>8. CASE AbortRelease(b)
      <3>1. PICK e \in Elems : Release(b, e, handle[b][e].refs, "abort")
        BY <2>8 DEF AbortRelease, Held
      <3> QED BY <2>5, <2>6, <3>1
    <2> QED BY <1>11, <2>1, <2>2, <2>3, <2>4, <2>7, <2>8 DEF CountSteps
  <1>12. CASE SlotSteps(b)
    <2>1. CASE SlotLookup(b)
      <3>1. CASE \E s \in Slots : reg' = [reg EXCEPT ![b] = [reg[b] EXCEPT !.slot = s]]
                                  /\ Goto(b, "state")
        <4>1. PICK s \in Slots : reg' = [reg EXCEPT ![b] = [reg[b] EXCEPT !.slot = s]]
                                 /\ Goto(b, "state")
          BY <3>1
        <4>2. reg'[b] = [reg[b] EXCEPT !.slot = s]
          BY <1>1, <4>1
        <4>3. reg'[b].idx = reg[b].idx
          BY <1>1, <4>2 DEF RegType
        <4>4. reg[b].idx \in Indexes
          BY <1>1, <2>1 DEF SlotLookup, At, Phase, Working
        <4> QED BY <1>5, <4>1, <4>3, <4>4 DEF Working
      <3> QED BY <1>1, <1>3, <2>1, <3>1, LookupSlot
    <2>2. CASE ReadState(b)
      <3>1. pc[b] \in Working
        BY <2>2 DEF ReadState, At, Working
      <3> QED BY <1>3, <1>6, <2>2, <3>1, ReadFields DEF Go, Working
    <2>3. CASE LoadCreate(b)
      <3>1. reg' = [reg EXCEPT ![b] = [reg[b] EXCEPT !.area = Len(contents) + 1]]
        BY <2>3 DEF LoadCreate
      <3>2. reg'[b] = [reg[b] EXCEPT !.area = Len(contents) + 1]
        BY <1>1, <3>1
      <3>3. reg'[b].idx = reg[b].idx
        BY <1>1, <3>2 DEF RegType
      <3>4. reg[b].idx \in Indexes /\ Goto(b, "publish")
        BY <1>1, <2>3 DEF LoadCreate, At, Phase, Working
      <3> QED BY <1>5, <3>3, <3>4 DEF Working
    <2>4. CASE LoadPublish(b) \/ LoadFinish(b)
      BY <1>6, <2>4 DEF LoadPublish, LoadFinish, At, Working
    <2>5. CASE LoadBlocks(b)
      <3>1. PICK e : reg' = [reg EXCEPT ![b] = [reg[b] EXCEPT !.cc = e]]
        BY <2>5 DEF LoadBlocks, StoreHandle
      <3>2. reg'[b] = [reg[b] EXCEPT !.cc = e]
        BY <1>1, <3>1
      <3>3. reg'[b].idx = reg[b].idx
        BY <1>1, <3>2 DEF RegType
      <3>4. reg[b].idx \in Indexes /\ Goto(b, "fill")
        BY <1>1, <2>5 DEF LoadBlocks, StoreHandle, At, Phase, Working
      <3> QED BY <1>5, <3>3, <3>4 DEF Working
    <2>6. CASE LoadError(b)
      BY <1>4, <2>6 DEF LoadError
    <2>7. CASE Drain(b)
      <3>1. pc'[b] = reg[b].ret
        BY <1>1, <2>7, GoBackTypes DEF Drain
      <3>2. reg[b].ret \in {"idle", "abort"}
        BY <1>1, <2>7 DEF Drain, At, Phase, RegType
      <3> QED BY <3>1, <3>2, PhaseCases
    <2>8. CASE EvictClear(b)
      <3>1. PICK i : reg' = [reg EXCEPT ![b] = [reg[b] EXCEPT !.vkey = i]]
        BY <2>8 DEF EvictClear
      <3>2. reg'[b] = [reg[b] EXCEPT !.vkey = i]
        BY <1>1, <3>1
      <3>3. reg'[b].ret = reg[b].ret /\ reg'[b].idx = reg[b].idx
        BY <1>1, <3>2 DEF RegType
      <3>4. dirLock' = dirLock /\ pc'[b] = "check" /\ pc[b] = "clear"
        BY <1>2, <2>8 DEF EvictClear, At
      <3>5. dirLock = b /\ (reg[b].ret = "idle" \/ (reg[b].ret = "create" /\ reg[b].idx \in Indexes))
        BY <1>1, <3>4 DEF Phase, Evicting
      <3> QED BY <3>3, <3>4, <3>5, PhaseCases DEF Evicting
    <2>9. CASE EvictCheck(b)
      <3>1. CASE Goto(b, "choose") /\ UNCHANGED <<dirLock, reg>>
        <4>1. pc'[b] = "choose" /\ dirLock' = dirLock /\ reg' = reg /\ pc[b] = "check"
          BY <1>2, <2>9, <3>1 DEF EvictCheck, At
        <4> QED BY <1>1, <4>1, PhaseCases DEF Phase, Evicting
      <3> QED BY <1>4, <2>9, <3>1 DEF EvictCheck
    <2>10. CASE Write(b)
      BY <1>3, <2>10 DEF Write
    <2> QED BY <1>12, <2>1, <2>2, <2>3, <2>4, <2>5, <2>6, <2>7, <2>8, <2>9, <2>10 DEF SlotSteps
  <1> QED BY <1>7, <1>8, <1>9, <1>10, <1>11, <1>12, Groups

\* A writer under wlock keeps its incarnation whatever the others do: its
\* handle is of the slot's generation, so nobody is loading the slot, and no
\* evictor gets in.
LEMMA PhaseStep ==
  ASSUME IInv, NEW b \in Backends, Move(b)
  PROVE  PhaseInv'
  <1> SUFFICES ASSUME NEW c \in Backends, c # b
               PROVE  Phase(c)'
    BY OwnPhase DEF PhaseInv
  <1>1. pc'[c] = pc[c] /\ reg'[c] = reg[c] /\ handle'[c] = handle[c]
    BY Others
  <1>2. Phase(c) /\ (dirLock = c => dirLock' = c) /\ (\A s \in Slots : wlock[s] = c => wlock'[s] = c)
    BY LocksKept DEF IInv, PhaseInv
  <1> DEFINE h == handle[c][reg[c].cc]
             s == h.slot
  <1>3. ASSUME pc[c] = "write"
        PROVE  /\ wlock'[s] = c
               /\ reg[c].op = "insert" => h.gen = slot'[s].gen
    <2>1. reg[c].cc \in Elems /\ h.present /\ wlock[s] = c
          /\ (reg[c].op = "insert" => h.gen = slot[s].gen)
      BY <1>2, <1>3 DEF Phase, At
    <2>2. s \in Slots
      <3>1. h \in HandleType
        BY <2>1 DEF IInv, MemoryInv
      <3> QED BY <3>1 DEF HandleType
    <2>3. ASSUME reg[c].op = "insert"
          PROVE  h.gen = slot'[s].gen
      <3>1. ~(LoadPublish(b) /\ s = reg[b].slot)
        <4> SUFFICES ASSUME LoadPublish(b), s = reg[b].slot PROVE FALSE
          OBVIOUS
        <4>1. Loading(b) /\ ~At(b, "fill")
          BY DEF LoadPublish, At, Loading
        <4>2. Fresh(s)
          BY <4>1 DEF IInv, GenInv
        <4>3. h.gen < slot[s].gen /\ h.gen = slot[s].gen
          BY <2>1, <2>3, <4>2 DEF Fresh
        <4>4. slot[s].gen \in Nat
          BY <2>2 DEF IInv, MemoryInv, SlotType
        <4> QED BY <4>3, <4>4
      <3>2. ~(EvictClear(b) /\ s = reg[b].victim)
        <4>1. c # NoBackend
          BY SlotsAssumption
        <4> QED BY <2>1, <4>1 DEF EvictClear
      <3> QED BY <2>1, <2>2, <2>3, <3>1, <3>2, GenChange
    <2> QED BY <1>2, <2>1, <2>2, <2>3
  <1>4. handle'[c][reg'[c].cc] = h
    BY <1>1
  <1> QED BY <1>1, <1>2, <1>3, <1>4 DEF Phase, At

-----------------------------------------------------------------------------
(* Slots, victims and loaders                                              *)

\* Which step changes which field of a slot.
LEMMA SlotChange ==
  ASSUME IInv, NEW b \in Backends, Move(b), NEW s \in Slots
  PROVE  /\ slot'[s].area = slot[s].area \/ (LoadPublish(b) /\ s = reg[b].slot)
         /\ \/ slot'[s].pinned = slot[s].pinned
            \/ LoadPublish(b) /\ s = reg[b].slot
            \/ EvictCheck(b) /\ s = reg[b].victim
         /\ Servable(slot'[s].state) =>
              \/ Servable(slot[s].state)
              \/ (LoadFinish(b) \/ LoadError(b)) /\ s = reg[b].slot
         /\ Servable(slot[s].state) =>
              Servable(slot'[s].state) \/ (EvictClear(b) /\ s = reg[b].victim)
         /\ \/ slot'[s].blocks = slot[s].blocks
            \/ LoadBlocks(b) /\ s = reg[b].slot
            \/ EvictClear(b) /\ s = reg[b].victim
            \/ slot'[s].blocks = slot[s].area /\ slot'[s].area = slot[s].area
  <1>1. CASE ~SlotSteps(b)
    BY <1>1, SlotKept
  <1>2. CASE SlotLookup(b) \/ LoadCreate(b) \/ Drain(b)
    BY <1>2, LookupFields DEF SlotSame
  <1>3. CASE ReadState(b)
    BY <1>3, ReadFields DEF Servable
  <1>4. CASE LoadPublish(b)
    BY <1>4, PublishFields
  <1>5. CASE LoadBlocks(b)
    BY <1>5, BlocksFields
  <1>6. CASE LoadFinish(b) \/ LoadError(b)
    <2>1. reg[b].slot \in Slots /\ slot'[reg[b].slot].state \in {"READY", "PARTIAL"}
      BY <1>6, FinishFields
    <2> QED BY <1>6, <2>1, FinishFields DEF Servable
  <1>7. CASE EvictClear(b)
    <2>1. slot'[reg[b].victim].state = "EMPTY"
      BY <1>7, ClearFields
    <2> QED BY <1>7, <2>1, ClearFields DEF Servable
  <1>8. CASE EvictCheck(b)
    BY <1>8, CheckFields
  <1>9. CASE Write(b)
    BY <1>9, WriteFields
  <1> QED BY <1>1, <1>2, <1>3, <1>4, <1>5, <1>6, <1>7, <1>8, <1>9 DEF SlotSteps

\* The one step that leads to each of these control states.
LEMMA Arrivals ==
  ASSUME IInv, NEW b \in Backends, Move(b)
  PROVE  /\ pc'[b] = "clear" => EvictChoose(b)
         /\ pc'[b] = "check" => EvictClear(b)
         /\ pc'[b] = "publish" => LoadCreate(b)
         /\ pc'[b] = "blocks" => LoadPublish(b)
         /\ pc'[b] = "fill" => LoadBlocks(b)
         /\ pc'[b] = "choose" => (pc[b] = "admit" /\ DirFree) \/ pc[b] \in {"idle", "check"}
         /\ pc'[b] = "create" => pc[b] \in {"admit", "choose"}
         /\ pc'[b] = "validate" => AcquireInc(b)
  <1> SUFFICES ASSUME pc'[b] \in {"clear", "check", "publish", "blocks", "fill", "choose", "create",
                                 "validate"},
                      ~AcquireInc(b), ~EvictChoose(b), ~EvictClear(b), ~LoadCreate(b), ~LoadPublish(b),
                      ~LoadBlocks(b)
               PROVE  \/ pc'[b] = "choose" /\ ((pc[b] = "admit" /\ DirFree) \/ pc[b] \in {"idle", "check"})
                      \/ pc'[b] = "create" /\ pc[b] \in {"admit", "choose"}
    <2>1. MemoryInv
      BY DEF IInv
    <2>2. EvictChoose(b) => pc'[b] = "clear"
      BY <2>1, GotoTypes DEF EvictChoose
    <2>3. EvictClear(b) => pc'[b] = "check"
      BY <2>1, GotoTypes DEF EvictClear
    <2>4. LoadCreate(b) => pc'[b] = "publish"
      BY <2>1, GotoTypes DEF LoadCreate
    <2>5. LoadPublish(b) => pc'[b] = "blocks"
      BY <2>1, GotoTypes DEF LoadPublish
    <2>6. LoadBlocks(b) => pc'[b] = "fill"
      BY <2>1, GotoTypes DEF LoadBlocks, StoreHandle
    <2>7. AcquireInc(b) => pc'[b] = "validate"
      BY <2>1, GotoTypes DEF AcquireInc
    <2> QED BY <2>2, <2>3, <2>4, <2>5, <2>6, <2>7
  <1>1. MemoryInv /\ Phase(b) /\ reg[b] \in RegType
    BY DEF IInv, PhaseInv, MemoryInv
  <1>2. ~Done(b)
    BY <1>1, DoneTypes
  <1>3. \A dies \in BOOLEAN : ~Raise(b, dies)
    <2> SUFFICES ASSUME NEW dies \in BOOLEAN, Raise(b, dies) PROVE FALSE
      OBVIOUS
    <2>1. pc'[b] = "abort"
      BY <1>1, RaiseTypes
    <2> QED BY <2>1
  <1>4. \A l : Goto(b, l) => pc'[b] = l
    BY <1>1, GotoTypes
  <1>5. CASE Quiet(b)
    <2>1. CASE SkipAdmission(b) \/ EvictLock(b)
      BY <1>4, <2>1 DEF SkipAdmission, EvictLock, At
    <2>2. CASE WriterCold(b) \/ WriterLookup(b)
      BY <1>2, <1>4, <2>2 DEF WriterCold, WriterLookup
    <2>3. CASE Abort(b) \/ Terminate(b) \/ LoadCreateFails(b) \/ LoadAllocateFails(b)
      BY <1>3, <2>3 DEF Abort, Terminate, LoadCreateFails, LoadAllocateFails
    <2>4. CASE Savepoint(b) \/ ReleaseSavepoint(b)
      BY <2>4 DEF Savepoint, ReleaseSavepoint, At
    <2>5. CASE EvictUnlock(b)
      <3>1. pc'[b] = reg[b].ret
        BY <1>1, <2>5, GoBackTypes DEF EvictUnlock
      <3> QED BY <1>1, <2>5, <3>1 DEF EvictUnlock, At, RegType
    <2>6. CASE WriterLock(b)
      BY <1>2, <1>4, <2>6 DEF WriterLock, Go
    <2> QED BY <1>5, <2>1, <2>2, <2>3, <2>4, <2>5, <2>6 DEF Quiet
  <1>6. CASE (\E i \in Indexes : BeginScan(b, i) \/ WriterAttach(b, i)) \/ Attach(b) \/ AbortDone(b)
    <2>1. ~(\E i \in Indexes : BeginScan(b, i) \/ WriterAttach(b, i))
      BY <1>4 DEF BeginScan, WriterAttach
    <2>2. ~Attach(b)
      BY <1>2, <1>3, <1>4 DEF Attach, StoreHandle
    <2>3. ~AbortDone(b)
      BY <1>2 DEF AbortDone
    <2> QED BY <1>6, <2>1, <2>2, <2>3
  <1>7. CASE CountSteps(b)
    <2>1. ~(AcquireInc(b) \/ AcquireSnapshot(b) \/ Resolve(b))
      BY <1>2, <1>4 DEF AcquireSnapshot, Resolve, At
    <2>2. ~AcquireValidate(b)
      BY <1>2, <1>4 DEF AcquireValidate, Go
    <2>3. ~(EndScan(b) \/ AbortRelease(b))
      BY <1>4 DEF EndScan, AbortRelease, Release, Go, At
    <2> QED BY <1>7, <2>1, <2>2, <2>3 DEF CountSteps
  <1>8. CASE SlotSteps(b)
    <2>1. ~SlotLookup(b)
      BY <1>1, <1>2, <1>4, LookupSlot
    <2>2. ~ReadState(b)
      BY <1>2, <1>4 DEF ReadState, Go
    <2>3. ~(LoadFinish(b) \/ LoadError(b))
      BY <1>3, <1>4 DEF LoadFinish, LoadError
    <2>4. ~Drain(b)
      <3> SUFFICES ASSUME Drain(b) PROVE FALSE
        OBVIOUS
      <3>1. pc'[b] = reg[b].ret /\ reg[b].ret \in {"idle", "abort"}
        BY <1>1, GoBackTypes DEF Drain, At, Phase, RegType
      <3> QED BY <3>1
    <2>5. CASE EvictCheck(b)
      BY <1>3, <1>4, <2>5 DEF EvictCheck, At
    <2>6. ~Write(b)
      BY <1>2 DEF Write
    <2> QED BY <1>8, <2>1, <2>2, <2>3, <2>4, <2>5, <2>6 DEF SlotSteps
  <1> QED BY <1>5, <1>6, <1>7, <1>8, Groups

\* Pins are recorded once, and where they are in force.
LEMMA SlotStep ==
  ASSUME IInv, NEW b \in Backends, Move(b)
  PROVE  SlotInv'
  <1>1. SlotInv /\ contents \in Seq(Indexes) /\ Len(contents) \in Nat
    BY DEF IInv, MemoryInv
  <1>2. \A c \in Backends : reg[c].slot \in Slots /\ reg[c].victim \in Slots
    BY DEF IInv, MemoryInv, RegType
  <1>3. CASE ~SlotSteps(b)
    BY <1>1, <1>3, SlotKept DEF SlotInv
  <1>4. CASE SlotLookup(b) \/ Drain(b)
    <2>1. contents' = contents /\ creatorPin' = creatorPin
      BY <1>4 DEF SlotLookup, Drain
    <2>2. \A s \in Slots : SlotSame(s)
      BY <1>4, LookupFields
    <2> QED BY <1>1, <2>1, <2>2 DEF SlotInv, SlotSame
  <1>5. CASE LoadCreate(b)
    <2>1. slot' = slot /\ creatorPin \subseteq creatorPin' /\ contents' = Append(contents, reg[b].idx)
      BY <1>5 DEF LoadCreate
    <2>2. Len(contents') = Len(contents) + 1
      BY <1>1, <2>1
    <2>3. \A n \in 0..Len(contents) : n \in 0..Len(contents')
      BY <1>1, <2>2
    <2> QED BY <1>1, <2>1, <2>3 DEF SlotInv
  <1>6. CASE ReadState(b)
    <2>1. contents' = contents /\ creatorPin' = creatorPin
      BY <1>6 DEF ReadState
    <2> QED BY <1>1, <1>2, <1>6, <2>1, ReadFields DEF SlotInv, Servable
  <1>7. CASE LoadPublish(b)
    <2> DEFINE s == reg[b].slot
               a == reg[b].area
    <2>1. contents' = contents /\ creatorPin' = creatorPin /\ At(b, "publish")
      BY <1>7 DEF LoadPublish
    <2>2. a \in creatorPin /\ \A t \in Slots : slot[t].area # a
      BY <2>1 DEF IInv, UnpublishedInv
    <2>3. a \in 0..Len(contents)
      <3>1. creatorPin \subseteq 1..Len(contents)
        BY DEF IInv, MemoryInv
      <3>2. a \in 1..Len(contents)
        BY <2>2, <3>1
      <3> HIDE DEF a
      <3> QED BY <1>1, <3>2
    <2>4. ~Servable(slot[s].state)
      BY <2>1 DEF IInv, LoaderAlone, Loading, At, Servable
    <2>5. /\ s \in Slots /\ slot'[s].state = slot[s].state
          /\ slot'[s].area = a /\ slot'[s].pinned
          /\ \A t \in Slots \ {s} : slot'[t] = slot[t]
      BY <1>7, PublishFields
    <2> HIDE DEF s, a
    <2> QED BY <1>1, <2>1, <2>2, <2>3, <2>4, <2>5 DEF SlotInv
  <1>8. CASE LoadBlocks(b)
    <2> DEFINE s == reg[b].slot
    <2>1. contents' = contents /\ creatorPin' = creatorPin /\ At(b, "blocks")
      BY <1>8 DEF LoadBlocks
    <2>2. ~Servable(slot[s].state)
      BY <2>1 DEF IInv, LoaderAlone, Loading, At, Servable
    <2>3. /\ s \in Slots /\ slot'[s].state = slot[s].state
          /\ slot'[s].area = slot[s].area /\ slot'[s].pinned = slot[s].pinned
          /\ \A t \in Slots \ {s} : slot'[t] = slot[t]
      BY <1>8, BlocksFields
    <2> HIDE DEF s
    <2> QED BY <1>1, <2>1, <2>2, <2>3 DEF SlotInv
  <1>9. CASE LoadFinish(b) \/ LoadError(b)
    <2> DEFINE s == reg[b].slot
    <2>1. contents' = contents /\ creatorPin' = creatorPin /\ At(b, "fill")
      BY <1>9 DEF LoadFinish, LoadError
    <2>2. slot[s].pinned /\ slot[s].blocks = slot[s].area
      BY <2>1 DEF IInv, PublishedInv, At
    <2>3. /\ s \in Slots /\ slot'[s].blocks = slot[s].blocks
          /\ slot'[s].area = slot[s].area /\ slot'[s].pinned = slot[s].pinned
          /\ \A t \in Slots \ {s} : slot'[t] = slot[t]
      BY <1>9, FinishFields
    <2> HIDE DEF s
    <2>4. \A t \in Slots :
            /\ slot'[t].area = slot[t].area /\ slot'[t].pinned = slot[t].pinned
            /\ slot'[t].blocks = slot[t].blocks
            /\ t # s => slot'[t].state = slot[t].state
      BY <2>3
    <2> QED BY <1>1, <2>1, <2>2, <2>4 DEF SlotInv
  <1>10. CASE EvictClear(b)
    <2> DEFINE s == reg[b].victim
    <2>1. contents' = contents /\ creatorPin' = creatorPin
      BY <1>10 DEF EvictClear
    <2>2. /\ s \in Slots /\ slot'[s].state = "EMPTY"
          /\ slot'[s].area = slot[s].area /\ slot'[s].pinned = slot[s].pinned
          /\ \A t \in Slots \ {s} : slot'[t] = slot[t]
      BY <1>10, ClearFields
    <2>3. ~Servable(slot'[s].state)
      BY <2>2 DEF Servable
    <2> HIDE DEF s
    <2>4. \A t \in Slots :
            /\ slot'[t].area = slot[t].area /\ slot'[t].pinned = slot[t].pinned
            /\ Servable(slot'[t].state) => slot'[t] = slot[t]
      BY <2>2, <2>3
    <2> QED BY <1>1, <2>1, <2>4 DEF SlotInv
  <1>11. CASE EvictCheck(b)
    <2> DEFINE s == reg[b].victim
    <2>1. contents' = contents /\ ~Servable(slot[s].state)
      BY <1>11 DEF EvictCheck, IInv, VictimInv
    <2>2. /\ s \in Slots
          /\ slot'[s].state = slot[s].state /\ slot'[s].area = slot[s].area
          /\ slot'[s].pinned => slot[s].pinned
          /\ slot'[s].pinned => creatorPin' = creatorPin
          /\ creatorPin' = creatorPin
             \/ (slot[s].pinned /\ ~slot'[s].pinned /\ creatorPin' = creatorPin \ {slot[s].area})
          /\ \A t \in Slots \ {s} : slot'[t] = slot[t]
      BY <1>11, CheckFields
    <2> HIDE DEF s
    <2>3. \A t \in Slots : slot'[t].pinned => slot'[t].area \in creatorPin'
      BY <1>1, <2>2 DEF SlotInv
    <2> QED BY <1>1, <2>1, <2>2, <2>3 DEF SlotInv
  <1>12. CASE Write(b)
    <2> DEFINE s == handle[b][reg[b].cc].slot
    <2>1. contents' = contents /\ creatorPin' = creatorPin
      BY <1>12 DEF Write
    <2>2. CASE slot' = slot
      BY <1>1, <2>1, <2>2 DEF SlotInv
    <2>3. CASE /\ reg[b].op = "insert"
               /\ slot'[s].state = slot[s].state
               /\ slot'[s].area = slot[s].area
               /\ slot'[s].pinned = slot[s].pinned
               /\ slot'[s].blocks = slot[s].area
               /\ \A t \in Slots \ {s} : slot'[t] = slot[t]
      <3>1. s \in Slots
        BY <1>12, <2>3, WriterOwns DEF Write
      <3> HIDE DEF s
      <3> QED BY <1>1, <2>1, <2>3, <3>1 DEF SlotInv
    <2> QED BY <1>12, <2>2, <2>3, WriteFields
  <1> QED BY <1>3, <1>4, <1>5, <1>6, <1>7, <1>8, <1>9, <1>10, <1>11, <1>12 DEF SlotSteps

\* While an evictor is at work it has dir->lock: nobody else clears a slot,
\* and no loader publishes one.
LEMMA VictimStep ==
  ASSUME IInv, NEW b \in Backends, Move(b)
  PROVE  VictimInv'
  <1>1. VictimInv /\ MemoryInv /\ LoaderAlone
    BY DEF IInv
  <1>2. \A d \in Backends : reg[d].slot \in Slots /\ reg[d].victim \in Slots
    BY DEF IInv, MemoryInv, RegType
  <1>3. \A c \in Backends \ {b} : pc'[c] = pc[c] /\ reg'[c] = reg[c]
    BY Others
  <1>4. \A c \in Backends \ {b} : Loading(c)' => Loading(c)
    BY <1>3 DEF Loading, At
  <1>5. ASSUME NEW d \in Backends, At(d, "clear")'
        PROVE  Servable(slot'[reg'[d].victim].state)
    <2>1. CASE d # b
      <3>1. At(d, "clear") /\ reg'[d] = reg[d]
        BY <1>3, <1>5, <2>1 DEF At
      <3>2. Servable(slot[reg[d].victim].state) /\ dirLock = d
        BY <1>1, <3>1 DEF VictimInv, IInv, PhaseInv, Phase, Evicting, At
      <3>3. ~EvictClear(b)
        BY <2>1, <3>2 DEF EvictClear, At, IInv, PhaseInv, Phase, Evicting
      <3> QED BY <1>2, <3>1, <3>2, <3>3, SlotChange
    <2>2. CASE d = b
      <3>1. EvictChoose(b)
        BY <1>5, <2>2, Arrivals DEF At
      <3>2. PICK s \in Slots : Servable(slot[s].state)
                               /\ reg' = [reg EXCEPT ![b] = [reg[b] EXCEPT !.victim = s]]
        BY <3>1 DEF EvictChoose
      <3>3. reg[b] \in RegType /\ reg'[b] = [reg[b] EXCEPT !.victim = s]
        BY <1>1, <3>2 DEF MemoryInv
      <3>4. reg'[b].victim = s /\ slot' = slot
        BY <3>1, <3>3 DEF RegType, EvictChoose, shared
      <3> QED BY <2>2, <3>2, <3>4
    <2> QED BY <2>1, <2>2
  <1>6. ASSUME NEW d \in Backends, At(d, "check")'
        PROVE  /\ ~Servable(slot'[reg'[d].victim].state)
               /\ \A c \in Backends : (Loading(c)' /\ reg'[c].slot = reg'[d].victim) =>
                    pc'[c] \in {"admit", "create", "publish"}
    <2>1. CASE d # b
      <3>1. At(d, "check") /\ reg'[d] = reg[d]
        BY <1>3, <1>6, <2>1 DEF At
      <3>2. /\ ~Servable(slot[reg[d].victim].state) /\ dirLock = d /\ d # NoBackend
            /\ \A c \in Backends : (Loading(c) /\ reg[c].slot = reg[d].victim) =>
                 pc[c] \in {"admit", "create", "publish"}
        BY <1>1, <3>1, SlotsAssumption DEF VictimInv, IInv, PhaseInv, Phase, Evicting, At
      <3>3. ~((LoadFinish(b) \/ LoadError(b)) /\ reg[b].slot = reg[d].victim)
        <4> SUFFICES ASSUME LoadFinish(b) \/ LoadError(b), reg[b].slot = reg[d].victim
                     PROVE  FALSE
          OBVIOUS
        <4>1. Loading(b) /\ pc[b] = "fill"
          BY FinishLeaves DEF At
        <4> QED BY <3>2, <4>1
      <3>4. ~Servable(slot'[reg[d].victim].state)
        BY <1>2, <3>2, <3>3, SlotChange
      <3>5. ASSUME NEW c \in Backends, Loading(c)', reg'[c].slot = reg[d].victim
            PROVE  pc'[c] \in {"admit", "create", "publish"}
        <4>1. CASE c # b
          BY <1>3, <1>4, <3>2, <3>5, <4>1
        <4>2. CASE c = b
          <5>1. CASE ReadState(b) /\ pc'[b] = "admit"
            BY <4>2, <5>1
          <5>2. CASE Loading(b) /\ reg'[b].slot = reg[b].slot
            <6>1. pc[b] \in {"admit", "create", "publish"}
              BY <3>2, <3>5, <4>2, <5>2
            <6>2. ~LoadPublish(b) /\ ~DirFree
              BY <3>2 DEF LoadPublish, DirFree
            <6>3. pc'[b] \in {"admit", "create", "publish", "blocks", "fill", "choose", "clear", "check"}
              BY <3>5, <4>2 DEF Loading
            <6>4. pc'[b] \notin {"clear", "check", "fill"}
              BY <6>1, Arrivals DEF EvictChoose, EvictClear, LoadBlocks, At
            <6>5. pc'[b] # "choose" /\ pc'[b] # "blocks"
              BY <6>1, <6>2, Arrivals
            <6> QED BY <4>2, <6>3, <6>4, <6>5
          <5> QED BY <3>5, <4>2, <5>1, <5>2, LoadingStep
        <4> QED BY <4>1, <4>2
      <3> QED BY <3>1, <3>4, <3>5
    <2>2. CASE d = b
      <3> DEFINE s == reg[b].victim
      <3>1. EvictClear(b)
        BY <1>6, <2>2, Arrivals DEF At
      <3>2. s \in Slots /\ Servable(slot[s].state) /\ slot'[s].state = "EMPTY" /\ pc[b] = "clear"
        BY <1>1, <1>2, <3>1, ClearFields DEF EvictClear, VictimInv, At
      <3>3. reg'[b].victim = s /\ reg'[b].slot = reg[b].slot
        <4>1. PICK i : reg' = [reg EXCEPT ![b] = [reg[b] EXCEPT !.vkey = i]]
          BY <3>1 DEF EvictClear
        <4>2. reg[b] \in RegType /\ reg'[b] = [reg[b] EXCEPT !.vkey = i]
          BY <1>1, <4>1 DEF MemoryInv
        <4> QED BY <4>2 DEF RegType
      <3>4. ASSUME NEW c \in Backends, Loading(c)', reg'[c].slot = s
            PROVE  FALSE
        <4>1. Loading(c) /\ reg'[c].slot = reg[c].slot
          <5>1. CASE c # b
            BY <1>3, <1>4, <3>4, <5>1
          <5>2. CASE c = b
            <6>1. ~ReadState(b)
              BY <3>2 DEF ReadState, At
            <6> QED BY <3>3, <3>4, <5>2, <6>1, LoadingStep
          <5> QED BY <5>1, <5>2
        <4>2. slot[s].state = "LOADING"
          BY <1>1, <3>4, <4>1 DEF LoaderAlone
        <4> QED BY <3>2, <4>2 DEF Servable
      <3> QED BY <2>2, <3>2, <3>3, <3>4 DEF Servable
    <2> QED BY <2>1, <2>2
  <1> QED BY <1>5, <1>6 DEF VictimInv

\* The creator pins that go are those of the victims; those that come are
\* those of new areas.
LEMMA PinsKept ==
  ASSUME IInv, NEW b \in Backends, Move(b), NEW a \in creatorPin
  PROVE  a \in creatorPin' \/ (EvictCheck(b) /\ a = slot[reg[b].victim].area /\ slot[reg[b].victim].pinned)
  <1>1. CASE EvictCheck(b)
    BY <1>1, CheckFields
  <1>2. CASE ~EvictCheck(b)
    <2>1. CASE ~SlotSteps(b)
      BY <2>1, SlotKept
    <2>2. CASE SlotSteps(b)
      BY <1>2, <2>2 DEF SlotSteps, SlotLookup, ReadState, LoadCreate, LoadPublish, LoadBlocks,
         LoadFinish, LoadError, Drain, EvictClear, Write
    <2> QED BY <2>1, <2>2
  <1> QED BY <1>1, <1>2

LEMMA CreateFields ==
  ASSUME IInv, NEW b \in Backends, LoadCreate(b)
  PROVE  LET a == Len(contents) + 1 IN
         /\ reg'[b].area = a /\ reg'[b].slot = reg[b].slot
         /\ slot' = slot /\ handle' = handle
         /\ creatorPin' = creatorPin \cup {a} /\ mapped'[b] = mapped[b] \cup {a}
         /\ \A x \in 1..Len(contents) : x # a
         /\ \A x \in 0..Len(contents) : x # a
  <1> DEFINE a == Len(contents) + 1
  <1>1. Len(contents) \in Nat /\ reg[b] \in RegType
    BY DEF IInv, MemoryInv
  <1>2. reg' = [reg EXCEPT ![b] = [reg[b] EXCEPT !.area = a]]
        /\ mapped' = [mapped EXCEPT ![b] = mapped[b] \cup {a}]
    BY DEF LoadCreate
  <1> HIDE DEF a
  <1>3. reg'[b] = [reg[b] EXCEPT !.area = a] /\ mapped'[b] = mapped[b] \cup {a}
    BY <1>2 DEF IInv, MemoryInv
  <1>4. reg'[b].area = a /\ reg'[b].slot = reg[b].slot
    BY <1>1, <1>3 DEF RegType
  <1>5. slot' = slot /\ handle' = handle /\ creatorPin' = creatorPin \cup {a}
    BY DEF LoadCreate, a
  <1>6. (\A x \in 1..Len(contents) : x # a) /\ (\A x \in 0..Len(contents) : x # a)
    BY <1>1 DEF a
  <1> QED BY <1>3, <1>4, <1>5, <1>6 DEF a

\* A new area is nobody else's: no slot's, no attachment's, no loader's.
LEMMA UnpublishedStep ==
  ASSUME IInv, NEW b \in Backends, Move(b)
  PROVE  UnpublishedInv'
  <1>1. UnpublishedInv /\ creatorPin \subseteq 1..Len(contents)
        /\ \A c \in Backends : mapped[c] \subseteq 1..Len(contents)
    BY DEF IInv, MemoryInv
  <1>2. \A c \in Backends \ {b} : pc'[c] = pc[c] /\ reg'[c] = reg[c] /\ handle'[c] = handle[c]
                                  /\ mapped'[c] = mapped[c]
    BY Others
  <1>3. \A c \in Backends : reg[c].slot \in Slots /\ reg[c].victim \in Slots
    BY DEF IInv, MemoryInv, RegType
  <1> SUFFICES ASSUME NEW d \in Backends, At(d, "publish")'
               PROVE  /\ reg'[d].area \in creatorPin' /\ reg'[d].area \in mapped'[d]
                      /\ \A s \in Slots : slot'[s].area # reg'[d].area
                      /\ \A e \in Elems : handle'[d][e].present => handle'[d][e].area # reg'[d].area
                      /\ \A c \in Backends \ {d} : At(c, "publish")' => reg'[c].area # reg'[d].area
    BY DEF UnpublishedInv
  <1>4. CASE d # b
    <2>1. At(d, "publish") /\ reg'[d] = reg[d]
      BY <1>2, <1>4 DEF At
    <2> DEFINE a == reg[d].area
    <2>2. /\ a \in creatorPin /\ a \in mapped[d]
          /\ \A s \in Slots : slot[s].area # a
          /\ \A e \in Elems : handle[d][e].present => handle[d][e].area # a
          /\ \A c \in Backends \ {d} : At(c, "publish") => reg[c].area # a
      BY <1>1, <2>1 DEF UnpublishedInv
    <2>3. a \in creatorPin'
      BY <1>3, <2>2, PinsKept
    <2>4. \A s \in Slots : slot'[s].area # a
      <3> SUFFICES ASSUME NEW s \in Slots PROVE slot'[s].area # a
        OBVIOUS
      <3>1. CASE LoadPublish(b) /\ s = reg[b].slot
        <4>1. At(b, "publish") /\ slot'[s].area = reg[b].area
          BY <3>1, PublishFields DEF LoadPublish
        <4> QED BY <1>4, <2>2, <4>1
      <3>2. CASE slot'[s].area = slot[s].area
        BY <2>2, <3>2
      <3> QED BY <3>1, <3>2, SlotChange
    <2>5. ASSUME NEW c \in Backends \ {d}, At(c, "publish")'
          PROVE  reg'[c].area # a
      <3>1. CASE c # b
        BY <1>2, <2>2, <2>5, <3>1 DEF At
      <3>2. CASE c = b
        <4>1. LoadCreate(b)
          BY <2>5, <3>2, Arrivals DEF At
        <4>2. reg'[b].area = Len(contents) + 1 /\ \A x \in 1..Len(contents) : x # Len(contents) + 1
          BY <4>1, CreateFields
        <4> QED BY <1>1, <2>2, <3>2, <4>2
      <3> QED BY <3>1, <3>2
    <2> QED BY <1>2, <1>4, <2>1, <2>2, <2>3, <2>4, <2>5
  <1>5. CASE d = b
    <2> DEFINE a == Len(contents) + 1
    <2>1. LoadCreate(b)
      BY <1>5, Arrivals DEF At
    <2>2. /\ reg'[b].area = a /\ slot' = slot /\ handle' = handle
          /\ creatorPin' = creatorPin \cup {a} /\ mapped'[b] = mapped[b] \cup {a}
          /\ \A x \in 1..Len(contents) : x # a
          /\ \A x \in 0..Len(contents) : x # a
      BY <2>1, CreateFields
    <2> HIDE DEF a
    <2>3. \A s \in Slots : slot[s].area # a
      BY <2>2 DEF IInv, SlotInv
    <2>4. \A e \in Elems : handle[b][e].present => handle[b][e].area # a
      BY <1>1, <2>2 DEF IInv, TableInv, Table
    <2>5. ASSUME NEW c \in Backends \ {b}, At(c, "publish")'
          PROVE  reg'[c].area # a
      <3>1. At(c, "publish") /\ reg'[c] = reg[c]
        BY <1>2, <2>5 DEF At
      <3>2. reg[c].area \in 1..Len(contents)
        BY <1>1, <3>1 DEF UnpublishedInv
      <3> QED BY <2>2, <3>1, <3>2
    <2> QED BY <1>5, <2>2, <2>3, <2>4, <2>5
  <1> QED BY <1>4, <1>5

\* A loader's slot keeps its area and its pin: its evictor, if it has one
\* still, let dir->lock go before the load was published.
LEMMA PublishedStep ==
  ASSUME IInv, NEW b \in Backends, Move(b)
  PROVE  PublishedInv'
  <1>1. PublishedInv /\ UnpublishedInv /\ LoaderAlone /\ VictimInv /\ MemoryInv
    BY DEF IInv
  <1>2. \A c \in Backends \ {b} : pc'[c] = pc[c] /\ reg'[c] = reg[c] /\ handle'[c] = handle[c]
                                  /\ mapped'[c] = mapped[c]
    BY Others
  <1>3. \A c \in Backends : reg[c].slot \in Slots /\ reg[c].victim \in Slots
    BY DEF IInv, MemoryInv, RegType
  <1> SUFFICES ASSUME NEW d \in Backends
               PROVE  /\ pc'[d] \in {"blocks", "fill"} =>
                           slot'[reg'[d].slot].pinned /\ slot'[reg'[d].slot].area = reg'[d].area
                      /\ pc'[d] = "blocks" =>
                           /\ reg'[d].area \in mapped'[d]
                           /\ \A e \in Elems : handle'[d][e].present => handle'[d][e].area # reg'[d].area
                      /\ pc'[d] = "fill" => slot'[reg'[d].slot].blocks = reg'[d].area
    BY DEF PublishedInv, At
  <1>4. CASE d # b
    <2> SUFFICES ASSUME pc[d] \in {"blocks", "fill"}
                 PROVE  /\ slot'[reg[d].slot].pinned /\ slot'[reg[d].slot].area = reg[d].area
                        /\ pc[d] = "fill" => slot'[reg[d].slot].blocks = reg[d].area
      BY <1>1, <1>2, <1>4 DEF PublishedInv, At
    <2> DEFINE s == reg[d].slot
    <2>1. /\ slot[s].pinned /\ slot[s].area = reg[d].area
          /\ pc[d] = "fill" => slot[s].blocks = reg[d].area
      BY <1>1 DEF PublishedInv, At
    <2>2. Loading(d) /\ slot[s].state = "LOADING" /\ ~Servable(slot[s].state) /\ s \in Slots
      BY <1>1, <1>3 DEF LoaderAlone, Loading, Servable
    <2>3. ~(LoadPublish(b) /\ s = reg[b].slot) /\ ~(LoadBlocks(b) /\ s = reg[b].slot)
      <3>1. LoadPublish(b) \/ LoadBlocks(b) => Loading(b)
        BY DEF LoadPublish, LoadBlocks, At, Loading
      <3> QED BY <1>1, <1>4, <2>2, <3>1 DEF LoaderAlone
    <2>4. ~(EvictCheck(b) /\ s = reg[b].victim)
      BY <1>1, <2>2 DEF EvictCheck, VictimInv
    <2>5. ~(EvictClear(b) /\ s = reg[b].victim)
      BY <1>1, <2>2 DEF EvictClear, VictimInv
    <2> HIDE DEF s
    <2>6. slot'[s].area = slot[s].area /\ slot'[s].pinned = slot[s].pinned
          /\ (slot'[s].blocks = slot[s].blocks \/ slot'[s].blocks = slot[s].area)
      BY <2>2, <2>3, <2>4, <2>5, SlotChange
    <2> QED BY <2>1, <2>6 DEF s
  <1>5. CASE d = b /\ pc'[b] = "blocks"
    <2>1. LoadPublish(b)
      BY <1>5, Arrivals
    <2>2. At(b, "publish") /\ reg' = reg /\ mapped' = mapped /\ handle' = handle
      BY <2>1 DEF LoadPublish
    <2>3. slot'[reg[b].slot].area = reg[b].area /\ slot'[reg[b].slot].pinned
      BY <2>1, PublishFields
    <2>4. reg[b].area \in mapped[b]
          /\ \A e \in Elems : handle[b][e].present => handle[b][e].area # reg[b].area
      BY <1>1, <2>2 DEF UnpublishedInv
    <2> QED BY <1>5, <2>2, <2>3, <2>4
  <1>6. CASE d = b /\ pc'[b] = "fill"
    <2>1. LoadBlocks(b)
      BY <1>6, Arrivals
    <2>2. slot[reg[b].slot].pinned /\ slot[reg[b].slot].area = reg[b].area
      BY <1>1, <2>1 DEF LoadBlocks, At, PublishedInv
    <2>3. /\ slot'[reg[b].slot].area = slot[reg[b].slot].area
          /\ slot'[reg[b].slot].pinned = slot[reg[b].slot].pinned
          /\ slot'[reg[b].slot].blocks = reg[b].area
      BY <2>1, BlocksFields
    <2>4. reg'[b].slot = reg[b].slot /\ reg'[b].area = reg[b].area
      <3>1. PICK e : reg' = [reg EXCEPT ![b] = [reg[b] EXCEPT !.cc = e]]
        BY <2>1 DEF LoadBlocks, StoreHandle
      <3>2. reg[b] \in RegType /\ reg'[b] = [reg[b] EXCEPT !.cc = e]
        BY <1>1, <3>1 DEF MemoryInv
      <3> QED BY <3>2 DEF RegType
    <2> QED BY <1>6, <2>2, <2>3, <2>4
  <1> QED BY <1>4, <1>5, <1>6

-----------------------------------------------------------------------------
(* References                                                              *)

\* The number of an attachment's first reference: 0 is the one published and
\* not yet validated.
First(b, e) == IF At(b, "validate") /\ reg[b].cc = e THEN 0 ELSE 1

\* What is a reference to a slot, before a step and after it.
LEMMA Tokens ==
  ASSUME NEW s
  PROVE  /\ \A b \in Backends, e \in Elems : \A k :
              <<b, e, k>> \in References(s) <=>
                handle[b][e].slot = s /\ k \in First(b, e)..handle[b][e].refs
         /\ \A x \in References(s) : \E b \in Backends, e \in Elems : \E k : x = <<b, e, k>>
  <1> DEFINE Y == {y \in Backends \X Elems : handle[y[1]][y[2]].slot = s}
             R(x) == First(x[1], x[2])..handle[x[1]][x[2]].refs
             T(x) == {<<x[1], x[2], k>> : k \in R(x)}
  <1>1. References(s) = UNION {T(x) : x \in Y}
    BY DEF References, First
  <1>2. ASSUME NEW b \in Backends, NEW e \in Elems
        PROVE  /\ (<<b, e>> \in Y <=> handle[b][e].slot = s)
               /\ R(<<b, e>>) = First(b, e)..handle[b][e].refs
    OBVIOUS
  <1>3. ASSUME NEW b \in Backends, NEW e \in Elems, NEW k
        PROVE  <<b, e, k>> \in References(s) <=> <<b, e>> \in Y /\ k \in R(<<b, e>>)
    <2>1. ASSUME <<b, e, k>> \in References(s)
          PROVE  <<b, e>> \in Y /\ k \in R(<<b, e>>)
      <3>1. PICK x \in Y : <<b, e, k>> \in T(x)
        BY <1>1, <2>1
      <3>2. PICK j \in R(x) : <<b, e, k>> = <<x[1], x[2], j>>
        BY <3>1
      <3>3. x \in Backends \X Elems
        BY <3>1
      <3>4. x = <<b, e>> /\ j = k
        BY <3>2, <3>3
      <3> QED BY <3>1, <3>2, <3>4
    <2>2. ASSUME <<b, e>> \in Y, k \in R(<<b, e>>)
          PROVE  <<b, e, k>> \in References(s)
      <3>1. <<b, e, k>> \in T(<<b, e>>)
        <4> HIDE DEF R
        <4> QED BY <2>2
      <3> HIDE DEF T, Y
      <3> QED BY <1>1, <2>2, <3>1
    <2> QED BY <2>1, <2>2
  <1>4. ASSUME NEW x \in References(s)
        PROVE  \E b \in Backends, e \in Elems : \E k : x = <<b, e, k>>
    <2>1. PICK y \in Y : x \in T(y)
      BY <1>1, <1>4
    <2>2. y[1] \in Backends /\ y[2] \in Elems
      BY <2>1
    <2>3. PICK k : x = <<y[1], y[2], k>>
      <3> HIDE DEF R
      <3> QED BY <2>1
    <2> QED BY <2>2, <2>3
  <1> HIDE DEF Y, R
  <1> QED BY <1>2, <1>3, <1>4

LEMMA TokensNext ==
  ASSUME NEW s
  PROVE  /\ \A b \in Backends, e \in Elems : \A k :
              <<b, e, k>> \in References(s)' <=>
                handle'[b][e].slot = s /\ k \in First(b, e)'..handle'[b][e].refs
         /\ \A x \in References(s)' : \E b \in Backends, e \in Elems : \E k : x = <<b, e, k>>
  <1> DEFINE Y == {y \in Backends \X Elems : handle'[y[1]][y[2]].slot = s}
             R(x) == First(x[1], x[2])'..handle'[x[1]][x[2]].refs
             T(x) == {<<x[1], x[2], k>> : k \in R(x)}
  <1>1. References(s)' = UNION {T(x) : x \in Y}
    BY DEF References, First, At
  <1>2. ASSUME NEW b \in Backends, NEW e \in Elems
        PROVE  /\ (<<b, e>> \in Y <=> handle'[b][e].slot = s)
               /\ R(<<b, e>>) = First(b, e)'..handle'[b][e].refs
    OBVIOUS
  <1>3. ASSUME NEW b \in Backends, NEW e \in Elems, NEW k
        PROVE  <<b, e, k>> \in References(s)' <=> <<b, e>> \in Y /\ k \in R(<<b, e>>)
    <2>1. ASSUME <<b, e, k>> \in References(s)'
          PROVE  <<b, e>> \in Y /\ k \in R(<<b, e>>)
      <3>1. PICK x \in Y : <<b, e, k>> \in T(x)
        BY <1>1, <2>1
      <3>2. PICK j \in R(x) : <<b, e, k>> = <<x[1], x[2], j>>
        BY <3>1
      <3>3. x \in Backends \X Elems
        BY <3>1
      <3>4. x = <<b, e>> /\ j = k
        BY <3>2, <3>3
      <3> QED BY <3>1, <3>2, <3>4
    <2>2. ASSUME <<b, e>> \in Y, k \in R(<<b, e>>)
          PROVE  <<b, e, k>> \in References(s)'
      <3>1. <<b, e, k>> \in T(<<b, e>>)
        <4> HIDE DEF R
        <4> QED BY <2>2
      <3> HIDE DEF T, Y
      <3> QED BY <1>1, <2>2, <3>1
    <2> QED BY <2>1, <2>2
  <1>4. ASSUME NEW x \in References(s)'
        PROVE  \E b \in Backends, e \in Elems : \E k : x = <<b, e, k>>
    <2>1. PICK y \in Y : x \in T(y)
      BY <1>1, <1>4
    <2>2. y[1] \in Backends /\ y[2] \in Elems
      BY <2>1
    <2>3. PICK k : x = <<y[1], y[2], k>>
      <3> HIDE DEF R
      <3> QED BY <2>1
    <2> QED BY <2>2, <2>3
  <1> HIDE DEF Y, R
  <1> QED BY <1>2, <1>3, <1>4

\* As many elements less as are taken away.
LEMMA Fewer ==
  ASSUME NEW S, IsFiniteSet(S), NEW T \in SUBSET S
  PROVE  IsFiniteSet(S \ T) /\ Cardinality(S \ T) = Cardinality(S) - Cardinality(T)
  <1>1. S \cap T = T
    OBVIOUS
  <1> QED BY <1>1, FS_Difference

\* Other steps than the counting ones leave an attachment's references, or
\* remove it, in the process's own hash table, with them.
LEMMA RefsKept ==
  ASSUME IInv, NEW b \in Backends, Move(b), ~AcquireInc(b), ~AcquireValidate(b), ~EndScan(b),
         ~AbortRelease(b)
  PROVE  /\ active' = active
         /\ \A e \in Elems :
              \/ handle'[b][e].slot = handle[b][e].slot /\ handle'[b][e].refs = handle[b][e].refs
              \/ handle'[b][e].refs = 0
  <1>1. active' = active
    <2>1. CASE Quiet(b)
      BY <2>1, QuietFrame
    <2>2. CASE (\E i \in Indexes : BeginScan(b, i) \/ WriterAttach(b, i)) \/ Attach(b) \/ AbortDone(b)
      BY <2>2 DEF BeginScan, WriterAttach, Attach, AbortDone, shared
    <2>3. CASE CountSteps(b)
      BY <2>3 DEF CountSteps, AcquireSnapshot, Resolve, shared
    <2>4. CASE SlotSteps(b)
      BY <2>4 DEF SlotSteps, SlotLookup, ReadState, LoadCreate, LoadPublish, LoadBlocks,
         LoadFinish, LoadError, Drain, EvictClear, EvictCheck, Write
    <2> QED BY <2>1, <2>2, <2>3, <2>4, Groups
  <1> SUFFICES ASSUME NEW e \in Elems
               PROVE  \/ handle'[b][e].slot = handle[b][e].slot
                         /\ handle'[b][e].refs = handle[b][e].refs
                      \/ handle'[b][e].refs = 0
    BY <1>1
  <1>2. handle \in [Backends -> [Elems -> HandleType]] /\ handle[b][e] \in HandleType
        /\ MemoryInv /\ TableInv /\ Phase(b)
    BY DEF IInv, MemoryInv, PhaseInv
  <1> DEFINE Goal == \/ handle'[b][e].slot = handle[b][e].slot
                        /\ handle'[b][e].refs = handle[b][e].refs
                     \/ handle'[b][e].refs = 0
  <1>3. handle' = handle => Goal
    OBVIOUS
  <1>4. ASSUME NEW i, Forget(b, i)
        PROVE  Goal
    <2>1. handle'[b][e] = handle[b][e] \/ handle'[b][e] = [handle[b][e] EXCEPT !.present = FALSE]
      BY <1>2, <1>4, ForgetTypes
    <2> QED BY <1>2, <2>1 DEF HandleType
  <1>5. ASSUME NEW f, NEW a, handle' = [handle EXCEPT ![b][f].blocks = a]
        PROVE  Goal
    BY <1>2, <1>5 DEF HandleType
  <1>6. ASSUME NEW i, NEW s, NEW a, NEW l, StoreHandle(b, i, s, a, l)
        PROVE  Goal
    <2>1. PICK f : handle' = [handle EXCEPT ![b][f] =
                     [present |-> TRUE, key |-> i, area |-> a, slot |-> s,
                      gen |-> slot[s].gen, blocks |-> a, refs |-> 0]]
      BY <1>6 DEF StoreHandle
    <2>2. CASE f = e
      BY <1>2, <2>1, <2>2
    <2>3. CASE f # e
      <3>1. handle'[b][e] = handle[b][e]
        BY <1>2, <2>1, <2>3
      <3> QED BY <3>1
    <2> QED BY <2>2, <2>3
  <1> HIDE DEF Goal
  <1>7. Goal
    <2>1. CASE Quiet(b)
      BY <1>3, <2>1, QuietFrame
    <2>2. CASE \E i \in Indexes : BeginScan(b, i) \/ WriterAttach(b, i)
      BY <1>3, <1>4, <2>2 DEF BeginScan, WriterAttach
    <2>3. CASE Attach(b)
      BY <1>3, <1>6, <2>3 DEF Attach
    <2>4. CASE AbortDone(b)
      <3>1. CASE handle' = [handle EXCEPT ![b] = [f \in Elems |-> NoHandle]]
        BY <1>2, <3>1 DEF NoHandle, Goal
      <3> QED BY <1>3, <2>4, <3>1 DEF AbortDone
    <2>5. CASE CountSteps(b)
      BY <1>5, <2>5 DEF CountSteps, AcquireSnapshot, Resolve
    <2>6. CASE SlotSteps(b)
      <3>1. CASE SlotLookup(b) \/ ReadState(b) \/ LoadCreate(b) \/ LoadPublish(b)
                 \/ LoadFinish(b) \/ LoadError(b) \/ Drain(b) \/ EvictClear(b)
        BY <1>3, <3>1 DEF SlotLookup, ReadState, LoadCreate, LoadPublish, LoadFinish, LoadError,
           Drain, EvictClear
      <3>2. CASE LoadBlocks(b)
        BY <1>6, <3>2 DEF LoadBlocks
      <3>3. CASE EvictCheck(b)
        BY <1>4, <3>3 DEF EvictCheck
      <3>4. CASE Write(b)
        BY <1>3, <1>5, <3>4 DEF Write
      <3> QED BY <2>6, <3>1, <3>2, <3>3, <3>4 DEF SlotSteps
    <2> QED BY <2>1, <2>2, <2>3, <2>4, <2>5, <2>6, Groups
  <1> QED BY <1>7 DEF Goal

\* Attachments that lose references leave every slot covered.
LEMMA RefsLess ==
  ASSUME IInv, NEW b \in Backends, Move(b), active' = active, pc'[b] # "validate",
         \A e \in Elems :
           \/ handle'[b][e].slot = handle[b][e].slot /\ handle'[b][e].refs = handle[b][e].refs
           \/ handle'[b][e].refs = 0
  PROVE  RefsInv'
  <1> SUFFICES ASSUME NEW s \in Slots
               PROVE  IsFiniteSet(References(s)') /\ active'[s] >= Cardinality(References(s)')
    BY DEF RefsInv
  <1>1. References(s)' \in SUBSET References(s)
    <2> SUFFICES ASSUME NEW x \in References(s)'
                 PROVE  x \in References(s)
      OBVIOUS
    <2>1. PICK c \in Backends, e \in Elems : \E k : x = <<c, e, k>>
      BY TokensNext
    <2>2. PICK k : x = <<c, e, k>>
      BY <2>1
    <2>3. handle'[c][e].slot = s /\ k \in First(c, e)'..handle'[c][e].refs
      BY <2>2, TokensNext
    <2>4. handle[c][e].slot = s /\ k \in First(c, e)..handle[c][e].refs
      <3>1. CASE c # b
        <4>1. handle'[c] = handle[c] /\ First(c, e)' = First(c, e)
          BY <3>1, Others DEF First, At
        <4> QED BY <2>3, <4>1
      <3>2. CASE c = b
        <4>1. First(b, e)' = 1 /\ First(b, e) \in {0, 1}
          BY DEF First, At
        <4>2. handle[b][e].refs \in Nat
          BY DEF IInv, MemoryInv, HandleType
        <4>3. handle'[b][e].refs # 0
          BY <2>3, <3>2, <4>1
        <4>4. handle'[b][e].slot = handle[b][e].slot /\ handle'[b][e].refs = handle[b][e].refs
          BY <4>3
        <4> QED BY <2>3, <3>2, <4>1, <4>2, <4>4
      <3> QED BY <3>1, <3>2
    <2> QED BY <2>2, <2>4, Tokens
  <1>2. IsFiniteSet(References(s)) /\ active[s] >= Cardinality(References(s)) /\ active[s] \in Nat
    BY DEF IInv, RefsInv, MemoryInv
  <1>3. /\ IsFiniteSet(References(s)') /\ Cardinality(References(s)') <= Cardinality(References(s))
    BY <1>1, <1>2, FS_Subset
  <1>4. Cardinality(References(s)) \in Nat /\ Cardinality(References(s)') \in Nat
    BY <1>2, <1>3, FS_CardinalityType
  <1> QED BY <1>2, <1>3, <1>4

\* A reference there was not before is one of the backend that takes a step.
LEMMA OwnTokens ==
  ASSUME IInv, NEW b \in Backends, Move(b), NEW s, NEW x \in References(s)'
  PROVE  \/ x \in References(s)
         \/ \E e \in Elems : \E k :
              x = <<b, e, k>> /\ handle'[b][e].slot = s /\ k \in First(b, e)'..handle'[b][e].refs
  <1>1. PICK c \in Backends, e \in Elems : \E k : x = <<c, e, k>>
    BY TokensNext
  <1>2. PICK k : x = <<c, e, k>>
    BY <1>1
  <1>3. handle'[c][e].slot = s /\ k \in First(c, e)'..handle'[c][e].refs
    BY <1>2, TokensNext
  <1>4. CASE c # b
    <2>1. handle'[c] = handle[c] /\ First(c, e)' = First(c, e)
      BY <1>4, Others DEF First, At
    <2> QED BY <1>2, <1>3, <2>1, Tokens
  <1>5. CASE c = b
    BY <1>2, <1>3, <1>5
  <1> QED BY <1>4, <1>5

LEMMA Under ==
  ASSUME NEW S, IsFiniteSet(S), NEW T \in SUBSET S, NEW n \in Int, Cardinality(S) <= n
  PROVE  IsFiniteSet(T) /\ n \in Nat /\ n >= Cardinality(T)
  <1>1. IsFiniteSet(T) /\ Cardinality(T) <= Cardinality(S)
    BY FS_Subset
  <1>2. Cardinality(S) \in Nat /\ Cardinality(T) \in Nat
    BY <1>1, FS_CardinalityType
  <1> QED BY <1>1, <1>2

\* What is counted at the start of a step, of one attachment.
LEMMA Counted ==
  ASSUME IInv, NEW b \in Backends, NEW e \in Elems
  PROVE  /\ handle[b][e] \in HandleType /\ handle[b][e].slot \in Slots /\ handle[b][e].refs \in Nat
         /\ \A s \in Slots : /\ IsFiniteSet(References(s)) /\ active[s] >= Cardinality(References(s))
                             /\ active[s] \in Nat /\ Cardinality(References(s)) \in Nat
  <1>1. handle[b][e] \in HandleType
    BY DEF IInv, MemoryInv
  <1>2. \A s \in Slots : /\ IsFiniteSet(References(s)) /\ active[s] >= Cardinality(References(s))
                         /\ active[s] \in Nat
    BY DEF IInv, RefsInv, MemoryInv
  <1> QED BY <1>1, <1>2, FS_CardinalityType DEF HandleType

\* scan_acquire's increment: one reference more, counted.
LEMMA IncStep ==
  ASSUME IInv, NEW b \in Backends, AcquireInc(b)
  PROVE  active' \in [Slots -> Nat] /\ RefsInv'
  <1> DEFINE e == reg[b].cc
             z == handle[b][e].slot
             y == <<b, e, 0>>
  <1>1. e \in Elems /\ Move(b)
    BY DEF AcquireInc, At, IInv, PhaseInv, Phase, Move, Step
  <1>2. z \in Slots /\ active \in [Slots -> Nat]
    BY <1>1, Counted DEF IInv, MemoryInv
  <1>3. active' = [active EXCEPT ![z] = active[z] + 1]
    BY DEF AcquireInc
  <1>4. handle' = handle /\ reg' = reg
    BY DEF AcquireInc
  <1>5. ASSUME NEW s \in Slots
        PROVE  References(s)' \in SUBSET (IF s = z THEN References(s) \cup {y} ELSE References(s))
    <2> SUFFICES ASSUME NEW x \in References(s)', x \notin References(s)
                 PROVE  s = z /\ x = y
      OBVIOUS
    <2>1. PICK f \in Elems : \E k :
            x = <<b, f, k>> /\ handle'[b][f].slot = s /\ k \in First(b, f)'..handle'[b][f].refs
      BY <1>1, OwnTokens
    <2>2. PICK k : x = <<b, f, k>> /\ handle[b][f].slot = s /\ k \in First(b, f)'..handle[b][f].refs
      BY <1>4, <2>1
    <2>3. k \notin First(b, f)..handle[b][f].refs
      BY <2>2, Tokens
    <2>4. First(b, f) = 1 /\ First(b, f)' = IF e = f /\ First(b, f)' = 0 THEN 0 ELSE 1
      BY <1>4 DEF First, At, AcquireInc
    <2>5. handle[b][f].refs \in Nat
      BY Counted
    <2>6. e = f /\ k = 0
      <3> HIDE DEF e
      <3> QED BY <2>2, <2>3, <2>4, <2>5
    <2> QED BY <2>2, <2>6
  <1> HIDE DEF z, y
  <1>6. active' \in [Slots -> Nat] /\ active'[z] = active[z] + 1
        /\ \A s \in Slots \ {z} : active'[s] = active[s]
    BY <1>2, <1>3
  <1>7. ASSUME NEW s \in Slots
        PROVE  IsFiniteSet(References(s)') /\ active'[s] >= Cardinality(References(s)')
    <2>1. /\ IsFiniteSet(References(s)) /\ active[s] >= Cardinality(References(s))
          /\ active[s] \in Nat /\ Cardinality(References(s)) \in Nat
      BY <1>1, Counted
    <2>2. CASE s # z
      BY <1>5, <1>6, <2>1, <2>2, Under
    <2>3. CASE s = z
      <3>1. IsFiniteSet(References(s) \cup {y})
            /\ Cardinality(References(s) \cup {y}) <= Cardinality(References(s)) + 1
        <4>1. /\ IsFiniteSet(References(s) \cup {y})
              /\ \/ Cardinality(References(s) \cup {y}) = Cardinality(References(s))
                 \/ Cardinality(References(s) \cup {y}) = Cardinality(References(s)) + 1
          BY <2>1, FS_AddElement
        <4> QED BY <2>1, <4>1
      <3>2. Cardinality(References(s) \cup {y}) <= active'[s] /\ active'[s] \in Int
        <4>1. Cardinality(References(s) \cup {y}) \in Nat
          BY <3>1, FS_CardinalityType
        <4> QED BY <1>6, <2>1, <2>3, <3>1, <4>1
      <3> QED BY <1>5, <2>3, <3>1, <3>2, Under
    <2> QED BY <2>2, <2>3
  <1> QED BY <1>6, <1>7 DEF RefsInv

\* The second look: the reference becomes the attachment's, or is given back.
LEMMA ValidateStep ==
  ASSUME IInv, NEW b \in Backends, AcquireValidate(b)
  PROVE  active' \in [Slots -> Nat] /\ RefsInv'
  <1> DEFINE e == reg[b].cc
             h == handle[b][e]
             z == h.slot
             y == <<b, e, 0>>
             w == <<b, e, h.refs + 1>>
  <1>1. e \in Elems /\ Move(b) /\ At(b, "validate") /\ MemoryInv /\ TableInv
        /\ handle \in [Backends -> [Elems -> HandleType]]
    BY DEF AcquireValidate, At, IInv, MemoryInv, PhaseInv, Phase, Move, Step
  <1>2. z \in Slots /\ active \in [Slots -> Nat] /\ h \in HandleType /\ h.refs \in Nat
    BY <1>1, Counted DEF IInv, MemoryInv
  <1>3. \A f \in Elems : First(b, f)' = 1
    <2>1. pc'[b] # "validate"
      <3>1. ~AcquireInc(b)
        BY <1>1 DEF AcquireInc, At
      <3> QED BY <1>1, <3>1, Arrivals
    <2> QED BY <2>1 DEF First, At
  <1>4. \A f \in Elems : First(b, f) = IF f = e THEN 0 ELSE 1
    BY <1>1 DEF First
  <1>5. y \in References(z) /\ \A s \in Slots : s # z => y \notin References(s)
    <2>1. 0 \in First(b, e)..h.refs
      BY <1>1, <1>2, <1>4
    <2> QED BY <1>1, <2>1, Tokens
  <1>6. CASE /\ handle' = [handle EXCEPT ![b][e].refs = h.refs + 1]
             /\ UNCHANGED active
    <2>1. ASSUME NEW s \in Slots
          PROVE  References(s)' \in SUBSET (IF s = z THEN (References(s) \ {y}) \cup {w} ELSE References(s))
      <3> SUFFICES ASSUME NEW x \in References(s)'
                   PROVE  x # y /\ (x \in References(s) \/ (s = z /\ x = w))
        BY <1>5
      <3>1. x # y
        <4>1. x = y => 0 \in 1..handle'[b][e].refs
          BY <1>1, <1>3, TokensNext
        <4> QED BY <4>1
      <3>2. CASE \E f \in Elems : \E k :
              x = <<b, f, k>> /\ handle'[b][f].slot = s /\ k \in First(b, f)'..handle'[b][f].refs
        <4>1. PICK f \in Elems : \E k :
                x = <<b, f, k>> /\ handle'[b][f].slot = s /\ k \in First(b, f)'..handle'[b][f].refs
          BY <3>2
        <4>2. PICK k : x = <<b, f, k>> /\ handle'[b][f].slot = s /\ k \in 1..handle'[b][f].refs
          BY <1>3, <4>1
        <4>3. CASE f # e
          <5>1. handle'[b][f] = handle[b][f] /\ First(b, f) = 1
            <6> HIDE DEF e
            <6> QED BY <1>1, <1>4, <1>6, <4>3
          <5> QED BY <4>2, <5>1, Tokens
        <4>4. CASE f = e
          <5>1. handle'[b][e] = [h EXCEPT !.refs = h.refs + 1]
            <6> HIDE DEF e
            <6> QED BY <1>1, <1>6
          <5>2. handle'[b][e].slot = z /\ handle'[b][e].refs = h.refs + 1
            <6> HIDE DEF h, e
            <6> QED BY <1>2, <5>1 DEF HandleType
          <5>3. s = z /\ k \in 1..(h.refs + 1)
            BY <4>2, <4>4, <5>2
          <5>4. CASE k = h.refs + 1
            BY <4>2, <4>4, <5>3, <5>4
          <5>5. CASE k # h.refs + 1
            <6>1. k \in 0..h.refs
              <7> HIDE DEF h
              <7> QED BY <1>2, <5>3, <5>5
            <6>2. First(b, e) = 0
              BY <1>1, <1>4
            <6> QED BY <1>1, <4>2, <4>4, <5>3, <6>1, <6>2, Tokens
          <5> QED BY <5>4, <5>5
        <4> QED BY <4>3, <4>4
      <3> QED BY <1>1, <3>1, <3>2, OwnTokens
    <2>2. active' = active
      BY <1>6
    <2> HIDE DEF z, y, w
    <2>3. ASSUME NEW s \in Slots
          PROVE  IsFiniteSet(References(s)') /\ active'[s] >= Cardinality(References(s)')
      <3>1. /\ IsFiniteSet(References(s)) /\ active[s] >= Cardinality(References(s))
            /\ active[s] \in Nat /\ Cardinality(References(s)) \in Nat
        BY <1>1, Counted
      <3>2. CASE s # z
        BY <2>1, <2>2, <3>1, <3>2, Under
      <3>3. CASE s = z
        <4> DEFINE S == (References(s) \ {y}) \cup {w}
        <4>1. IsFiniteSet(References(s) \ {y})
              /\ Cardinality(References(s) \ {y}) = Cardinality(References(s)) - 1
          BY <1>5, <3>1, <3>3, FS_RemoveElement
        <4>2. IsFiniteSet(S)
              /\ \/ Cardinality(S) = Cardinality(References(s) \ {y})
                 \/ Cardinality(S) = Cardinality(References(s) \ {y}) + 1
          BY <4>1, FS_AddElement
        <4>3. Cardinality(S) <= active'[s] /\ active'[s] \in Int
          <5> HIDE DEF S
          <5> QED BY <2>2, <3>1, <4>1, <4>2
        <4> QED BY <2>1, <3>3, <4>2, <4>3, Under
      <3> QED BY <3>2, <3>3
    <2> QED BY <1>2, <2>2, <2>3 DEF RefsInv
  <1>7. CASE /\ active' = [active EXCEPT ![z] = active[z] - 1]
             /\ Forget(b, reg[b].idx) \/ UNCHANGED handle
    <2>1. \A f \in Elems : handle'[b][f].slot = handle[b][f].slot /\ handle'[b][f].refs = handle[b][f].refs
      <3> SUFFICES ASSUME NEW f \in Elems
                   PROVE  handle'[b][f].slot = handle[b][f].slot /\ handle'[b][f].refs = handle[b][f].refs
        OBVIOUS
      <3>1. CASE UNCHANGED handle
        BY <3>1
      <3>2. CASE Forget(b, reg[b].idx)
        <4>1. handle'[b][f] = handle[b][f] \/ handle'[b][f] = [handle[b][f] EXCEPT !.present = FALSE]
          BY <1>1, <3>2, ForgetTypes
        <4>2. handle[b][f] \in HandleType
          BY <1>1
        <4> QED BY <4>1, <4>2 DEF HandleType
      <3> QED BY <1>7, <3>1, <3>2
    <2>2. ASSUME NEW s \in Slots
          PROVE  References(s)' \in SUBSET (References(s) \ {y})
      <3> SUFFICES ASSUME NEW x \in References(s)'
                   PROVE  x # y /\ x \in References(s)
        OBVIOUS
      <3>1. x # y
        <4>1. x = y => 0 \in 1..handle'[b][e].refs
          BY <1>1, <1>3, TokensNext
        <4> QED BY <4>1
      <3>2. CASE \E f \in Elems : \E k :
              x = <<b, f, k>> /\ handle'[b][f].slot = s /\ k \in First(b, f)'..handle'[b][f].refs
        <4>1. PICK f \in Elems : \E k :
                x = <<b, f, k>> /\ handle'[b][f].slot = s /\ k \in First(b, f)'..handle'[b][f].refs
          BY <3>2
        <4>2. PICK k : x = <<b, f, k>> /\ handle[b][f].slot = s /\ k \in 1..handle[b][f].refs
          BY <1>3, <2>1, <4>1
        <4>3. k \in First(b, f)..handle[b][f].refs
          <5>1. First(b, f) \in {0, 1} /\ handle[b][f].refs \in Nat
            BY Counted DEF First
          <5> QED BY <4>2, <5>1
        <4> QED BY <4>2, <4>3, Tokens
      <3> QED BY <1>1, <3>1, <3>2, OwnTokens
    <2> HIDE DEF z, y
    <2>3. ASSUME NEW s \in Slots
          PROVE  IsFiniteSet(References(s)') /\ active'[s] \in Nat
                 /\ active'[s] >= Cardinality(References(s)')
      <3>1. /\ IsFiniteSet(References(s)) /\ active[s] >= Cardinality(References(s))
            /\ active[s] \in Nat /\ Cardinality(References(s)) \in Nat
        BY <1>1, Counted
      <3>2. IsFiniteSet(References(s) \ {y})
            /\ Cardinality(References(s) \ {y}) =
                 IF s = z THEN Cardinality(References(s)) - 1 ELSE Cardinality(References(s))
        BY <1>5, <3>1, FS_RemoveElement
      <3>3. active'[s] = IF s = z THEN active[s] - 1 ELSE active[s]
        BY <1>2, <1>7
      <3>4. Cardinality(References(s) \ {y}) <= active'[s] /\ active'[s] \in Int
        BY <3>1, <3>2, <3>3
      <3> QED BY <2>2, <3>2, <3>4, Under
    <2>4. active' \in [Slots -> Int]
      BY <1>2, <1>7
    <2> QED BY <2>3, <2>4 DEF RefsInv
  <1> QED BY <1>6, <1>7 DEF AcquireValidate

\* n references of one attachment given back.
LEMMA ReleaseStep ==
  ASSUME IInv, NEW b \in Backends, Move(b), pc[b] # "validate", NEW e \in Elems, NEW n \in Nat,
         n <= handle[b][e].refs, NEW ret \in {"idle", "abort"}, Release(b, e, n, ret)
  PROVE  active' \in [Slots -> Nat] /\ RefsInv'
  <1> DEFINE h == handle[b][e]
             z == h.slot
             T == {<<b, e, k>> : k \in (h.refs - n + 1)..h.refs}
  <1>1. z \in Slots /\ active \in [Slots -> Nat] /\ h \in HandleType /\ h.refs \in Nat
        /\ handle \in [Backends -> [Elems -> HandleType]]
    BY Counted DEF IInv, MemoryInv
  <1>2. \A f \in Elems : First(b, f)' = 1 /\ First(b, f) = 1
    <2>1. pc'[b] # "validate"
      <3>1. pc'[b] \in {ret, "drain"}
        BY GotoTypes DEF Release, Go, IInv
      <3> QED BY <3>1
    <2> QED BY <2>1 DEF First, At
  <1>3. /\ handle' = [handle EXCEPT ![b][e].refs = h.refs - n]
        /\ active' = [active EXCEPT ![z] = active[z] - n]
    BY DEF Release
  <1>4. /\ handle'[b][e] = [h EXCEPT !.refs = h.refs - n]
        /\ \A f \in Elems \ {e} : handle'[b][f] = handle[b][f]
    BY <1>1, <1>3
  <1>5. handle'[b][e].slot = z /\ handle'[b][e].refs = h.refs - n
    <2> HIDE DEF h
    <2> QED BY <1>1, <1>4 DEF HandleType
  <1>6. T \in SUBSET References(z)
    <2> SUFFICES ASSUME NEW k \in (h.refs - n + 1)..h.refs
                 PROVE  <<b, e, k>> \in References(z)
      OBVIOUS
    <2>1. k \in 1..h.refs
      <3>1. h.refs - n + 1 >= 1
        <4>1. n <= h.refs
          OBVIOUS
        <4> HIDE DEF h
        <4> QED BY <1>1, <4>1
      <3> HIDE DEF h
      <3> QED BY <1>1, <3>1
    <2> QED BY <1>2, <2>1, Tokens
  <1>7. IsFiniteSet(T) /\ Cardinality(T) = n
    <2> DEFINE lo == h.refs - n + 1
               f == [k \in lo..h.refs |-> <<b, e, k>>]
    <2>1. lo \in Int /\ h.refs \in Int /\ IF lo > h.refs THEN n = 0 ELSE h.refs - lo + 1 = n
      <3> HIDE DEF h
      <3> QED BY <1>1
    <2>2. IsFiniteSet(lo..h.refs) /\ Cardinality(lo..h.refs) = n
      <3> HIDE DEF lo, h
      <3> QED BY <2>1, FS_Interval
    <2>3. f \in Bijection(lo..h.refs, T)
      <3>1. f \in [lo..h.refs -> T]
        OBVIOUS
      <3>2. \A j, k \in lo..h.refs : f[j] = f[k] => j = k
        OBVIOUS
      <3>3. \A y \in T : \E k \in lo..h.refs : f[k] = y
        OBVIOUS
      <3> HIDE DEF f, T, lo, h
      <3> QED BY <3>1, <3>2, <3>3 DEF Bijection, Injection, Surjection, IsInjective
    <2>4. ExistsBijection(lo..h.refs, T)
      <3> HIDE DEF f, T, lo, h
      <3> QED BY <2>3 DEF ExistsBijection
    <2> HIDE DEF f, T, lo, h
    <2> QED BY <2>2, <2>4, FS_Bijection
  <1>8. ASSUME NEW s \in Slots
        PROVE  References(s)' \in SUBSET (IF s = z THEN References(s) \ T ELSE References(s))
    <2> SUFFICES ASSUME NEW x \in References(s)'
                 PROVE  x \in References(s) /\ (s = z => x \notin T)
      OBVIOUS
    <2>1. x \in References(s)
      <3>1. CASE \E f \in Elems : \E k :
              x = <<b, f, k>> /\ handle'[b][f].slot = s /\ k \in First(b, f)'..handle'[b][f].refs
        <4>1. PICK f \in Elems : \E k :
                x = <<b, f, k>> /\ handle'[b][f].slot = s /\ k \in First(b, f)'..handle'[b][f].refs
          BY <3>1
        <4>2. PICK k : x = <<b, f, k>> /\ handle'[b][f].slot = s /\ k \in 1..handle'[b][f].refs
          BY <1>2, <4>1
        <4>3. handle[b][f].slot = s /\ k \in 1..handle[b][f].refs
          <5>1. CASE f # e
            <6>1. handle'[b][f] = handle[b][f]
              BY <1>4, <5>1
            <6> QED BY <4>2, <6>1
          <5>2. CASE f = e
            <6>1. handle[b][f].slot = s /\ k \in 1..(h.refs - n)
              BY <1>5, <4>2, <5>2
            <6>2. k \in 1..h.refs
              <7> HIDE DEF h
              <7> QED BY <1>1, <6>1
            <6> QED BY <5>2, <6>1, <6>2
          <5> QED BY <5>1, <5>2
        <4> QED BY <1>2, <4>2, <4>3, Tokens
      <3> QED BY <3>1, OwnTokens
    <2>2. ASSUME x \in T
          PROVE  FALSE
      <3>1. PICK k \in (h.refs - n + 1)..h.refs : x = <<b, e, k>>
        BY <2>2
      <3>2. k \in 1..(h.refs - n)
        BY <1>2, <1>5, <3>1, TokensNext
      <3> HIDE DEF h
      <3> QED BY <1>1, <3>1, <3>2
    <2> QED BY <2>1, <2>2
  <1> HIDE DEF z, T, h
  <1>9. active' \in [Slots -> Int]
    BY <1>1, <1>3
  <1>10. ASSUME NEW s \in Slots
         PROVE  IsFiniteSet(References(s)') /\ active'[s] \in Nat
                /\ active'[s] >= Cardinality(References(s)')
    <2>1. /\ IsFiniteSet(References(s)) /\ active[s] >= Cardinality(References(s))
          /\ active[s] \in Nat /\ Cardinality(References(s)) \in Nat
      BY Counted
    <2>2. CASE s # z
      <3>1. active'[s] = active[s]
        BY <1>1, <1>3, <2>2
      <3> QED BY <1>8, <2>1, <2>2, <3>1, Under
    <2>3. CASE s = z
      <3>1. IsFiniteSet(References(s) \ T)
            /\ Cardinality(References(s) \ T) = Cardinality(References(s)) - n
        BY <1>6, <1>7, <2>1, <2>3, Fewer
      <3>2. active'[s] = active[s] - n
        BY <1>1, <1>3, <2>3
      <3>3. Cardinality(References(s) \ T) <= active'[s] /\ active'[s] \in Int
        BY <2>1, <3>1, <3>2
      <3> QED BY <1>8, <2>3, <3>1, <3>3, Under
    <2> QED BY <2>2, <2>3
  <1> QED BY <1>9, <1>10 DEF RefsInv

\* Every slot stays covered.
LEMMA RefsStep ==
  ASSUME IInv, NEW b \in Backends, Move(b)
  PROVE  active' \in [Slots -> Nat] /\ RefsInv'
  <1>1. active \in [Slots -> Nat] /\ MemoryInv
    BY DEF IInv, MemoryInv
  <1>2. CASE AcquireInc(b)
    BY <1>2, IncStep
  <1>3. CASE AcquireValidate(b)
    BY <1>3, ValidateStep
  <1>4. CASE EndScan(b) \/ AbortRelease(b)
    <2>1. pc[b] # "validate" /\ ~AcquireInc(b)
      BY <1>4 DEF EndScan, AbortRelease, AcquireInc, At
    <2>2. \A e \in Elems : handle[b][e].refs \in Nat
      BY Counted
    <2>3. CASE EndScan(b)
      <3>1. PICK k \in DOMAIN scans[b] :
              IF handle[b][scans[b][k].cc].refs > 0
              THEN Release(b, scans[b][k].cc, 1, "idle")
              ELSE UNCHANGED <<handle, active, reg, pc>>
        BY <2>3 DEF EndScan
      <3>2. scans[b][k].cc \in Elems
        BY <1>1 DEF MemoryInv, ScanType
      <3>3. CASE handle[b][scans[b][k].cc].refs > 0
        <4>1. Release(b, scans[b][k].cc, 1, "idle") /\ 1 <= handle[b][scans[b][k].cc].refs
          BY <2>2, <3>1, <3>2, <3>3
        <4> QED BY <2>1, <3>2, <4>1, ReleaseStep
      <3>4. CASE UNCHANGED <<handle, active, reg, pc>>
        <4>1. active' = active /\ handle' = handle /\ pc'[b] # "validate"
          BY <2>1, <3>4
        <4> QED BY <1>1, <4>1, RefsLess
      <3> QED BY <3>1, <3>3, <3>4
    <2>4. CASE AbortRelease(b)
      <3>1. PICK e \in Elems : Release(b, e, handle[b][e].refs, "abort")
        BY <2>4 DEF AbortRelease, Held
      <3>2. handle[b][e].refs <= handle[b][e].refs
        BY <2>2
      <3> QED BY <2>1, <2>2, <3>1, <3>2, ReleaseStep
    <2> QED BY <1>4, <2>3, <2>4
  <1>5. CASE ~AcquireInc(b) /\ ~AcquireValidate(b) /\ ~EndScan(b) /\ ~AbortRelease(b)
    <2>1. /\ active' = active
          /\ \A e \in Elems :
               \/ handle'[b][e].slot = handle[b][e].slot /\ handle'[b][e].refs = handle[b][e].refs
               \/ handle'[b][e].refs = 0
      BY <1>5, RefsKept
    <2>2. pc'[b] # "validate"
      BY <1>5, Arrivals
    <2> QED BY <1>1, <2>1, <2>2, RefsLess
  <1> QED BY <1>2, <1>3, <1>4, <1>5

-----------------------------------------------------------------------------
(* The invariant holds                                                     *)

LEMMA InitInv == Init => IInv
  <1> SUFFICES ASSUME Init PROVE IInv
    OBVIOUS
  <1>1. MemoryInv
    BY InitMemory
  <1>2. /\ \A b \in Backends : pc[b] = "idle"
        /\ \A b \in Backends, e \in Elems : handle[b][e] = NoHandle
        /\ \A s \in Slots : slot[s] = FreeSlot
        /\ creatorPin = {} /\ contents = <<>> /\ \A s \in Slots : active[s] = 0
    BY DEF Init
  <1>3. \A b \in Backends, e \in Elems : ~handle[b][e].present /\ handle[b][e].refs = 0
    BY <1>2 DEF NoHandle
  <1>4. \A b \in Backends : ~Loading(b)
    BY <1>2 DEF Loading
  <1>5. TableInv
    <2> SUFFICES ASSUME NEW b \in Backends PROVE Table(b)
      BY DEF TableInv
    <2>1. freeList[b] = [k \in Elems |-> k]
      BY DEF Init
    <2>2. IsInjective(freeList[b]) /\ ToSet(freeList[b]) = Elems
      BY <2>1 DEF IsInjective, ToSet
    <2> QED BY <1>3, <2>2 DEF Table
  <1>6. PhaseInv
    BY <1>2 DEF PhaseInv, Phase, At, Working, Evicting
  <1>7. SlotInv
    <2>1. \A s \in Slots : slot[s].area = 0 /\ ~slot[s].pinned /\ ~Servable(slot[s].state)
      BY <1>2 DEF FreeSlot, NoArea, Servable
    <2>2. Len(contents) = 0
      BY <1>2
    <2> QED BY <2>1, <2>2 DEF SlotInv
  <1>8. LoaderAlone /\ VictimInv /\ UnpublishedInv /\ PublishedInv
    BY <1>2, <1>4 DEF LoaderAlone, VictimInv, UnpublishedInv, PublishedInv, At
  <1>9. GenInv
    BY <1>3, <1>4 DEF GenInv, Fresh
  <1>10. RefsInv
    <2> SUFFICES ASSUME NEW s \in Slots
                 PROVE  IsFiniteSet(References(s)) /\ active[s] >= Cardinality(References(s))
      BY DEF RefsInv
    <2>1. References(s) = {}
      <3> SUFFICES ASSUME NEW x \in References(s) PROVE FALSE
        OBVIOUS
      <3>1. PICK b \in Backends, e \in Elems : \E k : x = <<b, e, k>>
        BY Tokens
      <3>2. PICK k : x = <<b, e, k>>
        BY <3>1
      <3>3. k \in First(b, e)..0
        BY <1>3, <3>2, Tokens
      <3>4. First(b, e) = 1
        BY <1>2 DEF First, At
      <3> QED BY <3>3, <3>4
    <2> QED BY <1>2, <2>1, FS_EmptySet
  <1> QED BY <1>1, <1>5, <1>6, <1>7, <1>8, <1>9, <1>10 DEF IInv

LEMMA StepInv ==
  ASSUME IInv, NEW b \in Backends, Move(b)
  PROVE  IInv'
  <1>1. active' \in [Slots -> Nat] /\ RefsInv'
    BY RefsStep
  <1>2. MemoryInv' /\ TableInv'
    <2>1. MemoryInv /\ TableInv
      BY DEF IInv
    <2>2. CASE Quiet(b)
      <3>1. UNCHANGED <<mapped, handle, freeList>>
        BY <2>2, QuietFrame
      <3> QED BY <2>1, <2>2, <3>1, QuietMemory, TableSame
    <2>3. CASE (\E i \in Indexes : BeginScan(b, i) \/ WriterAttach(b, i)) \/ Attach(b) \/ AbortDone(b)
      BY <2>3, TablesMemory
    <2>4. CASE CountSteps(b)
      BY <1>1, <2>4, CountMemory
    <2>5. CASE SlotSteps(b)
      BY <2>5, SlotMemory
    <2> QED BY <2>2, <2>3, <2>4, <2>5, Groups
  <1>3. PhaseInv' /\ SlotInv' /\ LoaderAlone' /\ VictimInv'
    BY PhaseStep, SlotStep, LoaderStep, VictimStep
  <1>4. UnpublishedInv' /\ PublishedInv'
    BY UnpublishedStep, PublishedStep
  <1>5. GenInv'
    BY <1>2, GenStep
  <1> QED BY <1>1, <1>2, <1>3, <1>4, <1>5 DEF IInv

LEMMA Inductive == IInv /\ [Next]_vars => IInv'
  <1> SUFFICES ASSUME IInv, [Next]_vars PROVE IInv'
    OBVIOUS
  <1>1. CASE Next
    <2>1. PICK b \in Backends : Move(b)
      BY <1>1 DEF Next, Move
    <2> QED BY <2>1, StepInv
  <1>2. CASE UNCHANGED vars
    <2> USE <1>2 DEF vars
    <2>1. MemoryInv'
      BY DEF IInv, MemoryInv
    <2>2. TableInv'
      BY TableSame DEF IInv
    <2>3. PhaseInv'
      BY DEF IInv, PhaseInv, Phase, At
    <2>4. SlotInv'
      BY DEF IInv, SlotInv
    <2>5. LoaderAlone'
      BY DEF IInv, LoaderAlone, Loading
    <2>6. VictimInv'
      BY DEF IInv, VictimInv, Loading, At
    <2>7. UnpublishedInv'
      BY DEF IInv, UnpublishedInv, At
    <2>8. PublishedInv'
      BY DEF IInv, PublishedInv, At
    <2>9. GenInv'
      BY DEF IInv, GenInv, Fresh, Loading, At
    <2>10. RefsInv'
      BY DEF IInv, RefsInv, References, At
    <2> QED BY <2>1, <2>2, <2>3, <2>4, <2>5, <2>6, <2>7, <2>8, <2>9, <2>10 DEF IInv
  <1> QED BY <1>1, <1>2

LEMMA Invariance == Spec => []IInv
  BY SlotsAssumption, InitInv, Inductive, PTL DEF Spec

-----------------------------------------------------------------------------
(* The theorems                                                            *)

\* Every counter of a slot and of an attachment is a natural number, and a
\* process's table has every element either in use or free
\* (active_scans, acorn_cc_attach_store, acorn_cc_forget_attach).
THEOREM TypeCorrect == Spec => []TypeOK
  <1>1. IInv => TypeOK
    <2> SUFFICES ASSUME IInv PROVE TypeOK
      OBVIOUS
    <2>1. \A x \in 1..Len(contents) : x \in Areas
      <3>1. Len(contents) \in Nat /\ Len(contents) <= MaxAreas /\ MaxAreas \in Nat
        BY SlotsAssumption DEF IInv, MemoryInv
      <3> QED BY <3>1 DEF Areas
    <2>2. creatorPin \subseteq Areas /\ mapped \in [Backends -> SUBSET Areas]
      BY <2>1 DEF IInv, MemoryInv
    <2>3. \A b \in Backends : ToSet(freeList[b]) = {e \in Elems : ~handle[b][e].present}
      BY DEF IInv, TableInv, Table
    <2> QED BY <2>2, <2>3 DEF IInv, MemoryInv, TypeOK
  <1> QED BY <1>1, Invariance, PTL

\* No handle of the slot remembers a reference, and no scan is about to have
\* one of it validated.
Unreferenced(s) ==
  \A b \in Backends, e \in Elems : handle[b][e].slot = s =>
    handle[b][e].refs = 0 /\ ~(At(b, "validate") /\ reg[b].cc = e)

\* active_scans counts at least every reference that a handle remembers and
\* every one that is published and not yet validated, so that what an evictor
\* concludes from reading 0 is that the slot has none of these (scan_acquire,
\* release_one_ref, release_all_scan_refs).  It may not conclude that no scan is
\* open: a rolled-back savepoint makes the handle forget the outer scan's.
THEOREM RefsCounted ==
  Spec => []RefsCovered /\ [](\A s \in Slots : active[s] = 0 => Unreferenced(s))
  <1>1. IInv => RefsCovered
    BY DEF IInv, RefsInv, RefsCovered
  <1>2. IInv => \A s \in Slots : active[s] = 0 => Unreferenced(s)
    <2> SUFFICES ASSUME IInv, NEW s \in Slots, active[s] = 0,
                        NEW b \in Backends, NEW e \in Elems, handle[b][e].slot = s
                 PROVE  handle[b][e].refs = 0 /\ ~(At(b, "validate") /\ reg[b].cc = e)
      BY DEF Unreferenced
    <2>1. References(s) = {}
      <3>1. IsFiniteSet(References(s)) /\ Cardinality(References(s)) <= 0
        BY DEF IInv, RefsInv
      <3>2. Cardinality(References(s)) \in Nat
        BY <3>1, FS_CardinalityType
      <3>3. Cardinality(References(s)) = 0
        BY <3>1, <3>2
      <3> QED BY <3>1, <3>3, FS_EmptySet
    <2>2. handle[b][e].refs \in Nat
      BY DEF IInv, MemoryInv, HandleType
    <2>3. \A k : <<b, e, k>> \notin References(s)
      BY <2>1
    <2>4. \A k \in First(b, e)..handle[b][e].refs : FALSE
      BY <2>3, Tokens
    <2> QED BY <2>2, <2>4 DEF First
  <1> QED BY <1>1, <1>2, Invariance, PTL

\* The area of a servable slot has its creator's pin, and the slot records
\* it: attaching under dir->lock is safe (acorn_cc_attach, evict_slot).
THEOREM ServableHasPin == Spec => []ServablePinned
  <1>1. IInv => ServablePinned
    BY DEF IInv, SlotInv, ServablePinned
  <1> QED BY <1>1, Invariance, PTL

\* While an attachment is of the slot's generation, the slot's area and block
\* directory are the attachment's, and mapped (resolve_blocks, writer_attach).
THEOREM GenerationGuards == Spec => []GuardSound
  <1>1. IInv => GuardSound
    BY DEF IInv, GenInv, TableInv, Table, GuardSound
  <1> QED BY <1>1, Invariance, PTL

\* An insert that passed its test under wlock stays in the slot's incarnation
\* until it lets go (acorn_codecache_insert).
THEOREM InsertsStay == Spec => []InsertOwnIncarnation
  <1>1. IInv => InsertOwnIncarnation
    <2> SUFFICES ASSUME IInv, NEW b \in Backends, At(b, "write"), reg[b].op = "insert"
                 PROVE  LET h == handle[b][reg[b].cc] IN
                        /\ h.area \in mapped[b]
                        /\ slot[h.slot].area = h.area /\ slot[h.slot].gen = h.gen
      BY DEF InsertOwnIncarnation
    <2> QED BY WriterOwns
  <1> QED BY <1>1, Invariance, PTL

\* One loader per slot, and nobody moves a slot out of LOADING but its loader
\* (acorn_cc_load's compare-and-swap).
THEOREM LoadsAlone == Spec => []LoaderAlone
  <1>1. IInv => LoaderAlone
    BY DEF IInv
  <1> QED BY <1>1, Invariance, PTL

=============================================================================
