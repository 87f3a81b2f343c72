------------------------------ MODULE MemFlush ------------------------------
(***************************************************************************)
(* The in-memory graph of a Tier 2 build and its flush to an empty index   *)
(* (acorn_build.c).  The location of every tuple is computed before any is *)
(* written, by a simulation of page packing (acorn_mem_preassign_tids);    *)
(* the tuples then go to the last page or to a new one                     *)
(* (acorn_append_tuple), and their TIDs are put into the neighbour slots   *)
(* last.  The code never compares the two except in an Assert.             *)
(*                                                                         *)
(* Sizes are small numbers.  A tuple carries the row it was written for    *)
(* (`of`) where the code has its heap TID and vector.                      *)
(***************************************************************************)
EXTENDS NeighborSelection, SequencesExt

CONSTANTS
  PageSpace,   \* what a page holds, line pointers included
  ElementSize, \* acorn_append_tuple's size of an element tuple
  EntrySize    \* of a co-located entry

VARIABLES
  index,  \* the reloptions the build runs with
  nodes,  \* the node array: node id i is row nodes[i]
  nbr     \* nbr[e]: the neighbour slots of node e, <<>> before it is pushed

LinePointer == 1
HeaderSize  == 1

-----------------------------------------------------------------------------
(* Geometry (acorn_t2_page.h) *)

LayerM(layer) == IF layer = 0 THEN index.m + index.payload_m ELSE index.m
TotalSlots(level) == (level + 1) * index.m + index.payload_m
Start0(e) == NeighborStart(index.m, Level[e], 0)

LayerSlots(e, layer) ==
  LET start == NeighborStart(index.m, Level[e], layer)
  IN start..(start + LayerM(layer) - 1)

(* HNSW_MAX_SIZE: the largest tuple a page holds. *)
MaxSize == PageSpace - LinePointer

(* Co-located entries in the neighbour tuple, in a continuation chunk, and *)
(* the chunks the rest takes.                                              *)
PrimaryCap(level) ==
  LET base == HeaderSize + TotalSlots(level) + HeaderSize
  IN IF base >= MaxSize THEN 0 ELSE (MaxSize - base) \div EntrySize
ContCap == (MaxSize - HeaderSize) \div EntrySize
InPrimary(e) == Min({LayerM(0), PrimaryCap(Level[e])})
NConts(e) ==
  IF index.inline /\ ContCap > 0
  THEN (LayerM(0) - InPrimary(e) + ContCap - 1) \div ContCap ELSE 0

-----------------------------------------------------------------------------
(* What is written, in which order *)

(* A tuple to write; chunk 0 is the neighbour tuple itself. *)
Key(type, e, chunk) == [type |-> type, of |-> e, chunk |-> chunk]

(* Pass 1 writes each node's neighbour tuple and its continuation chunks,  *)
(* pass 2 the element tuples.                                              *)
NeighborKeys(e) ==
  [c \in 1..(NConts(e) + 1) |->
     IF c = 1 THEN Key("neighbor", e, 0) ELSE Key("chunk", e, c - 1)]

WriteOrder ==
  FlattenSeq([i \in DOMAIN nodes |-> NeighborKeys(nodes[i])])
    \o [i \in DOMAIN nodes |-> Key("element", nodes[i], 0)]

(* The layer-0 slots whose entries tuple k holds: how many, after how many.*)
Before(k) == IF k.chunk = 0 THEN 0 ELSE InPrimary(k.of) + (k.chunk - 1) * ContCap
NHere(k) ==
  IF ~index.inline \/ k.type = "element" THEN 0
  ELSE IF k.chunk = 0 THEN InPrimary(k.of)
  ELSE Min({LayerM(0) - Before(k), ContCap})

Size(k) ==
  CASE k.type = "element"  -> ElementSize
    [] k.type = "chunk"    -> HeaderSize + NHere(k) * EntrySize
    [] k.type = "neighbor" ->
         HeaderSize + TotalSlots(Level[k.of])
           + (IF index.inline THEN HeaderSize + NHere(k) * EntrySize ELSE 0)

-----------------------------------------------------------------------------
(* acorn_mem_preassign_tids *)

NoTid == <<0, 0>>

SimPageInit == [blkno |-> 1, free |-> PageSpace, nitems |-> 0]

(* Variant: the line pointer is not counted. *)
SimPageFitsBare(sp, size) == sp.free >= size

SimPageFits(sp, size) == sp.free - LinePointer >= size

SimPageAlloc(sp, size) ==
  LET at == IF SimPageFits(sp, size) THEN sp
            ELSE [SimPageInit EXCEPT !.blkno = sp.blkno + 1]
  IN [at EXCEPT !.free = @ - LinePointer - size, !.nitems = @ + 1]

(* PreassignedTids[k]: the location of tuple k. *)
PreassignedTids ==
  LET order == WriteOrder
      sim[i \in 0..Len(order)] ==
        IF i = 0 THEN SimPageInit ELSE SimPageAlloc(sim[i - 1], Size(order[i]))
  IN [k \in Range(order) |->
        LET i == CHOOSE j \in DOMAIN order : order[j] = k
        IN <<sim[i].blkno, sim[i].nitems>>]

-----------------------------------------------------------------------------
(* Pages: block b of the index is pages[b], the meta page apart *)

FreeSpace(page) ==
  PageSpace - LinePointer
    - MapThenSumSet(LAMBDA o : page[o].size + LinePointer, DOMAIN page)

AppendTuple(pages, tuple) ==
  IF pages # <<>> /\ FreeSpace(Last(pages)) >= tuple.size
  THEN [pages EXCEPT ![Len(pages)] = Append(@, tuple)]
  ELSE Append(pages, <<tuple>>)

(* acorn_mem_fill_inline_entry: an entry names its target's element tuple. *)
TidOf(tids, e) == IF e = None THEN NoTid ELSE tids[Key("element", e, 0)]

(* What passes 1 and 2 write for k, with the slots still invalid. *)
TupleFor(k, tids) ==
  [type    |-> k.type,
   of      |-> k.of,
   size    |-> Size(k),
   nbrtid  |-> IF k.type = "element" THEN tids[Key("neighbor", k.of, 0)] ELSE NoTid,
   slots   |-> [s \in DOMAIN nbr[k.of] |-> NoTid],
   entries |-> [j \in 1..NHere(k) |->
                  TidOf(tids, nbr[k.of][Start0(k.of) + Before(k) + j - 1])],
   next    |-> IF k.type # "element" /\ k.chunk < NConts(k.of)
               THEN tids[Key("chunk", k.of, k.chunk + 1)] ELSE NoTid]

(* Pass 3 goes back to the neighbour tuples at their assigned locations.   *)
Patched(pages, tids) ==
  LET owner(b, o) == {e \in Range(nodes) : tids[Key("neighbor", e, 0)] = <<b, o>>}
  IN [b \in DOMAIN pages |-> [o \in DOMAIN pages[b] |->
        IF owner(b, o) = {} THEN pages[b][o]
        ELSE LET e == CHOOSE x \in owner(b, o) : TRUE
             IN [pages[b][o] EXCEPT
                   !.slots = [s \in DOMAIN nbr[e] |-> TidOf(tids, nbr[e][s])]]]]

(* acorn_maybe_update_entry. *)
UpdateEntry(disk, tid, level) ==
  IF disk.entry = NoTid \/ level > disk.level
  THEN [disk EXCEPT !.entry = tid, !.level = level] ELSE disk

EmptyIndex == [pages |-> <<>>, entry |-> NoTid, level |-> -1]

(* acorn_mem_flush, with `entry` the entry node. *)
Flush(disk, entry) ==
  LET order == WriteOrder
      tids  == PreassignedTids
      pass[i \in 0..Len(order)] ==
        IF i = 0 THEN disk.pages ELSE AppendTuple(pass[i - 1], TupleFor(order[i], tids))
  IN IF nodes = <<>> THEN disk
     ELSE UpdateEntry([disk EXCEPT !.pages = Patched(pass[Len(order)], tids)],
                      TidOf(tids, entry), Level[entry])

-----------------------------------------------------------------------------
(* What a reader of the index finds, from TIDs alone *)

Tids(disk) == {<<b, o>> : b \in DOMAIN disk.pages, o \in 1..PageSpace}
Stored(disk) == {t \in Tids(disk) : t[2] \in DOMAIN disk.pages[t[1]]}
At(disk, tid) == disk.pages[tid[1]][tid[2]]

ElementTids(disk) == {t \in Stored(disk) : At(disk, t).type = "element"}

Names(disk, tid, e) ==
  IF e = None THEN tid = NoTid
  ELSE tid \in ElementTids(disk) /\ At(disk, tid).of = e

(* The co-located entries of a neighbour tuple, along its chain of chunks. *)
Entries(disk, tid) ==
  LET chain[i \in 0..(index.m + index.payload_m)] ==
        IF i = 0 THEN [next |-> At(disk, tid).next, got |-> At(disk, tid).entries]
        ELSE LET prev == chain[i - 1]
             IN IF prev.next \notin Stored(disk) THEN prev
                ELSE [next |-> At(disk, prev.next).next,
                      got  |-> prev.got \o At(disk, prev.next).entries]
  IN chain[index.m + index.payload_m].got

(* Element e as read: one element tuple, its neighbour tuple, the element  *)
(* tuples of its neighbours behind the slots, and an entry for each slot   *)
(* of layer 0.                                                             *)
ReadsAs(disk, e) ==
  /\ Cardinality({t \in ElementTids(disk) : At(disk, t).of = e}) = 1
  /\ \A t \in ElementTids(disk) : At(disk, t).of = e =>
       LET n == At(disk, t).nbrtid
       IN /\ n \in Stored(disk)
          /\ At(disk, n).type = "neighbor" /\ At(disk, n).of = e
          /\ \A s \in DOMAIN nbr[e] : Names(disk, At(disk, n).slots[s], nbr[e][s])
          /\ index.inline =>
               Entries(disk, n) = [j \in 1..LayerM(0) |->
                                     At(disk, n).slots[Start0(e) + j - 1]]
=============================================================================
