---------------------------- MODULE ParallelBuild ----------------------------
(***************************************************************************)
(* The Tier 2 index build (acorn_build.c): a leader and its workers share  *)
(* a heap scan and one graph in an arena of fixed size.  When a node does  *)
(* not fit, whoever notices it first flushes the graph to the index, and   *)
(* the rows left go through the single-tuple insert; else the leader       *)
(* flushes at the end.  A build with one participant is the serial build,  *)
(* whose memory budget is the arena.                                       *)
(*                                                                         *)
(* A step is what a participant does under one lock it takes and gives     *)
(* back (allocatorLock, partLock, a node's lock); flushLock and entryLock, *)
(* held for longer, can be read off the participants' own state.  While    *)
(* flushLock is held exclusively nobody else touches the graph or the      *)
(* index, so what is done under it is one step.                            *)
(***************************************************************************)
EXTENDS MemFlush

CONSTANTS
  Participants, \* the leader and the workers launched
  Indexes,      \* the reloptions and budgets considered
  Efc           \* acorn_ef_construction

ASSUME BuildAssumption ==
  /\ IsFiniteSet(Elements) /\ DOMAIN Partition = Elements
  /\ Participants # {} /\ Efc \in Nat \ {0}
  /\ \A o \in Indexes : o.m \in Nat \ {0} /\ o.payload_m \in Nat /\ o.arena \in Nat

VARIABLES
  entry,      \* entry_id and entry_level of AcornShared
  part_entry, \* part_entry[p]: the first member of partition p
  flushed,    \* the graph has been written to the index
  taken,      \* the rows the parallel scan has handed out
  work,       \* work[p]: what participant p is doing, its own variables
  indtuples,  \* rows indexed
  writes,     \* what has been written to the index: the flush, inserts
  built       \* the leader has finished

graph == <<nodes, nbr, entry, part_entry>>
vars == <<index, graph, flushed, taken, work, indtuples, writes, built>>

Idle == [pc |-> "scan", row |-> None, hold |-> "none", entry_level |-> -1,
         ep |-> None, lc |-> 0, restricted |-> FALSE, C |-> {}, W |-> {},
         visited |-> {}, cands |-> {}, gsel |-> <<>>, rev |-> <<>>]

Init ==
  /\ index \in Indexes
  /\ nodes = <<>>
  /\ nbr = [e \in Elements |-> <<>>]
  /\ entry = [id |-> None, level |-> -1]
  /\ part_entry = [q \in Range(Partition) |-> None]
  /\ flushed = FALSE
  /\ taken = {}
  /\ work = [p \in Participants |-> Idle]
  /\ indtuples = 0
  /\ writes = <<>>
  /\ built = FALSE

Become(p, r) == work' = [work EXCEPT ![p] = r]

-----------------------------------------------------------------------------
(* Locks *)

(* flushLock, in SHARED mode from the push of a node to the end of its     *)
(* insert.                                                                 *)
InMemory == {"wait", "entry", "wait_exclusive", "entry_exclusive",
             "descend", "search", "link", "register"}
HoldsFlushLock(p) == work[p].pc \in InMemory

(* entryWaitLock, while its holder waits for entryLock. *)
EntryWaitLockFree == \A p \in Participants : work[p].pc # "entry_exclusive"

(* entryLock. *)
EntryLockFree == \A p \in Participants : work[p].hold = "none"
EntryLockShareable == \A p \in Participants : work[p].hold # "exclusive"

-----------------------------------------------------------------------------
(* The scan, and room for a node *)

TakeRow(p) ==
  /\ work[p].pc = "scan"
  /\ \E e \in Elements \ taken :
       /\ taken' = taken \cup {e}
       /\ Become(p, [work[p] EXCEPT !.pc = "insert", !.row = e])
  /\ UNCHANGED <<index, graph, flushed, indtuples, writes, built>>

ScanDone(p) ==
  /\ work[p].pc = "scan" /\ taken = Elements
  /\ Become(p, [work[p] EXCEPT !.pc = "done"])
  /\ UNCHANGED <<index, graph, flushed, taken, indtuples, writes, built>>

(* A node takes its vector and its slots from the arena. *)
NodeCost(e) == 1 + TotalSlots(Level[e])
ArenaUsed ==
  LET used[i \in 0..Len(nodes)] ==
        IF i = 0 THEN 0 ELSE used[i - 1] + NodeCost(nodes[i])
  IN used[Len(nodes)]

(* Variant: only the number of nodes is checked. *)
FitsByCount(e) == Len(nodes) < index.max_nodes

Fits(e) ==
  /\ Len(nodes) < index.max_nodes
  /\ ArenaUsed + NodeCost(e) <= index.arena

(* Variant: the new node is registered for its partition at once. *)
PushRegistered(p) ==
  LET e == work[p].row
  IN /\ work[p].pc = "insert" /\ ~flushed /\ Fits(e)
     /\ nodes' = Append(nodes, e)
     /\ nbr' = [nbr EXCEPT ![e] = [s \in 0..(TotalSlots(Level[e]) - 1) |-> None]]
     /\ part_entry' = [part_entry EXCEPT ![Partition[e]] = IF @ = None THEN e ELSE @]
     /\ Become(p, [work[p] EXCEPT !.pc = "wait"])
     /\ UNCHANGED <<index, entry, flushed, taken, indtuples, writes, built>>

(* acorn_mem_push_node. *)
Push(p) ==
  LET e == work[p].row
  IN /\ work[p].pc = "insert" /\ ~flushed /\ Fits(e)
     /\ nodes' = Append(nodes, e)
     /\ nbr' = [nbr EXCEPT ![e] = [s \in 0..(TotalSlots(Level[e]) - 1) |-> None]]
     /\ Become(p, [work[p] EXCEPT !.pc = "wait"])
     /\ UNCHANGED <<index, entry, part_entry, flushed, taken, indtuples, writes, built>>

NoRoom(p) ==
  /\ work[p].pc = "insert" /\ (flushed \/ ~Fits(work[p].row))
  /\ Become(p, [work[p] EXCEPT !.pc = "spill"])
  /\ UNCHANGED <<index, graph, flushed, taken, indtuples, writes, built>>

-----------------------------------------------------------------------------
(* Reading the entry point (acorn_mem_insert_node) *)

WaitForEntry(p) ==
  /\ work[p].pc = "wait" /\ EntryWaitLockFree
  /\ Become(p, [work[p] EXCEPT !.pc = "entry"])
  /\ UNCHANGED <<index, graph, flushed, taken, indtuples, writes, built>>

(* Seeding a beam search of layer lc at ep. *)
Search(r, ep, lc, restricted) ==
  [r EXCEPT !.pc = "search", !.ep = ep, !.lc = lc, !.restricted = restricted,
            !.C = {ep}, !.W = {ep}, !.visited = {ep}]

(* The entry point is known and its lock held: descend, or search at once. *)
Start(r, hold) ==
  LET q == [r EXCEPT !.hold = hold, !.entry_level = entry.level]
  IN IF entry.level > Level[r.row]
     THEN [q EXCEPT !.pc = "descend", !.ep = entry.id, !.lc = entry.level]
     ELSE Search(q, entry.id, entry.level, FALSE)

(* Variant: only the first node asks for the lock exclusively. *)
MayUpdateEntryFirst(e) == entry.id = None

MayUpdateEntry(e) == entry.id = None \/ Level[e] > entry.level

(* Variant: the shared lock is still held when the exclusive one is asked  *)
(* for.                                                                    *)
ReadEntryUpgrade(p) ==
  LET r == work[p]
  IN /\ r.pc = "entry" /\ EntryLockShareable
     /\ Become(p, IF MayUpdateEntry(r.row)
                  THEN [r EXCEPT !.pc = "wait_exclusive", !.hold = "shared"]
                  ELSE Start(r, "shared"))
     /\ UNCHANGED <<index, graph, flushed, taken, indtuples, writes, built>>

ReadEntry(p) ==
  LET r == work[p]
  IN /\ r.pc = "entry" /\ EntryLockShareable
     /\ Become(p, IF MayUpdateEntry(r.row) THEN [r EXCEPT !.pc = "wait_exclusive"]
                  ELSE Start(r, "shared"))
     /\ UNCHANGED <<index, graph, flushed, taken, indtuples, writes, built>>

WaitForExclusive(p) ==
  /\ work[p].pc = "wait_exclusive" /\ EntryWaitLockFree
  /\ Become(p, [work[p] EXCEPT !.pc = "entry_exclusive"])
  /\ UNCHANGED <<index, graph, flushed, taken, indtuples, writes, built>>

(* The entry point may have been set or raised meanwhile; the first node   *)
(* has nothing to link.                                                    *)
ReadEntryExclusive(p) ==
  LET r == work[p]
  IN /\ r.pc = "entry_exclusive" /\ EntryLockFree
     /\ IF entry.id = None
        THEN /\ entry' = [id |-> r.row, level |-> Level[r.row]]
             /\ Become(p, [r EXCEPT !.pc = "register"])
        ELSE /\ entry' = entry
             /\ Become(p, Start(r, "exclusive"))
     /\ UNCHANGED <<index, nodes, nbr, part_entry, flushed, taken, indtuples, writes, built>>

-----------------------------------------------------------------------------
(* Searching.  Another node's slots are copied under its lock. *)

CopySlots(n, layer) == {nbr[n][s] : s \in LayerSlots(n, layer)} \ {None}

(* One turn of acorn_mem_greedy_descend. *)
Descend(p) ==
  LET r == work[p]
      e == r.row
      nearer == {n \in CopySlots(r.ep, r.lc) : Dist(n, e) < Dist(r.ep, e)}
  IN /\ r.pc = "descend"
     /\ Become(p, IF nearer # {} THEN [r EXCEPT !.ep = Closest(e, nearer)]
                  ELSE IF r.lc - 1 > Level[e] THEN [r EXCEPT !.lc = @ - 1]
                  ELSE Search(r, r.ep, r.lc - 1, FALSE))
     /\ UNCHANGED <<index, graph, flushed, taken, indtuples, writes, built>>

(* acorn_mem_search_layer, and acorn_mem_search_partition where restricted.*)
(* A node too far for W is kept as a candidate here; it only ends the loop *)
(* at its turn.                                                            *)
SearchOver(r) ==
  r.C # {} => /\ Cardinality(r.W) >= Efc
              /\ Dist(Closest(r.row, r.C), r.row) > Dist(Furthest(r.row, r.W), r.row)

Expand(p) ==
  LET r == work[p]
      e == r.row
      c == Closest(e, r.C)
      read == CopySlots(c, r.lc) \ r.visited
      kept == {n \in read : /\ Level[n] >= r.lc
                            /\ r.restricted => Partition[n] = Partition[e]}
  IN /\ r.pc = "search" /\ ~SearchOver(r)
     /\ Become(p, [r EXCEPT !.C = (@ \ {c}) \cup kept,
                            !.visited = @ \cup read,
                            !.W = Range(Nearest(e, @ \cup kept, Efc))])
     /\ UNCHANGED <<index, graph, flushed, taken, indtuples, writes, built>>

-----------------------------------------------------------------------------
(* Wiring the node's own slots; reverse edges are only noted *)

Select(e, S, k) ==
  IF index.diversify THEN SelectDiverse(e, S, k) ELSE Nearest(e, S, k)

(* The reverse edges for the selection sel: each target, and the range of  *)
(* its slots, from `off` slots into the layer on.                          *)
Edges(sel, layer, off, count, payload) ==
  [i \in DOMAIN sel |->
     LET at == NeighborStart(index.m, Level[sel[i]], layer) + off
     IN [target |-> sel[i], range |-> at..(at + count - 1), payload |-> payload]]

(* The next layer starts from the nearest candidate; after layer 0 the     *)
(* reverse edges are due.                                                  *)
BelowLayer(r, cands) ==
  IF r.lc = 0 THEN [r EXCEPT !.pc = "link", !.ep = None, !.restricted = FALSE, !.C = {},
                             !.W = {}, !.visited = {}, !.cands = {}, !.gsel = <<>>]
  ELSE Search(r, Closest(r.row, cands), r.lc - 1, FALSE)

SelectLayer(p) ==
  LET r == work[p]
      e == r.row
      sel == Select(e, r.W, LayerM(r.lc))
  IN /\ r.pc = "search" /\ ~r.restricted /\ SearchOver(r)
     /\ ~(r.lc = 0 /\ index.payload_edges)
     /\ nbr' = [nbr EXCEPT ![e] = Put(@, NeighborStart(index.m, Level[e], r.lc), sel)]
     /\ Become(p, BelowLayer([r EXCEPT !.rev = @ \o Edges(sel, r.lc, 0, LayerM(r.lc), FALSE)],
                             r.W))
     /\ UNCHANGED <<index, nodes, entry, part_entry, flushed, taken, indtuples, writes, built>>

(* What the global half gsel and the members psel leave of the payload     *)
(* half goes to the next best candidates, without reverse edges.           *)
PayloadHalf(e, cands, gsel, psel) ==
  psel \o Nearest(e, cands \ (Range(gsel) \cup Range(psel)), index.payload_m - Len(psel))

Layer0Edges(gsel, psel) ==
  Edges(psel, 0, index.m, index.payload_m, TRUE) \o Edges(gsel, 0, 0, index.m, FALSE)

(* Layer 0 with payload edges: the global half; then the members of the    *)
(* partition, if it has an entry and is not too small to be worth it.      *)
SelectGlobalHalf(p) ==
  LET r == work[p]
      e == r.row
      gsel == Select(e, r.W, index.m)
      part == part_entry[Partition[e]]
      wired == Put(nbr[e], Start0(e), gsel)
  IN /\ r.pc = "search" /\ ~r.restricted /\ SearchOver(r)
     /\ r.lc = 0 /\ index.payload_edges
     /\ IF part # None /\ Partition[e] \notin index.gated
        THEN /\ nbr' = [nbr EXCEPT ![e] = wired]
             /\ Become(p, Search([r EXCEPT !.cands = r.W, !.gsel = gsel], part, 0, TRUE))
        ELSE /\ nbr' = [nbr EXCEPT ![e] = Put(wired, Start0(e) + index.m,
                                              PayloadHalf(e, r.W, gsel, <<>>))]
             /\ Become(p, BelowLayer([r EXCEPT !.rev = @ \o Layer0Edges(gsel, <<>>)], r.W))
     /\ UNCHANGED <<index, nodes, entry, part_entry, flushed, taken, indtuples, writes, built>>

SelectPayloadHalf(p) ==
  LET r == work[p]
      e == r.row
      psel == Select(e, r.W \ Range(r.gsel), index.payload_m)
  IN /\ r.pc = "search" /\ r.restricted /\ SearchOver(r)
     /\ nbr' = [nbr EXCEPT ![e] = Put(@, Start0(e) + index.m,
                                      PayloadHalf(e, r.cands, r.gsel, psel))]
     /\ Become(p, BelowLayer([r EXCEPT !.rev = @ \o Layer0Edges(r.gsel, psel)], r.cands))
     /\ UNCHANGED <<index, nodes, entry, part_entry, flushed, taken, indtuples, writes, built>>

-----------------------------------------------------------------------------
(* Publishing the node *)

(* acorn_mem_add_reverse_edge: the whole read-modify-write under the       *)
(* target's lock.                                                          *)
Link(p) ==
  LET r == work[p]
      edge == Head(r.rev)
      slots == [s \in edge.range |-> nbr[edge.target][s]]
      at == TargetSlot(index.diversify, r.row, edge.target, slots, edge.payload)
  IN /\ r.pc = "link" /\ r.rev # <<>>
     /\ nbr' = IF at = None THEN nbr ELSE [nbr EXCEPT ![edge.target][at] = r.row]
     /\ Become(p, [r EXCEPT !.rev = Tail(@)])
     /\ UNCHANGED <<index, nodes, entry, part_entry, flushed, taken, indtuples, writes, built>>

(* The end of acorn_mem_insert_node. *)
UpdateEntryPoint(p) ==
  LET r == work[p]
      e == r.row
  IN /\ r.pc = "link" /\ r.rev = <<>>
     /\ entry' = IF Level[e] > r.entry_level THEN [id |-> e, level |-> Level[e]] ELSE entry
     /\ Become(p, [r EXCEPT !.pc = "register", !.hold = "none"])
     /\ UNCHANGED <<index, nodes, nbr, part_entry, flushed, taken, indtuples, writes, built>>

(* acorn_mem_register_part_entry, and flushLock given back. *)
Register(p) ==
  LET e == work[p].row
  IN /\ work[p].pc = "register"
     /\ part_entry' = IF index.payload_edges
                      THEN [part_entry EXCEPT ![Partition[e]] = IF @ = None THEN e ELSE @]
                      ELSE part_entry
     /\ indtuples' = indtuples + 1
     /\ Become(p, Idle)
     /\ UNCHANGED <<index, nodes, nbr, entry, flushed, taken, writes, built>>

-----------------------------------------------------------------------------
(* Under flushLock in EXCLUSIVE mode *)

(* Variant: not asked again once the lock has been granted. *)
FlushDueAlways == TRUE

FlushDue == ~flushed

Flushed == IF FlushDue THEN Append(writes, [op |-> "flush"]) ELSE writes

(* acorn_insert_element draws a level of its own. *)
Insert(e, level) == [op |-> "insert", row |-> e, level |-> level]

Spill(p) ==
  /\ work[p].pc = "spill"
  /\ \A q \in Participants : ~HoldsFlushLock(q)
  /\ \E level \in Range(Level) : writes' = Append(Flushed, Insert(work[p].row, level))
  /\ flushed' = TRUE
  /\ indtuples' = indtuples + 1
  /\ Become(p, Idle)
  /\ UNCHANGED <<index, graph, taken, built>>

(* acorn_build_internal, after acorn_parallel_heapscan: every participant  *)
(* launched has signalled the end of its scan.                             *)
LeaderFlush ==
  /\ ~built /\ \A p \in Participants : work[p].pc = "done"
  /\ writes' = Flushed
  /\ flushed' = TRUE
  /\ built' = TRUE
  /\ UNCHANGED <<index, graph, taken, work, indtuples>>

Step(p) ==
  \/ TakeRow(p) \/ ScanDone(p) \/ Push(p) \/ NoRoom(p)
  \/ WaitForEntry(p) \/ ReadEntry(p) \/ WaitForExclusive(p) \/ ReadEntryExclusive(p)
  \/ Descend(p) \/ Expand(p) \/ SelectLayer(p) \/ SelectGlobalHalf(p) \/ SelectPayloadHalf(p)
  \/ Link(p) \/ UpdateEntryPoint(p) \/ Register(p) \/ Spill(p)

Next == LeaderFlush \/ \E p \in Participants : Step(p)

Spec == Init /\ [][Next]_vars

(* Processes are scheduled, and a lock that stays free is granted.  Nobody *)
(* is promised a lock that others keep taking: the rows run out.           *)
FairSpec ==
  Spec /\ WF_vars(LeaderFlush) /\ \A p \in Participants : WF_vars(Step(p))

-----------------------------------------------------------------------------
(* The index *)

(* Of an inserted row its element tuple and the meta page are all that     *)
(* matters here; the rest is T2Insert's.                                   *)
InsertElement(disk, e, level) ==
  LET tuple == [type |-> "element", of |-> e, size |-> ElementSize, nbrtid |-> NoTid,
                slots |-> <<>>, entries |-> <<>>, next |-> NoTid]
      pages == AppendTuple(disk.pages, tuple)
  IN UpdateEntry([disk EXCEPT !.pages = pages], <<Len(pages), Len(Last(pages))>>, level)

(* Its pages and meta page after the writes so far.  The graph that was    *)
(* flushed is still there: nothing is pushed once `flushed` is set.        *)
Disk ==
  LET Apply(disk, w) == IF w.op = "flush" THEN Flush(disk, entry.id)
                        ELSE InsertElement(disk, w.row, w.level)
  IN FoldLeft(Apply, EmptyIndex, writes)

-----------------------------------------------------------------------------
(* Properties *)

States == InMemory \cup {"scan", "insert", "spill", "done"}

(* Every variable keeps its type, and the arena is never overrun. *)
TypeOK ==
  /\ index \in Indexes
  /\ Range(nodes) \subseteq taken /\ taken \subseteq Elements
  /\ Len(nodes) = Cardinality(Range(nodes)) /\ ArenaUsed <= index.arena
  /\ \A e \in Elements : Range(nbr[e]) \subseteq Range(nodes) \cup {None}
  /\ entry.id \in Range(nodes) \cup {None} /\ entry.level \in Nat \cup {-1}
  /\ Range(part_entry) \subseteq Range(nodes) \cup {None}
  /\ \A p \in Participants : work[p].pc \in States
  /\ indtuples \in 0..Cardinality(Elements)

(* The rows a participant has pushed and not yet wired on every layer. *)
Unwired ==
  {work[p].row : p \in {q \in Participants : work[q].pc \in InMemory \ {"link", "register"}}}

(* AcornMemBuild: "its own level/vector/forward slots are complete before  *)
(* anyone can reach it".  A node is in no list of another, is not the      *)
(* entry point and stands for no partition while its own slots are being   *)
(* written: they are written without its lock.                             *)
PublishedComplete ==
  \A e \in Unwired :
    /\ \A n \in Elements \ {e} : e \notin Range(nbr[n])
    /\ entry.id # e /\ e \notin Range(part_entry)

Wide == index.m >= Cardinality(Elements) - 1

(* The nodes within reach of the entry point on a layer. *)
ReachedOn(layer) ==
  LET within[k \in 0..Len(nodes)] ==
        IF k = 0 THEN {entry.id} \ {None}
        ELSE within[k - 1] \cup UNION {CopySlots(n, layer) : n \in within[k - 1]}
  IN within[Len(nodes)]

(* The entry-point protocol (acorn_mem_insert_node).  Whenever no insert   *)
(* is in flight, and lists are wide enough to replace nothing, every node  *)
(* can be reached from the entry point on each of its layers: two inserts  *)
(* that both lie above the entry point never wire their upper layers past  *)
(* each other, and no reverse edge of two at once is lost.                 *)
LayersConnected ==
  Wide /\ (\A p \in Participants : ~HoldsFlushLock(p)) =>
    \A e \in Range(nodes) : Level[e] <= entry.level
      /\ \A layer \in 0..Level[e] : e \in ReachedOn(layer)

(* acorn_mem_flush: the flush happens with no insert in flight, every      *)
(* tuple lands where the tuples written before it point, and from then on  *)
(* the index reads as the graph in memory, continuation chunks included.   *)
DiskMatchesGraph ==
  LET disk == Disk
  IN flushed => /\ \A p \in Participants : ~HoldsFlushLock(p)
                /\ \A e \in Range(nodes) : ReadsAs(disk, e)

(* acorn_build_insert_tuple and acorn_build_internal: whoever flushes,     *)
(* each row ends up in the index once, the count returned is theirs, and   *)
(* the entry point is a highest element, or one that was drawn as high.    *)
EachRowOnce ==
  LET disk == Disk
  IN built =>
       /\ indtuples = Cardinality(Elements)
       /\ \A e \in Elements :
            Cardinality({t \in ElementTids(disk) : At(disk, t).of = e}) = 1
       /\ disk.entry \in ElementTids(disk)
       /\ \A e \in Range(nodes) : Level[e] <= disk.level

(* The locks of a build (flushLock, entryWaitLock, entryLock) never close  *)
(* a cycle, and the leader is not left waiting for a participant.          *)
BuildEnds == <>built
=============================================================================
