------------------------- MODULE ParallelBuildProofs -------------------------
(***************************************************************************)
(* A parallel build, for any number of participants and rows.  The entry   *)
(* point an insert has read stays the entry point until the insert is      *)
(* done, no finished node lies above it, and once the graph has been       *)
(* flushed it is not touched again.  No node is come across before its own *)
(* slots are written, and all that is read or written lies within a node's *)
(* array, the arrays within the arena.  No row is lost or written twice.   *)
(***************************************************************************)
EXTENDS ParallelBuild, NeighborSelectionProofs

-----------------------------------------------------------------------------
(* Phases of an insert *)

(* Between reading the entry point and giving entryLock back. *)
Holding == {"descend", "search", "link"}

(* Pushed, and not yet past the end of acorn_mem_insert_node. *)
Pending == {"wait", "entry", "wait_exclusive", "entry_exclusive"} \cup Holding

Fields == {"pc", "row", "hold", "entry_level"}

(* A participant may be in state r beside what the others are doing: it    *)
(* holds entryLock in one of the phases for that, in a mode the others     *)
(* allow; then it knows the entry point, and holds the lock exclusively    *)
(* unless its own node is no higher.                                       *)
Sound(p, r) ==
  /\ Fields \subseteq DOMAIN r
  /\ r.pc \notin {"scan", "done"} => r.row \in Elements
  /\ r.hold # "none" => r.pc \in Holding
  /\ r.pc \in Holding =>
       /\ r.hold \in {"shared", "exclusive"}
       /\ r.entry_level = entry.level /\ entry.id # None
       /\ r.hold = "shared" => Level[r.row] <= entry.level
  /\ \A q \in Participants \ {p} :
       /\ r.hold = "exclusive" => work[q].hold = "none"
       /\ r.hold # "none" => work[q].hold # "exclusive"

(* No insert is in flight once the graph has been flushed. *)
Quiet == flushed => \A p \in Participants : ~HoldsFlushLock(p)

(* acorn_mem_insert_node: a node above the entry point is still being      *)
(* inserted.                                                               *)
NoneAbove ==
  \A e \in Range(nodes) :
    \/ Level[e] <= entry.level
    \/ \E p \in Participants : work[p].row = e /\ work[p].pc \in Pending

(* The inductive invariant. *)
IInv ==
  /\ DOMAIN work = Participants
  /\ nodes \in Seq(Elements)
  /\ entry.level \in Int /\ (entry.id = None => entry.level = -1)
  /\ \A p \in Participants : Sound(p, work[p])
  /\ Quiet
  /\ NoneAbove

(* Nothing has been pushed, and all participants are about to scan. *)
LEMMA Initially == Init => IInv
<1> SUFFICES ASSUME Init PROVE IInv
  OBVIOUS
<1>1. /\ DOMAIN work = Participants
      /\ \A p \in Participants : work[p] = Idle
      /\ nodes = <<>> /\ entry = [id |-> None, level |-> -1] /\ flushed = FALSE
  BY DEF Init
<1>2. /\ Fields \subseteq DOMAIN Idle
      /\ Idle.pc = "scan" /\ Idle.hold = "none"
  BY DEF Idle, Fields
<1>3. \A p \in Participants : Sound(p, work[p])
  BY <1>1, <1>2 DEF Sound, Holding
<1>4. Range(nodes) = {}
  BY <1>1 DEF Range
<1>5. nodes \in Seq(Elements)
  BY <1>1
<1> QED
  BY <1>1, <1>3, <1>4, <1>5 DEF IInv, Quiet, NoneAbove

-----------------------------------------------------------------------------
(* Steps that leave the nodes, the entry point and `flushed` alone *)

(* The invariant holds after a participant has moved to a sound state, if  *)
(* no unfinished node is lost sight of and nobody starts an insert.        *)
LEMMA OwnStep ==
  ASSUME IInv, NEW p \in Participants, NEW r, Become(p, r), Sound(p, r),
         UNCHANGED <<nodes, entry, flushed>>,
         r.pc \in InMemory => ~flushed,
         work[p].pc \in Pending =>
           (r.pc \in Pending /\ r.row = work[p].row) \/ Level[work[p].row] <= entry.level
  PROVE  IInv'
<1>1. /\ DOMAIN work' = Participants /\ work'[p] = r
      /\ \A q \in Participants \ {p} : work'[q] = work[q]
  BY DEF IInv, Become
<1>2. ASSUME NEW q \in Participants PROVE Sound(q, work[q])'
  <2>1. Sound(q, work[q])
    BY DEF IInv
  <2>2. CASE q = p
    BY <1>1, <2>2 DEF Sound
  <2>3. CASE q # p
    <3>1. /\ work'[q] = work[q]
          /\ work[q].hold = "exclusive" => r.hold = "none"
          /\ work[q].hold # "none" => r.hold # "exclusive"
      BY <1>1, <2>3 DEF Sound
    <3> QED
      BY <1>1, <2>1, <2>3, <3>1 DEF Sound
  <2> QED
    BY <2>2, <2>3
<1>3. Quiet'
  BY <1>1 DEF IInv, Quiet, HoldsFlushLock
<1>4. NoneAbove'
  <2> SUFFICES ASSUME NEW e \in Range(nodes), ~(Level[e] <= entry.level)
               PROVE  \E q \in Participants : work'[q].row = e /\ work'[q].pc \in Pending
    BY DEF NoneAbove
  <2>1. PICK q \in Participants : work[q].row = e /\ work[q].pc \in Pending
    BY DEF IInv, NoneAbove
  <2> QED
    BY <1>1, <2>1
<1> QED
  BY <1>1, <1>2, <1>3, <1>4 DEF IInv

(* In particular after a step that keeps the row, entryLock and what is    *)
(* known of the entry point, within the same part of an insert.            *)
LEMMA SameHold ==
  ASSUME IInv, NEW p \in Participants, NEW r, Become(p, r),
         UNCHANGED <<nodes, entry, flushed>>,
         Fields \subseteq DOMAIN r, r.row = work[p].row,
         r.hold = work[p].hold, r.entry_level = work[p].entry_level,
         work[p].pc \notin {"scan", "done"},
         r.pc \in Holding <=> work[p].pc \in Holding,
         r.pc \in InMemory => work[p].pc \in InMemory,
         work[p].pc \in Pending => r.pc \in Pending
  PROVE  IInv'
<1>1. Sound(p, work[p])
  BY DEF IInv
<1>2. Sound(p, r)
  BY <1>1 DEF Sound
<1>3. r.pc \in InMemory => ~flushed
  BY DEF IInv, Quiet, HoldsFlushLock
<1> QED
  BY <1>2, <1>3, OwnStep

-----------------------------------------------------------------------------
(* What the helpers make of a participant's state *)

(* q is r in all that the invariant says of it but the phase. *)
Keeps(q, r) ==
  /\ Fields \subseteq DOMAIN q
  /\ q.row = r.row /\ q.hold = r.hold /\ q.entry_level = r.entry_level

(* Seeding a beam search keeps all but the phase. *)
LEMMA SearchKeeps ==
  ASSUME NEW r, Fields \subseteq DOMAIN r, NEW ep, NEW lc, NEW b
  PROVE  Keeps(Search(r, ep, lc, b), r) /\ Search(r, ep, lc, b).pc = "search"
  BY DEF Search, Fields, Keeps

(* So does the next layer, or the end of the last. *)
LEMMA BelowKeeps ==
  ASSUME NEW r, Fields \subseteq DOMAIN r, NEW cands
  PROVE  /\ Keeps(BelowLayer(r, cands), r)
         /\ BelowLayer(r, cands).pc \in {"search", "link"}
<1>1. CASE r.lc = 0
  BY <1>1 DEF BelowLayer, Fields, Keeps
<1>2. CASE r.lc # 0
  <2>1. BelowLayer(r, cands) = Search(r, Closest(r.row, cands), r.lc - 1, FALSE)
    BY <1>2 DEF BelowLayer
  <2> QED
    BY <2>1, SearchKeeps
<1> QED
  BY <1>1, <1>2

(* Starting with the entry point in hand. *)
LEMMA StartKeeps ==
  ASSUME NEW r, Fields \subseteq DOMAIN r, NEW hold
  PROVE  LET q == Start(r, hold)
         IN /\ Fields \subseteq DOMAIN q /\ q.pc \in {"descend", "search"}
            /\ q.row = r.row /\ q.hold = hold /\ q.entry_level = entry.level
<1> DEFINE q == [r EXCEPT !.hold = hold, !.entry_level = entry.level]
           down == [q EXCEPT !.pc = "descend", !.ep = entry.id, !.lc = entry.level]
           at == Search(q, entry.id, entry.level, FALSE)
<1>1. /\ Fields \subseteq DOMAIN q
      /\ q.row = r.row /\ q.hold = hold /\ q.entry_level = entry.level
  BY DEF Fields
<1>2. Start(r, hold) = IF entry.level > Level[r.row] THEN down ELSE at
  BY DEF Start
<1> HIDE DEF q
<1>3. Keeps(down, q) /\ down.pc = "descend"
  BY <1>1 DEF Fields, Keeps
<1>4. Keeps(at, q) /\ at.pc = "search"
  BY <1>1, SearchKeeps
<1> HIDE DEF down, at
<1> QED
  BY <1>1, <1>2, <1>3, <1>4 DEF Keeps

(* A turn of the descent. *)
LEMMA DescendKeeps ==
  ASSUME NEW p \in Participants, Fields \subseteq DOMAIN work[p], Descend(p)
  PROVE  \E q : Become(p, q) /\ Keeps(q, work[p]) /\ q.pc \in {"descend", "search"}
<1>1. PICK n, lc : \/ Become(p, [work[p] EXCEPT !.ep = n])
                   \/ Become(p, [work[p] EXCEPT !.lc = @ - 1])
                   \/ Become(p, Search(work[p], n, lc, FALSE))
  BY DEF Descend
<1> DEFINE moved == [work[p] EXCEPT !.ep = n]
           lower == [work[p] EXCEPT !.lc = @ - 1]
           at    == Search(work[p], n, lc, FALSE)
<1>2. Keeps(moved, work[p]) /\ moved.pc = work[p].pc
  BY DEF Fields, Keeps
<1>3. Keeps(lower, work[p]) /\ lower.pc = work[p].pc
  BY DEF Fields, Keeps
<1>4. Keeps(at, work[p]) /\ at.pc = "search"
  BY SearchKeeps
<1>5. work[p].pc = "descend"
  BY DEF Descend
<1>6. Become(p, moved) \/ Become(p, lower) \/ Become(p, at)
  BY <1>1
<1> HIDE DEF moved, lower, at
<1> QED
  BY <1>2, <1>3, <1>4, <1>5, <1>6

(* The selection of a layer's slots, or of half of layer 0's. *)
LEMMA SelectKeeps ==
  ASSUME NEW p \in Participants, Fields \subseteq DOMAIN work[p],
         SelectLayer(p) \/ SelectPayloadHalf(p) \/ SelectGlobalHalf(p)
  PROVE  \E q : Become(p, q) /\ Keeps(q, work[p]) /\ q.pc \in {"search", "link"}
<1>1. \A R : Keeps([work[p] EXCEPT !.rev = R], work[p])
  BY DEF Fields, Keeps
<1>2. \A C, G : Keeps([work[p] EXCEPT !.cands = C, !.gsel = G], work[p])
  BY DEF Fields, Keeps
<1>3. \A r, cands : Keeps(r, work[p]) /\ Become(p, BelowLayer(r, cands)) =>
        \E q : Become(p, q) /\ Keeps(q, work[p]) /\ q.pc \in {"search", "link"}
  <2> TAKE r, cands
  <2> HAVE Keeps(r, work[p]) /\ Become(p, BelowLayer(r, cands))
  <2> WITNESS BelowLayer(r, cands)
  <2> QED
    BY BelowKeeps DEF Keeps
<1>4. \A r, part, b : Keeps(r, work[p]) /\ Become(p, Search(r, part, 0, b)) =>
        \E q : Become(p, q) /\ Keeps(q, work[p]) /\ q.pc \in {"search", "link"}
  <2> TAKE r, part, b
  <2> HAVE Keeps(r, work[p]) /\ Become(p, Search(r, part, 0, b))
  <2> WITNESS Search(r, part, 0, b)
  <2> QED
    BY SearchKeeps DEF Keeps
<1>5. \E r, cands, part, b :
        /\ Keeps(r, work[p])
        /\ Become(p, BelowLayer(r, cands)) \/ Become(p, Search(r, part, 0, b))
  <2>1. CASE SelectLayer(p)
    BY <1>1, <2>1 DEF SelectLayer
  <2>2. CASE SelectPayloadHalf(p)
    BY <1>1, <2>2 DEF SelectPayloadHalf
  <2>3. CASE SelectGlobalHalf(p)
    <3> DEFINE gsel == Select(work[p].row, work[p].W, index.m)
               part == part_entry[Partition[work[p].row]]
               R == work[p].rev \o Layer0Edges(gsel, <<>>)
               there == [work[p] EXCEPT !.cands = work[p].W, !.gsel = gsel]
               none == [work[p] EXCEPT !.rev = R]
    <3>1. Become(p, BelowLayer(none, work[p].W)) \/ Become(p, Search(there, part, 0, TRUE))
      BY <2>3 DEF SelectGlobalHalf
    <3>2. Keeps(there, work[p]) /\ Keeps(none, work[p])
      BY <1>1, <1>2
    <3> HIDE DEF there, none
    <3> QED
      BY <3>1, <3>2
  <2> QED
    BY <2>1, <2>2, <2>3
<1> QED
  BY <1>3, <1>4, <1>5

-----------------------------------------------------------------------------
(* The steps *)

(* Before a node is pushed, and after its insert. *)
LEMMA OutsideSteps ==
  ASSUME IInv, NEW p \in Participants,
         TakeRow(p) \/ ScanDone(p) \/ NoRoom(p) \/ Register(p)
  PROVE  IInv'
<1>1. Sound(p, work[p])
  BY DEF IInv
<1>2. CASE TakeRow(p)
  <2>1. PICK e \in Elements \ taken :
          Become(p, [work[p] EXCEPT !.pc = "insert", !.row = e])
    BY <1>2 DEF TakeRow
  <2> DEFINE r == [work[p] EXCEPT !.pc = "insert", !.row = e]
  <2>2. /\ Fields \subseteq DOMAIN r /\ r.pc = "insert" /\ r.row = e
        /\ r.hold = work[p].hold
    BY <1>1 DEF Sound, Fields
  <2> HIDE DEF r
  <2>3. work[p].pc = "scan" /\ work[p].hold = "none"
    BY <1>1, <1>2 DEF TakeRow, Sound, Holding
  <2>4. Sound(p, r)
    BY <2>2, <2>3 DEF Sound, Holding
  <2>5. Become(p, r) /\ UNCHANGED <<nodes, entry, flushed>>
    BY <1>2, <2>1 DEF TakeRow, r, graph
  <2> QED
    BY <2>2, <2>3, <2>4, <2>5, OwnStep DEF InMemory, Pending, Holding
<1>3. CASE ScanDone(p)
  <2> DEFINE r == [work[p] EXCEPT !.pc = "done"]
  <2>1. Fields \subseteq DOMAIN r /\ r.pc = "done" /\ r.hold = work[p].hold
    BY <1>1 DEF Sound, Fields
  <2>2. Become(p, r) /\ UNCHANGED <<nodes, entry, flushed>>
    BY <1>3 DEF ScanDone, graph
  <2> HIDE DEF r
  <2>3. work[p].pc = "scan" /\ work[p].hold = "none"
    BY <1>1, <1>3 DEF ScanDone, Sound, Holding
  <2>4. Sound(p, r)
    BY <2>1, <2>3 DEF Sound, Holding
  <2> QED
    BY <2>1, <2>2, <2>3, <2>4, OwnStep DEF InMemory, Pending, Holding
<1>4. CASE NoRoom(p)
  BY <1>1, <1>4, SameHold
  DEF NoRoom, graph, Sound, Fields, Holding, Pending, InMemory
<1>5. CASE Register(p)
  <2>1. Fields \subseteq DOMAIN Idle /\ Idle.pc = "scan" /\ Idle.hold = "none"
    BY DEF Idle, Fields
  <2>2. Sound(p, Idle)
    BY <2>1 DEF Sound, Holding
  <2>3. Become(p, Idle) /\ UNCHANGED <<nodes, entry, flushed>> /\ work[p].pc = "register"
    BY <1>5 DEF Register
  <2> QED
    BY <2>1, <2>2, <2>3, OwnStep DEF InMemory, Pending, Holding
<1> QED
  BY <1>2, <1>3, <1>4, <1>5

(* Within an insert, the entry point known or not yet asked for. *)
LEMMA InsideSteps ==
  ASSUME IInv, NEW p \in Participants,
         \/ WaitForEntry(p) \/ WaitForExclusive(p) \/ Descend(p) \/ Expand(p)
         \/ SelectLayer(p) \/ SelectGlobalHalf(p) \/ SelectPayloadHalf(p) \/ Link(p)
  PROVE  IInv'
<1>1. Fields \subseteq DOMAIN work[p]
  BY DEF IInv, Sound
<1> USE DEF Holding, Pending, InMemory
<1>2. CASE WaitForEntry(p)
  BY <1>1, <1>2, SameHold DEF WaitForEntry, graph, Fields
<1>3. CASE WaitForExclusive(p)
  BY <1>1, <1>3, SameHold DEF WaitForExclusive, graph, Fields
<1>4. CASE Descend(p)
  <2>1. PICK q : Become(p, q) /\ Keeps(q, work[p]) /\ q.pc \in {"descend", "search"}
    BY <1>1, <1>4, DescendKeeps
  <2>2. work[p].pc = "descend" /\ UNCHANGED <<nodes, entry, flushed>>
    BY <1>4 DEF Descend, graph
  <2> QED
    BY <2>1, <2>2, SameHold DEF Keeps
<1>5. CASE Expand(p)
  BY <1>1, <1>5, SameHold DEF Expand, graph, Fields
<1>6. CASE SelectLayer(p) \/ SelectPayloadHalf(p) \/ SelectGlobalHalf(p)
  <2>1. PICK q : Become(p, q) /\ Keeps(q, work[p]) /\ q.pc \in {"search", "link"}
    BY <1>1, <1>6, SelectKeeps
  <2>2. work[p].pc = "search" /\ UNCHANGED <<nodes, entry, flushed>>
    BY <1>6 DEF SelectLayer, SelectPayloadHalf, SelectGlobalHalf
  <2> QED
    BY <2>1, <2>2, SameHold DEF Keeps
<1>7. CASE Link(p)
  BY <1>1, <1>7, SameHold DEF Link, Fields
<1> QED
  BY <1>2, <1>3, <1>4, <1>5, <1>6, <1>7

(* A node is pushed: it may lie above the entry point until its insert is  *)
(* done.                                                                   *)
LEMMA PushStep ==
  ASSUME IInv, NEW p \in Participants, Push(p)
  PROVE  IInv'
<1> DEFINE e == work[p].row
           r == [work[p] EXCEPT !.pc = "wait"]
<1>1. /\ work[p].pc = "insert" /\ ~flushed /\ nodes' = Append(nodes, e)
      /\ Become(p, r) /\ UNCHANGED <<entry, flushed>>
  BY DEF Push
<1>2. /\ Fields \subseteq DOMAIN r /\ r.pc = "wait" /\ r.row = e
      /\ r.hold = work[p].hold
  BY DEF IInv, Sound, Fields
<1>3. Sound(p, work[p])
  BY DEF IInv
<1>4. e \in Elements /\ work[p].hold = "none"
  BY <1>1, <1>3 DEF Sound, Holding
<1> HIDE DEF r, e
<1>5. /\ DOMAIN work' = Participants /\ work'[p] = r
      /\ \A q \in Participants \ {p} : work'[q] = work[q]
  BY <1>1 DEF IInv, Become
<1>6. Range(nodes') \subseteq Range(nodes) \cup {e} /\ nodes' \in Seq(Elements)
  BY <1>1, <1>4 DEF IInv, Range
<1>7. ASSUME NEW q \in Participants PROVE Sound(q, work[q])'
  <2>1. CASE q = p
    BY <1>2, <1>4, <1>5, <2>1 DEF Sound, Holding
  <2>2. CASE q # p
    BY <1>1, <1>2, <1>4, <1>5, <2>2 DEF IInv, Sound
  <2> QED
    BY <2>1, <2>2
<1>8. Quiet'
  BY <1>1 DEF Quiet
<1>9. NoneAbove'
  <2> SUFFICES ASSUME NEW n \in Range(nodes'), ~(Level[n] <= entry.level)
               PROVE  \E q \in Participants : work'[q].row = n /\ work'[q].pc \in Pending
    BY <1>1 DEF NoneAbove
  <2>1. CASE n = e
    BY <1>2, <1>5, <2>1 DEF Pending
  <2>2. CASE n # e
    <3>1. PICK q \in Participants : work[q].row = n /\ work[q].pc \in Pending
      BY <1>6, <2>2 DEF IInv, NoneAbove
    <3>2. q # p
      BY <1>1, <3>1 DEF Pending, Holding
    <3> QED
      BY <1>5, <3>1, <3>2
  <2> QED
    BY <2>1, <2>2
<1> QED
  BY <1>1, <1>5, <1>6, <1>7, <1>8, <1>9 DEF IInv

(* The entry point moves to a higher node while nobody else knows it.      *)
LEMMA EntryRaised ==
  ASSUME SelectionAssumption, IInv, NEW p \in Participants, NEW r, Become(p, r),
         UNCHANGED <<nodes, flushed>>,
         work[p].pc \in InMemory, work[p].row \in Elements,
         entry' = [id |-> work[p].row, level |-> Level[work[p].row]],
         Level[work[p].row] > entry.level,
         Fields \subseteq DOMAIN r, r.pc = "register", r.hold = "none",
         r.row = work[p].row,
         \A q \in Participants \ {p} : work[q].hold = "none"
  PROVE  IInv'
<1>1. /\ DOMAIN work' = Participants /\ work'[p] = r
      /\ \A q \in Participants \ {p} : work'[q] = work[q]
  BY DEF IInv, Become
<1>2. /\ entry'.id = work[p].row /\ entry'.level = Level[work[p].row]
      /\ entry.level \in Int /\ Level \in [Elements -> Nat] /\ None \notin Elements
  BY DEF IInv, SelectionAssumption
<1>3. ASSUME NEW q \in Participants PROVE Sound(q, work[q])'
  <2>1. CASE q = p
    BY <1>1, <2>1 DEF Sound, Holding
  <2>2. CASE q # p
    <3>1. Sound(q, work[q]) /\ work[q].hold = "none"
      BY <2>2 DEF IInv
    <3>2. work[q].pc \notin Holding
      BY <3>1 DEF Sound
    <3> QED
      BY <1>1, <2>2, <3>1, <3>2 DEF Sound
  <2> QED
    BY <2>1, <2>2
<1>4. Quiet'
  BY DEF IInv, Quiet, HoldsFlushLock
<1>5. NoneAbove'
  <2> SUFFICES ASSUME NEW e \in Range(nodes), ~(Level[e] <= entry'.level)
               PROVE  \E q \in Participants : work'[q].row = e /\ work'[q].pc \in Pending
    BY DEF NoneAbove
  <2>1. e \in Elements
    BY DEF IInv, Range
  <2>2. ~(Level[e] <= entry.level) /\ e # work[p].row
    BY <1>2, <2>1
  <2>3. PICK q \in Participants : work[q].row = e /\ work[q].pc \in Pending
    BY <2>2 DEF IInv, NoneAbove
  <2> QED
    BY <1>1, <2>2, <2>3
<1> QED
  BY <1>1, <1>2, <1>3, <1>4, <1>5 DEF IInv

(* Reading the entry point, under either lock. *)
LEMMA ReadSteps ==
  ASSUME SelectionAssumption, IInv, NEW p \in Participants,
         ReadEntry(p) \/ ReadEntryExclusive(p)
  PROVE  IInv'
<1> DEFINE e == work[p].row
<1>1. Sound(p, work[p])
  BY DEF IInv
<1>2. work[p].pc \in {"entry", "entry_exclusive"}
  BY DEF ReadEntry, ReadEntryExclusive
<1>3. /\ Fields \subseteq DOMAIN work[p] /\ e \in Elements /\ work[p].hold = "none"
      /\ work[p].pc \in InMemory /\ ~flushed
  BY <1>1, <1>2 DEF IInv, Quiet, HoldsFlushLock, Sound, Holding, InMemory
<1>4. /\ Level[e] \in Nat /\ entry.level \in Int
      /\ entry.id = None => entry.level = -1
  BY <1>3 DEF IInv, SelectionAssumption
<1>5. ASSUME NEW hold \in {"shared", "exclusive"}, Become(p, Start(work[p], hold)),
             UNCHANGED <<nodes, entry, flushed>>, entry.id # None,
             hold = "shared" => Level[e] <= entry.level /\ EntryLockShareable,
             hold = "exclusive" => EntryLockFree
      PROVE  IInv'
  <2> DEFINE q == Start(work[p], hold)
  <2>1. /\ Fields \subseteq DOMAIN q /\ q.pc \in {"descend", "search"}
        /\ q.row = e /\ q.hold = hold /\ q.entry_level = entry.level
    BY <1>3, StartKeeps
  <2> HIDE DEF q
  <2>2. Sound(p, q)
    BY <1>3, <1>5, <2>1 DEF Sound, Holding, EntryLockShareable, EntryLockFree
  <2>3. Become(p, q)
    BY <1>5 DEF q
  <2> QED
    BY <1>3, <1>5, <2>1, <2>2, <2>3, OwnStep DEF Pending, Holding
<1>6. CASE ReadEntry(p)
  <2>1. UNCHANGED <<nodes, entry, flushed>> /\ EntryLockShareable
    BY <1>6 DEF ReadEntry, graph
  <2>2. CASE MayUpdateEntry(e)
    <3> DEFINE r == [work[p] EXCEPT !.pc = "wait_exclusive"]
    <3>1. /\ Keeps(r, work[p]) /\ r.pc = "wait_exclusive"
      BY <1>3 DEF Keeps, Fields
    <3>2. Become(p, r) /\ work[p].pc = "entry"
      BY <1>6, <2>2 DEF ReadEntry
    <3> HIDE DEF r
    <3> QED
      BY <2>1, <3>1, <3>2, SameHold DEF Keeps, Pending, Holding, InMemory
  <2>3. CASE ~MayUpdateEntry(e)
    <3>1. Become(p, Start(work[p], "shared"))
      BY <1>6, <2>3 DEF ReadEntry
    <3>2. entry.id # None /\ Level[e] <= entry.level
      BY <1>4, <2>3 DEF MayUpdateEntry
    <3> QED
      BY <1>5, <2>1, <3>1, <3>2
  <2> QED
    BY <2>2, <2>3
<1>7. CASE ReadEntryExclusive(p)
  <2>1. UNCHANGED <<nodes, flushed>> /\ EntryLockFree
    BY <1>7 DEF ReadEntryExclusive
  <2>2. CASE entry.id = None
    <3> DEFINE r == [work[p] EXCEPT !.pc = "register"]
    <3>1. Keeps(r, work[p]) /\ r.pc = "register"
      BY <1>3 DEF Keeps, Fields
    <3>2. Become(p, r) /\ entry' = [id |-> e, level |-> Level[e]]
      BY <1>7, <2>2 DEF ReadEntryExclusive
    <3> HIDE DEF r
    <3>3. \A q \in Participants \ {p} : work[q].hold = "none"
      BY <2>1 DEF EntryLockFree
    <3>4. Level[e] > entry.level
      BY <1>4, <2>2
    <3> QED
      BY <1>3, <2>1, <3>1, <3>2, <3>3, <3>4, EntryRaised DEF Keeps
  <2>3. CASE entry.id # None
    <3>1. Become(p, Start(work[p], "exclusive")) /\ UNCHANGED entry
      BY <1>7, <2>3 DEF ReadEntryExclusive
    <3> QED
      BY <1>5, <2>1, <2>3, <3>1
  <2> QED
    BY <2>2, <2>3
<1> QED
  BY <1>6, <1>7

(* The end of an insert. *)
LEMMA UpdateStep ==
  ASSUME SelectionAssumption, IInv, NEW p \in Participants, UpdateEntryPoint(p)
  PROVE  IInv'
<1> DEFINE e == work[p].row
           r == [work[p] EXCEPT !.pc = "register", !.hold = "none"]
<1>1. Sound(p, work[p])
  BY DEF IInv
<1>2. /\ work[p].pc = "link" /\ Become(p, r) /\ UNCHANGED <<nodes, flushed>>
      /\ entry' = IF Level[e] > work[p].entry_level
                  THEN [id |-> e, level |-> Level[e]] ELSE entry
  BY DEF UpdateEntryPoint
<1>3. /\ Fields \subseteq DOMAIN r /\ r.pc = "register" /\ r.hold = "none" /\ r.row = e
  BY <1>1 DEF Sound, Fields
<1>4. /\ e \in Elements /\ work[p].pc \in InMemory /\ work[p].entry_level = entry.level
      /\ work[p].hold \in {"shared", "exclusive"}
      /\ work[p].hold = "shared" => Level[e] <= entry.level
  BY <1>1, <1>2 DEF Sound, Holding, InMemory
<1>5. Level[e] \in Nat /\ entry.level \in Int /\ ~flushed
  BY <1>4 DEF IInv, SelectionAssumption, Quiet, HoldsFlushLock
<1> HIDE DEF r
<1>6. CASE Level[e] > entry.level
  <2>1. work[p].hold = "exclusive"
    BY <1>4, <1>5, <1>6
  <2>2. \A q \in Participants \ {p} : work[q].hold = "none"
    BY <1>1, <2>1 DEF Sound
  <2> QED
    BY <1>2, <1>3, <1>4, <1>6, <2>2, EntryRaised
<1>7. CASE ~(Level[e] > entry.level)
  <2>1. UNCHANGED entry /\ Level[e] <= entry.level
    BY <1>2, <1>4, <1>5, <1>7
  <2>2. Sound(p, r)
    BY <1>3, <1>4 DEF Sound, Holding
  <2> QED
    BY <1>2, <1>3, <1>5, <2>1, <2>2, OwnStep
<1> QED
  BY <1>6, <1>7

(* The flush finds no insert in flight, whether a participant that ran out *)
(* of room does it or the leader at the end.                               *)
LEMMA FlushSteps ==
  ASSUME IInv, LeaderFlush \/ \E p \in Participants : Spill(p)
  PROVE  IInv'
<1>1. UNCHANGED <<nodes, entry>>
  BY DEF LeaderFlush, Spill, graph
<1>2. /\ DOMAIN work' = Participants
      /\ \A q \in Participants :
           /\ work'[q] = work[q] \/ work'[q] = Idle
           /\ ~HoldsFlushLock(q)
  <2>1. CASE LeaderFlush
    BY <2>1 DEF IInv, LeaderFlush, HoldsFlushLock, InMemory
  <2>2. CASE \E p \in Participants : Spill(p)
    BY <2>2 DEF IInv, Spill, Become
  <2> QED
    BY <2>1, <2>2
<1>3. Idle.pc = "scan" /\ Idle.hold = "none" /\ Fields \subseteq DOMAIN Idle
  BY DEF Idle, Fields
<1>4. \A q \in Participants : work[q].pc \notin InMemory /\ work[q].hold = "none"
  BY <1>2 DEF IInv, Sound, HoldsFlushLock, InMemory, Holding
<1>5. \A q \in Participants : work'[q].pc \notin InMemory /\ work'[q].hold = "none"
  BY <1>2, <1>3, <1>4 DEF InMemory
<1>6. ASSUME NEW q \in Participants PROVE Sound(q, work[q])'
  <2>1. Sound(q, work[q]) /\ work'[q].pc \notin Holding
    BY <1>5 DEF IInv, Holding, InMemory
  <2> QED
    BY <1>1, <1>2, <1>3, <1>5, <2>1 DEF Sound
<1>7. Quiet'
  BY <1>5 DEF Quiet, HoldsFlushLock
<1>8. NoneAbove'
  BY <1>1, <1>4 DEF IInv, NoneAbove, Pending, Holding, InMemory
<1> QED
  BY <1>1, <1>2, <1>6, <1>7, <1>8 DEF IInv

-----------------------------------------------------------------------------
(* Theorems *)

(* Every step of a build keeps the invariant. *)
LEMMA Inductive == SelectionAssumption /\ IInv /\ [Next]_vars => IInv'
<1> SUFFICES ASSUME SelectionAssumption, IInv, [Next]_vars PROVE IInv'
  OBVIOUS
<1>1. CASE LeaderFlush
  BY <1>1, FlushSteps
<1>2. ASSUME NEW p \in Participants, Step(p) PROVE IInv'
  BY <1>2, OutsideSteps, InsideSteps, PushStep, ReadSteps, UpdateStep, FlushSteps DEF Step
<1>3. CASE UNCHANGED vars
  BY <1>3 DEF vars, graph, IInv, Sound, Quiet, NoneAbove, HoldsFlushLock
<1> QED
  BY <1>1, <1>2, <1>3 DEF Next

(* acorn_mem_insert_node holds entryLock over the insert: an insert that   *)
(* is past reading the entry point has read the present one, and one whose *)
(* node lies above it is alone.                                            *)
THEOREM Invariance == Spec => []IInv
<1>1. SelectionAssumption
  BY SelectionAssumption
<1> QED
  BY <1>1, Initially, Inductive, PTL DEF Spec

(* acorn_mem_insert_node: a node above the entry point is one whose insert *)
(* has not come to its end; afterwards the entry point is a highest node.  *)
THEOREM NoneAboveEntry == Spec => []NoneAbove
<1>1. IInv => NoneAbove
  BY DEF IInv
<1> QED
  BY <1>1, Invariance, PTL

(* acorn_build_insert_tuple: flushLock keeps the flush from an insert in   *)
(* flight, and every insert that begins later out of the graph.            *)
THEOREM NothingInFlight == Spec => []Quiet
<1>1. IInv => Quiet
  BY DEF IInv
<1> QED
  BY <1>1, Invariance, PTL

(* acorn_mem_flush: the graph is not touched once it has been flushed, so  *)
(* what is in the index cannot fall behind it.                             *)
THEOREM GraphFrozen == Spec => [][flushed => UNCHANGED <<nodes, nbr, entry>>]_vars
<1>1. IInv /\ [Next]_vars => [flushed => UNCHANGED <<nodes, nbr, entry>>]_vars
  <2> SUFFICES ASSUME IInv, flushed, Next PROVE UNCHANGED <<nodes, nbr, entry>>
    OBVIOUS
  <2>1. CASE LeaderFlush
    BY <2>1 DEF LeaderFlush, graph
  <2>2. ASSUME NEW p \in Participants, Step(p) PROVE UNCHANGED <<nodes, nbr, entry>>
    <3>1. work[p].pc \notin InMemory
      BY DEF IInv, Quiet, HoldsFlushLock
    <3> QED
      BY <2>2, <3>1
      DEF Step, TakeRow, ScanDone, Push, NoRoom, WaitForEntry, ReadEntry, WaitForExclusive,
          ReadEntryExclusive, Descend, Expand, SelectLayer, SelectGlobalHalf,
          SelectPayloadHalf, Link, UpdateEntryPoint, Register, Spill, InMemory, graph
  <2> QED
    BY <2>1, <2>2 DEF Next
<1> QED
  BY <1>1, Invariance, PTL DEF Spec

-----------------------------------------------------------------------------
(* Slots and layers of a node's neighbour array in an index of layout o    *)

Width(o, l) == IF l = 0 THEN o.m + o.payload_m ELSE o.m
SlotsOf(o, e, l) ==
  NeighborStart(o.m, Level[e], l)..(NeighborStart(o.m, Level[e], l) + Width(o, l) - 1)
AllSlots(o, e) == 0..((Level[e] + 1) * o.m + o.payload_m - 1)

Layout(o) == o.m \in Nat \ {0} /\ o.payload_m \in Nat /\ o.arena \in Nat

(* The layers of a node have slots of their own, all within its array.     *)
LEMMA Geometry ==
  ASSUME SelectionAssumption, NEW o, Layout(o), NEW e \in Elements
  PROVE  /\ Level[e] \in Nat
         /\ AllSlots(o, e) \in SUBSET Nat /\ IsFiniteSet(AllSlots(o, e))
         /\ \A l \in 0..Level[e] : SlotsOf(o, e, l) \subseteq AllSlots(o, e)
         /\ \A l, k \in 0..Level[e] :
              \A s \in SlotsOf(o, e, l) : s \in SlotsOf(o, e, k) => l = k
<1> DEFINE L == Level[e]
           m == o.m
           q == o.payload_m
<1>1. L \in Nat /\ m \in Nat \ {0} /\ q \in Nat
  BY DEF SelectionAssumption, Layout
<1>2. \A l : NeighborStart(m, L, l) = (L - l) * m
  BY DEF NeighborStart
<1>3. \A l : Width(o, l) = IF l = 0 THEN m + q ELSE m
  BY DEF Width
<1>4. /\ AllSlots(o, e) = 0..((L + 1) * m + q - 1)
      /\ \A l : SlotsOf(o, e, l) = ((L - l) * m)..((L - l) * m + Width(o, l) - 1)
  BY <1>2 DEF AllSlots, SlotsOf
<1> HIDE DEF L, m, q
<1>5. L * m \in Nat /\ (L + 1) * m = L * m + m /\ (L - 0) * m = L * m
  BY <1>1
<1>6. ASSUME NEW l \in 1..L
      PROVE  (L - l) * m \in Nat /\ (L - l) * m + m <= L * m
  <2>1. L - l \in Nat /\ L - l + 1 <= L
    BY <1>1
  <2> QED
    BY <1>1, <2>1
<1>7. ASSUME NEW l \in 0..L PROVE SlotsOf(o, e, l) \subseteq AllSlots(o, e)
  <2>1. CASE l = 0
    BY <1>1, <1>3, <1>4, <1>5, <2>1
  <2>2. CASE l # 0
    <3>1. l \in 1..L
      BY <1>1, <2>2
    <3>2. (L - l) * m \in Nat /\ (L - l) * m + m <= L * m
      BY <1>6, <3>1
    <3> DEFINE a == (L - l) * m
               b == L * m
    <3>3. SlotsOf(o, e, l) = a..(a + m - 1) /\ AllSlots(o, e) = 0..(b + m + q - 1)
      BY <1>3, <1>4, <1>5, <2>2
    <3>4. a \in Nat /\ b \in Nat /\ a + m <= b
      BY <1>5, <3>2
    <3> HIDE DEF a, b
    <3> QED
      BY ONLY <1>1, <3>3, <3>4
  <2> QED
    BY <2>1, <2>2
<1>8. ASSUME NEW l \in 0..L, NEW k \in 0..L, l < k,
             NEW s \in SlotsOf(o, e, l), s \in SlotsOf(o, e, k)
      PROVE  FALSE
  <2>1. k \in 1..L /\ k # 0 /\ L - l \in Nat /\ L - k \in Nat /\ L - k + 1 <= L - l
    BY <1>1, <1>8
  <2> DEFINE a == (L - k) * m
             b == (L - l) * m
  <2>2. a \in Nat /\ b \in Nat /\ a + m <= b
    BY <1>1, <2>1
  <2>3. s \in a..(a + m - 1) /\ s \in b..(b + Width(o, l) - 1)
    BY <1>3, <1>4, <1>8, <2>1
  <2> HIDE DEF a, b
  <2> QED
    BY ONLY <1>1, <2>2, <2>3
<1>9. AllSlots(o, e) \in SUBSET Nat /\ IsFiniteSet(AllSlots(o, e))
  <2> DEFINE b == (L + 1) * m + q - 1
  <2>1. b \in Int /\ 0 \in Int /\ AllSlots(o, e) = 0..b
    BY <1>1, <1>4, <1>5
  <2> HIDE DEF b
  <2> QED
    BY <2>1, FS_Interval
<1>10. \A l, k \in 0..L : l < k \/ k < l \/ l = k
  BY <1>1
<1>11. ASSUME NEW l \in 0..L, NEW k \in 0..L, NEW s \in SlotsOf(o, e, l), s \in SlotsOf(o, e, k)
       PROVE  l = k
  BY <1>8, <1>10, <1>11
<1>12. /\ Level[e] \in Nat
       /\ \A l \in 0..Level[e] : SlotsOf(o, e, l) \subseteq AllSlots(o, e)
       /\ \A l, k \in 0..Level[e] :
            \A s \in SlotsOf(o, e, l) : s \in SlotsOf(o, e, k) => l = k
  BY <1>1, <1>7, <1>11 DEF L
<1> QED
  BY <1>9, <1>12

(* These are the layers of the model. *)
LEMMA SameGeometry ==
  ASSUME SelectionAssumption, Layout(index), NEW e \in Elements
  PROVE  /\ \A l : LayerSlots(e, l) = SlotsOf(index, e, l) /\ LayerM(l) = Width(index, l)
         /\ AllSlots(index, e) = 0..(TotalSlots(Level[e]) - 1)
         /\ Start0(e) = NeighborStart(index.m, Level[e], 0)
<1>1. \A l : LayerM(l) = Width(index, l)
  BY DEF LayerM, Width
<1>2. \A l : LayerSlots(e, l) = SlotsOf(index, e, l)
  BY <1>1 DEF LayerSlots, SlotsOf
<1>3. AllSlots(index, e) = 0..(TotalSlots(Level[e]) - 1)
  BY DEF AllSlots, TotalSlots, SelectionAssumption, Layout
<1>4. Start0(e) = NeighborStart(index.m, Level[e], 0)
  BY DEF Start0
<1> QED
  BY <1>1, <1>2, <1>3, <1>4

-----------------------------------------------------------------------------
(* Neighbour arrays                                                        *)

(* Those of K that have a layer l. *)
Above(K, l) == {n \in K : Level[n] >= l}

(* T is the neighbour array of e: each slot is free or names a node of K   *)
(* that has the slot's layer.                                              *)
Safe(o, K, e, T) ==
  /\ T \in [AllSlots(o, e) -> K \cup {None}]
  /\ \A l \in 0..Level[e] : \A s \in SlotsOf(o, e, l) : T[s] \in Above(K, l) \cup {None}

(* More nodes may be named. *)
LEMMA SafeGrows ==
  ASSUME NEW o, NEW K, NEW K2, K \subseteq K2, NEW e, NEW T, Safe(o, K, e, T)
  PROVE  Safe(o, K2, e, T)
<1>1. T \in [AllSlots(o, e) -> K2 \cup {None}]
  BY DEF Safe
<1>2. \A l : Above(K, l) \subseteq Above(K2, l)
  BY DEF Above
<1> QED
  BY <1>1, <1>2 DEF Safe

(* A new array is empty. *)
LEMMA EmptySafe ==
  ASSUME SelectionAssumption, NEW o, Layout(o), NEW K, NEW e \in Elements
  PROVE  Safe(o, K, e, [s \in AllSlots(o, e) |-> None])
<1> DEFINE T == [s \in AllSlots(o, e) |-> None]
<1>1. T \in [AllSlots(o, e) -> K \cup {None}]
  OBVIOUS
<1>2. ASSUME NEW l \in 0..Level[e], NEW s \in SlotsOf(o, e, l) PROVE T[s] = None
  <2>1. s \in AllSlots(o, e)
    BY Geometry
  <2> QED
    BY <2>1
<1> HIDE DEF T
<1>3. Safe(o, K, e, T)
  BY <1>1, <1>2 DEF Safe
<1> QED
  BY <1>3 DEF T

(* So does an array in which slots of one layer name nodes that have the   *)
(* layer, or what they named before.                                       *)
LEMMA WriteSafe ==
  ASSUME SelectionAssumption, NEW o, Layout(o), NEW K, NEW e \in Elements, NEW T, Safe(o, K, e, T),
         NEW l \in 0..Level[e], NEW U, DOMAIN U = AllSlots(o, e), U = [s \in DOMAIN U |-> U[s]],
         \A s \in AllSlots(o, e) :
           U[s] = T[s] \/ (s \in SlotsOf(o, e, l) /\ U[s] \in Above(K, l))
  PROVE  Safe(o, K, e, U)
<1>1. /\ T \in [AllSlots(o, e) -> K \cup {None}]
      /\ \A k \in 0..Level[e] : \A s \in SlotsOf(o, e, k) : T[s] \in Above(K, k) \cup {None}
  BY DEF Safe
<1>2. Above(K, l) \subseteq K
  BY DEF Above
<1>3. \A s \in AllSlots(o, e) : U[s] \in K \cup {None}
  BY <1>1, <1>2
<1>4. U \in [AllSlots(o, e) -> K \cup {None}]
  BY ONLY <1>3, DOMAIN U = AllSlots(o, e), U = [s \in DOMAIN U |-> U[s]]
<1>5. ASSUME NEW k \in 0..Level[e], NEW s \in SlotsOf(o, e, k)
      PROVE  U[s] \in Above(K, k) \cup {None}
  <2>1. s \in AllSlots(o, e) /\ (s \in SlotsOf(o, e, l) => l = k)
    BY Geometry
  <2>2. T[s] \in Above(K, k) \cup {None}
    BY <1>1
  <2>3. CASE U[s] = T[s]
    BY <2>2, <2>3
  <2>4. CASE s \in SlotsOf(o, e, l) /\ U[s] \in Above(K, l)
    BY <2>1, <2>4
  <2> QED
    BY <2>1, <2>3, <2>4
<1> QED
  BY <1>4, <1>5 DEF Safe

(* Writing a selection to slots of a layer. *)
LEMMA PutSafe ==
  ASSUME SelectionAssumption, NEW o, Layout(o), NEW K, NEW e \in Elements, NEW T, Safe(o, K, e, T),
         NEW l \in 0..Level[e], NEW at \in Nat, NEW sel \in Seq(Above(K, l)),
         at..(at + Len(sel) - 1) \subseteq SlotsOf(o, e, l)
  PROVE  Safe(o, K, e, Put(T, at, sel))
<1> DEFINE U == Put(T, at, sel)
<1>1. DOMAIN T = AllSlots(o, e)
  BY DEF Safe
<1>2. U = [s \in DOMAIN T |-> IF s \in at..(at + Len(sel) - 1) THEN sel[s - at + 1] ELSE T[s]]
  BY DEF Put
<1> HIDE DEF U
<1>3. DOMAIN U = AllSlots(o, e) /\ U = [s \in DOMAIN U |-> U[s]]
  BY <1>1, <1>2
<1>4. ASSUME NEW s \in AllSlots(o, e)
      PROVE  U[s] = T[s] \/ (s \in SlotsOf(o, e, l) /\ U[s] \in Above(K, l))
  <2>1. CASE s \in at..(at + Len(sel) - 1)
    <3>1. U[s] = sel[s - at + 1]
      BY <1>1, <1>2, <2>1
    <3>2. s - at + 1 \in 1..Len(sel)
      BY <2>1, LenProperties
    <3>3. sel[s - at + 1] \in Above(K, l)
      BY <3>2, ElementOfSeq
    <3> QED
      BY <2>1, <3>1, <3>3
  <2>2. CASE ~(s \in at..(at + Len(sel) - 1))
    BY <1>1, <1>2, <2>2
  <2> QED
    BY <2>1, <2>2
<1>5. Safe(o, K, e, U)
  BY <1>3, <1>4, WriteSafe
<1> QED
  BY <1>5 DEF U

(* Writing one slot. *)
LEMMA PutOneSafe ==
  ASSUME SelectionAssumption, NEW o, Layout(o), NEW K, NEW e \in Elements, NEW T, Safe(o, K, e, T),
         NEW l \in 0..Level[e], NEW at \in SlotsOf(o, e, l), NEW x \in Above(K, l)
  PROVE  Safe(o, K, e, [T EXCEPT ![at] = x])
<1> DEFINE U == [T EXCEPT ![at] = x]
<1>1. DOMAIN U = DOMAIN T /\ DOMAIN T = AllSlots(o, e) /\ U = [s \in DOMAIN U |-> U[s]]
  BY DEF Safe
<1>2. \A s \in AllSlots(o, e) : U[s] = IF s = at THEN x ELSE T[s]
  BY <1>1
<1> HIDE DEF U
<1>3. \A s \in AllSlots(o, e) :
        U[s] = T[s] \/ (s \in SlotsOf(o, e, l) /\ U[s] \in Above(K, l))
  BY <1>2
<1>4. Safe(o, K, e, U)
  BY <1>1, <1>3, WriteSafe
<1> QED
  BY <1>4 DEF U

-----------------------------------------------------------------------------
(* Reverse edges                                                           *)

Pairs == [target : Elements, range : SUBSET Nat, payload : BOOLEAN]

(* An edge due to a node of K, within one layer that it and the new node   *)
(* have.                                                                   *)
Edge(o, K, top, d) ==
  /\ d.target \in K
  /\ \E l \in 0..top : Level[d.target] >= l /\ d.range \subseteq SlotsOf(o, d.target, l)

Due(o, K, top, R) ==
  R \in Seq(Pairs) /\ \A i \in 1..Len(R) : Edge(o, K, top, R[i])

(* More nodes may be targets. *)
LEMMA DueGrows ==
  ASSUME NEW o, NEW K, NEW K2, K \subseteq K2, NEW top, NEW R, Due(o, K, top, R)
  PROVE  Due(o, K2, top, R)
<1>1. \A d : Edge(o, K, top, d) => Edge(o, K2, top, d)
  BY DEF Edge
<1> QED
  BY <1>1 DEF Due

(* None are due. *)
LEMMA NoneDue ==
  ASSUME NEW o, NEW K, NEW top
  PROVE  Due(o, K, top, <<>>)
BY DEF Due

(* More edges are due. *)
LEMMA DueJoined ==
  ASSUME NEW o, NEW K, NEW top, NEW R, NEW S, Due(o, K, top, R), Due(o, K, top, S)
  PROVE  Due(o, K, top, R \o S)
<1>1. R \in Seq(Pairs) /\ S \in Seq(Pairs)
  BY DEF Due
<1>2. R \o S \in Seq(Pairs) /\ Len(R \o S) = Len(R) + Len(S) /\ Len(R) \in Nat /\ Len(S) \in Nat
  BY <1>1, ConcatProperties, LenProperties
<1>3. ASSUME NEW i \in 1..Len(R \o S) PROVE Edge(o, K, top, (R \o S)[i])
  <2>1. CASE i <= Len(R)
    <3>1. i \in 1..Len(R) /\ (R \o S)[i] = R[i]
      BY <1>1, <1>2, <2>1, ConcatProperties
    <3> QED
      BY <3>1 DEF Due
  <2>2. CASE ~(i <= Len(R))
    <3>1. i - Len(R) \in 1..Len(S) /\ (R \o S)[i] = S[i - Len(R)]
      BY <1>1, <1>2, <2>2, ConcatProperties
    <3> QED
      BY <3>1 DEF Due
  <2> QED
    BY <2>1, <2>2
<1> QED
  BY <1>2, <1>3 DEF Due

(* One less is due. *)
LEMMA DueTail ==
  ASSUME NEW o, NEW K, NEW top, NEW R, Due(o, K, top, R), R # <<>>
  PROVE  Head(R) \in Pairs /\ Edge(o, K, top, Head(R)) /\ Due(o, K, top, Tail(R))
<1>1. R \in Seq(Pairs) /\ Len(R) \in Nat /\ Len(R) >= 1 /\ Head(R) = R[1]
  BY EmptySeq, HeadTailProperties DEF Due
<1>2. /\ Tail(R) \in Seq(Pairs) /\ Len(Tail(R)) = Len(R) - 1
      /\ \A i \in 1..Len(Tail(R)) : Tail(R)[i] = R[i + 1]
  BY <1>1, HeadTailProperties DEF Due
<1>3. R[1] \in Pairs /\ Edge(o, K, top, R[1])
  BY <1>1, ElementOfSeq DEF Due
<1>4. \A i \in 1..Len(Tail(R)) : i + 1 \in 1..Len(R)
  BY <1>1, <1>2
<1>5. \A i \in 1..Len(Tail(R)) : Edge(o, K, top, Tail(R)[i])
  BY <1>2, <1>4 DEF Due
<1> QED
  BY <1>1, <1>2, <1>3, <1>5 DEF Due

(* The reverse edges of a selection are due. *)
LEMMA EdgesDue ==
  ASSUME SelectionAssumption, Layout(index), NEW K \in SUBSET Elements, NEW top \in Nat,
         NEW l \in 0..top, NEW sel \in Seq(Above(K, l)), NEW off \in Nat, NEW count \in Nat,
         off + count <= Width(index, l), NEW payload \in BOOLEAN
  PROVE  Due(index, K, top, Edges(sel, l, off, count, payload))
<1> DEFINE R == Edges(sel, l, off, count, payload)
           start(i) == NeighborStart(index.m, Level[sel[i]], l)
           d(i) == [target |-> sel[i], range |-> (start(i) + off)..(start(i) + off + count - 1),
                    payload |-> payload]
<1>1. DOMAIN sel = 1..Len(sel) /\ Len(sel) \in Nat
  BY LenProperties
<1>2. R = [i \in 1..Len(sel) |-> d(i)]
  BY <1>1 DEF Edges
<1>3. ASSUME NEW i \in 1..Len(sel)
      PROVE  /\ sel[i] \in K /\ sel[i] \in Elements /\ Level[sel[i]] \in Nat /\ Level[sel[i]] >= l
             /\ start(i) \in Nat
             /\ (start(i) + off)..(start(i) + off + count - 1) \subseteq SlotsOf(index, sel[i], l)
  <2>1. sel[i] \in Above(K, l)
    BY ElementOfSeq
  <2>2. sel[i] \in K /\ sel[i] \in Elements /\ Level[sel[i]] \in Nat /\ Level[sel[i]] >= l
    BY <2>1 DEF Above, SelectionAssumption
  <2>3. Level[sel[i]] - l \in Nat /\ index.m \in Nat
    BY <2>2 DEF Layout
  <2>4. start(i) \in Nat
    BY <2>3 DEF NeighborStart
  <2>5. Width(index, l) \in Nat
    BY DEF Width, Layout
  <2>6. SlotsOf(index, sel[i], l) = start(i)..(start(i) + Width(index, l) - 1)
    BY DEF SlotsOf
  <2> HIDE DEF start
  <2>7. (start(i) + off)..(start(i) + off + count - 1) \subseteq start(i)..(start(i) + Width(index, l) - 1)
    BY <2>4, <2>5
  <2> QED
    BY <2>2, <2>4, <2>6, <2>7
<1>4. ASSUME NEW i \in 1..Len(sel) PROVE d(i) \in Pairs /\ Edge(index, K, top, d(i))
  <2> DEFINE D == (start(i) + off)..(start(i) + off + count - 1)
  <2>1. sel[i] \in Elements /\ sel[i] \in K /\ Level[sel[i]] >= l /\ D \subseteq SlotsOf(index, sel[i], l)
    BY <1>3
  <2>2. D \in SUBSET Nat
    BY <1>3
  <2>3. d(i) = [target |-> sel[i], range |-> D, payload |-> payload]
    OBVIOUS
  <2> HIDE DEF d, D
  <2>4. d(i) \in Pairs
    BY <2>1, <2>2, <2>3 DEF Pairs
  <2>5. d(i).target = sel[i] /\ d(i).range = D
    BY <2>3
  <2> QED
    BY <2>1, <2>4, <2>5 DEF Edge
<1> HIDE DEF R, d
<1>5. R \in Seq(Pairs) /\ Len(R) = Len(sel)
  <2>1. R \in [1..Len(sel) -> Pairs]
    BY <1>2, <1>4
  <2> QED
    BY <1>1, <2>1, SeqDef, LenProperties
<1>6. \A i \in 1..Len(R) : Edge(index, K, top, R[i])
  BY <1>2, <1>4, <1>5
<1> QED
  BY <1>5, <1>6 DEF Due, R

-----------------------------------------------------------------------------
(* Reading and selecting                                                   *)

(* Of the pushed nodes N each names only nodes of K; the others have no    *)
(* array yet.                                                              *)
Arrays(o, N, K, nb) ==
  /\ DOMAIN nb = Elements
  /\ \A e \in Elements : IF e \in N THEN Safe(o, K, e, nb[e]) ELSE nb[e] = <<>>

(* What is read of a node on one of its layers has that layer, and lies    *)
(* within its array.                                                       *)
LEMMA CopyIn ==
  ASSUME SelectionAssumption, Layout(index), NEW N, NEW K \in SUBSET Elements, K \subseteq N,
         Arrays(index, N, K, nbr), NEW l \in Nat, NEW c \in Above(K, l)
  PROVE  /\ CopySlots(c, l) \subseteq Above(K, l)
         /\ LayerSlots(c, l) \subseteq DOMAIN nbr[c]
<1>1. c \in Elements /\ c \in N /\ Level[c] \in Nat /\ Level[c] >= l
  BY DEF Above, SelectionAssumption
<1>2. l \in 0..Level[c]
  BY <1>1
<1>3. Safe(index, K, c, nbr[c])
  BY <1>1 DEF Arrays
<1>4. LayerSlots(c, l) = SlotsOf(index, c, l)
  BY <1>1, SameGeometry
<1>5. \A s \in LayerSlots(c, l) : nbr[c][s] \in Above(K, l) \cup {None}
  BY <1>2, <1>3, <1>4 DEF Safe
<1>6. LayerSlots(c, l) \subseteq AllSlots(index, c)
  BY <1>1, <1>2, <1>4, Geometry
<1> QED
  BY <1>3, <1>5, <1>6 DEF CopySlots, Safe

(* The selection in force is a selection. *)
LEMMA SelectChosen ==
  ASSUME SelectionAssumption, NEW e \in Elements,
         NEW S \in SUBSET Elements, IsFiniteSet(S), NEW k \in Nat
  PROVE  Chosen(Select(e, S, k), S, k)
<1>1. Chosen(SelectDiverse(e, S, k), S, k) /\ Chosen(Nearest(e, S, k), S, k)
  BY NearestChosen, DiverseChosen
<1> QED
  BY <1>1 DEF Select

(* A selection as a sequence. *)
LEMMA ChosenIn ==
  ASSUME NEW sel, NEW S, NEW T, S \subseteq T, NEW k \in Nat, Chosen(sel, S, k)
  PROVE  sel \in Seq(T) /\ Len(sel) \in Nat /\ Len(sel) <= k /\ Range(sel) \subseteq S
<1>1. sel \in Seq(S) /\ Len(sel) <= k
  BY DEF Chosen
<1>2. Len(sel) \in Nat /\ sel \in [1..Len(sel) -> S] /\ DOMAIN sel = 1..Len(sel)
  BY <1>1, LenProperties
<1>3. sel \in [1..Len(sel) -> T]
  BY <1>2
<1>4. sel \in Seq(T)
  BY <1>2, <1>3, SeqDef
<1>5. Range(sel) \subseteq S
  BY <1>2 DEF Range
<1> QED
  BY <1>1, <1>2, <1>4, <1>5

(* The nearest of some candidates: some of them. *)
LEMMA NearestSome ==
  ASSUME SelectionAssumption, NEW e \in Elements,
         NEW S \in SUBSET Elements, IsFiniteSet(S), S # {}, NEW k \in Nat \ {0}
  PROVE  Range(Nearest(e, S, k)) \subseteq S /\ Range(Nearest(e, S, k)) # {}
<1> DEFINE n == IF Cardinality(S) < k THEN Cardinality(S) ELSE k
           sel == Nearest(e, S, k)
<1>1. Cardinality(S) \in Nat /\ Cardinality(S) # 0
  BY FS_EmptySet, FS_CardinalityType
<1>2. 1 \in 1..n
  BY <1>1
<1>3. sel = [i \in 1..n |-> Nth(e, S, i - 1)]
  BY DEF Nearest
<1>4. Chosen(sel, S, k)
  BY NearestChosen
<1> HIDE DEF n, sel
<1>5. Range(sel) \subseteq S
  BY <1>4, ChosenIn
<1>6. sel[1] \in Range(sel)
  BY <1>2, <1>3 DEF Range
<1> QED
  BY <1>5, <1>6 DEF sel

(* The payload half fits its slots. *)
LEMMA HalfFits ==
  ASSUME SelectionAssumption, Layout(index), NEW e \in Elements,
         NEW K \in SUBSET Elements, NEW cands \in SUBSET K, IsFiniteSet(cands), NEW gsel,
         NEW psel \in Seq(K), Len(psel) <= index.payload_m
  PROVE  /\ PayloadHalf(e, cands, gsel, psel) \in Seq(K)
         /\ Len(PayloadHalf(e, cands, gsel, psel)) <= index.payload_m
<1> DEFINE rest == cands \ (Range(gsel) \cup Range(psel))
           n == index.payload_m - Len(psel)
           more == Nearest(e, rest, n)
<1>1. Len(psel) \in Nat /\ index.payload_m \in Nat
  BY LenProperties DEF Layout
<1>2. n \in Nat /\ Len(psel) + n = index.payload_m
  BY <1>1
<1>3. rest \subseteq cands /\ rest \in SUBSET Elements /\ rest \subseteq K
  OBVIOUS
<1>4. PayloadHalf(e, cands, gsel, psel) = psel \o more
  BY DEF PayloadHalf
<1> HIDE DEF rest, n
<1>5. IsFiniteSet(rest)
  BY <1>3, FS_Subset
<1>6. Chosen(more, rest, n)
  BY <1>2, <1>3, <1>5, NearestChosen
<1> HIDE DEF more
<1>7. more \in Seq(K) /\ Len(more) \in Nat /\ Len(more) <= n
  BY <1>2, <1>3, <1>6, ChosenIn
<1>8. psel \o more \in Seq(K) /\ Len(psel \o more) = Len(psel) + Len(more)
  BY <1>7, ConcatProperties
<1> QED
  BY <1>1, <1>2, <1>4, <1>7, <1>8

-----------------------------------------------------------------------------
(* What an insert has in hand                                              *)

All == {"pc", "row", "hold", "entry_level", "ep", "lc", "restricted", "C", "W",
        "visited", "cands", "gsel", "rev"}

(* acorn_mem_greedy_descend: at a node that has the layer. *)
Descending(K, r) ==
  r.lc \in Nat /\ Level[r.row] < r.lc /\ r.ep \in Above(K, r.lc)

(* Between the halves of layer 0: the candidates and the global half. *)
Halved(o, K, r) ==
  r.lc = 0 /\ r.cands \subseteq K /\ r.gsel \in Seq(K) /\ Len(r.gsel) <= o.m

(* acorn_mem_search_layer: the candidates and the nearest so far have the  *)
(* layer searched.                                                         *)
Searching(o, K, r) ==
  /\ r.lc \in 0..Level[r.row]
  /\ r.C \subseteq Above(K, r.lc)
  /\ r.W \subseteq Above(K, r.lc) /\ r.W # {}
  /\ r.restricted => Halved(o, K, r)

(* What a participant has in hand are nodes of K. *)
Phase(o, K, r) ==
  /\ All \subseteq DOMAIN r
  /\ r.pc = "descend" => Descending(K, r)
  /\ r.pc = "search" => Searching(o, K, r)
  /\ r.pc \in InMemory => Due(o, K, Level[r.row], r.rev)
  /\ r.pc \notin InMemory => r.rev = <<>>

(* More nodes may be come across. *)
LEMMA PhaseGrows ==
  ASSUME NEW o, NEW K, NEW K2, K \subseteq K2, NEW r, Phase(o, K, r)
  PROVE  Phase(o, K2, r)
<1>1. \A l : Above(K, l) \subseteq Above(K2, l)
  BY DEF Above
<1>2. r.pc = "descend" => Descending(K2, r)
  BY <1>1 DEF Phase, Descending
<1>3. r.gsel \in Seq(K) => r.gsel \in Seq(K2)
  OBVIOUS
<1>4. r.pc = "search" => Searching(o, K2, r)
  BY <1>1, <1>3 DEF Phase, Searching, Halved
<1>5. r.pc \in InMemory => Due(o, K2, Level[r.row], r.rev)
  BY DueGrows DEF Phase
<1> QED
  BY <1>2, <1>4, <1>5 DEF Phase

(* A search of a whole layer, and one within a partition. *)
Whole(r, ep, l)  == Search(r, ep, l, FALSE)
Within(r, ep, l) == Search(r, ep, l, TRUE)

(* An insert whose reverse edges so far are due to nodes of K.             *)
Ready(o, K, r) ==
  All \subseteq DOMAIN r /\ r.row \in Elements /\ Due(o, K, Level[r.row], r.rev)

(* Node n has layer l, and so has the node inserted. *)
Meets(K, r, l, n) == l \in 0..Level[r.row] /\ n \in Above(K, l)

(* What a search of layer r.lc has left to go on with. *)
Candidates(K, r, cands) ==
  /\ r.lc \in 0..Level[r.row] /\ cands \subseteq Above(K, r.lc) /\ IsFiniteSet(cands)
  /\ r.lc # 0 => cands # {}

(* The phase an insert goes to. *)
Goes(o, K, r, q, pcs) == Phase(o, K, q) /\ q.row = r.row /\ q.pc \in pcs

(* Seeding a search at a node that has the layer. *)
LEMMA WholePhase ==
  ASSUME NEW o, NEW K, NEW r, Ready(o, K, r), NEW l, NEW ep, Meets(K, r, l, ep),
         NEW q, q = Whole(r, ep, l)
  PROVE  Goes(o, K, r, q, {"search"})
<1>1. /\ All \subseteq DOMAIN q
      /\ q.pc = "search" /\ q.row = r.row /\ q.rev = r.rev /\ q.lc = l
      /\ q.C = {ep} /\ q.W = {ep}
  BY DEF Search, All, Whole, Ready
<1>2. q.restricted = FALSE
  BY DEF Search, All, Whole, Ready
<1>3. Searching(o, K, q)
  BY <1>1, <1>2 DEF Searching, Meets
<1>4. Phase(o, K, q)
  BY <1>1, <1>3 DEF Phase, InMemory, Ready
<1> QED
  BY <1>1, <1>4 DEF Goes

(* The same within a partition, between the halves. *)
LEMMA WithinPhase ==
  ASSUME NEW o, NEW K, NEW r, Ready(o, K, r), NEW ep, Meets(K, r, 0, ep),
         r.cands \subseteq K, r.gsel \in Seq(K), Len(r.gsel) <= o.m,
         NEW q, q = Within(r, ep, 0)
  PROVE  Goes(o, K, r, q, {"search"})
<1>1. /\ All \subseteq DOMAIN q
      /\ q.pc = "search" /\ q.row = r.row /\ q.rev = r.rev /\ q.lc = 0
      /\ q.C = {ep} /\ q.W = {ep} /\ q.cands = r.cands /\ q.gsel = r.gsel
  BY DEF Search, All, Within, Ready
<1>2. Halved(o, K, q)
  BY <1>1 DEF Halved
<1>3. Searching(o, K, q)
  BY <1>1, <1>2 DEF Searching, Meets
<1>4. Phase(o, K, q)
  BY <1>1, <1>3 DEF Phase, InMemory, Ready
<1> QED
  BY <1>1, <1>4 DEF Goes

(* The next layer starts at a candidate, which has it too; after the last  *)
(* one the reverse edges are due.                                          *)
LEMMA BelowPhase ==
  ASSUME SelectionAssumption, NEW o, NEW K \in SUBSET Elements, NEW r, Ready(o, K, r),
         NEW cands, Candidates(K, r, cands), NEW q, q = BelowLayer(r, cands)
  PROVE  Goes(o, K, r, q, {"search", "link"})
<1>1. CASE r.lc = 0
  <2>1. /\ All \subseteq DOMAIN q
        /\ q.pc = "link" /\ q.row = r.row /\ q.rev = r.rev
    BY <1>1 DEF BelowLayer, All, Ready
  <2>2. Phase(o, K, q)
    BY <2>1 DEF Phase, InMemory, Ready
  <2> QED
    BY <2>1, <2>2 DEF Goes
<1>2. CASE r.lc # 0
  <2> DEFINE ep == Closest(r.row, cands)
             l  == r.lc - 1
  <2>1. q = Whole(r, ep, l)
    BY <1>2 DEF BelowLayer, Whole
  <2>2. Level \in [Elements -> Nat] /\ r.row \in Elements
    BY DEF SelectionAssumption, Ready
  <2>3. /\ r.lc \in 0..Level[r.row] /\ cands \subseteq Above(K, r.lc) /\ IsFiniteSet(cands)
        /\ cands # {} /\ cands \in SUBSET Elements
    BY <1>2 DEF Candidates, Above
  <2>4. Level[r.row] \in Nat /\ r.lc \in Nat
    BY <2>2, <2>3
  <2>5. ep \in cands
    BY <2>2, <2>3, EndsIn
  <2>6. l \in 0..Level[r.row]
    BY <1>2, <2>3, <2>4
  <2>7. ep \in K /\ Level[ep] >= r.lc /\ Level[ep] \in Nat
    BY <2>2, <2>3, <2>5 DEF Above
  <2>8. Level[ep] >= l
    BY <2>4, <2>7
  <2> HIDE DEF ep, l
  <2>9. Meets(K, r, l, ep)
    BY <2>6, <2>7, <2>8 DEF Meets, Above
  <2>10. Goes(o, K, r, q, {"search"})
    BY <2>1, <2>9, WholePhase
  <2> QED
    BY <2>10 DEF Goes
<1> QED
  BY <1>1, <1>2

-----------------------------------------------------------------------------
(* The rows and the graph                                                  *)

(* A row is in a participant's hands. *)
Active == {"insert", "spill"} \cup InMemory

(* A pushed node whose own slots are still being written. *)
Wiring == InMemory \ {"link", "register"}

Wired == Range(nodes) \ Unwired

InHand(r) ==
  /\ r.pc \in States
  /\ r.pc \in Active => r.row \in taken
  /\ r.pc \in {"insert", "spill"} => r.row \notin Range(nodes)
  /\ r.pc \in InMemory => r.row \in Range(nodes)

(* A row is in the hands of one participant, and pushed once. *)
RowInv ==
  /\ Range(nodes) \subseteq taken /\ taken \subseteq Elements
  /\ \A i, j \in 1..Len(nodes) : nodes[i] = nodes[j] => i = j
  /\ \A p \in Participants : InHand(work[p])
  /\ \A p, q \in Participants :
       p # q /\ work[p].pc \in Active /\ work[q].pc \in Active => work[p].row # work[q].row

EntryIn(K, en) == en.id # None => en.id \in K /\ en.level = Level[en.id]
PartsIn(K, parts) ==
  DOMAIN parts = Range(Partition) /\ \A q \in Range(Partition) : parts[q] \in K \cup {None}

(* Whatever the arrays, the entry points and the participants name is      *)
(* wired.                                                                  *)
GraphInv ==
  /\ index \in Indexes
  /\ Arrays(index, Range(nodes), Wired, nbr)
  /\ EntryIn(Wired, entry)
  /\ PartsIn(Wired, part_entry)
  /\ \A p \in Participants : Phase(index, Wired, work[p])

BuildInv == IInv /\ RowInv /\ GraphInv

(* What holds whenever a participant is inserting into the graph. *)
LEMMA Inserting ==
  ASSUME SelectionAssumption, BuildAssumption, BuildInv, NEW p \in Participants,
         work[p].pc \in InMemory
  PROVE  /\ Layout(index) /\ index \in Indexes
         /\ Wired \in SUBSET Elements /\ Wired \subseteq Range(nodes) /\ IsFiniteSet(Wired)
         /\ work[p].row \in Elements /\ work[p].row \in Range(nodes)
         /\ Level[work[p].row] \in Nat
         /\ work[p].pc \notin Wiring => work[p].row \in Wired
         /\ Phase(index, Wired, work[p]) /\ All \subseteq DOMAIN work[p]
         /\ Arrays(index, Range(nodes), Wired, nbr)
<1>1. index \in Indexes /\ Layout(index)
  BY DEF BuildInv, GraphInv, BuildAssumption, Layout
<1>2. Range(nodes) \subseteq Elements /\ Wired \subseteq Range(nodes)
  BY DEF BuildInv, RowInv, Wired
<1>3. IsFiniteSet(Wired)
  BY <1>2, FS_Subset DEF BuildAssumption
<1>4. work[p].row \in Range(nodes)
  BY DEF BuildInv, RowInv, InHand
<1>5. work[p].row \in Elements /\ Level[work[p].row] \in Nat
  BY <1>2, <1>4 DEF SelectionAssumption
<1>6. ASSUME work[p].pc \notin Wiring PROVE work[p].row \in Wired
  <2> SUFFICES ASSUME NEW q \in Participants, work[q].pc \in Wiring, work[q].row = work[p].row
               PROVE  FALSE
    BY <1>4 DEF Wired, Unwired, Wiring
  <2> QED
    BY <1>6 DEF BuildInv, RowInv, Active, Wiring
<1>7. Phase(index, Wired, work[p]) /\ Arrays(index, Range(nodes), Wired, nbr)
  BY DEF BuildInv, GraphInv
<1>8. All \subseteq DOMAIN work[p]
  BY <1>7 DEF Phase
<1> QED
  BY <1>1, <1>2, <1>3, <1>4, <1>5, <1>6, <1>7, <1>8

(* Within an insert, a node becomes wired when its reverse edges are due   *)
(* or it is the first.                                                     *)
LEMMA WiredNext ==
  ASSUME BuildInv, NEW p \in Participants, NEW r, Become(p, r), UNCHANGED nodes,
         work[p].pc \in InMemory, r.pc \in InMemory, r.row = work[p].row,
         work[p].pc \notin Wiring => r.pc \notin Wiring
  PROVE  Wired' = IF r.pc \in Wiring THEN Wired ELSE Wired \cup {r.row}
<1>1. /\ DOMAIN work' = Participants /\ work'[p] = r
      /\ \A q \in Participants \ {p} : work'[q] = work[q]
  BY DEF BuildInv, IInv, Become
<1>2. /\ Unwired = {work[q].row : q \in {q \in Participants : work[q].pc \in Wiring}}
      /\ Unwired' = {work'[q].row : q \in {q \in Participants : work'[q].pc \in Wiring}}
  BY DEF Unwired, Wiring
<1>3. Range(nodes)' = Range(nodes) /\ work[p].row \in Range(nodes)
  BY DEF BuildInv, RowInv, InHand
<1>4. CASE r.pc \in Wiring
  <2>1. work[p].pc \in Wiring
    BY <1>4
  <2>2. \A q \in Participants :
          (work'[q].pc \in Wiring <=> work[q].pc \in Wiring) /\ work'[q].row = work[q].row
    BY <1>1, <1>4, <2>1
  <2>3. Unwired' = Unwired
    BY <1>2, <2>2
  <2> QED
    BY <1>3, <1>4, <2>3 DEF Wired
<1>5. CASE r.pc \notin Wiring
  <2>1. \A q \in Participants : work'[q].pc \in Wiring <=> q # p /\ work[q].pc \in Wiring
    BY <1>1, <1>5
  <2>2. \A q \in Participants \ {p} : work[q].pc \in Wiring => work[q].row # r.row
    BY DEF BuildInv, RowInv, Active, Wiring
  <2>3. ASSUME NEW x PROVE x \in Unwired' <=> x \in Unwired /\ x # r.row
    BY <1>1, <1>2, <2>1, <2>2
  <2>4. Wired' = Wired \cup {r.row}
    BY <1>3, <2>3 DEF Wired
  <2> QED
    BY <1>5, <2>4
<1> QED
  BY <1>4, <1>5

(* More nodes may be named. *)
LEMMA ArraysGrow ==
  ASSUME NEW o, NEW N, NEW K, NEW K2, K \subseteq K2, NEW nb, Arrays(o, N, K, nb)
  PROVE  Arrays(o, N, K2, nb)
BY SafeGrows DEF Arrays

(* One array is written. *)
LEMMA ArraysWrite ==
  ASSUME NEW o, NEW N, NEW K, NEW nb, Arrays(o, N, K, nb), NEW e \in N, NEW T, Safe(o, K, e, T)
  PROVE  Arrays(o, N, K, [nb EXCEPT ![e] = T])
<1> DEFINE mb == [nb EXCEPT ![e] = T]
<1>1. DOMAIN mb = Elements /\ \A x \in Elements : mb[x] = IF x = e THEN T ELSE nb[x]
  BY DEF Arrays
<1> HIDE DEF mb
<1>2. Arrays(o, N, K, mb)
  BY <1>1 DEF Arrays
<1> QED
  BY <1>2 DEF mb

(* A step of an insert keeps the invariant if what it writes and what it   *)
(* leaves the participant with names only nodes that are wired then.       *)
LEMMA MemStep ==
  ASSUME BuildInv, IInv', NEW p \in Participants, NEW r, Become(p, r),
         UNCHANGED <<index, nodes, taken>>,
         work[p].pc \in InMemory, r.pc \in InMemory, r.row = work[p].row,
         work[p].pc \notin Wiring => r.pc \notin Wiring,
         NEW K, K = IF r.pc \in Wiring THEN Wired ELSE Wired \cup {r.row},
         Arrays(index, Range(nodes), K, nbr'), EntryIn(K, entry'), PartsIn(K, part_entry'),
         Phase(index, K, r)
  PROVE  BuildInv'
<1>1. /\ DOMAIN work' = Participants /\ work'[p] = r
      /\ \A q \in Participants \ {p} : work'[q] = work[q]
  BY DEF BuildInv, IInv, Become
<1>2. Wired' = K
  BY WiredNext
<1>3. Range(nodes)' = Range(nodes)
  OBVIOUS
<1>4. ASSUME NEW q \in Participants PROVE InHand(work[q])'
  <2>1. InHand(work[q])
    BY DEF BuildInv, RowInv
  <2>2. CASE q = p
    BY <1>1, <1>3, <2>1, <2>2 DEF InHand, Active, States, InMemory
  <2>3. CASE q # p
    BY <1>1, <1>3, <2>1, <2>3 DEF InHand
  <2> QED
    BY <2>2, <2>3
<1>5. \A q \in Participants :
        work'[q].row = work[q].row /\ (work'[q].pc \in Active <=> work[q].pc \in Active)
  BY <1>1 DEF Active
<1>6. RowInv'
  BY <1>3, <1>4, <1>5 DEF BuildInv, RowInv
<1>7. ASSUME NEW q \in Participants PROVE Phase(index', Wired', work'[q])
  <2>1. CASE q = p
    BY <1>1, <1>2, <2>1
  <2>2. CASE q # p
    <3>1. Wired \subseteq K /\ Phase(index, Wired, work[q])
      BY DEF BuildInv, GraphInv
    <3>2. Phase(index, K, work[q])
      BY <3>1, PhaseGrows
    <3> QED
      BY <1>1, <1>2, <2>2, <3>2
  <2> QED
    BY <2>1, <2>2
<1>8. GraphInv'
  BY <1>2, <1>3, <1>7 DEF BuildInv, GraphInv
<1> QED
  BY <1>6, <1>8 DEF BuildInv

(* In particular a step that writes nothing, and leaves the node unwired.  *)
LEMMA OwnMove ==
  ASSUME BuildInv, IInv', NEW p \in Participants, NEW r, Become(p, r),
         UNCHANGED <<index, nodes, taken, nbr, entry, part_entry>>,
         work[p].pc \in Wiring, r.pc \in Wiring, r.row = work[p].row,
         Phase(index, Wired, r)
  PROVE  BuildInv'
<1>1. work[p].pc \in InMemory /\ r.pc \in InMemory
  BY DEF Wiring
<1>2. /\ Arrays(index, Range(nodes), Wired, nbr') /\ EntryIn(Wired, entry')
      /\ PartsIn(Wired, part_entry')
  BY DEF BuildInv, GraphInv
<1> QED
  BY <1>1, <1>2, MemStep

-----------------------------------------------------------------------------
(* The steps of an insert                                                  *)

(* Waiting for a lock changes nothing else. *)
LEMMA WaitBuild ==
  ASSUME SelectionAssumption, BuildAssumption, BuildInv, IInv', NEW p \in Participants,
         WaitForEntry(p) \/ WaitForExclusive(p)
  PROVE  BuildInv'
<1>1. work[p].pc \in Wiring /\ work[p].pc \in InMemory
  BY DEF WaitForEntry, WaitForExclusive, Wiring, InMemory
<1>2. UNCHANGED <<index, nodes, taken, nbr, entry, part_entry>>
  BY DEF WaitForEntry, WaitForExclusive, graph
<1>3. All \subseteq DOMAIN work[p] /\ Phase(index, Wired, work[p])
  BY <1>1, Inserting
<1>4. ASSUME NEW pc \in {"entry", "entry_exclusive"}, Become(p, [work[p] EXCEPT !.pc = pc])
      PROVE  BuildInv'
  <2> DEFINE r == [work[p] EXCEPT !.pc = pc]
  <2>1. /\ DOMAIN r = DOMAIN work[p] /\ r.pc = pc /\ r.row = work[p].row /\ r.rev = work[p].rev
    BY <1>3 DEF All
  <2>2. Become(p, r)
    BY <1>4
  <2> HIDE DEF r
  <2>3. r.pc \in Wiring /\ r.pc \in InMemory /\ r.pc # "descend" /\ r.pc # "search"
    BY <2>1 DEF Wiring, InMemory
  <2>4. Phase(index, Wired, r)
    BY <1>1, <1>3, <2>1, <2>3 DEF Phase
  <2> QED
    BY <1>1, <1>2, <2>1, <2>2, <2>3, <2>4, OwnMove
<1>5. \E pc \in {"entry", "entry_exclusive"} : Become(p, [work[p] EXCEPT !.pc = pc])
  BY DEF WaitForEntry, WaitForExclusive
<1> QED
  BY <1>4, <1>5

(* With the entry point in hand, which is wired and has the layer that is  *)
(* descended from or searched.                                             *)
LEMMA StartBuild ==
  ASSUME SelectionAssumption, BuildAssumption, BuildInv, IInv', NEW p \in Participants,
         work[p].pc \in Wiring, entry.id # None, NEW hold, Become(p, Start(work[p], hold)),
         UNCHANGED <<index, nodes, taken, nbr, entry, part_entry>>
  PROVE  BuildInv'
<1> DEFINE e == work[p].row
           q == [work[p] EXCEPT !.hold = hold, !.entry_level = entry.level]
           down == [q EXCEPT !.pc = "descend", !.ep = entry.id, !.lc = entry.level]
           at == Whole(q, entry.id, entry.level)
<1>1. work[p].pc \in InMemory
  BY DEF Wiring
<1>2. /\ All \subseteq DOMAIN work[p] /\ Phase(index, Wired, work[p])
      /\ Wired \in SUBSET Elements /\ e \in Elements /\ Level[e] \in Nat
  BY <1>1, Inserting
<1>3. entry.id \in Wired /\ entry.level = Level[entry.id]
  BY DEF BuildInv, GraphInv, EntryIn
<1>4. entry.level \in Nat /\ entry.id \in Above(Wired, entry.level)
  BY <1>2, <1>3 DEF SelectionAssumption, Above
<1>5. /\ DOMAIN q = DOMAIN work[p] /\ q.row = e /\ q.rev = work[p].rev /\ q.pc = work[p].pc
  BY <1>2 DEF All
<1>6. Start(work[p], hold) = IF entry.level > Level[e] THEN down ELSE at
  BY DEF Start, Whole
<1> HIDE DEF q
<1>7. Ready(index, Wired, q) /\ Due(index, Wired, Level[e], q.rev)
  BY <1>1, <1>2, <1>5 DEF Phase, Ready
<1>8. CASE entry.level > Level[e]
  <2>1. /\ DOMAIN down = DOMAIN q /\ down.pc = "descend" /\ down.row = e /\ down.rev = q.rev
        /\ down.ep = entry.id /\ down.lc = entry.level
    BY <1>2, <1>5 DEF All
  <2>2. Become(p, down)
    BY <1>6, <1>8
  <2> HIDE DEF down
  <2>3. Descending(Wired, down)
    BY <1>2, <1>4, <1>8, <2>1 DEF Descending
  <2>4. Phase(index, Wired, down)
    BY <1>2, <1>5, <1>7, <2>1, <2>3 DEF Phase, InMemory
  <2>5. down.pc \in Wiring
    BY <2>1 DEF Wiring, InMemory
  <2> QED
    BY <2>1, <2>2, <2>4, <2>5, OwnMove
<1>9. CASE ~(entry.level > Level[e])
  <2>1. Meets(Wired, q, entry.level, entry.id)
    BY <1>2, <1>4, <1>5, <1>9 DEF Meets
  <2>2. Become(p, at)
    BY <1>6, <1>9
  <2>3. at = Whole(q, entry.id, entry.level)
    OBVIOUS
  <2> HIDE DEF at
  <2>4. Goes(index, Wired, q, at, {"search"})
    BY <1>7, <2>1, <2>3, WholePhase
  <2>6. Phase(index, Wired, at) /\ at.row = e /\ at.pc = "search"
    BY <1>5, <2>4 DEF Goes
  <2>5. at.pc \in Wiring
    BY <2>6 DEF Wiring, InMemory
  <2> QED
    BY <2>2, <2>5, <2>6, OwnMove
<1> QED
  BY <1>8, <1>9

(* Reading the entry point under the shared lock. *)
LEMMA ReadBuild ==
  ASSUME SelectionAssumption, BuildAssumption, BuildInv, IInv', NEW p \in Participants,
         ReadEntry(p)
  PROVE  BuildInv'
<1>1. work[p].pc \in Wiring /\ work[p].pc \in InMemory
  BY DEF ReadEntry, Wiring, InMemory
<1>2. UNCHANGED <<index, nodes, taken, nbr, entry, part_entry>>
  BY DEF ReadEntry, graph
<1>3. All \subseteq DOMAIN work[p] /\ Phase(index, Wired, work[p])
  BY <1>1, Inserting
<1>4. CASE MayUpdateEntry(work[p].row)
  <2> DEFINE r == [work[p] EXCEPT !.pc = "wait_exclusive"]
  <2>1. /\ DOMAIN r = DOMAIN work[p] /\ r.pc = "wait_exclusive" /\ r.row = work[p].row
        /\ r.rev = work[p].rev
    BY <1>3 DEF All
  <2>2. Become(p, r)
    BY <1>4 DEF ReadEntry
  <2> HIDE DEF r
  <2>3. r.pc \in Wiring /\ r.pc \in InMemory /\ r.pc # "descend" /\ r.pc # "search"
    BY <2>1 DEF Wiring, InMemory
  <2>4. Phase(index, Wired, r)
    BY <1>1, <1>3, <2>1, <2>3 DEF Phase
  <2> QED
    BY <1>1, <1>2, <2>1, <2>2, <2>3, <2>4, OwnMove
<1>5. CASE ~MayUpdateEntry(work[p].row)
  <2>1. Become(p, Start(work[p], "shared")) /\ entry.id # None
    BY <1>5 DEF ReadEntry, MayUpdateEntry
  <2> QED
    BY <1>1, <1>2, <2>1, StartBuild
<1> QED
  BY <1>4, <1>5

(* The entry point becomes a node that is wired as of this step, and known *)
(* with its level.                                                         *)
LEMMA RaiseBuild ==
  ASSUME SelectionAssumption, BuildAssumption, BuildInv, IInv', NEW p \in Participants,
         work[p].pc \in InMemory, NEW r, Become(p, r), r.pc = "register", r.row = work[p].row,
         r.rev = work[p].rev, All \subseteq DOMAIN r,
         UNCHANGED <<index, nodes, taken, nbr, part_entry>>,
         entry' = entry \/ entry' = [id |-> work[p].row, level |-> Level[work[p].row]]
  PROVE  BuildInv'
<1> DEFINE e == work[p].row
           K == Wired \cup {e}
<1>1. r.pc \in InMemory /\ r.pc \notin Wiring
  BY DEF InMemory, Wiring
<1>2. Arrays(index, Range(nodes), Wired, nbr) /\ Phase(index, Wired, work[p])
  BY Inserting
<1>3. EntryIn(Wired, entry) /\ PartsIn(Wired, part_entry)
  BY DEF BuildInv, GraphInv
<1>4. Wired \subseteq K /\ e \in K
  OBVIOUS
<1>5. K = IF r.pc \in Wiring THEN Wired ELSE Wired \cup {r.row}
  BY <1>1
<1> HIDE DEF K, e
<1>6. Arrays(index, Range(nodes), K, nbr')
  BY <1>2, <1>4, ArraysGrow
<1>7. EntryIn(K, entry')
  BY <1>3, <1>4 DEF EntryIn, e
<1>8. PartsIn(K, part_entry')
  BY <1>3, <1>4 DEF PartsIn
<1>9. Due(index, K, Level[r.row], r.rev)
  BY <1>2, <1>4, DueGrows DEF Phase
<1>10. Phase(index, K, r)
  BY <1>1, <1>9 DEF Phase
<1> QED
  BY <1>1, <1>5, <1>6, <1>7, <1>8, <1>10, MemStep

(* Reading it under the exclusive lock. *)
LEMMA ReadExclusiveBuild ==
  ASSUME SelectionAssumption, BuildAssumption, BuildInv, IInv', NEW p \in Participants,
         ReadEntryExclusive(p)
  PROVE  BuildInv'
<1>1. work[p].pc \in Wiring /\ work[p].pc \in InMemory
  BY DEF ReadEntryExclusive, Wiring, InMemory
<1>2. UNCHANGED <<index, nodes, taken, nbr, part_entry>>
  BY DEF ReadEntryExclusive
<1>3. All \subseteq DOMAIN work[p]
  BY <1>1, Inserting
<1>4. CASE entry.id = None
  <2> DEFINE r == [work[p] EXCEPT !.pc = "register"]
  <2>1. /\ DOMAIN r = DOMAIN work[p] /\ r.pc = "register" /\ r.row = work[p].row
        /\ r.rev = work[p].rev
    BY <1>3 DEF All
  <2>2. Become(p, r) /\ entry' = [id |-> work[p].row, level |-> Level[work[p].row]]
    BY <1>4 DEF ReadEntryExclusive
  <2> HIDE DEF r
  <2> QED
    BY <1>1, <1>2, <1>3, <2>1, <2>2, RaiseBuild
<1>5. CASE entry.id # None
  <2>1. Become(p, Start(work[p], "exclusive")) /\ UNCHANGED entry
    BY <1>5 DEF ReadEntryExclusive
  <2> QED
    BY <1>1, <1>2, <1>5, <2>1, StartBuild
<1> QED
  BY <1>4, <1>5

(* The end of an insert. *)
LEMMA UpdateBuild ==
  ASSUME SelectionAssumption, BuildAssumption, BuildInv, IInv', NEW p \in Participants,
         UpdateEntryPoint(p)
  PROVE  BuildInv'
<1> DEFINE r == [work[p] EXCEPT !.pc = "register", !.hold = "none"]
<1>1. work[p].pc \in InMemory
  BY DEF UpdateEntryPoint, InMemory
<1>2. All \subseteq DOMAIN work[p]
  BY <1>1, Inserting
<1>3. /\ DOMAIN r = DOMAIN work[p] /\ r.pc = "register" /\ r.row = work[p].row
      /\ r.rev = work[p].rev
  BY <1>2 DEF All
<1>4. /\ Become(p, r) /\ UNCHANGED <<index, nodes, taken, nbr, part_entry>>
      /\ entry' = entry \/ entry' = [id |-> work[p].row, level |-> Level[work[p].row]]
  BY DEF UpdateEntryPoint
<1> HIDE DEF r
<1> QED
  BY <1>1, <1>2, <1>3, <1>4, RaiseBuild

(* A turn of the descent goes to a neighbour that has the layer, or down.  *)
LEMMA DescendBuild ==
  ASSUME SelectionAssumption, BuildAssumption, BuildInv, IInv', NEW p \in Participants,
         Descend(p)
  PROVE  BuildInv'
<1> DEFINE w == work[p]
           e == w.row
           nearer == {n \in CopySlots(w.ep, w.lc) : Dist(n, e) < Dist(w.ep, e)}
           moved == [w EXCEPT !.ep = Closest(e, nearer)]
           lower == [w EXCEPT !.lc = @ - 1]
           at == Whole(w, w.ep, w.lc - 1)
<1>1. w.pc = "descend" /\ w.pc \in Wiring /\ w.pc \in InMemory
  BY DEF Descend, Wiring, InMemory
<1>2. UNCHANGED <<index, nodes, taken, nbr, entry, part_entry>>
  BY DEF Descend, graph
<1>3. Become(p, IF nearer # {} THEN moved ELSE IF w.lc - 1 > Level[e] THEN lower ELSE at)
  BY DEF Descend, Whole
<1>4. /\ Layout(index) /\ All \subseteq DOMAIN w /\ Phase(index, Wired, w)
      /\ Wired \in SUBSET Elements /\ Wired \subseteq Range(nodes) /\ IsFiniteSet(Wired)
      /\ Level[e] \in Nat /\ e \in Elements /\ Arrays(index, Range(nodes), Wired, nbr)
  BY <1>1, Inserting
<1>5. w.lc \in Nat /\ Level[e] < w.lc /\ w.ep \in Above(Wired, w.lc)
  BY <1>1, <1>4 DEF Phase, Descending
<1>6. Due(index, Wired, Level[e], w.rev)
  BY <1>1, <1>4 DEF Phase
<1>7. CopySlots(w.ep, w.lc) \subseteq Above(Wired, w.lc)
  BY <1>4, <1>5, CopyIn
<1>8. ASSUME NEW r, Become(p, r), All \subseteq DOMAIN r, r.pc = "descend", r.row = e,
             r.rev = w.rev, r.lc \in Nat, Level[e] < r.lc, r.ep \in Above(Wired, r.lc)
      PROVE  BuildInv'
  <2>1. Phase(index, Wired, r)
    BY <1>6, <1>8 DEF Phase, Descending, InMemory
  <2>2. r.pc \in Wiring
    BY <1>8 DEF Wiring, InMemory
  <2> QED
    BY <1>1, <1>2, <1>8, <2>1, <2>2, OwnMove
<1>9. CASE nearer # {}
  <2>1. nearer \subseteq Above(Wired, w.lc) /\ nearer \subseteq Wired /\ nearer \in SUBSET Elements
    BY <1>4, <1>7 DEF Above
  <2>2. IsFiniteSet(nearer)
    BY <1>4, <2>1, FS_Subset
  <2> DEFINE n == Closest(e, nearer)
  <2>3. Become(p, moved)
    BY <1>3, <1>9
  <2> HIDE DEF nearer
  <2>4. n \in nearer
    BY <1>4, <1>9, <2>1, <2>2, EndsIn
  <2> HIDE DEF n
  <2>5. /\ DOMAIN moved = DOMAIN w /\ moved.pc = w.pc /\ moved.row = e /\ moved.rev = w.rev
        /\ moved.lc = w.lc /\ moved.ep = n
    BY <1>4 DEF All, n
  <2> HIDE DEF moved
  <2> QED
    BY <1>1, <1>4, <1>5, <1>8, <2>1, <2>3, <2>4, <2>5
<1>10. CASE nearer = {} /\ w.lc - 1 > Level[e]
  <2>1. Become(p, lower)
    BY <1>3, <1>10
  <2>2. /\ DOMAIN lower = DOMAIN w /\ lower.pc = w.pc /\ lower.row = e /\ lower.rev = w.rev
        /\ lower.lc = w.lc - 1 /\ lower.ep = w.ep
    BY <1>4 DEF All
  <2>3. w.lc - 1 \in Nat /\ w.ep \in Above(Wired, w.lc - 1)
    BY <1>4, <1>5, <1>10 DEF Above, SelectionAssumption
  <2> HIDE DEF lower
  <2> QED
    BY <1>1, <1>4, <1>8, <1>10, <2>1, <2>2, <2>3
<1>11. CASE nearer = {} /\ ~(w.lc - 1 > Level[e])
  <2>1. Become(p, at)
    BY <1>3, <1>11
  <2>2. Meets(Wired, w, w.lc - 1, w.ep)
    BY <1>4, <1>5, <1>11 DEF Above, SelectionAssumption, Meets
  <2>3. at = Whole(w, w.ep, w.lc - 1)
    OBVIOUS
  <2>4. Ready(index, Wired, w)
    BY <1>4, <1>6 DEF Ready
  <2> HIDE DEF at, w
  <2>5. Goes(index, Wired, w, at, {"search"})
    BY <2>2, <2>3, <2>4, WholePhase
  <2>6. Phase(index, Wired, at) /\ at.row = w.row /\ at.pc \in Wiring
    BY <2>5 DEF Goes, Wiring, InMemory
  <2> QED
    BY <1>1, <1>2, <2>1, <2>6, OwnMove DEF w
<1> QED
  BY <1>9, <1>10, <1>11

(* A turn of a search reads the slots of the nearest candidate left, and   *)
(* keeps what has the layer.                                               *)
LEMMA ExpandBuild ==
  ASSUME SelectionAssumption, BuildAssumption, BuildInv, IInv', NEW p \in Participants,
         Expand(p)
  PROVE  BuildInv'
<1> DEFINE w == work[p]
           e == w.row
           l == w.lc
           c == Closest(e, w.C)
           read == CopySlots(c, l) \ w.visited
           kept == {n \in read : /\ Level[n] >= l
                                 /\ w.restricted => Partition[n] = Partition[e]}
           near == Range(Nearest(e, w.W \cup kept, Efc))
           r == [w EXCEPT !.C = (@ \ {c}) \cup kept, !.visited = @ \cup read, !.W = near]
<1>1. w.pc = "search" /\ w.pc \in Wiring /\ w.pc \in InMemory
  BY DEF Expand, Wiring, InMemory
<1>2. UNCHANGED <<index, nodes, taken, nbr, entry, part_entry>>
  BY DEF Expand, graph
<1>3. Become(p, r) /\ w.C # {}
  BY DEF Expand, SearchOver
<1>4. /\ Layout(index) /\ All \subseteq DOMAIN w /\ Phase(index, Wired, w)
      /\ Wired \in SUBSET Elements /\ Wired \subseteq Range(nodes) /\ IsFiniteSet(Wired)
      /\ Level[e] \in Nat /\ e \in Elements /\ Arrays(index, Range(nodes), Wired, nbr)
  BY <1>1, Inserting
<1>5. /\ l \in 0..Level[e] /\ w.C \subseteq Above(Wired, l)
      /\ w.W \subseteq Above(Wired, l) /\ w.W # {}
      /\ w.restricted => Halved(index, Wired, w)
  BY <1>1, <1>4 DEF Phase, Searching
<1>6. Due(index, Wired, Level[e], w.rev)
  BY <1>1, <1>4 DEF Phase
<1>7. /\ DOMAIN r = DOMAIN w /\ r.pc = w.pc /\ r.row = e /\ r.rev = w.rev /\ r.lc = l
      /\ r.restricted = w.restricted /\ r.cands = w.cands /\ r.gsel = w.gsel
  BY <1>4 DEF All
<1>8. r.C = (w.C \ {c}) \cup kept /\ r.W = near
  BY <1>4 DEF All
<1>9. Above(Wired, l) \subseteq Wired /\ Above(Wired, l) \in SUBSET Elements
  BY <1>4 DEF Above
<1>10. IsFiniteSet(Above(Wired, l)) /\ l \in Nat
  BY <1>4, <1>5, <1>9, FS_Subset
<1> HIDE DEF r
<1>11. c \in Above(Wired, l)
  <2>1. IsFiniteSet(w.C) /\ w.C \in SUBSET Elements
    BY <1>5, <1>9, <1>10, FS_Subset
  <2>2. c \in w.C
    BY <1>3, <1>4, <2>1, EndsIn
  <2> QED
    BY <1>5, <2>2
<1> HIDE DEF c
<1>12. kept \subseteq Above(Wired, l)
  <2>1. CopySlots(c, l) \subseteq Above(Wired, l)
    BY <1>4, <1>10, <1>11, CopyIn
  <2> QED
    BY <2>1
<1> HIDE DEF kept
<1>13. near \subseteq Above(Wired, l) /\ near # {}
  <2> DEFINE S == w.W \cup kept
  <2>1. S \subseteq Above(Wired, l) /\ S # {} /\ S \in SUBSET Elements
    BY <1>5, <1>9, <1>12
  <2>2. IsFiniteSet(S)
    BY <1>10, <2>1, FS_Subset
  <2>3. near = Range(Nearest(e, S, Efc)) /\ Efc \in Nat \ {0}
    BY DEF BuildAssumption
  <2> HIDE DEF S, near
  <2>4. Range(Nearest(e, S, Efc)) \subseteq S /\ Range(Nearest(e, S, Efc)) # {}
    BY <1>4, <2>1, <2>2, <2>3, NearestSome
  <2> QED
    BY <2>1, <2>3, <2>4
<1> HIDE DEF near, w
<1>14. r.C \subseteq Above(Wired, l)
  BY <1>5, <1>8, <1>12
<1>15. w.restricted => Halved(index, Wired, r)
  BY <1>5, <1>7 DEF Halved
<1>16. Searching(index, Wired, r)
  BY <1>5, <1>7, <1>8, <1>13, <1>14, <1>15 DEF Searching
<1>17. Phase(index, Wired, r)
  BY <1>1, <1>4, <1>6, <1>7, <1>16 DEF Phase
<1> QED
  BY <1>1, <1>2, <1>3, <1>7, <1>17, OwnMove DEF w

(* A node's own slots are written from what has been found, and the insert *)
(* goes on to the next layer or to the reverse edges.                      *)
LEMMA WireBuild ==
  ASSUME SelectionAssumption, BuildAssumption, BuildInv, IInv', NEW p \in Participants,
         work[p].pc = "search", UNCHANGED <<index, nodes, taken, entry, part_entry>>,
         NEW r, Become(p, r), r.pc \in {"search", "link"}, r.row = work[p].row,
         Phase(index, Wired, r),
         NEW T, Safe(index, Wired, work[p].row, T), nbr' = [nbr EXCEPT ![work[p].row] = T]
  PROVE  BuildInv'
<1> DEFINE e == work[p].row
           K == IF r.pc \in Wiring THEN Wired ELSE Wired \cup {e}
<1>1. /\ work[p].pc \in Wiring /\ work[p].pc \in InMemory /\ r.pc \in InMemory
  BY DEF Wiring, InMemory
<1>2. e \in Range(nodes) /\ Arrays(index, Range(nodes), Wired, nbr)
  BY <1>1, Inserting
<1>3. Arrays(index, Range(nodes), Wired, nbr')
  BY <1>2, ArraysWrite
<1>4. EntryIn(Wired, entry) /\ PartsIn(Wired, part_entry)
  BY DEF BuildInv, GraphInv
<1>5. Wired \subseteq K
  OBVIOUS
<1>6. K = IF r.pc \in Wiring THEN Wired ELSE Wired \cup {r.row}
  OBVIOUS
<1> HIDE DEF K
<1>7. Arrays(index, Range(nodes), K, nbr')
  BY <1>3, <1>5, ArraysGrow
<1>8. EntryIn(K, entry') /\ PartsIn(K, part_entry')
  BY <1>4, <1>5 DEF EntryIn, PartsIn
<1>9. Phase(index, K, r)
  BY <1>5, PhaseGrows
<1> QED
  BY <1>1, <1>6, <1>7, <1>8, <1>9, MemStep

(* What a search has found, and the array it is about to write. *)
LEMMA Found ==
  ASSUME SelectionAssumption, BuildAssumption, BuildInv, NEW p \in Participants,
         work[p].pc = "search"
  PROVE  LET w == work[p]
             e == w.row
         IN /\ Layout(index) /\ index.m \in Nat /\ index.payload_m \in Nat
            /\ All \subseteq DOMAIN w /\ e \in Elements /\ Level[e] \in Nat
            /\ Wired \in SUBSET Elements /\ IsFiniteSet(Wired)
            /\ Safe(index, Wired, e, nbr[e])
            /\ w.lc \in 0..Level[e] /\ w.lc \in Nat
            /\ w.W \subseteq Above(Wired, w.lc) /\ w.W # {} /\ IsFiniteSet(w.W)
            /\ w.W \in SUBSET Elements /\ w.W \in SUBSET Wired
            /\ w.restricted => Halved(index, Wired, w)
            /\ Due(index, Wired, Level[e], w.rev)
            /\ Wired = Above(Wired, 0)
<1> DEFINE w == work[p]
           e == w.row
<1>1. w.pc \in InMemory
  BY DEF InMemory
<1>2. /\ Layout(index) /\ All \subseteq DOMAIN w /\ Phase(index, Wired, w)
      /\ Wired \in SUBSET Elements /\ IsFiniteSet(Wired) /\ e \in Range(nodes)
      /\ Level[e] \in Nat /\ e \in Elements /\ Arrays(index, Range(nodes), Wired, nbr)
  BY <1>1, Inserting
<1>3. Searching(index, Wired, w) /\ Due(index, Wired, Level[e], w.rev)
  BY <1>1, <1>2 DEF Phase
<1>4. Safe(index, Wired, e, nbr[e])
  BY <1>2 DEF Arrays
<1>5. index.m \in Nat /\ index.payload_m \in Nat
  BY <1>2 DEF Layout
<1>6. /\ w.lc \in 0..Level[e] /\ w.W \subseteq Above(Wired, w.lc) /\ w.W # {}
      /\ w.restricted => Halved(index, Wired, w)
  BY <1>3 DEF Searching
<1>7. w.W \in SUBSET Wired /\ w.W \in SUBSET Elements
  BY <1>2, <1>6 DEF Above
<1>8. IsFiniteSet(w.W)
  BY <1>2, <1>7, FS_Subset
<1>9. Wired = Above(Wired, 0)
  BY <1>2 DEF Above, SelectionAssumption
<1>10. w.lc \in Nat
  BY <1>2, <1>6
<1> QED
  BY <1>2, <1>3, <1>4, <1>5, <1>6, <1>7, <1>8, <1>9, <1>10

(* A layer is wired. *)
LEMMA LayerBuild ==
  ASSUME SelectionAssumption, BuildAssumption, BuildInv, IInv', NEW p \in Participants,
         SelectLayer(p)
  PROVE  BuildInv'
<1> DEFINE w == work[p]
           e == w.row
           l == w.lc
           sel == Select(e, w.W, LayerM(l))
           R == Edges(sel, l, 0, LayerM(l), FALSE)
           q == [w EXCEPT !.rev = @ \o R]
           at == NeighborStart(index.m, Level[e], l)
<1>1. w.pc = "search" /\ UNCHANGED <<index, nodes, taken, entry, part_entry>>
  BY DEF SelectLayer
<1>2. nbr' = [nbr EXCEPT ![e] = Put(nbr[e], at, sel)]
  BY DEF SelectLayer
<1>3. Become(p, BelowLayer(q, w.W))
  BY DEF SelectLayer
<1>4. /\ Layout(index) /\ index.m \in Nat /\ index.payload_m \in Nat
      /\ All \subseteq DOMAIN w /\ e \in Elements /\ Level[e] \in Nat
      /\ Wired \in SUBSET Elements /\ Safe(index, Wired, e, nbr[e])
      /\ l \in 0..Level[e] /\ l \in Nat
      /\ w.W \subseteq Above(Wired, l) /\ w.W # {} /\ IsFiniteSet(w.W) /\ w.W \in SUBSET Elements
      /\ Due(index, Wired, Level[e], w.rev)
  BY <1>1, Found
<1>5. LayerM(l) = Width(index, l) /\ LayerM(l) \in Nat
  BY <1>4, SameGeometry DEF Width
<1>6. sel \in Seq(Above(Wired, l)) /\ Len(sel) \in Nat /\ Len(sel) <= LayerM(l)
  <2>1. Chosen(sel, w.W, LayerM(l))
    BY <1>4, <1>5, SelectChosen
  <2> HIDE DEF sel, w, l
  <2> QED
    BY <1>4, <1>5, <2>1, ChosenIn
<1>7. at \in Nat
  <2>1. Level[e] - l \in Nat
    BY <1>4
  <2> QED
    BY <1>4, <2>1 DEF NeighborStart
<1>8. SlotsOf(index, e, l) = at..(at + Width(index, l) - 1)
  BY DEF SlotsOf
<1>9. Due(index, Wired, Level[e], R)
  <2> DEFINE none == FALSE
             k == Width(index, l)
  <2>1. none \in BOOLEAN
    OBVIOUS
  <2>2. R = Edges(sel, l, 0, k, none)
    BY <1>5, Zenon
  <2> HIDE DEF none, R, sel
  <2>3. k \in Nat /\ 0 \in Nat /\ 0 + k <= k
    BY <1>5
  <2>4. /\ SelectionAssumption /\ Layout(index) /\ Wired \in SUBSET Elements /\ Level[e] \in Nat
        /\ l \in 0..Level[e] /\ sel \in Seq(Above(Wired, l))
    BY <1>4, <1>6
  <2> HIDE DEF e, l, w
  <2>5. Due(index, Wired, Level[e], Edges(sel, l, 0, k, none))
    BY ONLY <2>1, <2>3, <2>4, EdgesDue
  <2> QED
    BY <2>2, <2>5
<1> HIDE DEF sel, R, at
<1>10. Safe(index, Wired, e, Put(nbr[e], at, sel))
  <2>1. at..(at + Len(sel) - 1) \subseteq SlotsOf(index, e, l)
    BY <1>5, <1>6, <1>7, <1>8
  <2> QED
    BY <1>4, <1>6, <1>7, <2>1, PutSafe
<1>11. /\ DOMAIN q = DOMAIN w /\ q.row = e /\ q.lc = l /\ q.rev = w.rev \o R
  BY <1>4 DEF All
<1> HIDE DEF q
<1>12. Ready(index, Wired, q)
  BY <1>4, <1>9, <1>11, DueJoined DEF Ready
<1>13. Candidates(Wired, q, w.W)
  BY <1>4, <1>11 DEF Candidates
<1>14. PICK r : r = BelowLayer(q, w.W)
  OBVIOUS
<1>15. Goes(index, Wired, q, r, {"search", "link"})
  <2>1. Wired \in SUBSET Elements
    BY <1>4
  <2> HIDE DEF w, e, l
  <2> QED
    BY <1>12, <1>13, <1>14, <2>1, BelowPhase
<1>16. Phase(index, Wired, r) /\ r.row = e /\ r.pc \in {"search", "link"}
  BY <1>11, <1>15 DEF Goes
<1> QED
  BY <1>1, <1>2, <1>3, <1>10, <1>14, <1>16, WireBuild

(* The slots of the two halves of layer 0. *)
LEMMA Halves ==
  ASSUME SelectionAssumption, Layout(index), NEW e \in Elements
  PROVE  /\ Start0(e) \in Nat /\ index.m \in Nat /\ index.payload_m \in Nat
         /\ \A n \in Nat : n <= index.m => Start0(e)..(Start0(e) + n - 1) \subseteq SlotsOf(index, e, 0)
         /\ \A n \in Nat : n <= index.payload_m =>
              (Start0(e) + index.m)..(Start0(e) + index.m + n - 1) \subseteq SlotsOf(index, e, 0)
<1> DEFINE at == Start0(e)
           m == index.m
           k == index.payload_m
<1>1. Level[e] \in Nat /\ m \in Nat /\ k \in Nat
  BY DEF Layout, SelectionAssumption
<1>2. at = (Level[e] - 0) * m
  BY DEF Start0, NeighborStart
<1>3. at \in Nat
  BY <1>1, <1>2
<1>4. SlotsOf(index, e, 0) = at..(at + (m + k) - 1)
  BY DEF SlotsOf, Width, Start0
<1> HIDE DEF at, m, k
<1>5. \A n \in Nat : n <= m => at..(at + n - 1) \subseteq at..(at + (m + k) - 1)
  BY <1>1, <1>3
<1>6. \A n \in Nat : n <= k => (at + m)..(at + m + n - 1) \subseteq at..(at + (m + k) - 1)
  BY <1>1, <1>3
<1>7. /\ at \in Nat /\ m \in Nat /\ k \in Nat
      /\ \A n \in Nat : n <= m => at..(at + n - 1) \subseteq SlotsOf(index, e, 0)
      /\ \A n \in Nat : n <= k => (at + m)..(at + m + n - 1) \subseteq SlotsOf(index, e, 0)
  BY <1>1, <1>3, <1>4, <1>5, <1>6
<1> QED
  BY <1>7 DEF at, m, k

(* The reverse edges of both halves are due. *)
LEMMA BothDue ==
  ASSUME SelectionAssumption, Layout(index), NEW K \in SUBSET Elements, K = Above(K, 0),
         NEW top \in Nat, NEW gsel \in Seq(K), NEW psel \in Seq(K)
  PROVE  Due(index, K, top, Layer0Edges(gsel, psel))
<1> DEFINE no == FALSE
           yes == TRUE
           m == index.m
           k == index.payload_m
<1>1. no \in BOOLEAN /\ yes \in BOOLEAN
  OBVIOUS
<1>2. Layer0Edges(gsel, psel) = Edges(psel, 0, m, k, yes) \o Edges(gsel, 0, 0, m, no)
  BY Zenon DEF Layer0Edges
<1>3. m \in Nat /\ k \in Nat /\ Width(index, 0) = m + k
  BY DEF Layout, Width
<1>4. 0 \in Nat /\ 0 \in 0..top /\ m + k <= Width(index, 0) /\ 0 + m <= Width(index, 0)
  BY <1>3
<1>5. gsel \in Seq(Above(K, 0)) /\ psel \in Seq(Above(K, 0))
  OBVIOUS
<1> HIDE DEF no, yes, m, k
<1>6. Due(index, K, top, Edges(psel, 0, m, k, yes))
  BY <1>1, <1>3, <1>4, <1>5, EdgesDue
<1>7. Due(index, K, top, Edges(gsel, 0, 0, m, no))
  BY <1>1, <1>3, <1>4, <1>5, EdgesDue
<1> QED
  BY <1>2, <1>6, <1>7, DueJoined

(* The global half of layer 0 is wired; the payload half too, or is        *)
(* searched for first.                                                     *)
LEMMA GlobalBuild ==
  ASSUME SelectionAssumption, BuildAssumption, BuildInv, IInv', NEW p \in Participants,
         SelectGlobalHalf(p)
  PROVE  BuildInv'
<1> DEFINE w == work[p]
           e == w.row
           gsel == Select(e, w.W, index.m)
           part == part_entry[Partition[e]]
           T == Put(nbr[e], Start0(e), gsel)
           rest == PayloadHalf(e, w.W, gsel, <<>>)
           U == Put(T, Start0(e) + index.m, rest)
           there == [w EXCEPT !.cands = w.W, !.gsel = gsel]
           R == Layer0Edges(gsel, <<>>)
           here == [w EXCEPT !.rev = @ \o R]
<1>1. /\ w.pc = "search" /\ w.lc = 0 /\ UNCHANGED <<index, nodes, taken, entry, part_entry>>
  BY DEF SelectGlobalHalf
<1>2. \/ /\ part # None /\ nbr' = [nbr EXCEPT ![e] = T]
         /\ Become(p, Within(there, part, 0))
      \/ /\ nbr' = [nbr EXCEPT ![e] = U]
         /\ Become(p, BelowLayer(here, w.W))
  BY DEF SelectGlobalHalf, Within
<1>3. /\ Layout(index) /\ index.m \in Nat /\ index.payload_m \in Nat
      /\ All \subseteq DOMAIN w /\ e \in Elements /\ Level[e] \in Nat
      /\ Wired \in SUBSET Elements /\ Safe(index, Wired, e, nbr[e]) /\ Wired = Above(Wired, 0)
      /\ w.W # {} /\ IsFiniteSet(w.W) /\ w.W \in SUBSET Elements /\ w.W \in SUBSET Wired
      /\ Due(index, Wired, Level[e], w.rev)
  BY <1>1, Found
<1>4. gsel \in Seq(Wired) /\ Len(gsel) \in Nat /\ Len(gsel) <= index.m
  <2>1. Chosen(gsel, w.W, index.m)
    BY <1>3, SelectChosen
  <2> HIDE DEF gsel, w
  <2> QED
    BY <1>3, <2>1, ChosenIn
<1>5. rest \in Seq(Wired) /\ Len(rest) \in Nat /\ Len(rest) <= index.payload_m
  <2>1. <<>> \in Seq(Wired) /\ Len(<<>>) <= index.payload_m
    BY <1>3
  <2> HIDE DEF gsel, w
  <2>2. rest \in Seq(Wired) /\ Len(rest) <= index.payload_m
    BY <1>3, <2>1, HalfFits
  <2> QED
    BY <2>2, LenProperties
<1> HIDE DEF gsel, rest
<1>6. /\ Start0(e) \in Nat
      /\ Start0(e)..(Start0(e) + Len(gsel) - 1) \subseteq SlotsOf(index, e, 0)
      /\ (Start0(e) + index.m)..(Start0(e) + index.m + Len(rest) - 1) \subseteq SlotsOf(index, e, 0)
  BY <1>3, <1>4, <1>5, Halves
<1>7. 0 \in 0..Level[e] /\ Start0(e) + index.m \in Nat
  BY <1>3, <1>6
<1>8. Safe(index, Wired, e, T)
  BY <1>3, <1>4, <1>6, <1>7, PutSafe
<1>9. Safe(index, Wired, e, U)
  <2> HIDE DEF T
  <2> QED
    BY <1>3, <1>5, <1>6, <1>7, <1>8, PutSafe
<1> HIDE DEF T, U
<1>10. CASE part # None /\ nbr' = [nbr EXCEPT ![e] = T] /\ Become(p, Within(there, part, 0))
  <2>1. /\ DOMAIN there = DOMAIN w /\ there.row = e /\ there.rev = w.rev
        /\ there.cands = w.W /\ there.gsel = gsel
    BY <1>3 DEF All
  <2>2. part \in Wired
    <3>1. Partition[e] \in Range(Partition)
      BY <1>3 DEF BuildAssumption, Range
    <3>2. part \in Wired \cup {None}
      BY <3>1 DEF BuildInv, GraphInv, PartsIn
    <3> QED
      BY <1>10, <3>2
  <2> HIDE DEF there, part
  <2>3. Ready(index, Wired, there)
    BY <1>3, <2>1 DEF Ready
  <2>4. Meets(Wired, there, 0, part)
    BY <1>3, <1>7, <2>1, <2>2 DEF Meets
  <2>5. PICK r : r = Within(there, part, 0)
    OBVIOUS
  <2>6. there.cands \subseteq Wired /\ there.gsel \in Seq(Wired) /\ Len(there.gsel) <= index.m
    BY <1>3, <1>4, <2>1
  <2>7. Goes(index, Wired, there, r, {"search"})
    BY <2>3, <2>4, <2>5, <2>6, WithinPhase
  <2>8. Phase(index, Wired, r) /\ r.row = e /\ r.pc \in {"search", "link"}
    BY <2>1, <2>7 DEF Goes
  <2>9. Become(p, r)
    BY <1>10, <2>5
  <2> QED
    BY <1>1, <1>8, <1>10, <2>8, <2>9, WireBuild
<1>11. CASE nbr' = [nbr EXCEPT ![e] = U] /\ Become(p, BelowLayer(here, w.W))
  <2>1. /\ DOMAIN here = DOMAIN w /\ here.row = e /\ here.lc = w.lc /\ here.rev = w.rev \o R
    BY <1>3 DEF All
  <2>2. Due(index, Wired, Level[e], R)
    <3>1. <<>> \in Seq(Wired)
      OBVIOUS
    <3> QED
      BY <1>3, <1>4, <3>1, BothDue
  <2> HIDE DEF here, R
  <2>3. Ready(index, Wired, here)
    BY <1>3, <2>1, <2>2, DueJoined DEF Ready
  <2>4. Candidates(Wired, here, w.W)
    BY <1>1, <1>3, <1>7, <2>1 DEF Candidates
  <2>5. PICK r : r = BelowLayer(here, w.W)
    OBVIOUS
  <2>6. Wired \in SUBSET Elements
    BY <1>3
  <2>7. Goes(index, Wired, here, r, {"search", "link"})
    <3> HIDE DEF w
    <3> QED
      BY <2>3, <2>4, <2>5, <2>6, BelowPhase
  <2>8. Phase(index, Wired, r) /\ r.row = e /\ r.pc \in {"search", "link"}
    BY <2>1, <2>7 DEF Goes
  <2>9. Become(p, r)
    BY <1>11, <2>5
  <2> QED
    BY <1>1, <1>9, <1>11, <2>8, <2>9, WireBuild
<1> QED
  BY <1>2, <1>10, <1>11

(* The payload half is wired from the members found. *)
LEMMA PayloadBuild ==
  ASSUME SelectionAssumption, BuildAssumption, BuildInv, IInv', NEW p \in Participants,
         SelectPayloadHalf(p)
  PROVE  BuildInv'
<1> DEFINE w == work[p]
           e == w.row
           psel == Select(e, w.W \ Range(w.gsel), index.payload_m)
           rest == PayloadHalf(e, w.cands, w.gsel, psel)
           T == Put(nbr[e], Start0(e) + index.m, rest)
           R == Layer0Edges(w.gsel, psel)
           q == [w EXCEPT !.rev = @ \o R]
<1>1. /\ w.pc = "search" /\ w.restricted /\ UNCHANGED <<index, nodes, taken, entry, part_entry>>
      /\ nbr' = [nbr EXCEPT ![e] = T]
      /\ Become(p, BelowLayer(q, w.cands))
  BY DEF SelectPayloadHalf
<1>2. /\ Layout(index) /\ index.m \in Nat /\ index.payload_m \in Nat
      /\ All \subseteq DOMAIN w /\ e \in Elements /\ Level[e] \in Nat
      /\ Wired \in SUBSET Elements /\ Safe(index, Wired, e, nbr[e]) /\ Wired = Above(Wired, 0)
      /\ IsFiniteSet(Wired)
      /\ IsFiniteSet(w.W) /\ w.W \in SUBSET Elements /\ w.W \in SUBSET Wired
      /\ Halved(index, Wired, w) /\ Due(index, Wired, Level[e], w.rev)
  BY <1>1, Found
<1>3. /\ w.lc = 0 /\ w.cands \in SUBSET Wired /\ w.gsel \in Seq(Wired)
      /\ IsFiniteSet(w.cands)
  <2>1. w.lc = 0 /\ w.cands \in SUBSET Wired /\ w.gsel \in Seq(Wired)
    BY <1>2 DEF Halved
  <2> QED
    BY <1>2, <2>1, FS_Subset
<1>4. psel \in Seq(Wired) /\ Len(psel) \in Nat /\ Len(psel) <= index.payload_m
  <2> DEFINE S == w.W \ Range(w.gsel)
  <2>1. S \subseteq w.W /\ S \in SUBSET Elements /\ S \subseteq Wired
    BY <1>2
  <2>2. IsFiniteSet(S)
    BY <1>2, <2>1, FS_Subset
  <2>3. psel = Select(e, S, index.payload_m)
    OBVIOUS
  <2> HIDE DEF S, psel
  <2>4. Chosen(psel, S, index.payload_m)
    BY <1>2, <2>1, <2>2, <2>3, SelectChosen
  <2> QED
    BY <1>2, <2>1, <2>4, ChosenIn
<1> HIDE DEF psel
<1>5. rest \in Seq(Wired) /\ Len(rest) \in Nat /\ Len(rest) <= index.payload_m
  <2> HIDE DEF w
  <2>1. rest \in Seq(Wired) /\ Len(rest) <= index.payload_m
    BY <1>2, <1>3, <1>4, HalfFits
  <2> QED
    BY <2>1, LenProperties
<1> HIDE DEF rest
<1>6. /\ Start0(e) \in Nat
      /\ (Start0(e) + index.m)..(Start0(e) + index.m + Len(rest) - 1) \subseteq SlotsOf(index, e, 0)
  BY <1>2, <1>5, Halves
<1>7. 0 \in 0..Level[e] /\ Start0(e) + index.m \in Nat
  BY <1>2, <1>6
<1>8. Safe(index, Wired, e, T)
  BY <1>2, <1>5, <1>6, <1>7, PutSafe
<1>9. Due(index, Wired, Level[e], R)
  <2> HIDE DEF w
  <2> QED
    BY <1>2, <1>3, <1>4, BothDue
<1> HIDE DEF T, R
<1>10. /\ DOMAIN q = DOMAIN w /\ q.row = e /\ q.lc = w.lc /\ q.rev = w.rev \o R
  BY <1>2 DEF All
<1> HIDE DEF q
<1>11. Ready(index, Wired, q)
  BY <1>2, <1>9, <1>10, DueJoined DEF Ready
<1>12. Candidates(Wired, q, w.cands)
  BY <1>2, <1>3, <1>7, <1>10 DEF Candidates
<1>13. PICK r : r = BelowLayer(q, w.cands)
  OBVIOUS
<1>14. Wired \in SUBSET Elements
  BY <1>2
<1>15. Goes(index, Wired, q, r, {"search", "link"})
  <2> HIDE DEF w
  <2> QED
    BY <1>11, <1>12, <1>13, <1>14, BelowPhase
<1>16. Phase(index, Wired, r) /\ r.row = e /\ r.pc \in {"search", "link"}
  BY <1>10, <1>15 DEF Goes
<1>17. Become(p, r)
  BY <1>1, <1>13
<1> QED
  BY <1>1, <1>8, <1>16, <1>17, WireBuild

(* A reverse edge takes a slot of its layer in the target's array, or none.*)
LEMMA LinkBuild ==
  ASSUME SelectionAssumption, BuildAssumption, BuildInv, IInv', NEW p \in Participants,
         Link(p)
  PROVE  BuildInv'
<1> DEFINE w == work[p]
           e == w.row
           edge == Head(w.rev)
           t == edge.target
           D == edge.range
           slots == [s \in D |-> nbr[t][s]]
           at == TargetSlot(index.diversify, e, t, slots, edge.payload)
           r == [w EXCEPT !.rev = Tail(@)]
<1>1. /\ w.pc = "link" /\ w.rev # <<>> /\ Become(p, r)
      /\ UNCHANGED <<index, nodes, taken, entry, part_entry>>
      /\ nbr' = IF at = None THEN nbr ELSE [nbr EXCEPT ![t][at] = e]
  BY DEF Link
<1>2. w.pc \in InMemory /\ w.pc \notin Wiring
  BY <1>1 DEF InMemory, Wiring
<1>3. /\ Layout(index) /\ All \subseteq DOMAIN w /\ Phase(index, Wired, w)
      /\ Wired \in SUBSET Elements /\ Wired \subseteq Range(nodes)
      /\ Level[e] \in Nat /\ e \in Elements /\ Arrays(index, Range(nodes), Wired, nbr)
      /\ e \in Wired
  BY <1>2, Inserting
<1>4. Due(index, Wired, Level[e], w.rev)
  BY <1>2, <1>3 DEF Phase
<1>5. edge \in Pairs /\ Edge(index, Wired, Level[e], edge) /\ Due(index, Wired, Level[e], Tail(w.rev))
  BY <1>1, <1>4, DueTail
<1>6. /\ DOMAIN r = DOMAIN w /\ r.pc = w.pc /\ r.row = e /\ r.rev = Tail(w.rev)
  BY <1>3 DEF All
<1> HIDE DEF edge, r
<1>7. t \in Wired /\ t \in Elements /\ t \in Range(nodes)
  BY <1>3, <1>5 DEF Edge
<1>8. PICK l \in 0..Level[e] : Level[t] >= l /\ D \subseteq SlotsOf(index, t, l)
  BY <1>5 DEF Edge
<1>9. l \in 0..Level[t] /\ e \in Above(Wired, l)
  <2>1. Level[t] \in Nat /\ l \in Nat /\ Level[e] >= l
    BY <1>3, <1>7, <1>8 DEF SelectionAssumption
  <2> QED
    BY <1>3, <1>8, <2>1 DEF Above
<1>10. Safe(index, Wired, t, nbr[t])
  BY <1>3, <1>7 DEF Arrays
<1>11. D \subseteq AllSlots(index, t) /\ D \in SUBSET Nat /\ IsFiniteSet(D)
  <2>1. /\ SlotsOf(index, t, l) \subseteq AllSlots(index, t)
        /\ AllSlots(index, t) \in SUBSET Nat /\ IsFiniteSet(AllSlots(index, t))
    BY <1>3, <1>7, <1>9, Geometry
  <2>2. D \subseteq AllSlots(index, t) /\ D \in SUBSET Nat
    BY <1>8, <2>1
  <2> QED
    BY <2>1, <2>2, FS_Subset
<1>12. slots \in [D -> Elements \cup {None}]
  BY <1>3, <1>10, <1>11 DEF Safe
<1>13. at \in D \cup {None}
  <2> HIDE DEF slots, w
  <2> QED
    BY <1>3, <1>7, <1>11, <1>12, TargetIn
<1>14. Arrays(index, Range(nodes), Wired, nbr')
  <2>1. CASE at = None
    BY <1>1, <1>3, <2>1
  <2>2. CASE at # None
    <3>1. at \in SlotsOf(index, t, l)
      BY <1>8, <1>13, <2>2
    <3> HIDE DEF at, w
    <3>2. Safe(index, Wired, t, [nbr[t] EXCEPT ![at] = e])
      BY <1>3, <1>7, <1>9, <1>10, <3>1, PutOneSafe
    <3>3. nbr' = [nbr EXCEPT ![t] = [nbr[t] EXCEPT ![at] = e]]
      BY <1>1, <2>2 DEF w
    <3> QED
      BY <1>3, <1>7, <3>2, <3>3, ArraysWrite
  <2> QED
    BY <2>1, <2>2
<1> HIDE DEF at, t, D, slots
<1>15. Phase(index, Wired, r)
  BY <1>1, <1>3, <1>5, <1>6 DEF Phase, InMemory
<1>16. EntryIn(Wired, entry') /\ PartsIn(Wired, part_entry')
  BY <1>1 DEF BuildInv, GraphInv
<1>17. Wired = IF r.pc \in Wiring THEN Wired ELSE Wired \cup {r.row}
  BY <1>2, <1>3, <1>6
<1>18. r.pc \in InMemory /\ r.pc \notin Wiring /\ r.row = work[p].row
  BY <1>2, <1>6
<1> QED
  BY <1>1, <1>2, <1>14, <1>15, <1>16, <1>17, <1>18, MemStep

-----------------------------------------------------------------------------
(* The steps around an insert                                              *)

(* A participant between inserts takes a row, gives it up or ends.         *)
LEMMA OutMove ==
  ASSUME BuildInv, IInv', NEW p \in Participants, NEW r, Become(p, r),
         UNCHANGED <<index, nodes, nbr, entry>>,
         taken \subseteq taken', taken' \subseteq Elements,
         work[p].pc \notin Wiring, r.pc \in States, r.pc \notin InMemory,
         r.pc \in Active =>
           /\ r.row \in taken' /\ r.row \notin Range(nodes)
           /\ \A q \in Participants \ {p} : work[q].pc \in Active => work[q].row # r.row,
         All \subseteq DOMAIN r, r.rev = <<>>, PartsIn(Wired, part_entry')
  PROVE  BuildInv'
<1>1. /\ DOMAIN work' = Participants /\ work'[p] = r
      /\ \A q \in Participants \ {p} : work'[q] = work[q]
  BY DEF BuildInv, IInv, Become
<1>2. r.pc \notin Wiring /\ r.pc # "descend" /\ r.pc # "search"
  BY DEF Wiring, InMemory
<1>3. Range(nodes)' = Range(nodes)
  OBVIOUS
<1>4. Wired' = Wired
  <2>1. /\ Unwired = {work[q].row : q \in {q \in Participants : work[q].pc \in Wiring}}
        /\ Unwired' = {work'[q].row : q \in {q \in Participants : work'[q].pc \in Wiring}}
    BY DEF Unwired, Wiring
  <2>2. \A q \in Participants :
          /\ work'[q].pc \in Wiring <=> work[q].pc \in Wiring
          /\ work[q].pc \in Wiring => work'[q].row = work[q].row
    BY <1>1, <1>2
  <2>3. Unwired' = Unwired
    BY <2>1, <2>2
  <2> QED
    BY <1>3, <2>3 DEF Wired
<1>5. ASSUME NEW q \in Participants PROVE InHand(work[q])'
  <2>1. InHand(work[q])
    BY DEF BuildInv, RowInv
  <2>2. CASE q = p
    BY <1>1, <1>3, <2>2 DEF InHand, Active
  <2>3. CASE q # p
    BY <1>1, <1>3, <2>1, <2>3 DEF InHand
  <2> QED
    BY <2>2, <2>3
<1>6. RowInv'
  <2>1. Range(nodes)' \subseteq taken' /\ taken' \subseteq Elements
    BY <1>3 DEF BuildInv, RowInv
  <2>2. \A i, j \in 1..Len(nodes') : nodes'[i] = nodes'[j] => i = j
    BY DEF BuildInv, RowInv
  <2>3. ASSUME NEW a \in Participants, NEW b \in Participants, a # b,
               work'[a].pc \in Active, work'[b].pc \in Active
        PROVE  work'[a].row # work'[b].row
    <3>1. CASE a = p
      BY <1>1, <2>3, <3>1
    <3>2. CASE b = p
      BY <1>1, <2>3, <3>2
    <3>3. CASE a # p /\ b # p
      BY <1>1, <2>3, <3>3 DEF BuildInv, RowInv
    <3> QED
      BY <3>1, <3>2, <3>3
  <2> QED
    BY <1>5, <2>1, <2>2, <2>3 DEF RowInv
<1>7. ASSUME NEW q \in Participants PROVE Phase(index', Wired', work'[q])
  <2>1. CASE q = p
    BY <1>1, <1>2, <2>1 DEF Phase
  <2>2. CASE q # p
    BY <1>1, <1>4, <2>2 DEF BuildInv, GraphInv
  <2> QED
    BY <2>1, <2>2
<1>8. GraphInv'
  BY <1>3, <1>4, <1>7 DEF BuildInv, GraphInv
<1> QED
  BY <1>6, <1>8 DEF BuildInv

(* Between inserts no reverse edge is due. *)
LEMMA Outside ==
  ASSUME BuildInv, NEW p \in Participants, work[p].pc \notin InMemory
  PROVE  All \subseteq DOMAIN work[p] /\ work[p].rev = <<>> /\ work[p].pc \notin Wiring
BY DEF BuildInv, GraphInv, Phase, Wiring

(* A row is taken, given up or inserted, and the scan ends. *)
LEMMA OutBuild ==
  ASSUME SelectionAssumption, BuildAssumption, BuildInv, IInv', NEW p \in Participants,
         TakeRow(p) \/ ScanDone(p) \/ NoRoom(p) \/ Spill(p)
  PROVE  BuildInv'
<1>1. work[p].pc \in {"scan", "insert", "spill"}
  BY DEF TakeRow, ScanDone, NoRoom, Spill
<1>2. work[p].pc \notin InMemory
  BY <1>1 DEF InMemory
<1>3. All \subseteq DOMAIN work[p] /\ work[p].rev = <<>> /\ work[p].pc \notin Wiring
  BY <1>2, Outside
<1>4. UNCHANGED <<index, nodes, nbr, entry, part_entry>>
  BY DEF TakeRow, ScanDone, NoRoom, Spill, graph
<1>5. PartsIn(Wired, part_entry') /\ taken \subseteq Elements /\ Range(nodes) \subseteq taken
  BY <1>4 DEF BuildInv, GraphInv, RowInv
<1>6. \A q \in Participants : work[q].pc \in Active => work[q].row \in taken
  BY DEF BuildInv, RowInv, InHand
<1>7. CASE TakeRow(p)
  <2>1. PICK e \in Elements \ taken :
          taken' = taken \cup {e} /\ Become(p, [work[p] EXCEPT !.pc = "insert", !.row = e])
    BY <1>7 DEF TakeRow
  <2> DEFINE r == [work[p] EXCEPT !.pc = "insert", !.row = e]
  <2>2. DOMAIN r = DOMAIN work[p] /\ r.pc = "insert" /\ r.row = e /\ r.rev = work[p].rev
    BY <1>3 DEF All
  <2>3. Become(p, r)
    BY <2>1
  <2> HIDE DEF r
  <2>4. r.pc \in States /\ r.pc \notin InMemory
    BY <2>2 DEF States, InMemory
  <2>5. r.row \in taken' /\ r.row \notin Range(nodes)
    BY <1>5, <2>1, <2>2
  <2>6. \A q \in Participants \ {p} : work[q].pc \in Active => work[q].row # r.row
    BY <1>6, <2>1, <2>2
  <2>7. taken \subseteq taken' /\ taken' \subseteq Elements
    BY <1>5, <2>1
  <2> QED
    BY <1>3, <1>4, <1>5, <2>2, <2>3, <2>4, <2>5, <2>6, <2>7, OutMove
<1>8. CASE ScanDone(p)
  <2> DEFINE r == [work[p] EXCEPT !.pc = "done"]
  <2>1. DOMAIN r = DOMAIN work[p] /\ r.pc = "done" /\ r.rev = work[p].rev
    BY <1>3 DEF All
  <2>2. Become(p, r) /\ UNCHANGED taken
    BY <1>8 DEF ScanDone
  <2> HIDE DEF r
  <2>3. r.pc \in States /\ r.pc \notin InMemory /\ r.pc \notin Active
    BY <2>1 DEF States, InMemory, Active
  <2> QED
    BY <1>3, <1>4, <1>5, <2>1, <2>2, <2>3, OutMove
<1>9. CASE NoRoom(p)
  <2> DEFINE r == [work[p] EXCEPT !.pc = "spill"]
  <2>1. DOMAIN r = DOMAIN work[p] /\ r.pc = "spill" /\ r.row = work[p].row /\ r.rev = work[p].rev
    BY <1>3 DEF All
  <2>2. Become(p, r) /\ UNCHANGED taken /\ work[p].pc = "insert"
    BY <1>9 DEF NoRoom
  <2> HIDE DEF r
  <2>3. r.pc \in States /\ r.pc \notin InMemory /\ work[p].pc \in Active
    BY <2>1, <2>2 DEF States, InMemory, Active
  <2>4. r.row \in taken /\ r.row \notin Range(nodes)
    BY <2>1, <2>2, <2>3 DEF BuildInv, RowInv, InHand
  <2>5. \A q \in Participants \ {p} : work[q].pc \in Active => work[q].row # r.row
    BY <2>1, <2>3 DEF BuildInv, RowInv
  <2> QED
    BY <1>3, <1>4, <1>5, <2>1, <2>2, <2>3, <2>4, <2>5, OutMove
<1>10. CASE Spill(p)
  <2>1. All \subseteq DOMAIN Idle /\ Idle.pc = "scan" /\ Idle.rev = <<>>
    BY DEF Idle, All
  <2>2. Become(p, Idle) /\ UNCHANGED taken
    BY <1>10 DEF Spill
  <2>3. Idle.pc \in States /\ Idle.pc \notin InMemory /\ Idle.pc \notin Active
    BY <2>1 DEF States, InMemory, Active
  <2> QED
    BY <1>3, <1>4, <1>5, <2>1, <2>2, <2>3, OutMove
<1> QED
  BY <1>7, <1>8, <1>9, <1>10

(* A wired node may stand for its partition. *)
LEMMA RegisterBuild ==
  ASSUME SelectionAssumption, BuildAssumption, BuildInv, IInv', NEW p \in Participants,
         Register(p)
  PROVE  BuildInv'
<1> DEFINE e == work[p].row
<1>1. work[p].pc = "register" /\ work[p].pc \in InMemory /\ work[p].pc \notin Wiring
  BY DEF Register, InMemory, Wiring
<1>2. e \in Wired /\ e \in Elements
  BY <1>1, Inserting
<1>3. All \subseteq DOMAIN Idle /\ Idle.pc = "scan" /\ Idle.rev = <<>>
  BY DEF Idle, All
<1>4. Become(p, Idle) /\ UNCHANGED <<index, nodes, nbr, entry, taken>>
  BY DEF Register
<1>5. Idle.pc \in States /\ Idle.pc \notin InMemory /\ Idle.pc \notin Active
  BY <1>3 DEF States, InMemory, Active
<1>6. taken \subseteq Elements /\ PartsIn(Wired, part_entry)
  BY DEF BuildInv, RowInv, GraphInv
<1>7. \/ part_entry' = part_entry
      \/ part_entry' = [part_entry EXCEPT ![Partition[e]] =
                          IF part_entry[Partition[e]] = None THEN e ELSE part_entry[Partition[e]]]
  BY DEF Register
<1>8. PartsIn(Wired, part_entry')
  BY <1>2, <1>6, <1>7 DEF PartsIn
<1> QED
  BY <1>1, <1>3, <1>4, <1>5, <1>6, <1>8, OutMove

(* A sequence's members, and one more. *)
LEMMA RangeAppend ==
  ASSUME NEW S, NEW s \in Seq(S), NEW e \in S
  PROVE  Range(Append(s, e)) = Range(s) \cup {e}
<1> DEFINE t == Append(s, e)
           n == Len(s)
<1>1. /\ t \in Seq(S) /\ Len(t) = n + 1 /\ n \in Nat
      /\ \A i \in 1..n : t[i] = s[i]
      /\ t[n + 1] = e
  BY AppendProperties, LenProperties
<1>2. DOMAIN t = 1..(n + 1) /\ DOMAIN s = 1..n
  BY <1>1, LenProperties
<1> HIDE DEF t, n
<1>3. \A i \in 1..(n + 1) : i = n + 1 \/ i \in 1..n
  BY <1>1
<1>4. n + 1 \in 1..(n + 1) /\ 1..n \subseteq 1..(n + 1)
  BY <1>1
<1>5. Range(t) = Range(s) \cup {e}
  BY <1>1, <1>2, <1>3, <1>4 DEF Range
<1> QED
  BY <1>5 DEF t

(* A node is pushed, with an empty array and nobody's neighbour. *)
LEMMA PushBuild ==
  ASSUME SelectionAssumption, BuildAssumption, BuildInv, IInv', NEW p \in Participants,
         Push(p)
  PROVE  BuildInv'
<1> DEFINE e == work[p].row
           r == [work[p] EXCEPT !.pc = "wait"]
           T == [s \in AllSlots(index, e) |-> None]
<1>1. /\ work[p].pc = "insert" /\ nodes' = Append(nodes, e) /\ Become(p, r)
      /\ nbr' = [nbr EXCEPT ![e] = [s \in 0..(TotalSlots(Level[e]) - 1) |-> None]]
      /\ UNCHANGED <<index, entry, part_entry, taken>>
  BY DEF Push
<1>2. work[p].pc \notin InMemory /\ work[p].pc \in Active
  BY <1>1 DEF InMemory, Active
<1>3. All \subseteq DOMAIN work[p] /\ work[p].rev = <<>> /\ work[p].pc \notin Wiring
  BY <1>2, Outside
<1>4. /\ e \in taken /\ e \in Elements /\ e \notin Range(nodes)
      /\ Range(nodes) \subseteq taken /\ taken \subseteq Elements /\ nodes \in Seq(Elements)
      /\ \A i, j \in 1..Len(nodes) : nodes[i] = nodes[j] => i = j
  BY <1>1, <1>2 DEF BuildInv, IInv, RowInv, InHand
<1>5. /\ DOMAIN r = DOMAIN work[p] /\ r.pc = "wait" /\ r.row = e /\ r.rev = <<>>
  BY <1>3 DEF All
<1> HIDE DEF r, e
<1>6. r.pc \in Wiring /\ r.pc \in InMemory /\ r.pc \in Active /\ r.pc \in States
  BY <1>5 DEF Wiring, InMemory, Active, States
<1>7. /\ DOMAIN work' = Participants /\ work'[p] = r
      /\ \A q \in Participants \ {p} : work'[q] = work[q]
  BY <1>1 DEF BuildInv, IInv, Become
<1>8. Range(nodes') = Range(nodes) \cup {e}
  BY <1>1, <1>4, RangeAppend
<1>9. Wired' = Wired
  <2>1. /\ Unwired = {work[q].row : q \in {q \in Participants : work[q].pc \in Wiring}}
        /\ Unwired' = {work'[q].row : q \in {q \in Participants : work'[q].pc \in Wiring}}
    BY DEF Unwired, Wiring
  <2>2. ASSUME NEW x PROVE x \in Unwired' <=> x \in Unwired \/ x = e
    <3>1. /\ x \in Unwired <=> \E q \in Participants : work[q].pc \in Wiring /\ work[q].row = x
          /\ x \in Unwired' <=> \E q \in Participants : work'[q].pc \in Wiring /\ work'[q].row = x
      BY <2>1
    <3>2. /\ work'[p].pc \in Wiring /\ work'[p].row = e /\ work[p].pc \notin Wiring
          /\ \A q \in Participants \ {p} : work'[q] = work[q]
      BY <1>3, <1>5, <1>6, <1>7
    <3> QED
      BY ONLY p \in Participants, <3>1, <3>2
  <2>3. \A x : x \in Wired' <=> x \in Wired
    BY <1>4, <1>8, <2>2 DEF Wired
  <2> QED
    BY <2>3
<1>10. ASSUME NEW q \in Participants PROVE InHand(work[q])'
  <2>1. InHand(work[q])
    BY DEF BuildInv, RowInv
  <2>2. CASE q = p
    BY <1>1, <1>4, <1>5, <1>6, <1>7, <1>8, <2>2 DEF InHand
  <2>3. CASE q # p
    <3>1. work[q].pc \in Active => work[q].row # e
      BY <1>2, <2>3 DEF BuildInv, RowInv, e
    <3>2. work'[q] = work[q] /\ taken' = taken
      BY <1>1, <1>7, <2>3
    <3>3. work[q].pc \in {"insert", "spill"} => work[q].pc \in Active
      BY DEF Active
    <3> QED
      BY <1>8, <2>1, <3>1, <3>2, <3>3 DEF InHand
  <2> QED
    BY <2>2, <2>3
<1>11. RowInv'
  <2>1. Range(nodes)' \subseteq taken' /\ taken' \subseteq Elements
    BY <1>1, <1>4, <1>8
  <2>2. ASSUME NEW i \in 1..Len(nodes'), NEW j \in 1..Len(nodes'), nodes'[i] = nodes'[j]
        PROVE  i = j
    <3> DEFINE n == Len(nodes)
    <3>1. /\ Len(nodes') = n + 1 /\ n \in Nat /\ DOMAIN nodes = 1..n
          /\ \A k \in 1..n : nodes'[k] = nodes[k]
          /\ nodes'[n + 1] = e
      BY <1>1, <1>4, AppendProperties, LenProperties
    <3>2. \A k \in 1..n : nodes[k] # e
      BY <1>4, <3>1 DEF Range
    <3>3. /\ i = n + 1 \/ i \in 1..n
          /\ j = n + 1 \/ j \in 1..n
      BY <3>1
    <3> HIDE DEF n
    <3>4. CASE i \in 1..n /\ j \in 1..n
      <4>1. nodes[i] = nodes[j]
        BY <2>2, <3>1, <3>4
      <4> QED
        BY <1>4, <3>4, <4>1 DEF n
    <3>5. CASE i = n + 1 /\ j \in 1..n
      BY <2>2, <3>1, <3>2, <3>5
    <3>6. CASE i \in 1..n /\ j = n + 1
      BY <2>2, <3>1, <3>2, <3>6
    <3> QED
      BY <3>3, <3>4, <3>5, <3>6
  <2>3. \A a, b \in Participants :
          a # b /\ work'[a].pc \in Active /\ work'[b].pc \in Active => work'[a].row # work'[b].row
    <3>1. \A q \in Participants :
            work'[q].row = work[q].row /\ (work'[q].pc \in Active <=> work[q].pc \in Active)
      BY <1>2, <1>5, <1>6, <1>7 DEF e
    <3> QED
      BY <3>1 DEF BuildInv, RowInv
  <2> QED
    BY <1>10, <2>1, <2>2, <2>3 DEF RowInv
<1>12. Layout(index) /\ index \in Indexes
  BY DEF BuildInv, GraphInv, BuildAssumption, Layout
<1>13. nbr' = [nbr EXCEPT ![e] = T]
  <2>1. AllSlots(index, e) = 0..(TotalSlots(Level[e]) - 1)
    BY <1>4, <1>12, SameGeometry
  <2> QED
    BY <1>1, <2>1
<1>14. Safe(index, Wired, e, T)
  BY <1>4, <1>12, EmptySafe
<1> HIDE DEF T
<1>15. Arrays(index, Range(nodes'), Wired, nbr')
  <2>1. Arrays(index, Range(nodes), Wired, nbr)
    BY DEF BuildInv, GraphInv
  <2>2. DOMAIN nbr' = Elements /\ \A x \in Elements : nbr'[x] = IF x = e THEN T ELSE nbr[x]
    BY <1>13, <2>1 DEF Arrays
  <2> QED
    BY <1>4, <1>8, <1>14, <2>1, <2>2 DEF Arrays
<1>16. ASSUME NEW q \in Participants PROVE Phase(index', Wired', work'[q])
  <2>1. CASE q = p
    <3>1. Due(index, Wired, Level[r.row], r.rev)
      BY <1>5, NoneDue
    <3> QED
      BY <1>1, <1>3, <1>5, <1>6, <1>7, <1>9, <2>1, <3>1 DEF Phase
  <2>2. CASE q # p
    BY <1>1, <1>7, <1>9, <2>2 DEF BuildInv, GraphInv
  <2> QED
    BY <2>1, <2>2
<1>17. GraphInv'
  BY <1>1, <1>9, <1>12, <1>15, <1>16 DEF BuildInv, GraphInv
<1> QED
  BY <1>11, <1>17 DEF BuildInv

-----------------------------------------------------------------------------
(* The invariant of the graph                                              *)

(* Nothing is named by anything yet. *)
LEMMA BuildInitially == ASSUME SelectionAssumption, BuildAssumption, Init PROVE BuildInv
<1>1. /\ index \in Indexes /\ nodes = <<>> /\ taken = {} /\ entry = [id |-> None, level |-> -1]
      /\ nbr = [e \in Elements |-> <<>>] /\ part_entry = [q \in Range(Partition) |-> None]
      /\ \A p \in Participants : work[p] = Idle
  BY DEF Init
<1>2. All \subseteq DOMAIN Idle /\ Idle.pc = "scan" /\ Idle.rev = <<>>
  BY DEF Idle, All
<1>3. Range(nodes) = {} /\ Len(nodes) = 0
  BY <1>1 DEF Range
<1>4. IInv
  BY Initially
<1>5. RowInv
  <2>1. \A p \in Participants : InHand(work[p]) /\ work[p].pc \notin Active
    BY <1>1, <1>2 DEF InHand, Active, InMemory, States
  <2>2. \A i, j \in 1..Len(nodes) : i = j
    BY <1>3
  <2> QED
    BY <1>1, <1>3, <2>1, <2>2 DEF RowInv
<1>6. Arrays(index, Range(nodes), Wired, nbr)
  BY <1>1, <1>3 DEF Arrays
<1>7. EntryIn(Wired, entry) /\ PartsIn(Wired, part_entry)
  BY <1>1 DEF EntryIn, PartsIn
<1>8. \A p \in Participants : Phase(index, Wired, work[p])
  BY <1>1, <1>2 DEF Phase, InMemory
<1>9. GraphInv
  BY <1>1, <1>6, <1>7, <1>8 DEF GraphInv
<1> QED
  BY <1>4, <1>5, <1>9 DEF BuildInv

(* Nothing that the invariant mentions changes. *)
LEMMA StillBuild ==
  ASSUME BuildInv, IInv', UNCHANGED <<index, graph, taken, work>>
  PROVE  BuildInv'
<1>1. UNCHANGED <<index, nodes, nbr, entry, part_entry, taken, work>>
  BY DEF graph
<1>2. Wired' = Wired
  BY <1>1 DEF Wired, Unwired
<1>3. RowInv'
  BY <1>1 DEF BuildInv, RowInv, InHand
<1>4. GraphInv'
  BY <1>1, <1>2 DEF BuildInv, GraphInv
<1> QED
  BY <1>3, <1>4 DEF BuildInv

(* Every step of a build keeps the invariant. *)
LEMMA BuildInductive ==
  SelectionAssumption /\ BuildAssumption /\ BuildInv /\ [Next]_vars => BuildInv'
<1> SUFFICES ASSUME SelectionAssumption, BuildAssumption, BuildInv, [Next]_vars
             PROVE  BuildInv'
  OBVIOUS
<1>1. IInv'
  BY Inductive DEF BuildInv
<1>2. CASE LeaderFlush
  BY <1>1, <1>2, StillBuild DEF LeaderFlush
<1>3. ASSUME NEW p \in Participants, Step(p) PROVE BuildInv'
  <2>1. CASE TakeRow(p) \/ ScanDone(p) \/ NoRoom(p) \/ Spill(p) \/ Push(p) \/ Register(p)
    BY <1>1, <2>1, OutBuild, PushBuild, RegisterBuild
  <2>2. CASE \/ WaitForEntry(p) \/ ReadEntry(p) \/ WaitForExclusive(p) \/ ReadEntryExclusive(p)
             \/ Descend(p) \/ Expand(p)
    BY <1>1, <2>2, WaitBuild, ReadBuild, ReadExclusiveBuild, DescendBuild, ExpandBuild
  <2>3. CASE \/ SelectLayer(p) \/ SelectGlobalHalf(p) \/ SelectPayloadHalf(p)
             \/ Link(p) \/ UpdateEntryPoint(p)
    BY <1>1, <2>3, LayerBuild, GlobalBuild, PayloadBuild, LinkBuild, UpdateBuild
  <2> QED
    BY <1>3, <2>1, <2>2, <2>3 DEF Step
<1>4. CASE UNCHANGED vars
  BY <1>1, <1>4, StillBuild DEF vars
<1> QED
  BY <1>2, <1>3, <1>4 DEF Next

(* acorn_mem_insert_node: whatever the neighbour arrays, the entry point,  *)
(* the partitions' entries and the searches under way name is a pushed     *)
(* node whose own slots are complete, and has the layer it is met on.      *)
THEOREM BuildInvariance == Spec => []BuildInv
<1>1. SelectionAssumption /\ BuildAssumption
  BY SelectionAssumption, BuildAssumption
<1>2. Init => BuildInv
  BY <1>1, BuildInitially
<1> QED
  BY <1>1, <1>2, BuildInductive, PTL DEF Spec

(* AcornMemBuild: a node whose own slots are still being written is in no  *)
(* list of another, is not the entry point and stands for no partition.    *)
THEOREM Published == Spec => []PublishedComplete
<1>1. ASSUME SelectionAssumption, BuildAssumption, BuildInv PROVE PublishedComplete
  <2> SUFFICES ASSUME NEW e \in Unwired
               PROVE  /\ \A n \in Elements \ {e} : e \notin Range(nbr[n])
                      /\ entry.id # e /\ e \notin Range(part_entry)
    BY DEF PublishedComplete
  <2>1. PICK p \in Participants : work[p].row = e /\ work[p].pc \in Wiring
    BY DEF Unwired, Wiring
  <2>2. work[p].pc \in InMemory
    BY <2>1 DEF Wiring
  <2>3. e \in Elements /\ e \notin Wired /\ e # None
    BY <1>1, <2>1, <2>2, Inserting DEF Wired, SelectionAssumption
  <2>4. ASSUME NEW n \in Elements, e \in Range(nbr[n]) PROVE FALSE
    <3>1. Safe(index, Wired, n, nbr[n]) \/ nbr[n] = <<>>
      BY <1>1 DEF BuildInv, GraphInv, Arrays
    <3>2. Range(nbr[n]) \subseteq Wired \cup {None}
      BY <3>1 DEF Safe, Range
    <3> QED
      BY <2>3, <2>4, <3>2
  <2>5. entry.id # e
    BY <1>1, <2>3 DEF BuildInv, GraphInv, EntryIn
  <2>6. e \notin Range(part_entry)
    BY <1>1, <2>3 DEF BuildInv, GraphInv, PartsIn, Range
  <2> QED
    BY <2>4, <2>5, <2>6
<1>2. SelectionAssumption /\ BuildAssumption
  BY SelectionAssumption, BuildAssumption
<1>3. BuildInv => PublishedComplete
  BY <1>1, <1>2
<1> QED
  BY <1>3, BuildInvariance, PTL

(* What is read next lies within the array it is read from: the slots a    *)
(* descent or a search copies, on a layer the node has, and the slots a    *)
(* reverse edge may take.                                                  *)
InBounds(r) ==
  /\ r.pc = "descend" => LayerSlots(r.ep, r.lc) \subseteq DOMAIN nbr[r.ep]
  /\ r.pc = "search" => \A c \in r.C : LayerSlots(c, r.lc) \subseteq DOMAIN nbr[c]
  /\ r.pc = "link" => \A i \in 1..Len(r.rev) : r.rev[i].range \subseteq DOMAIN nbr[r.rev[i].target]
ReadsInBounds == \A p \in Participants : InBounds(work[p])

(* acorn_mem_search_layer, acorn_mem_greedy_descend and                    *)
(* acorn_mem_add_reverse_edge index a node's neighbours by layer without a *)
(* check: they never reach past the node's array, because a node met on a  *)
(* layer has that layer.                                                   *)
THEOREM WithinArrays == Spec => []ReadsInBounds
<1>1. ASSUME SelectionAssumption, BuildAssumption, BuildInv PROVE ReadsInBounds
  <2> SUFFICES ASSUME NEW p \in Participants PROVE InBounds(work[p])
    BY DEF ReadsInBounds
  <2> DEFINE r == work[p]
  <2>1. CASE r.pc \in InMemory
    <3>1. /\ Layout(index) /\ Wired \in SUBSET Elements /\ Wired \subseteq Range(nodes)
          /\ Level[r.row] \in Nat /\ Phase(index, Wired, r)
          /\ Arrays(index, Range(nodes), Wired, nbr)
      BY <1>1, <2>1, Inserting
    <3>2. \A l \in Nat : \A c \in Above(Wired, l) : LayerSlots(c, l) \subseteq DOMAIN nbr[c]
      BY <1>1, <3>1, CopyIn
    <3>3. r.pc = "descend" => LayerSlots(r.ep, r.lc) \subseteq DOMAIN nbr[r.ep]
      BY <3>1, <3>2 DEF Phase, Descending
    <3>4. ASSUME r.pc = "search", NEW c \in r.C PROVE LayerSlots(c, r.lc) \subseteq DOMAIN nbr[c]
      BY <3>1, <3>2, <3>4 DEF Phase, Searching
    <3>5. ASSUME NEW i \in 1..Len(r.rev)
          PROVE  r.rev[i].range \subseteq DOMAIN nbr[r.rev[i].target]
      <4> DEFINE d == r.rev[i]
      <4>1. Edge(index, Wired, Level[r.row], d)
        BY <2>1, <3>1 DEF Phase, Due
      <4> HIDE DEF d
      <4>2. PICK l \in 0..Level[r.row] : d.range \subseteq SlotsOf(index, d.target, l)
                                         /\ Level[d.target] >= l
        BY <4>1 DEF Edge, Above
      <4>3. d.target \in Wired /\ d.target \in Elements /\ d.target \in Range(nodes)
        BY <3>1, <4>1 DEF Edge, Above
      <4>4. l \in 0..Level[d.target]
        BY <1>1, <3>1, <4>2, <4>3 DEF SelectionAssumption
      <4>5. SlotsOf(index, d.target, l) \subseteq AllSlots(index, d.target)
        BY <1>1, <3>1, <4>3, <4>4, Geometry
      <4>6. DOMAIN nbr[d.target] = AllSlots(index, d.target)
        BY <3>1, <4>3 DEF Arrays, Safe
      <4>7. d.range \subseteq DOMAIN nbr[d.target]
        BY <4>2, <4>5, <4>6
      <4> QED
        BY <4>7 DEF d
    <3> QED
      BY <3>3, <3>4, <3>5 DEF InBounds
  <2>2. CASE r.pc \notin InMemory
    BY <2>2 DEF InBounds, InMemory
  <2> QED
    BY <2>1, <2>2
<1>2. SelectionAssumption /\ BuildAssumption
  BY SelectionAssumption, BuildAssumption
<1>3. BuildInv => ReadsInBounds
  BY <1>1, <1>2
<1> QED
  BY <1>3, BuildInvariance, PTL

-----------------------------------------------------------------------------
(* The arena                                                               *)

(* What a node takes from the arena of an index of layout o. *)
NodeSize(o, e) == 1 + ((Level[e] + 1) * o.m + o.payload_m)

(* What the nodes ns take, one after the other. *)
Spent(o, ns) ==
  LET used[i \in 0..Len(ns)] ==
        IF i = 0 THEN 0 ELSE used[i - 1] + NodeSize(o, ns[i])
  IN used[Len(ns)]

(* The running totals of the first n of them. *)
Totals(o, ns, n) ==
  {g \in [0..n -> Nat] : g[0] = 0 /\ \A i \in 1..n : g[i] = g[i - 1] + NodeSize(o, ns[i])}

(* A node takes something. *)
LEMMA SizeIn ==
  ASSUME SelectionAssumption, NEW o, Layout(o), NEW e \in Elements
  PROVE  NodeSize(o, e) \in Nat
<1> DEFINE L == Level[e]
           m == o.m
           q == o.payload_m
<1>1. L \in Nat /\ m \in Nat /\ q \in Nat
  BY DEF SelectionAssumption, Layout
<1>2. NodeSize(o, e) = 1 + ((L + 1) * m + q)
  BY DEF NodeSize
<1> HIDE DEF L, m, q
<1>3. (L + 1) * m \in Nat
  BY <1>1
<1> QED
  BY <1>1, <1>2, <1>3

(* There are running totals: the recursion defines something. *)
LEMMA TotalsExist ==
  ASSUME SelectionAssumption, NEW o, Layout(o), NEW ns \in Seq(Elements)
  PROVE  Totals(o, ns, Len(ns)) # {}
<1> DEFINE n == Len(ns)
           P == {i \in 0..n : Totals(o, ns, i) # {}}
<1>1. n \in Nat
  BY LenProperties
<1>2. 0 \in P
  <2>1. [i \in 0..0 |-> 0] \in Totals(o, ns, 0)
    BY DEF Totals
  <2> QED
    BY <1>1, <2>1
<1>3. ASSUME NEW i \in 1..n, i - 1 \in P PROVE i \in P
  <2>1. PICK g : g \in Totals(o, ns, i - 1)
    BY <1>3
  <2>2. g \in [0..(i - 1) -> Nat] /\ g[0] = 0
        /\ \A j \in 1..(i - 1) : g[j] = g[j - 1] + NodeSize(o, ns[j])
    BY <2>1 DEF Totals
  <2> DEFINE last == g[i - 1] + NodeSize(o, ns[i])
             h == [j \in 0..i |-> IF j = i THEN last ELSE g[j]]
  <2>3. last \in Nat
    <3>1. i - 1 \in 0..(i - 1) /\ ns[i] \in Elements
      BY <1>1, ElementOfSeq
    <3>2. NodeSize(o, ns[i]) \in Nat /\ g[i - 1] \in Nat
      BY <2>2, <3>1, SizeIn
    <3> QED
      BY <3>2
  <2> HIDE DEF last
  <2>4. h \in [0..i -> Nat] /\ h[0] = 0
    BY <2>2, <2>3
  <2>5. ASSUME NEW j \in 1..i PROVE h[j] = h[j - 1] + NodeSize(o, ns[j])
    <3>1. j - 1 \in 0..i /\ j - 1 # i /\ h[j - 1] = g[j - 1]
      OBVIOUS
    <3>2. CASE j = i
      BY <3>1, <3>2 DEF last
    <3>3. CASE j # i
      <4>1. j \in 1..(i - 1) /\ h[j] = g[j]
        BY <3>3
      <4> QED
        BY <2>2, <3>1, <4>1
    <3> QED
      BY <3>2, <3>3
  <2>6. h \in Totals(o, ns, i)
    <3> HIDE DEF h
    <3> QED
      BY <2>4, <2>5 DEF Totals
  <2> QED
    BY <2>6
<1>4. n \in P
  <2> HIDE DEF P
  <2>1. n \in 0..n
    BY <1>1
  <2> QED
    BY <1>1, <1>2, <1>3, <2>1, UpTo
<1> QED
  BY <1>4

(* The totals of nodes with the same beginning agree on it. *)
LEMMA TotalsAgree ==
  ASSUME NEW o, NEW ns, NEW ms, NEW n \in Nat, NEW k \in Nat, n <= k,
         NEW g \in Totals(o, ns, n), NEW h \in Totals(o, ms, k),
         \A i \in 1..n : ns[i] = ms[i]
  PROVE  g[n] = h[n]
<1> DEFINE P == {i \in 0..n : g[i] = h[i]}
<1>1. /\ g[0] = 0 /\ \A i \in 1..n : g[i] = g[i - 1] + NodeSize(o, ns[i])
      /\ h[0] = 0 /\ \A i \in 1..k : h[i] = h[i - 1] + NodeSize(o, ms[i])
  BY DEF Totals
<1>2. 0 \in P
  BY <1>1
<1>3. ASSUME NEW i \in 1..n, i - 1 \in P PROVE i \in P
  <2>1. g[i - 1] = h[i - 1] /\ ns[i] = ms[i] /\ i \in 1..k /\ i \in 0..n
    BY <1>3
  <2>2. g[i] = h[i]
    BY <1>1, <2>1
  <2> QED
    BY <2>1, <2>2
<1>4. n \in P
  <2> HIDE DEF P
  <2>1. n \in 0..n
    OBVIOUS
  <2> QED
    BY <1>2, <1>3, <2>1, UpTo
<1> QED
  BY <1>4

(* What is spent is the last of the running totals. *)
LEMMA SpentLast ==
  ASSUME SelectionAssumption, NEW o, Layout(o), NEW ns \in Seq(Elements)
  PROVE  \E g \in Totals(o, ns, Len(ns)) : Spent(o, ns) = g[Len(ns)]
<1> DEFINE n == Len(ns)
           F(g) == [i \in 0..n |-> IF i = 0 THEN 0 ELSE g[i - 1] + NodeSize(o, ns[i])]
           used == CHOOSE g : g = F(g)
<1>1. n \in Nat
  BY LenProperties
<1>2. Spent(o, ns) = used[n]
  BY DEF Spent
<1>3. PICK g : g \in Totals(o, ns, n)
  BY TotalsExist
<1>4. /\ g \in [0..n -> Nat] /\ g[0] = 0
      /\ \A i \in 1..n : g[i] = g[i - 1] + NodeSize(o, ns[i])
  BY <1>3 DEF Totals
<1>5. \A i \in 0..n : i = 0 \/ i \in 1..n
  BY <1>1
<1>6. g = F(g)
  <2>1. \A i \in 0..n : g[i] = F(g)[i]
    BY <1>4, <1>5
  <2> QED
    BY <1>4, <2>1
<1>7. used = F(used)
  <2> HIDE DEF F
  <2> QED
    BY <1>6
<1> HIDE DEF used
<1>8. /\ DOMAIN used = 0..n /\ used = [i \in 0..n |-> used[i]] /\ used[0] = 0
      /\ \A i \in 1..n : used[i] = used[i - 1] + NodeSize(o, ns[i])
  <2> HIDE DEF n
  <2>1. 0 \in 0..n /\ \A i \in 1..n : i \in 0..n /\ i # 0
    BY <1>1
  <2>2. DOMAIN used = 0..n /\ used = [i \in 0..n |-> used[i]]
    BY <1>7
  <2>3. \A i \in 0..n : used[i] = IF i = 0 THEN 0 ELSE used[i - 1] + NodeSize(o, ns[i])
    BY <1>7
  <2> QED
    BY <2>1, <2>2, <2>3
<1> DEFINE P == {i \in 0..n : used[i] \in Nat}
<1>9. 0 \in P
  BY <1>1, <1>8
<1>10. ASSUME NEW i \in 1..n, i - 1 \in P PROVE i \in P
  <2>1. ns[i] \in Elements
    BY <1>1, ElementOfSeq
  <2>2. NodeSize(o, ns[i]) \in Nat
    BY <2>1, SizeIn
  <2>3. used[i - 1] \in Nat /\ i \in 0..n
    BY <1>1, <1>10
  <2>4. used[i] = used[i - 1] + NodeSize(o, ns[i])
    BY <1>8
  <2>5. used[i] \in Nat
    BY ONLY <2>2, <2>3, <2>4
  <2> QED
    BY <2>3, <2>5
<1>11. \A i \in 0..n : i \in P
  <2> HIDE DEF P
  <2> QED
    BY <1>1, <1>9, <1>10, UpTo
<1>12. used \in Totals(o, ns, n)
  <2>1. used \in [0..n -> Nat]
    BY <1>8, <1>11
  <2> QED
    BY <1>8, <2>1 DEF Totals
<1> QED
  BY <1>2, <1>12

(* Nothing is spent on no nodes, and on one more what that one takes. *)
LEMMA SpentAppend ==
  ASSUME SelectionAssumption, NEW o, Layout(o)
  PROVE  /\ Spent(o, <<>>) = 0
         /\ \A ns \in Seq(Elements) : \A e \in Elements :
              Spent(o, Append(ns, e)) = Spent(o, ns) + NodeSize(o, e)
<1>1. Spent(o, <<>>) = 0
  <2>1. <<>> \in Seq(Elements) /\ Len(<<>>) = 0
    OBVIOUS
  <2>2. PICK g \in Totals(o, <<>>, 0) : Spent(o, <<>>) = g[0]
    BY <2>1, SpentLast
  <2> QED
    BY <2>2 DEF Totals
<1>2. ASSUME NEW ns \in Seq(Elements), NEW e \in Elements
      PROVE  Spent(o, Append(ns, e)) = Spent(o, ns) + NodeSize(o, e)
  <2> DEFINE ms == Append(ns, e)
             n == Len(ns)
  <2>1. /\ ms \in Seq(Elements) /\ Len(ms) = n + 1 /\ n \in Nat
        /\ \A i \in 1..n : ns[i] = ms[i]
        /\ ms[n + 1] = e
    BY AppendProperties, LenProperties
  <2> HIDE DEF ms, n
  <2>2. PICK g \in Totals(o, ns, n) : Spent(o, ns) = g[n]
    BY SpentLast DEF n
  <2>3. PICK h \in Totals(o, ms, n + 1) : Spent(o, ms) = h[n + 1]
    <3>1. \E h \in Totals(o, ms, Len(ms)) : Spent(o, ms) = h[Len(ms)]
      BY <2>1, SpentLast
    <3> QED
      BY <2>1, <3>1
  <2>4. g[n] = h[n]
    BY <2>1, TotalsAgree
  <2>5. h[n + 1] = h[(n + 1) - 1] + NodeSize(o, ms[n + 1])
    <3> DEFINE k == n + 1
    <3>1. k \in 1..k
      BY <2>1
    <3>2. \A i \in 1..k : h[i] = h[i - 1] + NodeSize(o, ms[i])
      BY <2>3 DEF Totals
    <3> HIDE DEF k
    <3>3. h[k] = h[k - 1] + NodeSize(o, ms[k])
      BY <3>1, <3>2
    <3> QED
      BY <3>3 DEF k
  <2>6. (n + 1) - 1 = n
    BY <2>1
  <2> QED
    BY <2>1, <2>2, <2>3, <2>4, <2>5, <2>6 DEF ms
<1> QED
  BY <1>1, <1>2

(* The arena is never overrun. *)
RoomInv == ArenaUsed <= index.arena

(* This is what the arena holds. *)
LEMMA ArenaSpent ==
  /\ ArenaUsed = Spent(index, nodes) /\ ArenaUsed' = Spent(index', nodes')
  /\ \A e : NodeCost(e) = NodeSize(index, e)
<1>1. ArenaUsed = Spent(index, nodes)
  BY Zenon DEF ArenaUsed, Spent, NodeCost, TotalSlots, NodeSize
<1>2. ArenaUsed' = Spent(index', nodes')
  BY Zenon DEF ArenaUsed, Spent, NodeCost, TotalSlots, NodeSize
<1>3. \A e : NodeCost(e) = NodeSize(index, e)
  BY DEF NodeCost, TotalSlots, NodeSize
<1> QED
  BY <1>1, <1>2, <1>3

(* The arena is empty at first. *)
LEMMA RoomInitially == ASSUME SelectionAssumption, BuildAssumption, Init PROVE RoomInv
<1>1. index \in Indexes /\ nodes = <<>> /\ Layout(index) /\ index.arena \in Nat
  BY DEF Init, BuildAssumption, Layout
<1>2. ArenaUsed = 0
  BY <1>1, ArenaSpent, SpentAppend
<1> QED
  BY <1>1, <1>2 DEF RoomInv

(* A node is only pushed where it fits. *)
LEMMA RoomInductive ==
  ASSUME SelectionAssumption, BuildAssumption, BuildInv, RoomInv, [Next]_vars
  PROVE  RoomInv'
<1>1. index \in Indexes /\ Layout(index) /\ nodes \in Seq(Elements)
  BY DEF BuildInv, IInv, GraphInv, BuildAssumption, Layout
<1>2. CASE UNCHANGED <<index, nodes>>
  BY <1>2, ArenaSpent DEF RoomInv
<1>3. ASSUME NEW p \in Participants, Push(p) PROVE RoomInv'
  <2> DEFINE e == work[p].row
  <2>1. /\ nodes' = Append(nodes, e) /\ index' = index /\ work[p].pc = "insert"
        /\ ArenaUsed + NodeCost(e) <= index.arena
    BY <1>3 DEF Push, Fits
  <2>2. e \in Elements
    BY <2>1 DEF BuildInv, RowInv, InHand, Active
  <2> HIDE DEF e
  <2>3. ArenaUsed' = ArenaUsed + NodeCost(e)
    BY <1>1, <2>1, <2>2, ArenaSpent, SpentAppend
  <2> QED
    BY <2>1, <2>3 DEF RoomInv
<1>4. ASSUME NEW p \in Participants, Step(p), ~Push(p) PROVE UNCHANGED <<index, nodes>>
  BY <1>4 DEF Step, TakeRow, ScanDone, NoRoom, WaitForEntry, ReadEntry, WaitForExclusive,
          ReadEntryExclusive, Descend, Expand, SelectLayer, SelectGlobalHalf,
          SelectPayloadHalf, Link, UpdateEntryPoint, Register, Spill, graph
<1>5. LeaderFlush => UNCHANGED <<index, nodes>>
  BY DEF LeaderFlush, graph
<1>6. UNCHANGED vars => UNCHANGED <<index, nodes>>
  BY DEF vars, graph
<1> QED
  BY <1>2, <1>3, <1>4, <1>5, <1>6 DEF Next

-----------------------------------------------------------------------------
(* What is written, and the rows counted                                   *)

FlushWrite == [op |-> "flush"]
Writes == {FlushWrite} \cup {Insert(e, l) : e \in Elements, l \in Nat}

(* The rows in the participants' hands, and those they are done with. *)
Busy == {work[p].row : p \in {q \in Participants : work[q].pc \in Active}}
Finished == taken \ Busy

(* The flush of the graph comes first; then the rows of S are inserted,    *)
(* each once.                                                              *)
Journal(ws, S) ==
  /\ ws \in Seq(Writes)
  /\ ws # <<>> => ws[1] = FlushWrite
  /\ \A i \in 2..Len(ws) : ws[i].op = "insert" /\ ws[i].row \in S
  /\ \A i, j \in 2..Len(ws) : ws[i].row = ws[j].row => i = j
  /\ \A e \in S : \E i \in 2..Len(ws) : ws[i].row = e

(* A row that is done with is counted, and either in the graph or inserted *)
(* after its flush; nobody ends before the rows run out, nor the leader    *)
(* before the others.                                                      *)
CountInv ==
  /\ indtuples = Cardinality(Finished)
  /\ Journal(writes, Finished \ Range(nodes))
  /\ flushed <=> writes # <<>>
  /\ \A p \in Participants : work[p].pc = "done" => taken = Elements
  /\ built => flushed /\ \A p \in Participants : work[p].pc = "done"

(* Whoever flushes first writes the graph. *)
LEMMA JournalFlush ==
  ASSUME NEW S, Journal(writes, S), flushed <=> writes # <<>>
  PROVE  Journal(Flushed, S) /\ Flushed # <<>>
<1>1. CASE flushed
  BY <1>1 DEF Flushed, FlushDue
<1>2. CASE ~flushed
  <2>1. writes = <<>> /\ Len(writes) = 0
    BY <1>2
  <2>2. S = {}
    BY <2>1 DEF Journal
  <2> DEFINE ws == Append(<<>>, FlushWrite)
  <2>3. Flushed = ws
    BY <1>2, <2>1 DEF Flushed, FlushDue, FlushWrite
  <2>4. ws \in Seq(Writes) /\ Len(ws) = 1 /\ ws[1] = FlushWrite
    <3>1. <<>> \in Seq(Writes) /\ FlushWrite \in Writes /\ Len(<<>>) = 0
      BY DEF Writes
    <3> QED
      BY <3>1, AppendProperties
  <2> HIDE DEF ws
  <2>5. ws # <<>> /\ ~ \E i \in 2..Len(ws) : TRUE
    <3>1. ws = <<>> <=> Len(ws) = 0
      BY <2>4, EmptySeq
    <3>2. ~ \E i \in 2..1 : TRUE
      OBVIOUS
    <3>3. ws # <<>>
      BY <2>4, <3>1
    <3>4. 2..Len(ws) = 2..1
      BY <2>4
    <3> QED
      BY <3>2, <3>3, <3>4
  <2> QED
    BY <2>2, <2>3, <2>4, <2>5 DEF Journal
<1> QED
  BY <1>1, <1>2

(* One more row is inserted. *)
LEMMA JournalInsert ==
  ASSUME NEW S, NEW ws, Journal(ws, S), ws # <<>>, NEW e \in Elements, e \notin S, NEW l \in Nat
  PROVE  Journal(Append(ws, Insert(e, l)), S \cup {e}) /\ Append(ws, Insert(e, l)) # <<>>
<1> DEFINE w == Insert(e, l)
           n == Len(ws)
           vs == Append(ws, w)
<1>1. w \in Writes /\ w.op = "insert" /\ w.row = e
  BY DEF Insert, Writes
<1>2. ws \in Seq(Writes) /\ n \in Nat /\ n >= 1 /\ ws[1] = FlushWrite
  BY LenProperties, EmptySeq DEF Journal
<1> HIDE DEF w
<1>3. /\ vs \in Seq(Writes) /\ Len(vs) = n + 1
      /\ \A i \in 1..n : vs[i] = ws[i]
      /\ vs[n + 1] = w
  BY <1>1, <1>2, AppendProperties
<1> HIDE DEF vs
<1>4. /\ \A i \in 2..n : ws[i].op = "insert" /\ ws[i].row \in S
      /\ \A i, j \in 2..n : ws[i].row = ws[j].row => i = j
      /\ \A x \in S : \E i \in 2..n : ws[i].row = x
  BY DEF Journal
<1> HIDE DEF n
<1>5. \A i \in 2..(n + 1) :
        \/ i \in 2..n /\ i # n + 1 /\ vs[i] = ws[i] /\ ws[i].row # e
        \/ i = n + 1 /\ vs[i] = w
  BY <1>2, <1>3, <1>4
<1>6. \A i \in 2..n : i \in 2..(n + 1) /\ vs[i] = ws[i]
  BY <1>2, <1>3
<1>7. n + 1 \in 2..(n + 1)
  BY <1>2
<1>8. vs # <<>> /\ vs[1] = FlushWrite
  BY <1>2, <1>3
<1>9. \A i \in 2..(n + 1) : vs[i].op = "insert" /\ vs[i].row \in S \cup {e}
  BY <1>1, <1>4, <1>5
<1>10. \A i, j \in 2..(n + 1) : vs[i].row = vs[j].row => i = j
  BY <1>1, <1>4, <1>5
<1>11. \A x \in S \cup {e} : \E i \in 2..(n + 1) : vs[i].row = x
  BY <1>1, <1>3, <1>4, <1>6, <1>7
<1>12. Journal(vs, S \cup {e})
  BY <1>3, <1>8, <1>9, <1>10, <1>11 DEF Journal
<1> QED
  BY <1>8, <1>12 DEF vs, w

(* Nothing is taken, written or counted at first. *)
LEMMA CountInitially == Init => CountInv
<1> SUFFICES ASSUME Init PROVE CountInv
  OBVIOUS
<1>1. /\ taken = {} /\ writes = <<>> /\ indtuples = 0 /\ flushed = FALSE /\ built = FALSE
      /\ \A p \in Participants : work[p] = Idle
  BY DEF Init
<1>2. Idle.pc = "scan"
  BY DEF Idle
<1>3. Finished = {}
  BY <1>1 DEF Finished
<1>4. Journal(writes, Finished \ Range(nodes))
  BY <1>1, <1>3 DEF Journal
<1> QED
  BY <1>1, <1>2, <1>3, <1>4, FS_EmptySet DEF CountInv

(* The rows in hand when one participant moves. *)
LEMMA BusyNext ==
  ASSUME BuildInv, NEW p \in Participants, NEW r, Become(p, r)
  PROVE  /\ work[p].pc \in Active /\ r.pc \in Active /\ r.row = work[p].row => Busy' = Busy
         /\ work[p].pc \notin Active /\ r.pc \notin Active => Busy' = Busy
         /\ work[p].pc \notin Active /\ r.pc \in Active => Busy' = Busy \cup {r.row}
         /\ work[p].pc \in Active /\ r.pc \notin Active =>
              Busy' = Busy \ {work[p].row} /\ work[p].row \in Busy
<1>1. /\ DOMAIN work' = Participants /\ work'[p] = r
      /\ \A q \in Participants \ {p} : work'[q] = work[q]
  BY DEF BuildInv, IInv, Become
<1>2. /\ \A x : x \in Busy <=> \E q \in Participants : work[q].pc \in Active /\ work[q].row = x
      /\ \A x : x \in Busy' <=> \E q \in Participants : work'[q].pc \in Active /\ work'[q].row = x
  BY DEF Busy, Active
<1>3. ASSUME work[p].pc \in Active, r.pc \in Active, r.row = work[p].row PROVE Busy' = Busy
  <2>1. \A q \in Participants :
          work'[q].row = work[q].row /\ (work'[q].pc \in Active <=> work[q].pc \in Active)
    BY <1>1, <1>3
  <2>2. \A x : x \in Busy' <=> x \in Busy
    BY <1>2, <2>1
  <2> QED
    BY <2>2
<1>4. ASSUME work[p].pc \notin Active, r.pc \notin Active PROVE Busy' = Busy
  <2>1. \A q \in Participants :
          /\ work'[q].pc \in Active <=> work[q].pc \in Active
          /\ work[q].pc \in Active => work'[q].row = work[q].row
    BY <1>1, <1>4
  <2>2. \A x : x \in Busy' <=> x \in Busy
    BY <1>2, <2>1
  <2> QED
    BY <2>2
<1>5. ASSUME work[p].pc \notin Active, r.pc \in Active PROVE Busy' = Busy \cup {r.row}
  <2>1. \A x : x \in Busy' <=> x \in Busy \cup {r.row}
    BY <1>1, <1>2, <1>5
  <2> QED
    BY <2>1
<1>6. ASSUME work[p].pc \in Active, r.pc \notin Active
      PROVE  Busy' = Busy \ {work[p].row} /\ work[p].row \in Busy
  <2>1. \A q \in Participants \ {p} : work[q].pc \in Active => work[q].row # work[p].row
    BY <1>6 DEF BuildInv, RowInv
  <2>2. \A x : x \in Busy' <=> x \in Busy /\ x # work[p].row
    BY <1>1, <1>2, <1>6, <2>1
  <2>3. work[p].row \in Busy
    BY <1>2, <1>6
  <2> QED
    BY <2>2, <2>3
<1> QED
  BY <1>3, <1>4, <1>5, <1>6

(* The rows finished are taken, and finitely many. *)
LEMMA FinishedIn ==
  ASSUME BuildAssumption, BuildInv
  PROVE  /\ Finished \subseteq taken /\ taken \subseteq Elements /\ Busy \subseteq taken
         /\ IsFiniteSet(Finished) /\ Cardinality(Finished) \in Nat
         /\ Cardinality(Finished) <= Cardinality(Elements)
<1>1. Finished \subseteq taken /\ taken \subseteq Elements
  BY DEF Finished, BuildInv, RowInv
<1>2. Busy \subseteq taken
  BY DEF Busy, BuildInv, RowInv, InHand
<1>3. Finished \in SUBSET Elements
  BY <1>1
<1>4. IsFiniteSet(Finished) /\ Cardinality(Finished) <= Cardinality(Elements)
  BY <1>3, FS_Subset DEF BuildAssumption
<1> QED
  BY <1>1, <1>2, <1>4, FS_CardinalityType

(* A step that finishes no row. *)
LEMMA CountStays ==
  ASSUME BuildInv, CountInv, NEW p \in Participants, NEW r, Become(p, r),
         UNCHANGED <<flushed, indtuples, writes, built>>, taken \subseteq taken',
         taken' \subseteq Elements,
         Finished' \ Range(nodes') = Finished \ Range(nodes), Finished' = Finished,
         work[p].pc # "done", r.pc = "done" => taken' = Elements
  PROVE  CountInv'
<1>1. /\ DOMAIN work' = Participants /\ work'[p] = r
      /\ \A q \in Participants \ {p} : work'[q] = work[q]
  BY DEF BuildInv, IInv, Become
<1>2. indtuples' = Cardinality(Finished') /\ Journal(writes', Finished' \ Range(nodes'))
      /\ (flushed' <=> writes' # <<>>)
  BY DEF CountInv
<1>3. ~built
  BY DEF CountInv
<1>4. ASSUME NEW q \in Participants, work'[q].pc = "done" PROVE taken' = Elements
  BY <1>1, <1>4 DEF CountInv
<1> QED
  BY <1>2, <1>3, <1>4 DEF CountInv

(* Within an insert the row stays in hand. *)
LEMMA InsertMoves ==
  ASSUME IInv, NEW p \in Participants,
         \/ WaitForEntry(p) \/ ReadEntry(p) \/ WaitForExclusive(p) \/ ReadEntryExclusive(p)
         \/ Descend(p) \/ Expand(p) \/ SelectLayer(p) \/ SelectGlobalHalf(p)
         \/ SelectPayloadHalf(p) \/ Link(p) \/ UpdateEntryPoint(p)
  PROVE  /\ work[p].pc \in InMemory
         /\ \E r : Become(p, r) /\ r.row = work[p].row /\ r.pc \in InMemory
<1>1. Fields \subseteq DOMAIN work[p]
  BY DEF IInv, Sound
<1>2. work[p].pc \in InMemory
  BY DEF WaitForEntry, ReadEntry, WaitForExclusive, ReadEntryExclusive, Descend, Expand,
         SelectLayer, SelectGlobalHalf, SelectPayloadHalf, Link, UpdateEntryPoint, InMemory
<1>3. ASSUME NEW r, Become(p, r), Keeps(r, work[p]), r.pc \in InMemory
      PROVE  \E q : Become(p, q) /\ q.row = work[p].row /\ q.pc \in InMemory
  BY <1>3 DEF Keeps
<1>4. CASE WaitForEntry(p) \/ WaitForExclusive(p)
  <2>1. \A c : Keeps([work[p] EXCEPT !.pc = c], work[p]) /\ [work[p] EXCEPT !.pc = c].pc = c
    BY <1>1 DEF Fields, Keeps
  <2>2. PICK c \in {"entry", "entry_exclusive"} : Become(p, [work[p] EXCEPT !.pc = c])
    BY <1>4 DEF WaitForEntry, WaitForExclusive
  <2>3. c \in InMemory
    BY <2>2 DEF InMemory
  <2> QED
    BY <1>2, <1>3, <2>1, <2>2, <2>3
<1>5. CASE ReadEntry(p) \/ ReadEntryExclusive(p)
  <2>1. \A c : Keeps([work[p] EXCEPT !.pc = c], work[p]) /\ [work[p] EXCEPT !.pc = c].pc = c
    BY <1>1 DEF Fields, Keeps
  <2>2. \/ \E c \in {"wait_exclusive", "register"} : Become(p, [work[p] EXCEPT !.pc = c])
        \/ \E hold : Become(p, Start(work[p], hold))
    BY <1>5 DEF ReadEntry, ReadEntryExclusive
  <2>3. CASE \E c \in {"wait_exclusive", "register"} : Become(p, [work[p] EXCEPT !.pc = c])
    <3>1. PICK c \in {"wait_exclusive", "register"} : Become(p, [work[p] EXCEPT !.pc = c])
      BY <2>3
    <3>2. c \in InMemory
      BY <3>1 DEF InMemory
    <3> QED
      BY <1>2, <1>3, <2>1, <3>1, <3>2
  <2>4. CASE \E hold : Become(p, Start(work[p], hold))
    <3>1. PICK hold : Become(p, Start(work[p], hold))
      BY <2>4
    <3> DEFINE q == Start(work[p], hold)
    <3>2. q.pc \in {"descend", "search"} /\ q.row = work[p].row
      BY <1>1, StartKeeps
    <3>3. Become(p, q)
      BY <3>1
    <3> HIDE DEF q
    <3>4. q.pc \in InMemory
      BY <3>2 DEF InMemory
    <3> QED
      BY <1>2, <3>2, <3>3, <3>4
  <2> QED
    BY <2>2, <2>3, <2>4
<1>6. CASE Descend(p)
  <2>1. PICK q : Become(p, q) /\ Keeps(q, work[p]) /\ q.pc \in {"descend", "search"}
    BY <1>1, <1>6, DescendKeeps
  <2>2. q.pc \in InMemory
    BY <2>1 DEF InMemory
  <2> QED
    BY <1>2, <1>3, <2>1, <2>2
<1>7. CASE Expand(p)
  <2>1. PICK C, V, W : Become(p, [work[p] EXCEPT !.C = C, !.visited = V, !.W = W])
    BY <1>7 DEF Expand
  <2> DEFINE r == [work[p] EXCEPT !.C = C, !.visited = V, !.W = W]
  <2>2. Keeps(r, work[p]) /\ r.pc = work[p].pc
    BY <1>1 DEF Fields, Keeps
  <2>3. Become(p, r)
    BY <2>1
  <2> HIDE DEF r
  <2> QED
    BY <1>2, <1>3, <2>2, <2>3
<1>8. CASE SelectLayer(p) \/ SelectPayloadHalf(p) \/ SelectGlobalHalf(p)
  <2>1. PICK q : Become(p, q) /\ Keeps(q, work[p]) /\ q.pc \in {"search", "link"}
    BY <1>1, <1>8, SelectKeeps
  <2>2. q.pc \in InMemory
    BY <2>1 DEF InMemory
  <2> QED
    BY <1>2, <1>3, <2>1, <2>2
<1>9. CASE Link(p)
  <2> DEFINE r == [work[p] EXCEPT !.rev = Tail(@)]
  <2>1. Keeps(r, work[p]) /\ r.pc = work[p].pc
    BY <1>1 DEF Fields, Keeps
  <2>2. Become(p, r)
    BY <1>9 DEF Link
  <2> HIDE DEF r
  <2> QED
    BY <1>2, <1>3, <2>1, <2>2
<1>10. CASE UpdateEntryPoint(p)
  <2> DEFINE r == [work[p] EXCEPT !.pc = "register", !.hold = "none"]
  <2>1. r.row = work[p].row /\ r.pc = "register"
    BY <1>1 DEF Fields
  <2>2. Become(p, r)
    BY <1>10 DEF UpdateEntryPoint
  <2> HIDE DEF r
  <2>3. r.pc \in InMemory
    BY <2>1 DEF InMemory
  <2> QED
    BY <1>2, <2>1, <2>2, <2>3
<1> QED
  BY <1>4, <1>5, <1>6, <1>7, <1>8, <1>9, <1>10

(* So an insert finishes no row before it is registered. *)
LEMMA InsertCount ==
  ASSUME BuildAssumption, BuildInv, CountInv, NEW p \in Participants,
         \/ WaitForEntry(p) \/ ReadEntry(p) \/ WaitForExclusive(p) \/ ReadEntryExclusive(p)
         \/ Descend(p) \/ Expand(p) \/ SelectLayer(p) \/ SelectGlobalHalf(p)
         \/ SelectPayloadHalf(p) \/ Link(p) \/ UpdateEntryPoint(p)
  PROVE  CountInv'
<1>1. PICK r : Become(p, r) /\ r.row = work[p].row /\ r.pc \in InMemory
  BY InsertMoves DEF BuildInv
<1>2. work[p].pc \in InMemory
  BY InsertMoves DEF BuildInv
<1>3. UNCHANGED <<nodes, flushed, taken, indtuples, writes, built>>
  BY DEF WaitForEntry, ReadEntry, WaitForExclusive, ReadEntryExclusive, Descend, Expand,
         SelectLayer, SelectGlobalHalf, SelectPayloadHalf, Link, UpdateEntryPoint, graph
<1>4. work[p].pc \in Active /\ r.pc \in Active /\ work[p].pc # "done" /\ r.pc # "done"
  BY <1>1, <1>2 DEF Active, InMemory
<1>5. Finished' = Finished
  BY <1>1, <1>3, <1>4, BusyNext DEF Finished
<1>6. Finished' \ Range(nodes') = Finished \ Range(nodes)
  BY <1>3, <1>5
<1>7. taken \subseteq Elements
  BY DEF BuildInv, RowInv
<1> QED
  BY <1>1, <1>3, <1>4, <1>5, <1>6, <1>7, CountStays

(* A row is taken, pushed or given up, or the scan ends. *)
LEMMA RowCount ==
  ASSUME BuildAssumption, BuildInv, CountInv, NEW p \in Participants,
         TakeRow(p) \/ ScanDone(p) \/ NoRoom(p) \/ Push(p)
  PROVE  CountInv'
<1>1. All \subseteq DOMAIN work[p]
  BY DEF BuildInv, GraphInv, Phase
<1>2. taken \subseteq Elements /\ Busy \subseteq taken
  BY FinishedIn
<1>3. CASE TakeRow(p)
  <2>1. PICK e \in Elements \ taken :
          taken' = taken \cup {e} /\ Become(p, [work[p] EXCEPT !.pc = "insert", !.row = e])
    BY <1>3 DEF TakeRow
  <2> DEFINE r == [work[p] EXCEPT !.pc = "insert", !.row = e]
  <2>2. r.pc = "insert" /\ r.row = e
    BY <1>1 DEF All
  <2>3. Become(p, r)
    BY <2>1
  <2> HIDE DEF r
  <2>4. work[p].pc = "scan" /\ UNCHANGED <<nodes, flushed, indtuples, writes, built>>
    BY <1>3 DEF TakeRow, graph
  <2>5. r.pc \in Active /\ work[p].pc \notin Active /\ work[p].pc # "done" /\ r.pc # "done"
    BY <2>2, <2>4 DEF Active, InMemory
  <2>6. Busy' = Busy \cup {e}
    BY <2>2, <2>3, <2>5, BusyNext
  <2>7. Finished' = Finished
    BY <1>2, <2>1, <2>6 DEF Finished
  <2>8. Finished' \ Range(nodes') = Finished \ Range(nodes)
    BY <2>4, <2>7
  <2>9. taken \subseteq taken' /\ taken' \subseteq Elements
    BY <1>2, <2>1
  <2> QED
    BY <2>3, <2>4, <2>5, <2>7, <2>8, <2>9, CountStays
<1>4. CASE ScanDone(p)
  <2> DEFINE r == [work[p] EXCEPT !.pc = "done"]
  <2>1. r.pc = "done"
    BY <1>1 DEF All
  <2>2. Become(p, r)
    BY <1>4 DEF ScanDone
  <2> HIDE DEF r
  <2>3. /\ work[p].pc = "scan" /\ taken = Elements
        /\ UNCHANGED <<nodes, flushed, taken, indtuples, writes, built>>
    BY <1>4 DEF ScanDone, graph
  <2>4. r.pc \notin Active /\ work[p].pc \notin Active /\ work[p].pc # "done"
    BY <2>1, <2>3 DEF Active, InMemory
  <2>5. Finished' = Finished
    BY <2>2, <2>3, <2>4, BusyNext DEF Finished
  <2>6. Finished' \ Range(nodes') = Finished \ Range(nodes)
    BY <2>3, <2>5
  <2> QED
    BY <2>2, <2>3, <2>4, <2>5, <2>6, CountStays
<1>5. CASE NoRoom(p)
  <2> DEFINE r == [work[p] EXCEPT !.pc = "spill"]
  <2>1. r.pc = "spill" /\ r.row = work[p].row
    BY <1>1 DEF All
  <2>2. Become(p, r)
    BY <1>5 DEF NoRoom
  <2> HIDE DEF r
  <2>3. /\ work[p].pc = "insert"
        /\ UNCHANGED <<nodes, flushed, taken, indtuples, writes, built>>
    BY <1>5 DEF NoRoom, graph
  <2>4. r.pc \in Active /\ work[p].pc \in Active /\ work[p].pc # "done" /\ r.pc # "done"
    BY <2>1, <2>3 DEF Active, InMemory
  <2>5. Finished' = Finished
    BY <2>1, <2>2, <2>3, <2>4, BusyNext DEF Finished
  <2>6. Finished' \ Range(nodes') = Finished \ Range(nodes)
    BY <2>3, <2>5
  <2> QED
    BY <1>2, <2>2, <2>3, <2>4, <2>5, <2>6, CountStays
<1>6. CASE Push(p)
  <2> DEFINE r == [work[p] EXCEPT !.pc = "wait"]
             e == work[p].row
  <2>1. r.pc = "wait" /\ r.row = e
    BY <1>1 DEF All
  <2>2. Become(p, r)
    BY <1>6 DEF Push
  <2> HIDE DEF r
  <2>3. /\ work[p].pc = "insert" /\ nodes' = Append(nodes, e)
        /\ UNCHANGED <<flushed, taken, indtuples, writes, built>>
    BY <1>6 DEF Push
  <2>4. r.pc \in Active /\ work[p].pc \in Active /\ work[p].pc # "done" /\ r.pc # "done"
    BY <2>1, <2>3 DEF Active, InMemory
  <2>5. e \in Busy /\ e \in Elements /\ nodes \in Seq(Elements)
    BY <1>2, <2>4 DEF Busy, BuildInv, IInv
  <2> HIDE DEF e
  <2>6. Finished' = Finished
    BY <2>1, <2>2, <2>3, <2>4, BusyNext DEF Finished, e
  <2>7. Range(nodes') = Range(nodes) \cup {e}
    BY <2>3, <2>5, RangeAppend
  <2>8. Finished' \ Range(nodes') = Finished \ Range(nodes)
    BY <2>5, <2>6, <2>7 DEF Finished
  <2> QED
    BY <1>2, <2>2, <2>3, <2>4, <2>6, <2>8, CountStays
<1> QED
  BY <1>3, <1>4, <1>5, <1>6

(* A row in the graph is finished with its registration, another one with  *)
(* its insertion.                                                          *)
LEMMA FinishCount ==
  ASSUME SelectionAssumption, BuildAssumption, BuildInv, CountInv, NEW p \in Participants,
         Register(p) \/ Spill(p)
  PROVE  CountInv'
<1> DEFINE e == work[p].row
<1>1. Idle.pc = "scan"
  BY DEF Idle
<1>2. work[p].pc \in {"register", "spill"} /\ Become(p, Idle)
      /\ UNCHANGED <<nodes, taken, built>>
  BY DEF Register, Spill, graph
<1>3. work[p].pc \in Active /\ Idle.pc \notin Active /\ work[p].pc # "done"
  BY <1>1, <1>2 DEF Active, InMemory
<1>4. Busy' = Busy \ {e} /\ e \in Busy
  BY <1>2, <1>3, BusyNext
<1>5. e \in taken /\ e \in Elements
  BY <1>4, FinishedIn
<1> HIDE DEF e
<1>6. Finished' = Finished \cup {e} /\ e \notin Finished
  BY <1>2, <1>4, <1>5 DEF Finished
<1>7. IsFiniteSet(Finished) /\ Cardinality(Finished') = Cardinality(Finished) + 1
  BY <1>6, FinishedIn, FS_AddElement
<1>8. indtuples' = indtuples + 1
  BY DEF Register, Spill
<1>9. indtuples' = Cardinality(Finished')
  BY <1>7, <1>8 DEF CountInv
<1>10. /\ DOMAIN work' = Participants /\ work'[p] = Idle
       /\ \A q \in Participants \ {p} : work'[q] = work[q]
  BY <1>2 DEF BuildInv, IInv, Become
<1>11. \A q \in Participants : work'[q].pc = "done" => taken' = Elements
  BY <1>1, <1>2, <1>10 DEF CountInv
<1>12. ~built'
  BY <1>2, <1>3 DEF CountInv
<1>13. Journal(writes', Finished' \ Range(nodes')) /\ (flushed' <=> writes' # <<>>)
  <2>1. CASE Register(p)
    <3>1. work[p].pc \in InMemory /\ UNCHANGED <<writes, flushed>>
      BY <2>1 DEF Register, InMemory
    <3>2. e \in Range(nodes)
      BY <3>1 DEF BuildInv, RowInv, InHand, e
    <3>3. Finished' \ Range(nodes') = Finished \ Range(nodes)
      BY <1>2, <1>6, <3>2
    <3> QED
      BY <3>1, <3>3 DEF CountInv
  <2>2. CASE Spill(p)
    <3>1. PICK level \in Range(Level) : writes' = Append(Flushed, Insert(e, level))
      BY <2>2 DEF Spill, e
    <3>2. level \in Nat /\ flushed' = TRUE /\ work[p].pc = "spill"
      BY <2>2 DEF Spill, SelectionAssumption, Range
    <3>3. e \notin Range(nodes)
      BY <3>2 DEF BuildInv, RowInv, InHand, e
    <3> DEFINE S == Finished \ Range(nodes)
    <3>4. Finished' \ Range(nodes') = S \cup {e} /\ e \notin S
      BY <1>2, <1>6, <3>3
    <3>5. Journal(writes, S) /\ (flushed <=> writes # <<>>)
      BY DEF CountInv
    <3> HIDE DEF S
    <3>6. Journal(Flushed, S) /\ Flushed # <<>>
      BY <3>5, JournalFlush
    <3>7. Journal(writes', S \cup {e}) /\ writes' # <<>>
      BY <1>5, <3>1, <3>2, <3>4, <3>6, JournalInsert
    <3> QED
      BY <3>2, <3>4, <3>7
  <2> QED
    BY <2>1, <2>2
<1> QED
  BY <1>9, <1>11, <1>12, <1>13 DEF CountInv

(* The leader flushes what nobody has flushed, and ends last. *)
LEMMA LeaderCount == ASSUME CountInv, LeaderFlush PROVE CountInv'
<1>1. /\ UNCHANGED <<nodes, taken, work, indtuples>> /\ writes' = Flushed
      /\ flushed' = TRUE /\ \A p \in Participants : work[p].pc = "done"
  BY DEF LeaderFlush, graph
<1>2. Finished' = Finished
  BY <1>1 DEF Finished, Busy
<1> DEFINE S == Finished \ Range(nodes)
<1>3. Finished' \ Range(nodes') = S
  BY <1>1, <1>2
<1>4. Journal(writes, S) /\ (flushed <=> writes # <<>>)
  BY DEF CountInv
<1> HIDE DEF S
<1>5. Journal(Flushed, S) /\ Flushed # <<>>
  BY <1>4, JournalFlush
<1>6. \A p \in Participants : work[p].pc = "done" => taken = Elements
  BY DEF CountInv
<1>7. indtuples = Cardinality(Finished)
  BY DEF CountInv
<1> QED
  BY <1>1, <1>2, <1>3, <1>5, <1>6, <1>7 DEF CountInv

-----------------------------------------------------------------------------
(* The whole invariant *)

WholeInv == BuildInv /\ RoomInv /\ CountInv

(* Every step of a build keeps it. *)
LEMMA WholeInductive ==
  SelectionAssumption /\ BuildAssumption /\ WholeInv /\ [Next]_vars => WholeInv'
<1> SUFFICES ASSUME SelectionAssumption, BuildAssumption, WholeInv, [Next]_vars
             PROVE  WholeInv'
  OBVIOUS
<1>1. BuildInv /\ RoomInv /\ CountInv
  BY DEF WholeInv
<1>2. BuildInv' /\ RoomInv'
  BY <1>1, BuildInductive, RoomInductive
<1>3. CASE LeaderFlush
  BY <1>1, <1>2, <1>3, LeaderCount DEF WholeInv
<1>4. ASSUME NEW p \in Participants, Step(p) PROVE CountInv'
  BY <1>1, <1>4, InsertCount, RowCount, FinishCount DEF Step
<1>5. CASE UNCHANGED vars
  <2>1. UNCHANGED <<nodes, taken, work, indtuples, writes, flushed, built>>
    BY <1>5 DEF vars, graph
  <2>2. Finished' = Finished
    BY <2>1 DEF Finished, Busy
  <2>3. Finished' \ Range(nodes') = Finished \ Range(nodes)
    BY <2>1, <2>2
  <2>4. CountInv'
    BY <1>1, <2>1, <2>2, <2>3 DEF CountInv
  <2> QED
    BY <1>2, <2>4 DEF WholeInv
<1> QED
  BY <1>2, <1>3, <1>4, <1>5 DEF Next, WholeInv

(* It holds throughout a build. *)
LEMMA WholeInvariance == Spec => []WholeInv
<1>1. SelectionAssumption /\ BuildAssumption
  BY SelectionAssumption, BuildAssumption
<1>2. Init => WholeInv
  BY <1>1, BuildInitially, RoomInitially, CountInitially DEF WholeInv
<1> QED
  BY <1>1, <1>2, WholeInductive, PTL DEF Spec

(* Nodes pushed once are as many as there are rows among them. *)
LEMMA AsManyNodes ==
  ASSUME NEW s \in Seq(Elements), \A i, j \in 1..Len(s) : s[i] = s[j] => i = j
  PROVE  Len(s) = Cardinality(Range(s))
<1> DEFINE n == Len(s)
<1>1. n \in Nat /\ DOMAIN s = 1..n /\ s = [i \in 1..n |-> s[i]]
  BY LenProperties
<1>2. Range(s) = {s[i] : i \in 1..n}
  BY <1>1 DEF Range
<1>3. s \in Surjection(1..n, Range(s))
  BY <1>1, <1>2 DEF Surjection
<1>4. s \in Injection(1..n, Range(s))
  BY <1>1, <1>2 DEF Injection, IsInjective
<1> HIDE DEF n
<1>5. IsFiniteSet(1..n) /\ Cardinality(1..n) = n
  <2>1. 1 \in Int /\ n \in Int
    BY <1>1
  <2>2. IsFiniteSet(1..n) /\ Cardinality(1..n) = IF 1 > n THEN 0 ELSE n - 1 + 1
    BY <2>1, FS_Interval
  <2> QED
    BY <1>1, <2>2
<1>6. Cardinality(Range(s)) = Cardinality(1..n)
  BY <1>3, <1>4, <1>5, FS_Surjection
<1> QED
  BY <1>5, <1>6 DEF n

(* acorn_mem_push_node and the rest: every variable keeps its type, every  *)
(* node is pushed once, the arrays and entry points name pushed nodes, and *)
(* the arena is never overrun.                                             *)
THEOREM Typed == Spec => []TypeOK
<1>1. ASSUME SelectionAssumption, BuildAssumption, WholeInv PROVE TypeOK
  <2>1. BuildInv /\ RoomInv /\ CountInv
    BY <1>1 DEF WholeInv
  <2>2. /\ index \in Indexes /\ Range(nodes) \subseteq taken /\ taken \subseteq Elements
        /\ nodes \in Seq(Elements)
        /\ \A i, j \in 1..Len(nodes) : nodes[i] = nodes[j] => i = j
    BY <2>1 DEF BuildInv, IInv, RowInv, GraphInv
  <2>3. Len(nodes) = Cardinality(Range(nodes))
    BY <2>2, AsManyNodes
  <2>4. Wired \subseteq Range(nodes)
    BY DEF Wired
  <2>5. ASSUME NEW e \in Elements PROVE Range(nbr[e]) \subseteq Range(nodes) \cup {None}
    <3>1. Safe(index, Wired, e, nbr[e]) \/ nbr[e] = <<>>
      BY <2>1 DEF BuildInv, GraphInv, Arrays
    <3>2. Range(nbr[e]) \subseteq Wired \cup {None}
      BY <3>1 DEF Safe, Range
    <3> QED
      BY <2>4, <3>2
  <2>6. entry.id \in Range(nodes) \cup {None} /\ entry.level \in Nat \cup {-1}
    <3>1. EntryIn(Wired, entry) /\ (entry.id = None => entry.level = -1)
      BY <2>1 DEF BuildInv, IInv, GraphInv
    <3>2. CASE entry.id = None
      BY <3>1, <3>2
    <3>3. CASE entry.id # None
      <4>1. entry.id \in Range(nodes) /\ entry.id \in Elements /\ entry.level = Level[entry.id]
        BY <2>2, <2>4, <3>1, <3>3 DEF EntryIn
      <4> QED
        BY <1>1, <4>1 DEF SelectionAssumption
    <3> QED
      BY <3>2, <3>3
  <2>7. Range(part_entry) \subseteq Range(nodes) \cup {None}
    BY <2>1, <2>4 DEF BuildInv, GraphInv, PartsIn, Range
  <2>8. \A p \in Participants : work[p].pc \in States
    BY <2>1 DEF BuildInv, RowInv, InHand
  <2>9. indtuples \in 0..Cardinality(Elements)
    <3>1. Cardinality(Finished) \in Nat /\ Cardinality(Finished) <= Cardinality(Elements)
      BY <1>1, <2>1, FinishedIn
    <3>2. Cardinality(Elements) \in Nat
      BY <1>1, FS_CardinalityType DEF BuildAssumption
    <3> QED
      BY <2>1, <3>1, <3>2 DEF CountInv
  <2>10. ArenaUsed <= index.arena
    BY <2>1 DEF RoomInv
  <2> QED
    BY <2>2, <2>3, <2>5, <2>6, <2>7, <2>8, <2>9, <2>10 DEF TypeOK
<1>2. SelectionAssumption /\ BuildAssumption
  BY SelectionAssumption, BuildAssumption
<1>3. WholeInv => TypeOK
  BY <1>1, <1>2
<1> QED
  BY <1>3, WholeInvariance, PTL

(* At the end: the graph has been flushed once, before anything was        *)
(* inserted; every row is either a node of it, of which there is one, or   *)
(* has been inserted once; and all are counted.                            *)
RowsWritten ==
  built => /\ indtuples = Cardinality(Elements)
           /\ writes # <<>> /\ Journal(writes, Elements \ Range(nodes))
           /\ Range(nodes) \subseteq Elements
           /\ \A i, j \in 1..Len(nodes) : nodes[i] = nodes[j] => i = j

(* acorn_build_insert_tuple and acorn_build_internal: whoever flushes, no  *)
(* row is lost between the graph and the inserts and none gets into both.  *)
THEOREM RowsAccounted == Spec => []RowsWritten
<1>1. ASSUME BuildAssumption, WholeInv, built
      PROVE  /\ indtuples = Cardinality(Elements)
             /\ writes # <<>> /\ Journal(writes, Elements \ Range(nodes))
             /\ Range(nodes) \subseteq Elements
             /\ \A i, j \in 1..Len(nodes) : nodes[i] = nodes[j] => i = j
  <2>1. BuildInv /\ CountInv
    BY <1>1 DEF WholeInv
  <2>2. flushed /\ \A p \in Participants : work[p].pc = "done"
    BY <1>1, <2>1 DEF CountInv
  <2>3. PICK p : p \in Participants
    BY <1>1 DEF BuildAssumption
  <2>4. taken = Elements
    BY <2>1, <2>2, <2>3 DEF CountInv
  <2>5. Busy = {}
    BY <2>2 DEF Busy, Active, InMemory
  <2>6. Finished = Elements
    BY <2>4, <2>5 DEF Finished
  <2>7. indtuples = Cardinality(Elements) /\ writes # <<>>
        /\ Journal(writes, Elements \ Range(nodes))
    BY <2>1, <2>2, <2>6 DEF CountInv
  <2>8. Range(nodes) \subseteq Elements
        /\ \A i, j \in 1..Len(nodes) : nodes[i] = nodes[j] => i = j
    BY <2>1 DEF BuildInv, RowInv
  <2> QED
    BY <2>7, <2>8
<1>2. BuildAssumption
  BY BuildAssumption
<1>3. WholeInv => RowsWritten
  BY <1>1, <1>2 DEF RowsWritten
<1> QED
  BY <1>3, WholeInvariance, PTL
=============================================================================
