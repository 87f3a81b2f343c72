--------------------------- MODULE CodeCacheArrays ---------------------------
(***************************************************************************)
(* The arrays inside one incarnation of a code-cache slot                  *)
(* (acorn_codecache.c): the block directory, which maps a block to a page  *)
(* array, and the page arrays, which hold the entries.  Writers replace    *)
(* both by larger copies under wlock, and retire the old ones; lock-free   *)
(* scans follow the pointers under a reference (active_scans).             *)
(*                                                                         *)
(* Memory is two growing sequences, so that an address is never reused and *)
(* a freed array can be told from a live one.  An entry is one value: the  *)
(* seqlock that makes it so is CodeCacheEntry's subject.  The slot is      *)
(* never evicted here (CodeCacheSlots).                                    *)
(***************************************************************************)
EXTENDS Integers, Sequences, FiniteSets

CONSTANTS
  Readers,     \* backends with a scan handle
  Writers,     \* backends that insert and vacuum, with a handle of their own
  Blocks,      \* index blocks 0..n
  Offsets,     \* offsets 1..m of a block
  DirGrow,     \* headroom of a grown directory (ACORN_CC_DIR_GROW: 64)
  PageGrow,    \* headroom of a grown page array (ACORN_CC_PAGE_GROW: 8)
  RetireMax,   \* length of the retire list (ACORN_CC_RETIRE_MAX: 256)
  NoWriter,    \* wlock is free
  MaxArrays,   \* bound: directories, and page arrays, ever allocated
  MaxLookups   \* bound: lookups of one scan

ASSUME ArraysAssumption ==
  /\ IsFiniteSet(Readers) /\ Readers \cap Writers = {}
  /\ Blocks \subseteq Nat /\ 0 \in Blocks
  /\ Offsets \subseteq Nat \ {0} /\ 1 \in Offsets
  /\ DirGrow \in Nat /\ PageGrow \in Nat /\ RetireMax \in Nat
  /\ NoWriter \notin Writers \cup Readers

VARIABLES
  dirs,      \* dirs[d]: a block directory, block -> page array or Null
  pages,     \* pages[p]: a page array, offset -> entry
  freed,     \* arrays given back to the DSA allocator
  blocks,    \* slot->blocks
  nblocks,   \* slot->nblocks
  retired,   \* slot->retired
  active,    \* slot->active_scans
  wlock,     \* slot->wlock
  handle,    \* handle[b]: cc->blocks and cc->nblocks of backend b
  pc, reg,   \* control state and local variables of each backend
  held,      \* held[r]: arrays r may dereference until its scan ends
  done       \* done[x]: what the finished writers made of element x

memory == <<dirs, pages, freed>>
shared == <<blocks, nblocks, retired, active, wlock>>
vars   == <<dirs, pages, freed, blocks, nblocks, retired, active, wlock,
            handle, pc, reg, held, done>>

Null     == 0
Dir(d)   == [kind |-> "dir", id |-> d]
Page(p)  == [kind |-> "page", id |-> p]
Backends == Readers \cup Writers
Elements == Blocks \X Offsets
NoReg    == [elem |-> <<0, 1>>, op |-> "none", new |-> Null, old |-> Null,
             looks |-> 0]

\* A freshly loaded slot: the index has one block, with one element.
Init ==
  /\ dirs = <<[k \in 0..DirGrow |-> IF k = 0 THEN 1 ELSE Null]>>
  /\ pages = <<[o \in {1} |-> "live"]>>
  /\ freed = {} /\ retired = {}
  /\ blocks = 1 /\ nblocks = 1 + DirGrow
  /\ active = 0
  /\ wlock = NoWriter
  /\ handle = [b \in Backends |-> [dir |-> 1, n |-> 1 + DirGrow]]
  /\ pc = [b \in Backends |-> "idle"]
  /\ reg = [b \in Backends |-> NoReg]
  /\ held = [r \in Readers |-> {}]
  /\ done = [x \in Elements |-> IF x = <<0, 1>> THEN "live" ELSE "absent"]

Goto(b, l) == pc' = [pc EXCEPT ![b] = l]
Block(b)   == reg[b].elem[1]
Offset(b)  == reg[b].elem[2]

-----------------------------------------------------------------------------
(* Scans *)

\* scan_acquire: the reference, then the directory, then its length.
BeginScan(r) ==
  /\ pc[r] = "idle"
  /\ active' = active + 1
  /\ Goto(r, "acquire")
  /\ UNCHANGED <<memory, blocks, nblocks, retired, wlock, handle, reg, held, done>>

AcquireBlocks(r) ==
  /\ pc[r] = "acquire"
  /\ handle' = [handle EXCEPT ![r].dir = blocks]
  /\ held' = [held EXCEPT ![r] = {Dir(blocks)}]
  /\ Goto(r, "acquireLen")
  /\ UNCHANGED <<memory, shared, reg, done>>

AcquireLen(r) ==
  /\ pc[r] = "acquireLen"
  /\ handle' = [handle EXCEPT ![r].n = nblocks]
  /\ reg' = [reg EXCEPT ![r] = NoReg]
  /\ Goto(r, "scan")
  /\ UNCHANGED <<memory, shared, held, done>>

\* A reference to a directory slot outside the array reads whatever lies
\* behind it: the backend is not followed any further.
Follow(b, d, k, here, next) ==
  IF k \notin DOMAIN dirs[d]
  THEN Goto(b, "wild") /\ UNCHANGED reg
  ELSE IF dirs[d][k] = Null
  THEN Goto(b, here) /\ UNCHANGED reg
  ELSE Goto(b, next) /\ reg' = [reg EXCEPT ![b].new = dirs[d][k]]

\* resolve_blocks: the snapshot if it knows the block ...
Resolve(r) ==
  /\ pc[r] = "scan"
  /\ reg[r].looks < MaxLookups
  /\ \E x \in Elements :
       reg' = [reg EXCEPT ![r] = [NoReg EXCEPT !.elem = x, !.looks = reg[r].looks + 1]]
  /\ Goto(r, "fast")
  /\ UNCHANGED <<memory, shared, handle, held, done>>

ResolveFast(r) ==
  /\ pc[r] = "fast"
  /\ IF Block(r) < handle[r].n
     THEN Follow(r, handle[r].dir, Block(r), "refresh", "page")
     ELSE Goto(r, "refresh") /\ UNCHANGED reg
  /\ UNCHANGED <<memory, shared, handle, held, done>>

\* ... else the live directory, then its length.
RefreshBlocks(r) ==
  /\ pc[r] = "refresh"
  /\ handle' = [handle EXCEPT ![r].dir = blocks]
  /\ held' = [held EXCEPT ![r] = @ \cup {Dir(blocks)}]
  /\ Goto(r, "refreshLen")
  /\ UNCHANGED <<memory, shared, reg, done>>

RefreshLen(r) ==
  /\ pc[r] = "refreshLen"
  /\ handle' = [handle EXCEPT ![r].n = nblocks]
  /\ Goto(r, IF Block(r) < nblocks THEN "dir" ELSE "scan")
  /\ UNCHANGED <<memory, shared, reg, held, done>>

ResolveDir(r) ==
  /\ pc[r] = "dir"
  /\ Follow(r, handle[r].dir, Block(r), "scan", "page")
  /\ UNCHANGED <<memory, shared, handle, held, done>>

\* The page header's bound, and the entry; the pointer stays valid for the
\* scan (acorn_codecache_resolve), which prefetches it and reads it later.
ResolvePage(r) ==
  /\ pc[r] = "page"
  /\ held' = [held EXCEPT ![r] = @ \cup {Page(reg[r].new)}]
  /\ Goto(r, "scan")
  /\ UNCHANGED <<memory, shared, handle, reg, done>>

\* release_one_ref: the last reader out drains a list it finds non-empty.
EndScan(r) ==
  /\ pc[r] = "scan"
  /\ active' = active - 1
  /\ held' = [held EXCEPT ![r] = {}]
  /\ reg' = [reg EXCEPT ![r] = NoReg]
  /\ Goto(r, IF active = 1 THEN "last" ELSE "idle")
  /\ UNCHANGED <<memory, blocks, nblocks, retired, wlock, handle, done>>

LastOut(r) ==
  /\ pc[r] = "last"
  /\ \/ retired = {} /\ Goto(r, "idle") /\ UNCHANGED wlock
     \/ /\ retired # {} /\ wlock = NoWriter
        /\ wlock' = r
        /\ Goto(r, "drain")
  /\ UNCHANGED <<memory, blocks, nblocks, retired, active, handle, reg, held, done>>

-----------------------------------------------------------------------------
(* drain_retired: read active_scans, and free if it was 0 *)

\* A drain that does not ask whether a scan is active.
DrainAlways(b) ==
  /\ pc[b] = "drain"
  /\ Goto(b, "drainFree")
  /\ UNCHANGED <<memory, shared, handle, reg, held, done>>

DrainCheck(b) ==
  /\ pc[b] = "drain"
  /\ Goto(b, IF active = 0 THEN "drainFree" ELSE "drained")
  /\ UNCHANGED <<memory, shared, handle, reg, held, done>>

\* A drain that frees the arrays and leaves them on the list.
DrainFreeKeepsList(b) ==
  /\ pc[b] = "drainFree"
  /\ freed' = freed \cup retired
  /\ Goto(b, "drained")
  /\ UNCHANGED <<dirs, pages, shared, handle, reg, held, done>>

DrainFree(b) ==
  /\ pc[b] = "drainFree"
  /\ freed' = freed \cup retired
  /\ retired' = {}
  /\ Goto(b, "drained")
  /\ UNCHANGED <<dirs, pages, blocks, nblocks, active, wlock, handle, reg, held, done>>

\* Back to the caller: the reader is out, the grower allocates.
Drained(b) ==
  /\ pc[b] = "drained"
  /\ IF b \in Readers
     THEN wlock' = NoWriter /\ Goto(b, "idle")
     ELSE Goto(b, reg[b].op) /\ UNCHANGED wlock
  /\ UNCHANGED <<memory, blocks, nblocks, retired, active, handle, reg, held, done>>

-----------------------------------------------------------------------------
(* acorn_codecache_insert, under wlock *)

Unlock(w) ==
  /\ wlock' = NoWriter
  /\ reg' = [reg EXCEPT ![w] = NoReg]
  /\ Goto(w, "idle")

\* An insert that keeps the directory it knew.
InsertStale(w) ==
  /\ pc[w] = "idle"
  /\ wlock = NoWriter
  /\ wlock' = w
  /\ \E x \in Elements :
       /\ done[x] = "absent"
       /\ reg' = [reg EXCEPT ![w] = [NoReg EXCEPT !.elem = x]]
  /\ Goto(w, "ensure")
  /\ UNCHANGED <<memory, blocks, nblocks, retired, active, handle, held, done>>

\* ensure_page starts from the live directory and its length.
Insert(w) ==
  /\ pc[w] = "idle"
  /\ wlock = NoWriter
  /\ wlock' = w
  /\ \E x \in Elements :
       /\ done[x] = "absent"
       /\ reg' = [reg EXCEPT ![w] = [NoReg EXCEPT !.elem = x]]
  /\ handle' = [handle EXCEPT ![w] = [dir |-> blocks, n |-> nblocks]]
  /\ Goto(w, "ensure")
  /\ UNCHANGED <<memory, blocks, nblocks, retired, active, held, done>>

\* The page array of the insert's block in the directory it holds.
PageOf(w) == dirs[handle[w].dir][Block(w)]

\* Too few blocks: drain, then a larger directory.  An array too short for
\* the offset: drain, then a larger one.  No array: a new one.
EnsurePage(w) ==
  /\ pc[w] = "ensure"
  /\ IF Block(w) >= handle[w].n
     THEN Goto(w, "drain") /\ reg' = [reg EXCEPT ![w].op = "growDir"]
     ELSE IF PageOf(w) = Null
     THEN Goto(w, "newPage") /\ UNCHANGED reg
     ELSE IF Offset(w) \in DOMAIN pages[PageOf(w)]
     THEN Goto(w, "write") /\ UNCHANGED reg
     ELSE Goto(w, "drain") /\ reg' = [reg EXCEPT ![w].op = "growPage"]
  /\ UNCHANGED <<memory, shared, handle, held, done>>

\* The budget says no before the drain, or the allocator after it (for a
\* directory by an ERROR, which also lets go of wlock): the element stays a
\* miss.
GiveUp(w) ==
  /\ \/ pc[w] \in {"growDir", "growPage", "newPage"}
     \/ /\ pc[w] = "ensure" /\ Block(w) < handle[w].n
        /\ PageOf(w) # Null /\ Offset(w) \notin DOMAIN pages[PageOf(w)]
  /\ Unlock(w)
  /\ UNCHANGED <<memory, blocks, nblocks, retired, active, handle, held, done>>

\* grow_dir: copy, then swap slot->blocks ...
GrowDir(w) ==
  LET old == dirs[blocks]
      len == Block(w) + 1 + DirGrow
      new == Len(dirs) + 1 IN
  /\ pc[w] = "growDir"
  /\ Len(dirs) < MaxArrays
  /\ dirs' = Append(dirs, [k \in 0..(len - 1) |->
                             IF k \in DOMAIN old THEN old[k] ELSE Null])
  /\ blocks' = new
  /\ reg' = [reg EXCEPT ![w] = [@ EXCEPT !.new = new, !.old = blocks]]
  /\ Goto(w, "growLen")
  /\ UNCHANGED <<pages, freed, nblocks, retired, active, wlock, handle, held, done>>

\* ... then slot->nblocks.
GrowLen(w) ==
  LET new == reg[w].new IN
  /\ pc[w] = "growLen"
  /\ nblocks' = Cardinality(DOMAIN dirs[new])
  /\ handle' = [handle EXCEPT ![w] =
                  [dir |-> new, n |-> Cardinality(DOMAIN dirs[new])]]
  /\ Goto(w, "retire")
  /\ UNCHANGED <<memory, blocks, retired, active, wlock, reg, held, done>>

\* A larger copy of the page array, swapped into the directory.
GrowPage(w) ==
  LET old == pages[PageOf(w)]
      new == Len(pages) + 1 IN
  /\ pc[w] = "growPage"
  /\ new <= MaxArrays
  /\ pages' = Append(pages, [o \in 1..(Offset(w) + PageGrow) |->
                               IF o \in DOMAIN old THEN old[o] ELSE "absent"])
  /\ dirs' = [dirs EXCEPT ![handle[w].dir][Block(w)] = new]
  /\ reg' = [reg EXCEPT ![w] = [@ EXCEPT !.old = PageOf(w)]]
  /\ Goto(w, "retire")
  /\ UNCHANGED <<freed, shared, handle, held, done>>

NewPage(w) ==
  LET new == Len(pages) + 1 IN
  /\ pc[w] = "newPage"
  /\ new <= MaxArrays
  /\ pages' = Append(pages, [o \in 1..(Offset(w) + PageGrow) |-> "absent"])
  /\ dirs' = [dirs EXCEPT ![handle[w].dir][Block(w)] = new]
  /\ Goto(w, "write")
  /\ UNCHANGED <<freed, shared, handle, reg, held, done>>

\* What follows a growth: a new directory may still lack the page array.
Grown(w) == Goto(w, IF reg[w].op = "growDir" THEN "ensure" ELSE "write")

\* The array just replaced.
Dead(w) == IF reg[w].op = "growDir" THEN Dir(reg[w].old) ELSE Page(reg[w].old)

\* acorn_cc_retire: read active_scans; free now, or list, or leak.
Retire(w) ==
  /\ pc[w] = "retire"
  /\ IF active = 0
     THEN freed' = freed \cup {Dead(w)} /\ Grown(w)
     ELSE UNCHANGED freed /\ Goto(w, "push")
  /\ UNCHANGED <<dirs, pages, shared, handle, reg, held, done>>

\* A retire list that does not know its length.
RetirePushUnbounded(w) ==
  /\ pc[w] = "push"
  /\ retired' = retired \cup {Dead(w)}
  /\ Grown(w)
  /\ UNCHANGED <<memory, blocks, nblocks, active, wlock, handle, reg, held, done>>

RetirePush(w) ==
  /\ pc[w] = "push"
  /\ retired' = IF Cardinality(retired) < RetireMax
                THEN retired \cup {Dead(w)} ELSE retired
  /\ Grown(w)
  /\ UNCHANGED <<memory, blocks, nblocks, active, wlock, handle, reg, held, done>>

Write(w) ==
  /\ pc[w] = "write"
  /\ pages' = [pages EXCEPT ![PageOf(w)][Offset(w)] = "live"]
  /\ done' = [done EXCEPT ![reg[w].elem] = "live"]
  /\ Unlock(w)
  /\ UNCHANGED <<dirs, freed, blocks, nblocks, retired, active, handle, held>>

-----------------------------------------------------------------------------
(* acorn_codecache_invalidate, under wlock, from the snapshot it has *)

Invalidate(w) ==
  /\ pc[w] = "idle"
  /\ wlock = NoWriter
  /\ wlock' = w
  /\ \E x \in Elements :
       /\ done[x] = "live"
       /\ reg' = [reg EXCEPT ![w] = [NoReg EXCEPT !.elem = x]]
  /\ Goto(w, "invFast")
  /\ UNCHANGED <<memory, blocks, nblocks, retired, active, handle, held, done>>

InvalidateFast(w) ==
  /\ pc[w] = "invFast"
  /\ IF Block(w) < handle[w].n
     THEN Follow(w, handle[w].dir, Block(w), "invRefresh", "invPage")
     ELSE Goto(w, "invRefresh") /\ UNCHANGED reg
  /\ UNCHANGED <<memory, shared, handle, held, done>>

InvalidateRefresh(w) ==
  /\ pc[w] = "invRefresh"
  /\ handle' = [handle EXCEPT ![w] = [dir |-> blocks, n |-> nblocks]]
  /\ IF Block(w) < nblocks /\ dirs[blocks][Block(w)] # Null
     THEN /\ reg' = [reg EXCEPT ![w].new = dirs[blocks][Block(w)]]
          /\ Goto(w, "invPage")
          /\ UNCHANGED wlock
     ELSE Unlock(w)
  /\ UNCHANGED <<memory, blocks, nblocks, retired, active, held, done>>

InvalidateEntry(w) ==
  LET p == reg[w].new IN
  /\ pc[w] = "invPage"
  /\ IF Offset(w) \in DOMAIN pages[p]
     THEN /\ pages' = [pages EXCEPT ![p][Offset(w)] = "deleted"]
          /\ done' = [done EXCEPT ![reg[w].elem] = "deleted"]
     ELSE UNCHANGED <<pages, done>>
  /\ Unlock(w)
  /\ UNCHANGED <<dirs, freed, blocks, nblocks, retired, active, handle, held>>

-----------------------------------------------------------------------------
Next ==
  \/ \E r \in Readers :
       \/ BeginScan(r) \/ AcquireBlocks(r) \/ AcquireLen(r)
       \/ Resolve(r) \/ ResolveFast(r) \/ RefreshBlocks(r) \/ RefreshLen(r)
       \/ ResolveDir(r) \/ ResolvePage(r) \/ EndScan(r) \/ LastOut(r)
  \/ \E b \in Backends : DrainCheck(b) \/ DrainFree(b) \/ Drained(b)
  \/ \E w \in Writers :
       \/ Insert(w) \/ EnsurePage(w) \/ GiveUp(w) \/ GrowDir(w) \/ GrowLen(w)
       \/ GrowPage(w) \/ NewPage(w) \/ Retire(w) \/ RetirePush(w) \/ Write(w)
       \/ Invalidate(w) \/ InvalidateFast(w) \/ InvalidateRefresh(w)
       \/ InvalidateEntry(w)

Spec == Init /\ [][Next]_vars

-----------------------------------------------------------------------------
(* Properties *)

Entry == {"absent", "live", "deleted"}

TypeOK ==
  /\ \A d \in DOMAIN dirs : \A k \in DOMAIN dirs[d] :
       dirs[d][k] \in {Null} \cup DOMAIN pages
  /\ \A p \in DOMAIN pages : \A o \in DOMAIN pages[p] : pages[p][o] \in Entry
  /\ freed \cup retired \subseteq
       {Dir(d) : d \in DOMAIN dirs} \cup {Page(p) : p \in DOMAIN pages}
  /\ blocks \in DOMAIN dirs /\ nblocks \in Nat
  /\ Cardinality(retired) <= RetireMax
  /\ active \in 0..Cardinality(Readers)
  /\ wlock \in Backends \cup {NoWriter}
  /\ \A b \in Backends : handle[b].dir \in DOMAIN dirs /\ handle[b].n \in Nat
  /\ done \in [Elements -> Entry]

\* Whatever a scan has resolved stays allocated until the scan ends: its
\* directories, and the page arrays it may have prefetched and reads later
\* ("RECLAIM SAFETY ARGUMENT", acorn_codecache.c; acorn_codecache_resolve).
ReaderMemorySafe == \A r \in Readers : held[r] \cap freed = {}

\* Nothing is freed twice, and nothing a new scan can reach is freed or
\* waits to be: the live directory and the page arrays it names.
LiveNotFreed ==
  LET live == {Dir(blocks)} \cup
                {Page(dirs[blocks][k]) : k \in {j \in DOMAIN dirs[blocks] :
                                                  dirs[blocks][j] # Null}} IN
  /\ live \cap (freed \cup retired) = {}
  /\ retired \cap freed = {}

\* The live arrays' entry of an element.
LiveEntry(x) ==
  IF x[1] \in DOMAIN dirs[blocks] /\ dirs[blocks][x[1]] # Null
       /\ x[2] \in DOMAIN pages[dirs[blocks][x[1]]]
  THEN pages[dirs[blocks][x[1]]][x[2]] ELSE "absent"

\* Growth loses no element: while no writer is at work, the live arrays hold
\* every element an insert has finished (grow_dir and ensure_page copy).
InsertsKept ==
  wlock = NoWriter =>
    \A x \in Elements : done[x] # "absent" => LiveEntry(x) # "absent"

\* An invalidated element is not served to later scans ("Clear PRESENT and
\* set DELETED ... can never serve the stale code").
InvalidationsKept ==
  wlock = NoWriter =>
    \A x \in Elements : done[x] = "deleted" => LiveEntry(x) # "live"

\* A scan's directory is as long as the scan believes ("observes either the
\* old or the new array - both internally consistent").
ReaderInBounds == \A r \in Readers : pc[r] # "wild"

\* A writer dereferences allocated arrays only.
WriterMemorySafe ==
  \A w \in Writers :
    /\ pc[w] = "invFast" /\ Block(w) < handle[w].n => Dir(handle[w].dir) \notin freed
    /\ pc[w] = "invPage" => Page(reg[w].new) \notin freed

\* With no scan and no writer left, nothing waits on the retire list
\* (acorn_codecache_end_scan: "Dropping the last active scan on a slot
\* reclaims its retired growth arrays").
DrainedAtRest ==
  (\A b \in Backends : pc[b] = "idle") => retired = {}
=============================================================================
