------------------------ MODULE CodeCacheArraysProofs ------------------------
(***************************************************************************)
(* The arrays of a cached index under lock-free scans, for any number of   *)
(* scans and writers, blocks and offsets, any headroom and any length of   *)
(* the retire list: what a scan may follow stays allocated, nothing is     *)
(* freed twice or while it is live, and growth loses no element.           *)
(***************************************************************************)
EXTENDS CodeCacheArrays, FiniteSetTheorems, SequenceTheorems, TLAPS

-----------------------------------------------------------------------------
(* The inductive invariant *)

Directories == UNION {[0..n -> Nat] : n \in Nat}
PageArrays  == UNION {[1..n -> Entry] : n \in Nat}
Locals == [elem : Elements, op : {"none", "growDir", "growPage"}, new : Nat, old : Nat,
           looks : Nat]

Allocated == {Dir(d) : d \in DOMAIN dirs} \cup {Page(p) : p \in DOMAIN pages}

(* The state of memory and of the variables the backends share. *)
MemoryInv ==
  /\ dirs \in Seq(Directories) /\ pages \in Seq(PageArrays)
  /\ \A d \in DOMAIN dirs : \A k \in DOMAIN dirs[d] : dirs[d][k] \in {Null} \cup DOMAIN pages
  /\ freed \cup retired \subseteq Allocated
  /\ blocks \in DOMAIN dirs /\ nblocks \in Nat
  /\ IsFiniteSet(retired) /\ Cardinality(retired) <= RetireMax
  /\ wlock \in Backends \cup {NoWriter}
  /\ handle \in [Backends -> [dir : DOMAIN dirs, n : Nat]]
  /\ DOMAIN pc = Backends
  /\ reg \in [Backends -> Locals]
  /\ DOMAIN held = Readers
  /\ done \in [Elements -> Entry]

(* Phases of a scan.  One that left a directory's bounds counts as active  *)
(* for ever.                                                               *)
Scanning == {"acquireLen", "scan", "fast", "refresh", "refreshLen", "dir", "page", "wild"}
Active == {r \in Readers : pc[r] \in Scanning \cup {"acquire"}}

(* active_scans counts the active scans. *)
CountInv == active = Cardinality(Active)

(* Phases of a writer, and of a reader that drains. *)
Drains  == {"drain", "drainFree", "drained"}
Grows   == {"growDir", "growLen", "growPage", "retire", "push"}
Inserts == {"ensure", "newPage", "write"} \cup Drains \cup Grows
Invalidates == {"invFast", "invRefresh", "invPage"}

(* wlock has one holder. *)
LockInv == \A b \in Backends : pc[b] \in Inserts \cup Invalidates => wlock = b

(* Scan r cannot come to dereference a member of S: none is held, none is  *)
(* named by a directory that is held.                                      *)
Apart(r, S) ==
  /\ held[r] \cap S = {}
  /\ \A d \in DOMAIN dirs : Dir(d) \in held[r] =>
       \A k \in DOMAIN dirs[d] : dirs[d][k] # Null => Page(dirs[d][k]) \notin S
  /\ pc[r] = "page" => Page(reg[r].new) \notin S

ReaderInv ==
  \A r \in Readers :
    /\ pc[r] \in Scanning \cup Drains \cup {"idle", "acquire", "last"}
    /\ held[r] \subseteq Allocated
    /\ IF pc[r] \in Scanning THEN Dir(handle[r].dir) \in held[r] ELSE held[r] = {}
    /\ pc[r] = "page" => reg[r].new \in DOMAIN pages
    /\ Apart(r, freed)

(* The RECLAIM SAFETY ARGUMENT of acorn_codecache.c: once a drain has read *)
(* zero under wlock, no scan gets at what is on the list.                  *)
DrainInv ==
  \A b \in Backends : pc[b] = "drainFree" => \A r \in Readers : Apart(r, retired)

NotLive(x) ==
  /\ x # Dir(blocks)
  /\ \A k \in DOMAIN dirs[blocks] : dirs[blocks][k] # Null => x # Page(dirs[blocks][k])

(* What is live is not freed and not waiting to be, and no page array      *)
(* serves two blocks.                                                      *)
LiveInv ==
  /\ \A x \in freed \cup retired : NotLive(x)
  /\ retired \cap freed = {}
  /\ \A j, k \in DOMAIN dirs[blocks] :
       dirs[blocks][j] = dirs[blocks][k] /\ dirs[blocks][j] # Null => j = k

(* The live directory's length is published, but for a moment. *)
LengthInv ==
  (\A w \in Writers : pc[w] # "growLen") => \A k \in Nat : k < nblocks <=> k \in DOMAIN dirs[blocks]

(* The writer's block is in the live directory, and has a page array. *)
HasBlock(w) == Block(w) \in DOMAIN dirs[blocks]
HasPage(w)  == HasBlock(w) /\ dirs[blocks][Block(w)] # Null
HasOffset(w) == HasPage(w) /\ Offset(w) \in DOMAIN pages[dirs[blocks][Block(w)]]

WriterState(w) ==
  /\ pc[w] \in Inserts \cup Invalidates \cup {"idle", "wild"}
  /\ pc[w] \in Inserts \ {"growLen"} => handle[w].dir = blocks /\ handle[w].n = nblocks
  /\ pc[w] \in Drains \cup Grows => reg[w].op # "none"
  /\ pc[w] \in {"growDir", "growLen"} => reg[w].op = "growDir"
  /\ pc[w] = "growPage" => reg[w].op = "growPage"
  /\ pc[w] = "growLen" => reg[w].new = blocks
  /\ pc[w] = "newPage" => HasBlock(w) /\ ~HasPage(w)
  /\ pc[w] \in Drains \cup {"growDir"} /\ reg[w].op = "growDir" => ~HasBlock(w)
  /\ pc[w] \in Drains \cup {"growPage"} /\ reg[w].op = "growPage" => HasPage(w) /\ ~HasOffset(w)
  /\ pc[w] \in {"retire", "push"} /\ reg[w].op = "growPage" => HasOffset(w)
  /\ pc[w] = "write" => HasOffset(w)
  /\ pc[w] \in {"growLen", "retire", "push"} =>
       /\ Dead(w) \in Allocated /\ NotLive(Dead(w))
       /\ Dead(w) \notin freed \cup retired
  /\ pc[w] = "invPage" => reg[w].new \in DOMAIN pages
  /\ pc[w] \in Invalidates => done[reg[w].elem] # "absent"

WriterInv == \A w \in Writers : WriterState(w)

(* No element that has been inserted is ever missing in the live arrays. *)
KeptInv == \A x \in Elements : done[x] # "absent" => LiveEntry(x) # "absent"

IInv ==
  /\ MemoryInv /\ CountInv /\ LockInv /\ ReaderInv /\ DrainInv /\ LiveInv /\ LengthInv
  /\ WriterInv /\ KeptInv

-----------------------------------------------------------------------------
(* Grouping of the steps *)

(* Those of a scan that no one else sees, but for its reference. *)
ReaderStep(r) ==
  \/ BeginScan(r) \/ AcquireBlocks(r) \/ AcquireLen(r)
  \/ Resolve(r) \/ ResolveFast(r) \/ RefreshBlocks(r) \/ RefreshLen(r)
  \/ ResolveDir(r) \/ ResolvePage(r) \/ EndScan(r) \/ LastOut(r)

(* Those that replace an array, or write an entry. *)
GrowStep(w) ==
  GrowDir(w) \/ GrowPage(w) \/ NewPage(w) \/ Write(w) \/ InvalidateEntry(w)

(* Those that leave the arrays as they are. *)
WriterStep(w) ==
  \/ Insert(w) \/ EnsurePage(w) \/ GiveUp(w) \/ GrowLen(w)
  \/ Retire(w) \/ RetirePush(w)
  \/ Invalidate(w) \/ InvalidateFast(w) \/ InvalidateRefresh(w)

DrainStep(b) == DrainCheck(b) \/ DrainFree(b) \/ Drained(b)

(* Every step is one of these. *)
LEMMA Steps ==
  ASSUME [Next]_vars
  PROVE  \/ UNCHANGED vars
         \/ \E r \in Readers : ReaderStep(r)
         \/ \E b \in Backends : DrainStep(b)
         \/ \E w \in Writers : WriterStep(w) \/ GrowStep(w)
  BY DEF Next, ReaderStep, DrainStep, WriterStep, GrowStep

-----------------------------------------------------------------------------
(* Memory *)

(* A directory maps a first part of the block numbers, a page array a      *)
(* first part of the offsets.                                              *)
LEMMA Shapes ==
  ASSUME MemoryInv
  PROVE  /\ Len(dirs) \in Nat /\ DOMAIN dirs = 1..Len(dirs)
         /\ Len(pages) \in Nat /\ DOMAIN pages = 1..Len(pages)
         /\ \A d \in DOMAIN dirs : dirs[d] \in Directories
         /\ \A p \in DOMAIN pages : pages[p] \in PageArrays
<1>1. dirs \in Seq(Directories) /\ pages \in Seq(PageArrays)
  BY DEF MemoryInv
<1> HIDE DEF Directories, PageArrays
<1> QED
  BY <1>1, LenProperties, ElementOfSeq

(* The same backend's part of the typing, after any change of it. *)
LEMMA LocalMemory ==
  ASSUME MemoryInv, NEW b \in Backends,
         UNCHANGED <<dirs, pages, freed, retired, blocks, nblocks, done>>,
         wlock' \in Backends \cup {NoWriter},
         handle' \in [Backends -> [dir : DOMAIN dirs, n : Nat]],
         DOMAIN pc' = Backends, reg' \in [Backends -> Locals], DOMAIN held' = Readers
  PROVE  MemoryInv'
  BY DEF MemoryInv, Allocated

LEMMA MemoryReader ==
  ASSUME ArraysAssumption, MemoryInv, NEW r \in Readers, ReaderStep(r)
  PROVE  MemoryInv'
<1> USE DEF MemoryInv, Goto, Backends
<1>1. r \in Backends
  OBVIOUS
<1>2. NoReg \in Locals
  BY DEF ArraysAssumption, NoReg, Locals, Elements, Null
<1>3. \A x \in Elements, l \in Nat : [NoReg EXCEPT !.elem = x, !.looks = l] \in Locals
  BY <1>2 DEF Locals, NoReg
<1>4. \A n \in Nat : [reg[r] EXCEPT !.new = n] \in Locals
  <2>1. reg[r] \in Locals
    BY <1>1
  <2> QED
    BY ONLY <2>1 DEF Locals
<1>5. reg' \in [Backends -> Locals]
  <2>1. CASE Resolve(r)
    <3>1. reg[r].looks + 1 \in Nat
      BY DEF Locals
    <3>2. PICK x \in Elements :
            reg' = [reg EXCEPT ![r] = [NoReg EXCEPT !.elem = x, !.looks = reg[r].looks + 1]]
      BY <2>1 DEF Resolve
    <3>3. [NoReg EXCEPT !.elem = x, !.looks = reg[r].looks + 1] \in Locals
      BY <1>3, <3>1
    <3> QED
      BY <3>2, <3>3
  <2>2. CASE ResolveFast(r) \/ ResolveDir(r)
    <3>1. handle[r].dir \in DOMAIN dirs
      OBVIOUS
    <3>2. \A k \in DOMAIN dirs[handle[r].dir] : dirs[handle[r].dir][k] \in Nat
      BY <3>1, Shapes DEF Null
    <3>3. UNCHANGED reg \/ \E n \in Nat : reg' = [reg EXCEPT ![r].new = n]
      <4>1. CASE ResolveFast(r)
        BY <3>2, <4>1 DEF ResolveFast, Follow
      <4>2. CASE ResolveDir(r)
        BY <3>2, <4>2 DEF ResolveDir, Follow
      <4> QED
        BY <2>2, <4>1, <4>2
    <3>4. reg \in [Backends -> Locals]
      OBVIOUS
    <3>5. ASSUME NEW n \in Nat, reg' = [reg EXCEPT ![r].new = n]
          PROVE  reg' \in [Backends -> Locals]
      <4> DEFINE next == [reg[r] EXCEPT !.new = n]
      <4>1. next \in Locals
        BY <1>4
      <4>2. reg' = [reg EXCEPT ![r] = next]
        BY <3>5
      <4> HIDE DEF next
      <4> QED
        BY ONLY <3>4, <4>1, <4>2
    <3> QED
      BY ONLY <3>3, <3>4, <3>5
  <2>3. CASE UNCHANGED reg
    BY <2>3
  <2>4. CASE reg' = [reg EXCEPT ![r] = NoReg]
    BY <1>2, <2>4
  <2> QED
    BY <2>1, <2>2, <2>3, <2>4
    DEF ReaderStep, BeginScan, AcquireBlocks, AcquireLen, RefreshBlocks, RefreshLen, ResolvePage, EndScan,
        LastOut, shared
<1>6. UNCHANGED <<dirs, pages, freed, retired, blocks, nblocks, done>>
  BY DEF ReaderStep, BeginScan, AcquireBlocks, AcquireLen, Resolve, ResolveFast, RefreshBlocks,
         RefreshLen, ResolveDir, ResolvePage, EndScan, LastOut, shared, memory
<1>7. wlock' \in Backends \cup {NoWriter}
  BY DEF ReaderStep, BeginScan, AcquireBlocks, AcquireLen, Resolve, ResolveFast, RefreshBlocks,
         RefreshLen, ResolveDir, ResolvePage, EndScan, LastOut, shared
<1>8. handle' \in [Backends -> [dir : DOMAIN dirs, n : Nat]]
  <2> DEFINE Handles == [dir : DOMAIN dirs, n : Nat]
  <2>0. handle \in [Backends -> Handles] /\ blocks \in DOMAIN dirs /\ nblocks \in Nat
    OBVIOUS
  <2>1. [handle EXCEPT ![r].dir = blocks] \in [Backends -> Handles]
    BY ONLY <1>1, <2>0
  <2>2. [handle EXCEPT ![r].n = nblocks] \in [Backends -> Handles]
    BY ONLY <1>1, <2>0
  <2>3. \/ UNCHANGED handle
        \/ handle' = [handle EXCEPT ![r].dir = blocks]
        \/ handle' = [handle EXCEPT ![r].n = nblocks]
    BY DEF ReaderStep, BeginScan, AcquireBlocks, AcquireLen, Resolve, ResolveFast, RefreshBlocks,
           RefreshLen, ResolveDir, ResolvePage, EndScan, LastOut
  <2> QED
    BY <2>1, <2>2, <2>3
<1>9. DOMAIN pc' = Backends
  BY DEF ReaderStep, BeginScan, AcquireBlocks, AcquireLen, Resolve, ResolveFast, RefreshBlocks,
         RefreshLen, ResolveDir, ResolvePage, EndScan, LastOut, Follow
<1>10. DOMAIN held' = Readers
  BY DEF ReaderStep, BeginScan, AcquireBlocks, AcquireLen, Resolve, ResolveFast, RefreshBlocks,
         RefreshLen, ResolveDir, ResolvePage, EndScan, LastOut
<1> QED
  BY <1>1, <1>5, <1>6, <1>7, <1>8, <1>9, <1>10, LocalMemory

(* What an array may become. *)
LEMMA DirectoryUpdate ==
  ASSUME NEW d \in Directories, NEW k \in DOMAIN d, NEW n \in Nat
  PROVE  [d EXCEPT ![k] = n] \in Directories
<1>1. PICK m \in Nat : d \in [0..m -> Nat]
  BY DEF Directories
<1>2. [d EXCEPT ![k] = n] \in [0..m -> Nat]
  BY <1>1
<1> QED
  BY <1>2 DEF Directories

LEMMA PageUpdate ==
  ASSUME NEW p \in PageArrays, NEW o \in DOMAIN p, NEW e \in Entry
  PROVE  [p EXCEPT ![o] = e] \in PageArrays
<1>1. PICK m \in Nat : p \in [1..m -> Entry]
  BY DEF PageArrays
<1>2. [p EXCEPT ![o] = e] \in [1..m -> Entry]
  BY <1>1
<1> QED
  BY <1>2 DEF PageArrays

(* The backend's local variables. *)
LEMMA LocalTypes ==
  ASSUME ArraysAssumption, MemoryInv, NEW b \in Backends
  PROVE  /\ reg[b] \in Locals
         /\ reg[b].elem \in Elements /\ Block(b) \in Blocks /\ Offset(b) \in Offsets
         /\ Block(b) \in Nat /\ Offset(b) \in Nat /\ Offset(b) >= 1
         /\ handle[b].dir \in DOMAIN dirs /\ handle[b].n \in Nat
<1>1. reg[b] \in Locals /\ handle[b].dir \in DOMAIN dirs /\ handle[b].n \in Nat
  BY DEF MemoryInv
<1>2. reg[b].elem \in Blocks \X Offsets
  BY <1>1 DEF Locals, Elements
<1>3. Block(b) \in Blocks /\ Offset(b) \in Offsets
  BY <1>2 DEF Block, Offset
<1>4. Block(b) \in Nat /\ Offset(b) \in Nat /\ Offset(b) # 0
  BY <1>3, Zenon DEF ArraysAssumption
<1>5. Offset(b) >= 1
  BY <1>4
<1> QED
  BY <1>1, <1>2, <1>3, <1>4, <1>5 DEF Elements

(* What the growing steps do to memory: grow_dir adds a directory that     *)
(* begins with the old one ...                                             *)
LEMMA GrowDirMemory ==
  ASSUME ArraysAssumption, MemoryInv, NEW w \in Writers, GrowDir(w)
  PROVE  /\ dirs' \in Seq(Directories) /\ UNCHANGED <<pages, freed>>
         /\ DOMAIN dirs' = 1..(Len(dirs) + 1) /\ Len(dirs) + 1 \notin DOMAIN dirs
         /\ \A d \in DOMAIN dirs : d \in DOMAIN dirs' /\ dirs'[d] = dirs[d]
         /\ DOMAIN dirs'[Len(dirs) + 1] = 0..(Block(w) + DirGrow)
         /\ \A k \in 0..(Block(w) + DirGrow) :
              dirs'[Len(dirs) + 1][k] =
                IF k \in DOMAIN dirs[blocks] THEN dirs[blocks][k] ELSE Null
<1> DEFINE n == Block(w) + DirGrow
           d == [k \in 0..n |-> IF k \in DOMAIN dirs[blocks] THEN dirs[blocks][k] ELSE Null]
<1>1. n \in Nat
  BY LocalTypes DEF ArraysAssumption, Backends
<1>2. \A k \in DOMAIN dirs[blocks] : dirs[blocks][k] \in Nat
  BY Shapes DEF MemoryInv, Null
<1>3. d \in [0..n -> Nat]
  BY <1>1, <1>2 DEF Null
<1>4. d \in Directories
  BY <1>1, <1>3 DEF Directories
<1>5. (Block(w) + 1 + DirGrow) - 1 = n
  BY LocalTypes DEF ArraysAssumption, Backends
<1>6. dirs' = Append(dirs, d) /\ UNCHANGED <<pages, freed>>
  BY <1>5 DEF GrowDir
<1> HIDE DEF d, n
<1>7. /\ dirs' \in Seq(Directories) /\ Len(dirs') = Len(dirs) + 1
      /\ \A i \in 1..Len(dirs) : dirs'[i] = dirs[i]
      /\ dirs'[Len(dirs) + 1] = d
  BY <1>4, <1>6, AppendProperties DEF MemoryInv
<1>8. DOMAIN dirs' = 1..(Len(dirs) + 1)
  BY <1>7, LenProperties
<1> QED
  BY <1>6, <1>7, <1>8, Shapes DEF d, n

(* ... ensure_page adds a page array, which begins with the old one if     *)
(* there is one, and puts it into the directory at the insert's block ...  *)
LEMMA NewArrayMemory ==
  ASSUME ArraysAssumption, MemoryInv, NEW w \in Writers, GrowPage(w) \/ NewPage(w),
         handle[w].dir = blocks, HasBlock(w), GrowPage(w) => HasPage(w)
  PROVE  LET new == Len(pages) + 1
             d   == dirs[blocks]
             old == pages[d[Block(w)]]
         IN
         /\ pages' \in Seq(PageArrays) /\ dirs' \in Seq(Directories) /\ UNCHANGED freed
         /\ DOMAIN pages' = 1..new /\ new \notin DOMAIN pages
         /\ \A p \in DOMAIN pages : p \in DOMAIN pages' /\ pages'[p] = pages[p]
         /\ DOMAIN pages'[new] = 1..(Offset(w) + PageGrow)
         /\ GrowPage(w) =>
              \A o \in DOMAIN pages'[new] :
                 pages'[new][o] = IF o \in DOMAIN old THEN old[o] ELSE "absent"
         /\ DOMAIN dirs' = DOMAIN dirs
         /\ \A i \in DOMAIN dirs : i # blocks => dirs'[i] = dirs[i]
         /\ dirs'[blocks] = [d EXCEPT ![Block(w)] = new]
<1> DEFINE new == Len(pages) + 1
           n   == Offset(w) + PageGrow
           d   == dirs[blocks]
           old == pages[d[Block(w)]]
           grown == [o \in 1..n |-> IF o \in DOMAIN old THEN old[o] ELSE "absent"]
           empty == [o \in 1..n |-> "absent"]
           page == IF GrowPage(w) THEN grown ELSE empty
<1>1. n \in Nat /\ new \in Nat
  BY LocalTypes, Shapes DEF ArraysAssumption, Backends
<1>2. GrowPage(w) => d[Block(w)] \in DOMAIN pages
  BY DEF HasPage, HasBlock, MemoryInv
<1>3. GrowPage(w) => old \in PageArrays
  BY <1>2, Shapes
<1>4. GrowPage(w) => \A o \in DOMAIN old : old[o] \in Entry
  BY <1>3 DEF PageArrays
<1>5. GrowPage(w) => grown \in [1..n -> Entry]
  BY <1>4 DEF Entry
<1>6. empty \in [1..n -> Entry]
  BY DEF Entry
<1>7. page \in PageArrays
  BY <1>1, <1>5, <1>6 DEF PageArrays
<1>8. pages' = Append(pages, page) /\ UNCHANGED freed
  <2>1. CASE GrowPage(w)
    BY <2>1 DEF GrowPage, PageOf
  <2>2. CASE ~GrowPage(w)
    BY <2>2 DEF NewPage
  <2> QED
    BY <2>1, <2>2
<1>9. dirs' = [dirs EXCEPT ![blocks] = [d EXCEPT ![Block(w)] = new]]
  BY DEF GrowPage, NewPage
<1>10. DOMAIN page = 1..n
  OBVIOUS
<1>11. GrowPage(w) => \A o \in 1..n : page[o] = IF o \in DOMAIN old THEN old[o] ELSE "absent"
  OBVIOUS
<1> HIDE DEF page, n
<1>12. /\ pages' \in Seq(PageArrays) /\ Len(pages') = new
       /\ \A i \in 1..Len(pages) : pages'[i] = pages[i]
       /\ pages'[new] = page
  BY <1>7, <1>8, AppendProperties DEF MemoryInv
<1>13. DOMAIN pages' = 1..new
  BY <1>12, LenProperties
<1>14. [d EXCEPT ![Block(w)] = new] \in Directories
  BY <1>1, Shapes, DirectoryUpdate DEF HasBlock, MemoryInv
<1> DEFINE D == [d EXCEPT ![Block(w)] = new]
<1>15. D \in Directories /\ dirs' = [dirs EXCEPT ![blocks] = D]
  BY <1>9, <1>14
<1> HIDE DEF D
<1>16. blocks \in 1..Len(dirs) /\ dirs \in Seq(Directories)
  BY Shapes DEF MemoryInv
<1>17. /\ dirs' \in Seq(Directories) /\ Len(dirs') = Len(dirs)
       /\ \A i \in 1..Len(dirs) : dirs'[i] = IF i = blocks THEN D ELSE dirs[i]
  BY <1>15, <1>16, ExceptSeq
<1>18. DOMAIN dirs' = DOMAIN dirs
  BY <1>17, Shapes, LenProperties
<1>19. pages' \in Seq(PageArrays) /\ dirs' \in Seq(Directories) /\ UNCHANGED freed
  BY <1>8, <1>12, <1>17
<1>20. DOMAIN pages' = 1..new /\ new \notin DOMAIN pages
  BY <1>13, Shapes
<1>21. \A p \in DOMAIN pages : p \in DOMAIN pages' /\ pages'[p] = pages[p]
  BY <1>12, <1>13, Shapes
<1>22. DOMAIN pages'[new] = 1..n
  BY <1>10, <1>12
<1>23. \A i \in DOMAIN dirs : i # blocks => dirs'[i] = dirs[i]
  BY <1>17, Shapes
<1>24. dirs'[blocks] = [d EXCEPT ![Block(w)] = new]
  BY <1>16, <1>17 DEF D
<1> QED
  BY <1>11, <1>12, <1>18, <1>19, <1>20, <1>21, <1>22, <1>23, <1>24 DEF n

(* ... and an entry is overwritten in place. *)
LEMMA SetEntryMemory ==
  ASSUME ArraysAssumption, MemoryInv, NEW p \in DOMAIN pages, NEW o \in DOMAIN pages[p],
         NEW e \in Entry, pages' = [pages EXCEPT ![p][o] = e]
  PROVE  /\ pages' \in Seq(PageArrays) /\ DOMAIN pages' = DOMAIN pages
         /\ \A q \in DOMAIN pages : DOMAIN pages'[q] = DOMAIN pages[q]
         /\ pages'[p][o] = e
         /\ \A q \in DOMAIN pages : \A i \in DOMAIN pages[q] :
              <<q, i>> # <<p, o>> => pages'[q][i] = pages[q][i]
<1> DEFINE P == [pages[p] EXCEPT ![o] = e]
<1>1. P \in PageArrays /\ DOMAIN P = DOMAIN pages[p] /\ P[o] = e
      /\ \A i \in DOMAIN pages[p] : i # o => P[i] = pages[p][i]
  BY Shapes, PageUpdate
<1>2. pages' = [pages EXCEPT ![p] = P]
  OBVIOUS
<1> HIDE DEF P
<1>3. p \in 1..Len(pages) /\ pages \in Seq(PageArrays) /\ P \in PageArrays
  BY <1>1, Shapes DEF MemoryInv
<1>4. /\ pages' \in Seq(PageArrays) /\ Len(pages') = Len(pages)
      /\ \A i \in 1..Len(pages) : pages'[i] = IF i = p THEN P ELSE pages[i]
  <2>1. /\ [pages EXCEPT ![p] = P] \in Seq(PageArrays)
        /\ Len([pages EXCEPT ![p] = P]) = Len(pages)
        /\ \A i \in 1..Len(pages) :
              [pages EXCEPT ![p] = P][i] = IF i = p THEN P ELSE pages[i]
    BY <1>3, ExceptSeq
  <2> QED
    BY <1>2, <2>1, Zenon
<1>5. DOMAIN pages' = DOMAIN pages
  BY <1>4, Shapes, LenProperties
<1> QED
  BY <1>1, <1>4, <1>5, Shapes

(* A drain gives the listed arrays back, and empties the list. *)
LEMMA MemoryDrain ==
  ASSUME ArraysAssumption, MemoryInv, NEW b \in Backends, DrainStep(b)
  PROVE  MemoryInv'
<1> USE DEF MemoryInv, Goto
<1>1. UNCHANGED <<dirs, pages, blocks, nblocks, handle, reg, held, done>>
  BY DEF DrainStep, DrainCheck, DrainFree, Drained, shared, memory
<1>2. wlock' \in Backends \cup {NoWriter} /\ DOMAIN pc' = Backends
  BY DEF DrainStep, DrainCheck, DrainFree, Drained, shared
<1>3. freed' \cup retired' \subseteq Allocated
  BY DEF DrainStep, DrainCheck, DrainFree, Drained, shared, memory
<1>4. IsFiniteSet(retired') /\ Cardinality(retired') <= RetireMax
  <2>1. retired' = retired \/ retired' = {}
    BY DEF DrainStep, DrainCheck, DrainFree, Drained, shared
  <2>2. RetireMax >= 0
    BY DEF ArraysAssumption
  <2> QED
    BY <2>1, <2>2, FS_EmptySet
<1>5. Allocated' = Allocated
  BY <1>1 DEF Allocated
<1> QED
  BY <1>1, <1>2, <1>3, <1>4, <1>5

(* A writer that has wlock finds the published length right, unless it is  *)
(* about to publish it.                                                    *)
LEMMA LengthPublished ==
  ASSUME ArraysAssumption, LockInv, LengthInv, NEW w \in Writers, Block(w) \in Nat,
         pc[w] \in (Inserts \cup Invalidates) \ {"growLen"}
  PROVE  Block(w) < nblocks <=> HasBlock(w)
<1>1. \A v \in Writers : pc[v] # "growLen"
  BY DEF LockInv, Backends, Inserts, Invalidates, Drains, Grows
<1> QED
  BY <1>1 DEF LengthInv, HasBlock

(* A writer puts on the list only what it has replaced, and only while     *)
(* there is room.                                                          *)
LEMMA MemoryWriter ==
  ASSUME ArraysAssumption, MemoryInv, LockInv, LengthInv, WriterInv,
         NEW w \in Writers, WriterStep(w)
  PROVE  MemoryInv'
<1> USE DEF MemoryInv, Goto, Unlock
<1>a. w \in Backends /\ NoReg \in Locals
  BY DEF Backends, ArraysAssumption, NoReg, Locals, Elements, Null
<1>1. UNCHANGED <<dirs, pages, blocks, held, done>>
  BY DEF WriterStep, Insert, EnsurePage, GiveUp, GrowLen, Retire, RetirePush, Invalidate,
         InvalidateFast, InvalidateRefresh, shared, memory
<1>2. Allocated' = Allocated
  BY <1>1 DEF Allocated
<1>3. wlock' \in Backends \cup {NoWriter}
  BY <1>a DEF WriterStep, Insert, EnsurePage, GiveUp, GrowLen, Retire, RetirePush, Invalidate,
         InvalidateFast, InvalidateRefresh, shared
<1>4. DOMAIN pc' = Backends
  BY DEF WriterStep, Insert, EnsurePage, GiveUp, GrowLen, Retire, RetirePush, Invalidate,
         InvalidateFast, InvalidateRefresh, Follow, Grown
<1>5. nblocks' \in Nat /\ handle' \in [Backends -> [dir : DOMAIN dirs, n : Nat]]
  <2>1. CASE GrowLen(w)
    <3>1. reg[w].new = blocks
      BY <2>1 DEF GrowLen, WriterInv, WriterState
    <3>2. PICK n \in Nat : dirs[blocks] \in [0..n -> Nat]
      <4>1. dirs[blocks] \in Directories
        BY Shapes
      <4> QED
        BY <4>1 DEF Directories
    <3>3. Cardinality(DOMAIN dirs[blocks]) \in Nat
      <4>1. DOMAIN dirs[blocks] = 0..n
        BY <3>2
      <4>2. IsFiniteSet(0..n)
        BY FS_Interval
      <4> QED
        BY <4>1, <4>2, FS_CardinalityType
    <3> QED
      BY <1>a, <2>1, <3>1, <3>3 DEF GrowLen
  <2>2. CASE ~GrowLen(w)
    <3>1. \/ UNCHANGED handle
          \/ handle' = [handle EXCEPT ![w] = [dir |-> blocks, n |-> nblocks]]
      BY <2>2 DEF WriterStep, Insert, EnsurePage, GiveUp, Retire, RetirePush, Invalidate,
         InvalidateFast, InvalidateRefresh
    <3>2. UNCHANGED nblocks
      BY <2>2 DEF WriterStep, Insert, EnsurePage, GiveUp, Retire, RetirePush, Invalidate,
         InvalidateFast, InvalidateRefresh, shared
    <3>3. [handle EXCEPT ![w] = [dir |-> blocks, n |-> nblocks]]
            \in [Backends -> [dir : DOMAIN dirs, n : Nat]]
      BY <1>a
    <3> QED
      BY <3>1, <3>2, <3>3
  <2> QED
    BY <2>1, <2>2
<1>6. reg' \in [Backends -> Locals]
  <2>1. \A x \in Elements : [NoReg EXCEPT !.elem = x] \in Locals
    BY <1>a DEF Locals, NoReg
  <2>2. \A o \in {"growDir", "growPage"} : [reg[w] EXCEPT !.op = o] \in Locals
    BY <1>a DEF Locals
  <2>3. \A n \in Nat : [reg[w] EXCEPT !.new = n] \in Locals
    BY <1>a DEF Locals
  <2>4. CASE Insert(w) \/ Invalidate(w)
    <3>1. PICK x \in Elements : reg' = [reg EXCEPT ![w] = [NoReg EXCEPT !.elem = x]]
      BY <2>4 DEF Insert, Invalidate
    <3> QED
      BY <2>1, <3>1
  <2>5. CASE EnsurePage(w)
    <3>1. \/ UNCHANGED reg
          \/ \E o \in {"growDir", "growPage"} : reg' = [reg EXCEPT ![w].op = o]
      BY <2>5 DEF EnsurePage
    <3> QED
      BY <2>2, <3>1
  <2>6. CASE InvalidateFast(w) \/ InvalidateRefresh(w)
    <3>1. \A d \in DOMAIN dirs : \A k \in DOMAIN dirs[d] : dirs[d][k] \in Nat
      BY Shapes DEF Null
    <3>2. CASE InvalidateFast(w)
      <4>1. UNCHANGED reg \/ \E n \in Nat : reg' = [reg EXCEPT ![w].new = n]
        BY <1>a, <3>1, <3>2 DEF InvalidateFast, Follow
      <4> QED
        BY <2>3, <4>1
    <3>3. CASE InvalidateRefresh(w) /\ Block(w) < nblocks /\ dirs[blocks][Block(w)] # Null
      <4>1. HasBlock(w)
        BY <1>a, <3>3, LocalTypes, LengthPublished DEF InvalidateRefresh, Invalidates
      <4>2. \E n \in Nat : reg' = [reg EXCEPT ![w].new = n]
        BY <3>1, <3>3, <4>1 DEF InvalidateRefresh, HasBlock
      <4> QED
        BY <2>3, <4>2
    <3>4. CASE InvalidateRefresh(w) /\ ~(Block(w) < nblocks /\ dirs[blocks][Block(w)] # Null)
      BY <1>a, <3>4 DEF InvalidateRefresh
    <3> QED
      BY <2>6, <3>2, <3>3, <3>4
  <2>7. CASE GiveUp(w)
    BY <1>a, <2>7 DEF GiveUp
  <2>8. CASE GrowLen(w) \/ Retire(w) \/ RetirePush(w)
    BY <2>8 DEF GrowLen, Retire, RetirePush
  <2> QED
    BY <2>4, <2>5, <2>6, <2>7, <2>8 DEF WriterStep
<1>7. freed' \cup retired' \subseteq Allocated
  BY DEF WriterStep, Insert, EnsurePage, GiveUp, GrowLen, Retire, RetirePush, Invalidate,
         InvalidateFast, InvalidateRefresh, shared, memory, WriterInv, WriterState
<1>8. IsFiniteSet(retired') /\ Cardinality(retired') <= RetireMax
  <2>1. CASE RetirePush(w) /\ Cardinality(retired) < RetireMax
    <3>1. Cardinality(retired) \in Nat /\ RetireMax \in Nat
      BY FS_CardinalityType DEF ArraysAssumption
    <3>2. retired' = retired \cup {Dead(w)}
      BY <2>1 DEF RetirePush
    <3>3. /\ IsFiniteSet(retired \cup {Dead(w)})
          /\ Cardinality(retired \cup {Dead(w)}) \in {Cardinality(retired), Cardinality(retired) + 1}
      BY FS_AddElement
    <3> QED
      BY <2>1, <3>1, <3>2, <3>3
  <2>2. CASE ~(RetirePush(w) /\ Cardinality(retired) < RetireMax)
    <3>1. retired' = retired
      BY <2>2 DEF WriterStep, Insert, EnsurePage, GiveUp, GrowLen, Retire, RetirePush, Invalidate,
         InvalidateFast, InvalidateRefresh, shared
    <3> QED
      BY <3>1
  <2> QED
    BY <2>1, <2>2
<1> QED
  BY <1>1, <1>2, <1>3, <1>4, <1>5, <1>6, <1>7, <1>8

(* What a growing step may rely on. *)
LEMMA GrowReady ==
  ASSUME ArraysAssumption, MemoryInv, WriterInv, NEW w \in Writers
  PROVE  /\ GrowPage(w) \/ NewPage(w) \/ Write(w) => handle[w].dir = blocks /\ HasBlock(w)
         /\ GrowPage(w) \/ Write(w) => HasPage(w) /\ dirs[blocks][Block(w)] \in DOMAIN pages
         /\ GrowPage(w) => ~HasOffset(w)
         /\ Write(w) => HasOffset(w)
         /\ NewPage(w) => ~HasPage(w)
         /\ GrowDir(w) => ~HasBlock(w)
         /\ InvalidateEntry(w) => reg[w].new \in DOMAIN pages
<1>1. /\ GrowPage(w) \/ NewPage(w) \/ Write(w) => handle[w].dir = blocks
      /\ GrowPage(w) => HasPage(w) /\ ~HasOffset(w)
      /\ Write(w) => HasOffset(w)
      /\ NewPage(w) => HasBlock(w) /\ ~HasPage(w)
      /\ GrowDir(w) => ~HasBlock(w)
      /\ InvalidateEntry(w) => reg[w].new \in DOMAIN pages
  BY DEF WriterInv, WriterState, GrowPage, NewPage, Write, GrowDir, InvalidateEntry, Inserts, Grows
<1>2. HasOffset(w) => HasPage(w)
  BY DEF HasOffset
<1>3. HasPage(w) => HasBlock(w) /\ dirs[blocks][Block(w)] \in DOMAIN pages
  BY DEF HasPage, HasBlock, MemoryInv
<1> QED
  BY <1>1, <1>2, <1>3

(* A growth adds an array and keeps the others. *)
LEMMA MemoryGrow ==
  ASSUME ArraysAssumption, MemoryInv, WriterInv, NEW w \in Writers, GrowStep(w)
  PROVE  MemoryInv' /\ Allocated \subseteq Allocated'
<1> USE DEF Goto, Unlock
<1>1. w \in Backends /\ NoReg \in Locals /\ reg[w] \in Locals
  BY LocalTypes DEF Backends, ArraysAssumption, NoReg, Locals, Elements, Null
<1>2. UNCHANGED <<freed, retired, nblocks, handle, held>>
  BY DEF GrowStep, GrowDir, GrowPage, NewPage, Write, InvalidateEntry, shared
<1>3. wlock' \in Backends \cup {NoWriter} /\ DOMAIN pc' = Backends /\ DOMAIN held' = Readers
  BY <1>1 DEF GrowStep, GrowDir, GrowPage, NewPage, Write, InvalidateEntry, shared, MemoryInv
<1>4. IsFiniteSet(retired') /\ Cardinality(retired') <= RetireMax
  BY <1>2 DEF MemoryInv
<1>5. done' \in [Elements -> Entry]
  <2>1. "live" \in Entry /\ "deleted" \in Entry
    BY DEF Entry
  <2>2. UNCHANGED done \/ \E e \in {"live", "deleted"} : done' = [done EXCEPT ![reg[w].elem] = e]
    BY DEF GrowStep, GrowDir, GrowPage, NewPage, Write, InvalidateEntry
  <2> QED
    BY <2>1, <2>2 DEF MemoryInv
<1>6. ASSUME DOMAIN dirs \subseteq DOMAIN dirs', DOMAIN pages \subseteq DOMAIN pages'
      PROVE  /\ Allocated \subseteq Allocated' /\ freed' \cup retired' \subseteq Allocated'
             /\ handle' \in [Backends -> [dir : DOMAIN dirs', n : Nat]] /\ nblocks' \in Nat
  <2>1. Allocated \subseteq Allocated'
    BY <1>6 DEF Allocated
  <2>2. freed' \cup retired' \subseteq Allocated'
    BY <1>2, <2>1 DEF MemoryInv
  <2>3. handle' \in [Backends -> [dir : DOMAIN dirs', n : Nat]] /\ nblocks' \in Nat
    BY <1>2, <1>6 DEF MemoryInv
  <2> QED
    BY <2>1, <2>2, <2>3
<1>7. CASE GrowDir(w)
  <2> DEFINE new == Len(dirs) + 1
  <2>1. /\ dirs' \in Seq(Directories) /\ UNCHANGED <<pages, freed>>
        /\ DOMAIN dirs' = 1..new /\ new \notin DOMAIN dirs
        /\ \A d \in DOMAIN dirs : d \in DOMAIN dirs' /\ dirs'[d] = dirs[d]
        /\ DOMAIN dirs'[new] = 0..(Block(w) + DirGrow)
        /\ \A k \in 0..(Block(w) + DirGrow) :
             dirs'[new][k] = IF k \in DOMAIN dirs[blocks] THEN dirs[blocks][k] ELSE Null
    BY <1>7, GrowDirMemory
  <2>2. new \in Nat /\ DOMAIN dirs = 1..Len(dirs) /\ blocks \in DOMAIN dirs
    BY Shapes DEF MemoryInv
  <2>3. \A d \in DOMAIN dirs' : d \in DOMAIN dirs \/ d = new
    BY <2>1, <2>2
  <2>4. blocks' = new /\ new \in DOMAIN dirs'
    BY <1>7, <2>1, <2>2 DEF GrowDir
  <2>5. \A d \in DOMAIN dirs' : \A k \in DOMAIN dirs'[d] : dirs'[d][k] \in {Null} \cup DOMAIN pages'
    <3>1. \A d \in DOMAIN dirs : \A k \in DOMAIN dirs[d] : dirs[d][k] \in {Null} \cup DOMAIN pages
      BY DEF MemoryInv
    <3> QED
      BY <2>1, <2>2, <2>3, <3>1
  <2>6. reg' \in [Backends -> Locals]
    <3>1. [reg[w] EXCEPT !.new = new, !.old = blocks] \in Locals
      <4>1. \A m, n \in Nat : [reg[w] EXCEPT !.new = m, !.old = n] \in Locals
        BY <1>1 DEF Locals
      <4>2. new \in Nat /\ blocks \in Nat
        BY <2>2
      <4> QED
        BY <4>1, <4>2
    <3>2. reg' = [reg EXCEPT ![w] = [reg[w] EXCEPT !.new = new, !.old = blocks]]
      BY <1>7 DEF GrowDir
    <3> QED
      BY <3>1, <3>2 DEF MemoryInv
  <2>7. pages' \in Seq(PageArrays)
    BY <2>1 DEF MemoryInv
  <2> QED
    BY <1>3, <1>4, <1>5, <1>6, <2>1, <2>4, <2>5, <2>6, <2>7 DEF MemoryInv
<1>8. CASE GrowPage(w) \/ NewPage(w)
  <2> DEFINE new == Len(pages) + 1
             d   == dirs[blocks]
             old == pages[d[Block(w)]]
  <2>1. /\ handle[w].dir = blocks /\ HasBlock(w)
        /\ GrowPage(w) => HasPage(w) /\ dirs[blocks][Block(w)] \in DOMAIN pages
    BY <1>8, GrowReady
  <2>2. /\ pages' \in Seq(PageArrays) /\ dirs' \in Seq(Directories)
        /\ DOMAIN pages' = 1..new
        /\ \A p \in DOMAIN pages : p \in DOMAIN pages'
        /\ DOMAIN dirs' = DOMAIN dirs
        /\ \A i \in DOMAIN dirs : i # blocks => dirs'[i] = dirs[i]
        /\ dirs'[blocks] = [d EXCEPT ![Block(w)] = new]
    BY <1>8, <2>1, NewArrayMemory
  <2>3. new \in DOMAIN pages' /\ blocks \in DOMAIN dirs
    BY <2>2, Shapes DEF MemoryInv
  <2>4. \A i \in DOMAIN dirs' : \A k \in DOMAIN dirs'[i] : dirs'[i][k] \in {Null} \cup DOMAIN pages'
    <3>1. \A i \in DOMAIN dirs : \A k \in DOMAIN dirs[i] : dirs[i][k] \in {Null} \cup DOMAIN pages
      BY DEF MemoryInv
    <3> QED
      BY <2>2, <2>3, <3>1
  <2>5. blocks' = blocks
    BY <1>8 DEF GrowPage, NewPage, shared
  <2>6. reg' \in [Backends -> Locals]
    <3>1. CASE GrowPage(w)
      <4>1. d[Block(w)] \in Nat
        BY <2>1, <3>1, Shapes
      <4>2. [reg[w] EXCEPT !.old = d[Block(w)]] \in Locals
        BY <1>1, <4>1 DEF Locals
      <4>3. reg' = [reg EXCEPT ![w] = [reg[w] EXCEPT !.old = d[Block(w)]]]
        BY <2>1, <3>1 DEF GrowPage, PageOf
      <4> QED
        BY <4>2, <4>3 DEF MemoryInv
    <3>2. CASE NewPage(w)
      BY <3>2 DEF NewPage, MemoryInv
    <3> QED
      BY <1>8, <3>1, <3>2
  <2> QED
    BY <1>3, <1>4, <1>5, <1>6, <2>2, <2>3, <2>4, <2>5, <2>6 DEF MemoryInv
<1>9. CASE Write(w) \/ InvalidateEntry(w)
  <2>1. UNCHANGED <<dirs, blocks>> /\ reg' = [reg EXCEPT ![w] = NoReg]
    BY <1>9 DEF Write, InvalidateEntry
  <2>2. UNCHANGED pages \/ \E p \in DOMAIN pages : \E o \in DOMAIN pages[p] : \E e \in Entry :
                              pages' = [pages EXCEPT ![p][o] = e]
    <3>1. CASE Write(w)
      <4>1. /\ handle[w].dir = blocks /\ HasOffset(w)
            /\ dirs[blocks][Block(w)] \in DOMAIN pages
        BY <3>1, GrowReady
      <4> QED
        BY <3>1, <4>1 DEF Write, PageOf, HasOffset, Entry
    <3>2. CASE InvalidateEntry(w)
      <4>1. reg[w].new \in DOMAIN pages
        BY <3>2, GrowReady
      <4> QED
        BY <3>2, <4>1 DEF InvalidateEntry, Entry
    <3> QED
      BY <1>9, <3>1, <3>2
  <2>3. pages' \in Seq(PageArrays) /\ DOMAIN pages' = DOMAIN pages
    BY <2>2, SetEntryMemory DEF MemoryInv
  <2> QED
    BY <1>1, <1>3, <1>4, <1>5, <1>6, <2>1, <2>3 DEF MemoryInv
<1> QED
  BY <1>7, <1>8, <1>9 DEF GrowStep

-----------------------------------------------------------------------------
(* One backend moves at a time *)

(* Arrays are told apart by their names. *)
LEMMA Names ==
  /\ \A d, p : Dir(d) # Page(p)
  /\ \A d, e : Dir(d) = Dir(e) => d = e
  /\ \A p, q : Page(p) = Page(q) => p = q
<1>1. ASSUME NEW d, NEW p PROVE Dir(d) # Page(p)
  <2>1. Dir(d).kind = "dir" /\ Page(p).kind = "page"
    BY DEF Dir, Page
  <2> QED
    BY <2>1
<1>2. ASSUME NEW d, NEW e, Dir(d) = Dir(e) PROVE d = e
  <2>1. Dir(d).id = d /\ Dir(e).id = e
    BY DEF Dir
  <2> QED
    BY <1>2, <2>1
<1>3. ASSUME NEW p, NEW q, Page(p) = Page(q) PROVE p = q
  <2>1. Page(p).id = p /\ Page(q).id = q
    BY DEF Page
  <2> QED
    BY <1>3, <2>1
<1> QED
  BY <1>1, <1>2, <1>3

(* A scan's step changes nothing of the arrays and nothing of the others.  *)
LEMMA ReaderFrame ==
  ASSUME MemoryInv, NEW r \in Readers, ReaderStep(r)
  PROVE  /\ UNCHANGED <<dirs, pages, freed, retired, blocks, nblocks, done>>
         /\ \A b \in Backends \ {r} : pc'[b] = pc[b] /\ reg'[b] = reg[b] /\ handle'[b] = handle[b]
         /\ \A q \in Readers \ {r} : held'[q] = held[q]
         /\ UNCHANGED wlock \/ (wlock = NoWriter /\ wlock' = r)
<1> USE DEF MemoryInv, Goto, Follow
<1>1. UNCHANGED <<dirs, pages, freed, retired, blocks, nblocks, done>>
  BY DEF ReaderStep, BeginScan, AcquireBlocks, AcquireLen, Resolve, ResolveFast, RefreshBlocks,
         RefreshLen, ResolveDir, ResolvePage, EndScan, LastOut, shared, memory
<1>2. \A b \in Backends \ {r} : pc'[b] = pc[b]
  BY DEF ReaderStep, BeginScan, AcquireBlocks, AcquireLen, Resolve, ResolveFast, RefreshBlocks,
         RefreshLen, ResolveDir, ResolvePage, EndScan, LastOut
<1>3. \A b \in Backends \ {r} : reg'[b] = reg[b]
  BY DEF ReaderStep, BeginScan, AcquireBlocks, AcquireLen, Resolve, ResolveFast, RefreshBlocks,
         RefreshLen, ResolveDir, ResolvePage, EndScan, LastOut
<1>4. \A b \in Backends \ {r} : handle'[b] = handle[b]
  BY DEF ReaderStep, BeginScan, AcquireBlocks, AcquireLen, Resolve, ResolveFast, RefreshBlocks,
         RefreshLen, ResolveDir, ResolvePage, EndScan, LastOut
<1>5. \A q \in Readers \ {r} : held'[q] = held[q]
  BY DEF ReaderStep, BeginScan, AcquireBlocks, AcquireLen, Resolve, ResolveFast, RefreshBlocks,
         RefreshLen, ResolveDir, ResolvePage, EndScan, LastOut
<1>6. UNCHANGED wlock \/ (wlock = NoWriter /\ wlock' = r)
  BY DEF ReaderStep, BeginScan, AcquireBlocks, AcquireLen, Resolve, ResolveFast, RefreshBlocks,
         RefreshLen, ResolveDir, ResolvePage, EndScan, LastOut, shared
<1> QED
  BY <1>1, <1>2, <1>3, <1>4, <1>5, <1>6

(* So does a writer's: no scan's variable is touched. *)
LEMMA WriterFrame ==
  ASSUME MemoryInv, NEW w \in Writers, WriterStep(w) \/ GrowStep(w)
  PROVE  /\ UNCHANGED <<held, active>>
         /\ \A b \in Backends \ {w} : pc'[b] = pc[b] /\ reg'[b] = reg[b] /\ handle'[b] = handle[b]
         /\ UNCHANGED wlock \/ (wlock = NoWriter /\ wlock' = w)
              \/ (pc[w] \in Inserts \cup Invalidates /\ wlock' = NoWriter /\ pc'[w] = "idle")
<1> USE DEF MemoryInv, Goto, Follow, Unlock, Grown
<1>1. UNCHANGED <<held, active>>
  BY DEF WriterStep, Insert, EnsurePage, GiveUp, GrowLen, Retire, RetirePush, Invalidate,
         InvalidateFast, InvalidateRefresh, GrowStep, GrowDir, GrowPage, NewPage, Write,
         InvalidateEntry, shared
<1>2. \A b \in Backends \ {w} : pc'[b] = pc[b]
  BY DEF WriterStep, Insert, EnsurePage, GiveUp, GrowLen, Retire, RetirePush, Invalidate,
         InvalidateFast, InvalidateRefresh, GrowStep, GrowDir, GrowPage, NewPage, Write,
         InvalidateEntry
<1>3. \A b \in Backends \ {w} : reg'[b] = reg[b]
  BY DEF WriterStep, Insert, EnsurePage, GiveUp, GrowLen, Retire, RetirePush, Invalidate,
         InvalidateFast, InvalidateRefresh, GrowStep, GrowDir, GrowPage, NewPage, Write,
         InvalidateEntry
<1>4. \A b \in Backends \ {w} : handle'[b] = handle[b]
  BY DEF WriterStep, Insert, EnsurePage, GiveUp, GrowLen, Retire, RetirePush, Invalidate,
         InvalidateFast, InvalidateRefresh, GrowStep, GrowDir, GrowPage, NewPage, Write,
         InvalidateEntry, shared
<1>5. UNCHANGED wlock \/ (wlock = NoWriter /\ wlock' = w)
        \/ (pc[w] \in Inserts \cup Invalidates /\ wlock' = NoWriter /\ pc'[w] = "idle")
  <2>1. w \in DOMAIN pc
    BY DEF Backends
  <2> QED
    BY <2>1 DEF WriterStep, Insert, EnsurePage, GiveUp, GrowLen, Retire, RetirePush, Invalidate,
         InvalidateFast, InvalidateRefresh, GrowStep, GrowDir, GrowPage, NewPage, Write,
         InvalidateEntry, shared, Inserts, Invalidates, Grows
<1> QED
  BY <1>1, <1>2, <1>3, <1>4, <1>5

(* And a drain's, which frees the list or leaves it. *)
LEMMA DrainFrame ==
  ASSUME MemoryInv, NEW b \in Backends, DrainStep(b)
  PROVE  /\ UNCHANGED <<dirs, pages, blocks, nblocks, active, handle, reg, held, done>>
         /\ \A a \in Backends \ {b} : pc'[a] = pc[a]
         /\ pc[b] \in Drains
         /\ \/ UNCHANGED <<freed, retired>>
            \/ pc[b] = "drainFree" /\ freed' = freed \cup retired /\ retired' = {}
         /\ \/ UNCHANGED wlock /\ pc'[b] \in {"drainFree", "drained"}
            \/ UNCHANGED wlock /\ b \in Writers /\ pc'[b] = reg[b].op /\ pc[b] = "drained"
            \/ wlock' = NoWriter /\ b \in Readers /\ pc'[b] = "idle" /\ pc[b] = "drained"
         /\ pc'[b] = "drainFree" => active = 0
<1> USE DEF MemoryInv, Goto, Backends
<1>1. CASE DrainCheck(b)
  BY <1>1 DEF DrainCheck, shared, memory, Drains
<1>2. CASE DrainFree(b)
  BY <1>2 DEF DrainFree, Drains
<1>3. CASE Drained(b)
  <2>1. reg[b].op \in {"none", "growDir", "growPage"}
    BY DEF Locals
  <2> QED
    BY <1>3, <2>1 DEF Drained, shared, memory, Drains
<1> QED
  BY <1>1, <1>2, <1>3 DEF DrainStep

-----------------------------------------------------------------------------
(* The reference count, and the lock *)

(* Only a scan that begins or ends changes the count. *)
LEMMA CountReader ==
  ASSUME ArraysAssumption, MemoryInv, CountInv, NEW r \in Readers, ReaderStep(r)
  PROVE  CountInv'
<1>1. IsFiniteSet(Active) /\ IsFiniteSet(Readers)
  BY FS_Subset DEF Active, ArraysAssumption
<1>2. \A q \in Readers \ {r} : pc'[q] = pc[q]
  BY ReaderFrame DEF Backends
<1>3. r \in DOMAIN pc
  BY DEF MemoryInv, Backends
<1>4. Cardinality(Active) \in Nat
  BY <1>1, FS_CardinalityType
<1>5. CASE BeginScan(r)
  <2>1. r \notin Active
    BY <1>5 DEF BeginScan, Active, Scanning
  <2>2. pc'[r] = "acquire" /\ active' = active + 1
    BY <1>3, <1>5 DEF BeginScan, Goto
  <2>3. Active' = Active \cup {r}
    BY <1>2, <2>2 DEF Active
  <2> QED
    BY <1>1, <2>1, <2>2, <2>3, FS_AddElement DEF CountInv
<1>6. CASE EndScan(r)
  <2>1. r \in Active
    BY <1>6 DEF EndScan, Active, Scanning
  <2>2. pc'[r] \in {"last", "idle"} /\ active' = active - 1
    BY <1>3, <1>6 DEF EndScan, Goto
  <2>3. Active' = Active \ {r}
    BY <1>2, <2>2 DEF Active, Scanning
  <2> QED
    BY <1>1, <2>1, <2>2, <2>3, FS_RemoveElement DEF CountInv
<1>7. CASE ~BeginScan(r) /\ ~EndScan(r)
  <2>1. active' = active
    BY <1>7 DEF ReaderStep, AcquireBlocks, AcquireLen, Resolve, ResolveFast, RefreshBlocks,
         RefreshLen, ResolveDir, ResolvePage, LastOut, shared
  <2>2. pc'[r] \in Scanning \cup {"acquire"} <=> pc[r] \in Scanning \cup {"acquire"}
    BY <1>3, <1>7 DEF ReaderStep, AcquireBlocks, AcquireLen, Resolve, ResolveFast, RefreshBlocks,
         RefreshLen, ResolveDir, ResolvePage, LastOut, Goto, Follow, Scanning
  <2>3. Active' = Active
    BY <1>2, <2>2 DEF Active
  <2> QED
    BY <2>1, <2>3 DEF CountInv
<1> QED
  BY <1>5, <1>6, <1>7

(* While none is active, no scan holds anything. *)
LEMMA NoneActive ==
  ASSUME ArraysAssumption, CountInv, ReaderInv, active = 0, NEW r \in Readers, NEW S
  PROVE  held[r] = {} /\ Apart(r, S)
<1>1. Active = {}
  <2>1. IsFiniteSet(Active)
    BY FS_Subset DEF Active, ArraysAssumption
  <2> QED
    BY <2>1, FS_EmptySet DEF CountInv
<1>2. pc[r] \notin Scanning
  BY <1>1 DEF Active
<1>3. held[r] = {} /\ pc[r] # "page"
  BY <1>2 DEF ReaderInv, Scanning
<1> QED
  BY <1>3 DEF Apart

(* The other steps leave the scans' phases alone. *)
LEMMA CountOther ==
  ASSUME ArraysAssumption, MemoryInv, CountInv,
         \/ \E b \in Backends : DrainStep(b)
         \/ \E w \in Writers : WriterStep(w) \/ GrowStep(w)
  PROVE  CountInv'
<1>1. CASE \E b \in Backends : DrainStep(b)
  <2>1. PICK b \in Backends : DrainStep(b)
    BY <1>1
  <2>2. /\ active' = active
        /\ \A a \in Backends \ {b} : pc'[a] = pc[a]
        /\ pc[b] \in Drains /\ (b \in Readers => pc'[b] \in {"drainFree", "drained", "idle"})
    <3>1. Readers \cap Writers = {}
      BY DEF ArraysAssumption
    <3> QED
      BY <2>1, <3>1, DrainFrame
  <2>3. Active' = Active
    BY <2>2 DEF Active, Scanning, Drains, Backends
  <2> QED
    BY <2>2, <2>3 DEF CountInv
<1>2. CASE \E w \in Writers : WriterStep(w) \/ GrowStep(w)
  <2>1. PICK w \in Writers : WriterStep(w) \/ GrowStep(w)
    BY <1>2
  <2>2. active' = active /\ \A b \in Backends \ {w} : pc'[b] = pc[b]
    BY <2>1, WriterFrame
  <2>3. Active' = Active
    BY <2>2 DEF Active, Backends, ArraysAssumption
  <2> QED
    BY <2>2, <2>3 DEF CountInv
<1> QED
  BY <1>1, <1>2

(* The lock is taken when it is free, and let go by the one that has it. *)
LEMMA LockReader ==
  ASSUME ArraysAssumption, MemoryInv, LockInv, ReaderInv, NEW r \in Readers, ReaderStep(r)
  PROVE  LockInv'
<1>1. r \in Backends /\ r \in DOMAIN pc /\ NoWriter \notin Backends
  BY DEF Backends, MemoryInv, ArraysAssumption
<1>2. pc'[r] \in Inserts \cup Invalidates => wlock' = r
  BY <1>1 DEF ReaderStep, BeginScan, AcquireBlocks, AcquireLen, Resolve, ResolveFast, RefreshBlocks,
         RefreshLen, ResolveDir, ResolvePage, EndScan, LastOut, Goto, Follow, Inserts, Invalidates,
         Drains, Grows
<1>3. ASSUME NEW b \in Backends, b # r, pc'[b] \in Inserts \cup Invalidates
      PROVE  wlock' = b
  <2>1. wlock = b
    BY <1>3, ReaderFrame DEF LockInv
  <2> QED
    BY <1>1, <2>1, ReaderFrame
<1> QED
  BY <1>2, <1>3 DEF LockInv

LEMMA LockDrain ==
  ASSUME ArraysAssumption, MemoryInv, LockInv, WriterInv, NEW b \in Backends, DrainStep(b)
  PROVE  LockInv'
<1>1. b \in DOMAIN pc /\ wlock = b
  BY DrainFrame DEF MemoryInv, LockInv, Inserts
<1>2. ASSUME NEW a \in Backends, a # b, pc'[a] \in Inserts \cup Invalidates PROVE FALSE
  BY <1>1, <1>2, DrainFrame DEF LockInv
<1>3. pc'[b] \in Inserts \cup Invalidates => wlock' = b
  BY <1>1, DrainFrame DEF Inserts, Invalidates, Drains, Grows
<1> QED
  BY <1>2, <1>3 DEF LockInv

LEMMA LockWriter ==
  ASSUME ArraysAssumption, MemoryInv, LockInv, WriterInv, NEW w \in Writers,
         WriterStep(w) \/ GrowStep(w)
  PROVE  /\ LockInv'
         /\ \A b \in Backends \ {w} : pc[b] \notin Inserts \cup Invalidates
         /\ \A b \in Backends \ {w} : pc'[b] \notin Inserts \cup Invalidates
<1>1. w \in Backends /\ w \in DOMAIN pc /\ NoWriter \notin Backends
  BY DEF Backends, MemoryInv, ArraysAssumption
<1>2. wlock = w \/ wlock = NoWriter
  <2>1. pc[w] \in Inserts \cup Invalidates => wlock = w
    BY <1>1 DEF LockInv
  <2> QED
    BY <2>1 DEF WriterStep, Insert, EnsurePage, GiveUp, GrowLen, Retire, RetirePush, Invalidate,
         InvalidateFast, InvalidateRefresh, GrowStep, GrowDir, GrowPage, NewPage, Write,
         InvalidateEntry, Inserts, Invalidates, Grows
<1>3. \A b \in Backends \ {w} : pc[b] \notin Inserts \cup Invalidates
  BY <1>1, <1>2 DEF LockInv
<1>4. \A b \in Backends \ {w} : pc'[b] \notin Inserts \cup Invalidates
  BY <1>3, WriterFrame
<1>5. pc'[w] \in Inserts \cup Invalidates => wlock' = w
  <2>1. pc[w] \in Inserts \cup Invalidates => wlock = w
    BY <1>1 DEF LockInv
  <2>2. pc[w] \in Inserts \cup Invalidates \/ wlock' = w
    BY DEF WriterStep, Insert, EnsurePage, GiveUp, GrowLen, Retire, RetirePush, Invalidate,
         InvalidateFast, InvalidateRefresh, GrowStep, GrowDir, GrowPage, NewPage, Write,
         InvalidateEntry, Inserts, Invalidates, Grows
  <2> QED
    BY <1>1, <2>1, <2>2, WriterFrame DEF Inserts, Invalidates, Drains, Grows
<1> QED
  BY <1>3, <1>4, <1>5 DEF LockInv

-----------------------------------------------------------------------------
(* A scan's step *)

(* A scan comes by no array but those its directories name, and those that *)
(* are live.                                                               *)
LEMMA ApartReader ==
  ASSUME ArraysAssumption, MemoryInv, ReaderInv, NEW r \in Readers, ReaderStep(r),
         NEW S, \A x \in S : NotLive(x),
         NEW q \in Readers, Apart(q, S)
  PROVE  Apart(q, S)'
<1> DEFINE Free(d) == Dir(d) \notin S /\ \A k \in DOMAIN dirs[d] : dirs[d][k] # Null => Page(dirs[d][k]) \notin S
<1>1. UNCHANGED dirs /\ r \in DOMAIN pc /\ r \in DOMAIN reg /\ r \in DOMAIN held
  BY ReaderFrame DEF MemoryInv, Backends
<1>2. CASE q # r
  <2>1. pc'[q] = pc[q] /\ reg'[q] = reg[q] /\ held'[q] = held[q]
    BY <1>2, ReaderFrame DEF Backends
  <2> QED
    BY <1>1, <2>1 DEF Apart
<1>3. CASE q = r
  <2>1. held[r] \cap S = {}
    BY <1>3 DEF Apart
  <2>2. \A d \in DOMAIN dirs : Dir(d) \in held[r] => Free(d)
    BY <1>3, <2>1 DEF Apart
  <2>3. Free(blocks)
    BY DEF NotLive
  <2>4. ASSUME pc'[r] = "page" PROVE Page(reg'[r].new) \notin S
    <3>1. CASE ResolveFast(r) \/ ResolveDir(r)
      <4>1. Free(handle[r].dir)
        BY <2>2, <3>1 DEF ResolveFast, ResolveDir, ReaderInv, Scanning, MemoryInv, Backends
      <4>2. reg[r] \in Locals
        BY DEF MemoryInv, Backends
      <4>3. \E k \in DOMAIN dirs[handle[r].dir] :
              dirs[handle[r].dir][k] # Null /\ reg'[r].new = dirs[handle[r].dir][k]
        BY <1>1, <2>4, <3>1, <4>2 DEF ResolveFast, ResolveDir, Follow, Goto, Locals
      <4> QED
        BY <4>1, <4>3
    <3>2. CASE ~(ResolveFast(r) \/ ResolveDir(r))
      BY <1>1, <2>4, <3>2 DEF ReaderStep, BeginScan, AcquireBlocks, AcquireLen, Resolve,
         RefreshBlocks, RefreshLen, ResolvePage, EndScan, LastOut, Goto
    <3> QED
      BY <3>1, <3>2
  <2>5. \/ held'[r] = held[r] \/ held'[r] = {} \/ held'[r] = {Dir(blocks)}
        \/ held'[r] = held[r] \cup {Dir(blocks)}
        \/ pc[r] = "page" /\ held'[r] = held[r] \cup {Page(reg[r].new)}
    BY <1>1 DEF ReaderStep, BeginScan, AcquireBlocks, AcquireLen, Resolve, ResolveFast,
         RefreshBlocks, RefreshLen, ResolveDir, ResolvePage, EndScan, LastOut
  <2>6. held'[r] \cap S = {}
    BY <1>3, <2>1, <2>3, <2>5 DEF Apart
  <2>7. \A d \in DOMAIN dirs : Dir(d) \in held'[r] => Free(d)
    BY <2>2, <2>3, <2>5, Names
  <2> QED
    BY <1>1, <1>3, <2>4, <2>6, <2>7 DEF Apart
<1> QED
  BY <1>2, <1>3

LEMMA ReaderReader ==
  ASSUME ArraysAssumption, MemoryInv, ReaderInv, LiveInv, NEW r \in Readers, ReaderStep(r)
  PROVE  ReaderInv'
<1>1. /\ UNCHANGED <<dirs, pages, freed>>
      /\ r \in DOMAIN pc /\ r \in DOMAIN reg /\ r \in DOMAIN held /\ r \in DOMAIN handle
      /\ reg[r] \in Locals /\ handle[r].dir \in DOMAIN dirs /\ blocks \in DOMAIN dirs
  BY ReaderFrame DEF MemoryInv, Backends
<1>2. \A q \in Readers : Apart(q, freed)'
  <2>1. \A x \in freed : NotLive(x)
    BY DEF LiveInv
  <2>2. ASSUME NEW q \in Readers PROVE Apart(q, freed)'
    <3> DEFINE S == freed
    <3>1. Apart(q, S) /\ \A x \in S : NotLive(x)
      BY <2>1 DEF ReaderInv
    <3>2. freed' = freed
      BY <1>1
    <3>3. /\ held'[q] \cap freed = {}
          /\ \A d \in DOMAIN dirs' : Dir(d) \in held'[q] =>
               \A k \in DOMAIN dirs'[d] : dirs'[d][k] # Null => Page(dirs'[d][k]) \notin freed
          /\ pc'[q] = "page" => Page(reg'[q].new) \notin freed
      BY <3>1, <3>2, ApartReader DEF Apart
    <3> QED
      BY <3>2, <3>3 DEF Apart
  <2> QED
    BY <2>2
<1>3. Allocated' = Allocated
  BY <1>1 DEF Allocated
<1>4. ASSUME NEW q \in Readers, q # r
      PROVE  pc'[q] = pc[q] /\ reg'[q] = reg[q] /\ handle'[q] = handle[q] /\ held'[q] = held[q]
  BY <1>4, ReaderFrame DEF Backends
<1>5. pc'[r] \in Scanning \cup Drains \cup {"idle", "acquire", "last"}
  BY <1>1 DEF ReaderStep, BeginScan, AcquireBlocks, AcquireLen, Resolve, ResolveFast,
         RefreshBlocks, RefreshLen, ResolveDir, ResolvePage, EndScan, LastOut, Goto, Follow,
         Scanning, Drains
<1>6. pc'[r] = "page" => reg'[r].new \in DOMAIN pages'
  <2>1. \A k \in DOMAIN dirs[handle[r].dir] : dirs[handle[r].dir][k] \in {Null} \cup DOMAIN pages
    BY <1>1 DEF MemoryInv
  <2>2. CASE ResolveFast(r) \/ ResolveDir(r)
    <3>1. \/ pc'[r] # "page"
          \/ \E k \in DOMAIN dirs[handle[r].dir] :
               /\ dirs[handle[r].dir][k] # Null
               /\ reg' = [reg EXCEPT ![r].new = dirs[handle[r].dir][k]]
      <4>1. CASE ResolveFast(r)
        BY <1>1, <4>1 DEF ResolveFast, Follow, Goto
      <4>2. CASE ResolveDir(r)
        BY <1>1, <4>2 DEF ResolveDir, Follow, Goto
      <4> QED
        BY <2>2, <4>1, <4>2
    <3>2. ASSUME NEW k \in DOMAIN dirs[handle[r].dir], dirs[handle[r].dir][k] # Null,
                 reg' = [reg EXCEPT ![r].new = dirs[handle[r].dir][k]]
          PROVE  reg'[r].new \in DOMAIN pages'
      <4>1. reg'[r] = [reg[r] EXCEPT !.new = dirs[handle[r].dir][k]]
        BY <1>1, <3>2
      <4>2. reg'[r].new = dirs[handle[r].dir][k]
        BY <1>1, <4>1 DEF Locals
      <4> QED
        BY <1>1, <2>1, <3>2, <4>2
    <3> QED
      BY <3>1, <3>2
  <2>3. CASE ~(ResolveFast(r) \/ ResolveDir(r))
    <3>1. pc'[r] # "page"
      BY <1>1, <2>3 DEF ReaderStep, BeginScan, AcquireBlocks, AcquireLen, Resolve,
         RefreshBlocks, RefreshLen, ResolvePage, EndScan, LastOut, Goto
    <3> QED
      BY <3>1
  <2> QED
    BY <2>2, <2>3
<1>7. pc[r] \in Scanning => Dir(handle[r].dir) \in held[r]
  BY DEF ReaderInv
<1>8. held[r] \subseteq Allocated /\ (pc[r] \notin Scanning => held[r] = {})
      /\ (pc[r] = "page" => reg[r].new \in DOMAIN pages)
  BY DEF ReaderInv
<1>9. Dir(blocks) \in Allocated /\ \A p \in DOMAIN pages : Page(p) \in Allocated
  BY <1>1 DEF Allocated
<1>10. held'[r] \subseteq Allocated'
  <2>1. \/ held'[r] = held[r] \/ held'[r] = {} \/ held'[r] = {Dir(blocks)}
        \/ held'[r] = held[r] \cup {Dir(blocks)}
        \/ pc[r] = "page" /\ held'[r] = held[r] \cup {Page(reg[r].new)}
    BY <1>1 DEF ReaderStep, BeginScan, AcquireBlocks, AcquireLen, Resolve, ResolveFast,
         RefreshBlocks, RefreshLen, ResolveDir, ResolvePage, EndScan, LastOut
  <2> QED
    BY <1>3, <1>8, <1>9, <2>1
<1>11. IF pc'[r] \in Scanning THEN Dir(handle'[r].dir) \in held'[r] ELSE held'[r] = {}
  <2>1. CASE AcquireBlocks(r) \/ RefreshBlocks(r)
    <3>1. handle'[r].dir = blocks /\ Dir(blocks) \in held'[r]
      BY <1>1, <2>1 DEF AcquireBlocks, RefreshBlocks, MemoryInv, Backends
    <3>2. pc'[r] \in Scanning
      BY <1>1, <2>1 DEF AcquireBlocks, RefreshBlocks, Goto, Scanning
    <3> QED
      BY <3>1, <3>2
  <2>2. CASE EndScan(r)
    BY <1>1, <2>2 DEF EndScan, Goto, Scanning
  <2>3. CASE BeginScan(r) \/ LastOut(r)
    BY <1>1, <1>8, <2>3 DEF BeginScan, LastOut, Goto, Scanning
  <2>4. CASE AcquireLen(r) \/ Resolve(r) \/ ResolveFast(r) \/ RefreshLen(r) \/ ResolveDir(r) \/ ResolvePage(r)
    <3>1. pc[r] \in Scanning /\ pc'[r] \in Scanning
      BY <1>1, <2>4 DEF AcquireLen, Resolve, ResolveFast, RefreshLen, ResolveDir, ResolvePage, Goto,
         Follow, Scanning
    <3>2. handle'[r].dir = handle[r].dir
      <4>1. UNCHANGED handle \/ handle' = [handle EXCEPT ![r].n = nblocks]
        BY <2>4 DEF AcquireLen, Resolve, ResolveFast, RefreshLen, ResolveDir, ResolvePage
      <4>2. handle[r] \in [dir : DOMAIN dirs, n : Nat]
        BY DEF MemoryInv, Backends
      <4> QED
        BY <1>1, <4>1, <4>2
    <3>3. held[r] \subseteq held'[r]
      BY <1>1, <2>4 DEF AcquireLen, Resolve, ResolveFast, RefreshLen, ResolveDir, ResolvePage
    <3> QED
      BY <1>7, <3>1, <3>2, <3>3
  <2> QED
    BY <2>1, <2>2, <2>3, <2>4 DEF ReaderStep
<1> QED
  BY <1>1, <1>2, <1>3, <1>4, <1>5, <1>6, <1>10, <1>11 DEF ReaderInv

(* What is on the list stays out of reach while a drain frees it: a scan   *)
(* that begins after the drain's look at the count finds live arrays only. *)
LEMMA DrainReader ==
  ASSUME ArraysAssumption, MemoryInv, ReaderInv, LiveInv, DrainInv, NEW r \in Readers, ReaderStep(r)
  PROVE  DrainInv'
<1> SUFFICES ASSUME NEW b \in Backends, pc'[b] = "drainFree", NEW q \in Readers
             PROVE  Apart(q, retired)'
  BY DEF DrainInv
<1>1. r \in DOMAIN pc /\ UNCHANGED retired
  BY ReaderFrame DEF MemoryInv, Backends
<1>2. pc[b] = "drainFree"
  <2>1. pc'[r] # "drainFree"
    BY <1>1 DEF ReaderStep, BeginScan, AcquireBlocks, AcquireLen, Resolve, ResolveFast,
         RefreshBlocks, RefreshLen, ResolveDir, ResolvePage, EndScan, LastOut, Goto, Follow
  <2> QED
    BY <2>1, ReaderFrame
<1>3. Apart(q, retired) /\ \A x \in retired : NotLive(x)
  BY <1>2 DEF DrainInv, LiveInv
<1> QED
  BY <1>1, <1>3, ApartReader DEF Apart

(* The invariants of the live arrays hold on while no array changes and    *)
(* nothing more is freed or listed.                                        *)
LEMMA SameWriter ==
  ASSUME UNCHANGED <<dirs, pages, blocks, nblocks, done>>,
         freed' \cup retired' \subseteq freed \cup retired,
         NEW w, pc'[w] = pc[w], reg'[w] = reg[w], handle'[w] = handle[w], WriterState(w)
  PROVE  WriterState(w)'
<1>1. /\ UNCHANGED <<dirs, pages, blocks, nblocks, done>>
      /\ pc'[w] = pc[w] /\ reg'[w] = reg[w] /\ handle'[w] = handle[w]
  OBVIOUS
<1>2. Block(w)' = Block(w) /\ Offset(w)' = Offset(w) /\ Dead(w)' = Dead(w) /\ Allocated' = Allocated
  BY <1>1 DEF Block, Offset, Dead, Allocated, Dir, Page
<1>3. HasBlock(w)' = HasBlock(w)
  BY <1>1, <1>2 DEF HasBlock
<1>4. HasPage(w)' = HasPage(w)
  BY <1>1, <1>2, <1>3 DEF HasPage
<1>5. HasOffset(w)' = HasOffset(w)
  BY <1>1, <1>2, <1>4 DEF HasOffset
<1>6. NotLive(Dead(w))' = NotLive(Dead(w))
  BY <1>1, <1>2 DEF NotLive
<1> QED
  BY <1>1, <1>2, <1>3, <1>4, <1>5, <1>6 DEF WriterState

LEMMA SameLive ==
  ASSUME UNCHANGED <<dirs, pages, blocks>>, LiveInv,
         freed' \cup retired' \subseteq freed \cup retired, retired' \cap freed' = {}
  PROVE  LiveInv'
  BY DEF LiveInv, NotLive

LEMMA SameKept ==
  ASSUME UNCHANGED <<dirs, pages, blocks, done>>, KeptInv
  PROVE  KeptInv'
  BY DEF KeptInv, LiveEntry

(* A scan's step. *)
LEMMA ReaderPreserves ==
  ASSUME ArraysAssumption, IInv, NEW r \in Readers, ReaderStep(r)
  PROVE  IInv'
<1>1. MemoryInv /\ CountInv /\ LockInv /\ ReaderInv /\ DrainInv /\ LiveInv /\ LengthInv /\ WriterInv
      /\ KeptInv
  BY DEF IInv
<1>2. UNCHANGED <<dirs, pages, freed, retired, blocks, nblocks, done>>
  BY <1>1, ReaderFrame
<1>3. ASSUME NEW w \in Writers
      PROVE  pc'[w] = pc[w] /\ reg'[w] = reg[w] /\ handle'[w] = handle[w]
  <2>1. w \in Backends \ {r}
    BY DEF Backends, ArraysAssumption
  <2> QED
    BY <1>1, <2>1, ReaderFrame
<1>4. LiveInv' /\ KeptInv'
  <2>1. retired \cap freed = {}
    BY <1>1 DEF LiveInv
  <2> QED
    BY <1>1, <1>2, <2>1, SameLive, SameKept
<1>5. LengthInv'
  BY <1>1, <1>2, <1>3 DEF LengthInv
<1>6. WriterInv'
  BY <1>1, <1>2, <1>3, SameWriter DEF WriterInv
<1> QED
  BY <1>1, <1>4, <1>5, <1>6, MemoryReader, CountReader, LockReader, ReaderReader, DrainReader DEF IInv

-----------------------------------------------------------------------------
(* A drain's step *)

(* It frees arrays no scan gets at. *)
LEMMA ReaderDrain ==
  ASSUME ArraysAssumption, MemoryInv, ReaderInv, DrainInv, NEW b \in Backends, DrainStep(b)
  PROVE  ReaderInv'
<1> SUFFICES ASSUME NEW r \in Readers
             PROVE  /\ pc'[r] \in Scanning \cup Drains \cup {"idle", "acquire", "last"}
                    /\ held'[r] \subseteq Allocated'
                    /\ IF pc'[r] \in Scanning THEN Dir(handle'[r].dir) \in held'[r] ELSE held'[r] = {}
                    /\ pc'[r] = "page" => reg'[r].new \in DOMAIN pages'
                    /\ Apart(r, freed)'
  BY DEF ReaderInv
<1>1. UNCHANGED <<dirs, pages, blocks, nblocks, active, handle, reg, held, done>>
  BY DrainFrame
<1>2. pc'[r] = pc[r] \/ (pc[r] \in Drains /\ pc'[r] \in {"drainFree", "drained", "idle"})
  <2>1. CASE r = b
    <3>1. r \notin Writers
      BY DEF ArraysAssumption
    <3> QED
      BY <2>1, <3>1, DrainFrame
  <2>2. CASE r # b
    BY <2>2, DrainFrame DEF Backends
  <2> QED
    BY <2>1, <2>2
<1>3. pc'[r] \in Scanning <=> pc[r] \in Scanning
  BY <1>2 DEF Scanning, Drains
<1>4. pc'[r] = "page" => pc[r] = "page"
  BY <1>2
<1>5. Allocated' = Allocated
  BY <1>1 DEF Allocated
<1>6. Apart(r, freed)'
  <2>1. Apart(r, freed) /\ (pc[b] = "drainFree" => Apart(r, retired))
    BY DEF ReaderInv, DrainInv
  <2>2. \/ freed' = freed
        \/ pc[b] = "drainFree" /\ freed' = freed \cup retired
    BY DrainFrame
  <2>3. CASE freed' = freed
    BY <1>1, <1>4, <2>1, <2>3 DEF Apart
  <2>4. CASE pc[b] = "drainFree" /\ freed' = freed \cup retired
    BY <1>1, <1>4, <2>1, <2>4 DEF Apart
  <2> QED
    BY <2>2, <2>3, <2>4
<1>7. pc'[r] \in Scanning \cup Drains \cup {"idle", "acquire", "last"}
  BY <1>2 DEF ReaderInv, Drains
<1> QED
  BY <1>1, <1>3, <1>4, <1>5, <1>6, <1>7 DEF ReaderInv

(* And what a drain finds unwatched stays so. *)
LEMMA DrainDrain ==
  ASSUME ArraysAssumption, MemoryInv, CountInv, ReaderInv, DrainInv, NEW b \in Backends, DrainStep(b)
  PROVE  DrainInv'
<1> SUFFICES ASSUME NEW a \in Backends, pc'[a] = "drainFree", NEW r \in Readers
             PROVE  Apart(r, retired)'
  BY DEF DrainInv
<1>1. UNCHANGED <<dirs, pages, handle, reg, held>>
  BY DrainFrame
<1>2. pc'[r] = "page" => pc[r] = "page"
  <2>1. r = b => r \notin Writers
    BY DEF ArraysAssumption
  <2> QED
    BY <2>1, DrainFrame DEF Backends
<1>3. CASE a = b
  <2>1. active = 0 /\ retired' \subseteq retired
    BY <1>3, DrainFrame
  <2>2. Apart(r, retired)
    BY <2>1, NoneActive
  <2> QED
    BY <1>1, <1>2, <2>1, <2>2 DEF Apart
<1>4. CASE a # b
  <2>1. pc[a] = "drainFree" /\ retired' \subseteq retired
    BY <1>4, DrainFrame
  <2>2. Apart(r, retired)
    BY <2>1 DEF DrainInv
  <2> QED
    BY <1>1, <1>2, <2>1, <2>2 DEF Apart
<1> QED
  BY <1>3, <1>4

LEMMA DrainPreserves ==
  ASSUME ArraysAssumption, IInv, NEW b \in Backends, DrainStep(b)
  PROVE  IInv'
<1>1. MemoryInv /\ CountInv /\ LockInv /\ ReaderInv /\ DrainInv /\ LiveInv /\ LengthInv /\ WriterInv
      /\ KeptInv
  BY DEF IInv
<1>2. /\ UNCHANGED <<dirs, pages, blocks, nblocks, handle, reg, done>>
      /\ freed' \cup retired' \subseteq freed \cup retired
  BY <1>1, DrainFrame
<1>3. LiveInv' /\ KeptInv'
  <2>1. retired' \cap freed' = {}
    BY <1>1, DrainFrame DEF LiveInv
  <2> QED
    BY <1>1, <1>2, <2>1, SameLive, SameKept
<1>4. LengthInv'
  <2>1. \A w \in Writers : pc[w] = "growLen" => pc'[w] = "growLen"
    BY <1>1, DrainFrame DEF Backends, Drains
  <2> QED
    BY <1>1, <1>2, <2>1 DEF LengthInv
<1>5. ASSUME NEW w \in Writers PROVE WriterState(w)'
  <2>1. CASE w # b
    <3>1. pc'[w] = pc[w]
      BY <1>1, <2>1, DrainFrame DEF Backends
    <3> QED
      BY <1>1, <1>2, <3>1, SameWriter DEF WriterInv
  <2>2. CASE w = b
    <3>1. pc[w] \in Drains /\ (pc'[w] \in {"drainFree", "drained"} \/ pc'[w] = reg[w].op)
      <4>1. w \notin Readers
        BY DEF ArraysAssumption
      <4> QED
        BY <1>1, <2>2, <4>1, DrainFrame
    <3>2. /\ handle[w].dir = blocks /\ handle[w].n = nblocks /\ reg[w].op # "none"
          /\ reg[w].op = "growDir" => ~HasBlock(w)
          /\ reg[w].op = "growPage" => HasPage(w) /\ ~HasOffset(w)
      BY <1>1, <3>1 DEF WriterInv, WriterState, Inserts, Drains
    <3>3. reg[w].op \in {"none", "growDir", "growPage"}
      BY <1>1 DEF MemoryInv, Locals, Backends
    <3>4. HasBlock(w)' = HasBlock(w) /\ HasPage(w)' = HasPage(w) /\ HasOffset(w)' = HasOffset(w)
      BY <1>2 DEF HasBlock, HasPage, HasOffset, Block, Offset
    <3>5. /\ pc'[w] \in Drains \cup {"growDir", "growPage"}
          /\ pc'[w] = "growDir" => reg[w].op = "growDir"
          /\ pc'[w] = "growPage" => reg[w].op = "growPage"
      BY <3>1, <3>2, <3>3 DEF Drains
    <3>6. /\ handle'[w].dir = blocks' /\ handle'[w].n = nblocks' /\ reg'[w].op # "none"
          /\ reg'[w].op = "growDir" => ~HasBlock(w)'
          /\ reg'[w].op = "growPage" => HasPage(w)' /\ ~HasOffset(w)'
      BY <1>2, <3>2, <3>4
    <3>7. reg'[w].op = reg[w].op
      BY <1>2
    <3> HIDE DEF HasBlock, HasPage, HasOffset
    <3> QED
      BY <3>5, <3>6, <3>7 DEF WriterState, Inserts, Invalidates, Drains, Grows
  <2> QED
    BY <2>1, <2>2
<1>6. WriterInv'
  BY <1>5 DEF WriterInv
<1> QED
  BY <1>1, <1>3, <1>4, <1>6, MemoryDrain, CountOther, LockDrain, ReaderDrain, DrainDrain DEF IInv

-----------------------------------------------------------------------------
(* A writer's step that changes no array *)

(* A writer that is not at work has no obligation. *)
LEMMA IdleWriter ==
  ASSUME NEW w, pc[w] \in {"idle", "wild"}
  PROVE  WriterState(w)
  BY DEF WriterState, Inserts, Invalidates, Drains, Grows

(* Another writer's step finds the others so. *)
LEMMA OtherWriters ==
  ASSUME ArraysAssumption, MemoryInv, LockInv, WriterInv, NEW w \in Writers,
         WriterStep(w) \/ GrowStep(w), NEW v \in Writers, v # w
  PROVE  WriterState(v)'
<1>1. pc[v] \in {"idle", "wild"}
  BY LockWriter DEF Backends, WriterInv, WriterState
<1>2. pc'[v] \in {"idle", "wild"}
  BY <1>1, WriterFrame DEF Backends
<1> QED
  BY <1>2, IdleWriter DEF WriterState, Inserts, Invalidates, Drains, Grows

(* While a writer is at work no drain of a reader is. *)
LEMMA DrainWriter ==
  ASSUME ArraysAssumption, MemoryInv, LockInv, WriterInv, NEW w \in Writers,
         WriterStep(w) \/ GrowStep(w)
  PROVE  DrainInv'
<1>1. pc'[w] # "drainFree"
  <2>1. w \in DOMAIN pc
    BY DEF MemoryInv, Backends
  <2> QED
    BY <2>1 DEF WriterStep, Insert, EnsurePage, GiveUp, GrowLen, Retire, RetirePush, Invalidate,
         InvalidateFast, InvalidateRefresh, GrowStep, GrowDir, GrowPage, NewPage, Write,
         InvalidateEntry, Goto, Follow, Unlock, Grown
<1>2. \A b \in Backends : pc'[b] # "drainFree"
  BY <1>1, LockWriter DEF Inserts, Drains
<1> QED
  BY <1>2 DEF DrainInv

(* What acorn_cc_retire disposes of is the array just replaced, and it     *)
(* frees it only while no scan is active.                                  *)
LEMMA WriterDisposes ==
  ASSUME MemoryInv, WriterInv, NEW w \in Writers, WriterStep(w)
  PROVE  \/ UNCHANGED <<freed, retired>>
         \/ /\ pc[w] \in {"retire", "push"}
            /\ NotLive(Dead(w)) /\ Dead(w) \notin freed \cup retired
            /\ \/ active = 0 /\ freed' = freed \cup {Dead(w)} /\ retired' = retired
               \/ retired' = retired \cup {Dead(w)} /\ freed' = freed
<1>1. pc[w] \in {"retire", "push"} => NotLive(Dead(w)) /\ Dead(w) \notin freed \cup retired
  BY DEF WriterInv, WriterState
<1>2. CASE Retire(w) \/ RetirePush(w)
  BY <1>1, <1>2 DEF Retire, RetirePush, memory, shared
<1>3. CASE ~(Retire(w) \/ RetirePush(w))
  BY <1>3 DEF WriterStep, Insert, EnsurePage, GiveUp, GrowLen, Invalidate,
         InvalidateFast, InvalidateRefresh, memory, shared
<1> QED
  BY <1>2, <1>3

LEMMA ReaderWriter ==
  ASSUME ArraysAssumption, MemoryInv, CountInv, ReaderInv, WriterInv,
         UNCHANGED <<dirs, pages>>, NEW w \in Writers, WriterStep(w)
  PROVE  ReaderInv'
<1>1. Allocated' = Allocated
  BY DEF Allocated
<1>2. ASSUME NEW r \in Readers
      PROVE  pc'[r] = pc[r] /\ reg'[r] = reg[r] /\ handle'[r] = handle[r] /\ held'[r] = held[r]
  <2>1. r \in Backends \ {w}
    BY DEF Backends, ArraysAssumption
  <2> QED
    BY <2>1, WriterFrame
<1>3. ASSUME NEW r \in Readers PROVE Apart(r, freed)'
  <2>1. Apart(r, freed)
    BY DEF ReaderInv
  <2>2. CASE freed' = freed
    BY <1>2, <2>1, <2>2 DEF Apart
  <2>3. CASE active = 0 /\ freed' = freed \cup {Dead(w)}
    <3>1. Apart(r, freed \cup {Dead(w)})
      BY <2>3, NoneActive
    <3> QED
      BY <1>2, <2>3, <3>1 DEF Apart
  <2> QED
    BY <2>2, <2>3, WriterDisposes
<1> QED
  BY <1>1, <1>2, <1>3 DEF ReaderInv

LEMMA LiveWriter ==
  ASSUME MemoryInv, LiveInv, WriterInv, UNCHANGED <<dirs, blocks>>, NEW w \in Writers, WriterStep(w)
  PROVE  LiveInv'
<1>1. \A x : NotLive(x)' = NotLive(x)
  BY DEF NotLive
<1>2. freed' \cup retired' \subseteq freed \cup retired
      \/ (freed' \cup retired' \subseteq freed \cup retired \cup {Dead(w)} /\ NotLive(Dead(w)))
  BY WriterDisposes
<1>3. retired' \cap freed' = {}
  BY WriterDisposes DEF LiveInv
<1>4. \A x \in freed' \cup retired' : NotLive(x)
  BY <1>2 DEF LiveInv
<1> QED
  BY <1>1, <1>3, <1>4 DEF LiveInv

(* A directory's length is what its domain says. *)
LEMMA DirectoryLength ==
  ASSUME NEW d \in Directories
  PROVE  Cardinality(DOMAIN d) \in Nat /\ \A k \in Nat : k < Cardinality(DOMAIN d) <=> k \in DOMAIN d
<1>1. PICK n \in Nat : d \in [0..n -> Nat]
  BY DEF Directories
<1>2. Cardinality(0..n) = n + 1
  BY FS_Interval
<1> QED
  BY <1>1, <1>2

LEMMA LengthWriter ==
  ASSUME MemoryInv, LengthInv, WriterInv, UNCHANGED <<dirs, blocks>>, NEW w \in Writers, WriterStep(w)
  PROVE  LengthInv'
<1>1. CASE GrowLen(w)
  <2>1. nblocks' = Cardinality(DOMAIN dirs[blocks])
    BY <1>1 DEF GrowLen, WriterInv, WriterState
  <2>2. dirs[blocks] \in Directories
    BY Shapes DEF MemoryInv
  <2> QED
    BY <2>1, <2>2, DirectoryLength DEF LengthInv
<1>2. CASE ~GrowLen(w)
  <2>1. nblocks' = nblocks
    BY <1>2 DEF WriterStep, Insert, EnsurePage, GiveUp, Retire, RetirePush, Invalidate,
         InvalidateFast, InvalidateRefresh, shared
  <2>2. pc[w] # "growLen"
    BY <1>2 DEF WriterStep, Insert, EnsurePage, GiveUp, Retire, RetirePush, Invalidate,
         InvalidateFast, InvalidateRefresh
  <2>3. \A v \in Writers : pc[v] = "growLen" => pc'[v] = "growLen"
    BY <2>2, WriterFrame DEF Backends
  <2> QED
    BY <2>1, <2>3 DEF LengthInv
<1> QED
  BY <1>1, <1>2

(* Each of a writer's steps gives what its next step relies on. *)
LEMMA WriterWriter ==
  ASSUME ArraysAssumption, MemoryInv, LockInv, LengthInv, WriterInv,
         NEW w \in Writers, WriterStep(w)
  PROVE  WriterState(w)'
<1>1. /\ w \in Backends /\ w \in DOMAIN pc /\ w \in DOMAIN reg /\ w \in DOMAIN handle
      /\ reg[w] \in Locals /\ handle[w].dir \in DOMAIN dirs /\ blocks \in DOMAIN dirs
  BY DEF MemoryInv, Backends
<1>2. UNCHANGED <<dirs, pages, blocks, done>> /\ Allocated' = Allocated
  BY DEF WriterStep, Insert, EnsurePage, GiveUp, GrowLen, Retire, RetirePush, Invalidate,
         InvalidateFast, InvalidateRefresh, shared, memory, Allocated
<1>3. WriterState(w)
  BY DEF WriterInv
<1>4. ASSUME reg'[w].elem = reg[w].elem
      PROVE  HasBlock(w)' = HasBlock(w) /\ HasPage(w)' = HasPage(w) /\ HasOffset(w)' = HasOffset(w)
  BY <1>2, <1>4 DEF HasBlock, HasPage, HasOffset, Block, Offset
<1>5. ASSUME reg'[w].op = reg[w].op, reg'[w].old = reg[w].old
      PROVE  Dead(w)' = Dead(w) /\ NotLive(Dead(w))' = NotLive(Dead(w))
  <2>1. Dead(w)' = Dead(w)
    BY <1>5 DEF Dead, Dir, Page
  <2> QED
    BY <1>2, <2>1 DEF NotLive
<1>6. \A d \in DOMAIN dirs : \A k \in DOMAIN dirs[d] : dirs[d][k] # Null => dirs[d][k] \in DOMAIN pages
  BY DEF MemoryInv
<1>7. CASE Insert(w)
  <2>1. pc'[w] = "ensure" /\ handle'[w].dir = blocks' /\ handle'[w].n = nblocks'
    BY <1>1, <1>7 DEF Insert, Goto
  <2> QED
    BY <2>1 DEF WriterState, Inserts, Invalidates, Drains, Grows
<1>8. CASE EnsurePage(w)
  <2>1. /\ handle[w].dir = blocks /\ handle[w].n = nblocks
        /\ UNCHANGED <<handle, nblocks>>
        /\ pc[w] = "ensure"
    BY <1>3, <1>8 DEF WriterState, EnsurePage, Inserts, shared
  <2>2. Block(w) \in Nat /\ nblocks \in Nat
    BY <1>1, LocalTypes DEF MemoryInv
  <2>3. Block(w) < nblocks <=> HasBlock(w)
    BY <2>1, <2>2, LengthPublished DEF Inserts
  <2>4. PageOf(w) = dirs[blocks][Block(w)]
    BY <2>1 DEF PageOf
  <2>5. reg'[w].elem = reg[w].elem
    <3>1. UNCHANGED reg \/ \E o \in {"growDir", "growPage"} : reg' = [reg EXCEPT ![w].op = o]
      BY <1>8 DEF EnsurePage
    <3> QED
      BY <1>1, <3>1 DEF Locals
  <2>6. \/ pc'[w] = "drain" /\ reg'[w].op = "growDir" /\ ~HasBlock(w)
        \/ pc'[w] = "newPage" /\ HasBlock(w) /\ ~HasPage(w)
        \/ pc'[w] = "write" /\ HasOffset(w)
        \/ pc'[w] = "drain" /\ reg'[w].op = "growPage" /\ HasPage(w) /\ ~HasOffset(w)
    <3>1. CASE Block(w) >= handle[w].n
      BY <1>1, <1>8, <2>1, <2>2, <2>3, <3>1 DEF EnsurePage, Goto, Locals
    <3>2. CASE Block(w) < handle[w].n /\ PageOf(w) = Null
      BY <1>1, <1>8, <2>1, <2>2, <2>3, <2>4, <3>2 DEF EnsurePage, Goto, HasPage
    <3>3. CASE Block(w) < handle[w].n /\ PageOf(w) # Null /\ Offset(w) \in DOMAIN pages[PageOf(w)]
      BY <1>1, <1>8, <2>1, <2>2, <2>3, <2>4, <3>3 DEF EnsurePage, Goto, HasPage, HasOffset
    <3>4. CASE Block(w) < handle[w].n /\ PageOf(w) # Null /\ Offset(w) \notin DOMAIN pages[PageOf(w)]
      BY <1>1, <1>8, <2>1, <2>2, <2>3, <2>4, <3>4 DEF EnsurePage, Goto, HasPage, HasOffset, Locals
    <3> QED
      BY <2>1, <2>2, <3>1, <3>2, <3>3, <3>4
  <2>7. HasBlock(w)' = HasBlock(w) /\ HasPage(w)' = HasPage(w) /\ HasOffset(w)' = HasOffset(w)
    BY <1>4, <2>5
  <2>8. handle'[w].dir = blocks' /\ handle'[w].n = nblocks'
    BY <1>2, <2>1
  <2> QED
    BY <2>6, <2>7, <2>8 DEF WriterState, Inserts, Invalidates, Drains, Grows
<1>9. CASE GiveUp(w)
  <2>1. pc'[w] = "idle"
    BY <1>1, <1>9 DEF GiveUp, Unlock, Goto
  <2> QED
    BY <2>1 DEF WriterState, Inserts, Invalidates, Drains, Grows
<1>10. CASE GrowLen(w)
  <2>1. /\ pc'[w] = "retire" /\ UNCHANGED <<reg, freed, retired>>
        /\ handle'[w].dir = blocks' /\ handle'[w].n = nblocks'
        /\ reg[w].op = "growDir"
    BY <1>1, <1>2, <1>3, <1>10 DEF GrowLen, Goto, memory, WriterState
  <2>2. Dead(w) \in Allocated /\ NotLive(Dead(w)) /\ Dead(w) \notin freed \cup retired
    BY <1>3, <1>10 DEF GrowLen, WriterState
  <2>3. Dead(w)' = Dead(w) /\ NotLive(Dead(w))' = NotLive(Dead(w))
    BY <1>5, <2>1
  <2>4. (Dead(w) \in Allocated /\ NotLive(Dead(w)) /\ Dead(w) \notin freed \cup retired)'
    BY <1>2, <2>1, <2>2, <2>3
  <2> QED
    BY <2>1, <2>4 DEF WriterState, Inserts, Invalidates, Drains, Grows
<1>11. CASE Retire(w) \/ RetirePush(w)
  <2>1. pc[w] \in {"retire", "push"} /\ UNCHANGED <<reg, handle, nblocks>>
    BY <1>11 DEF Retire, RetirePush, shared
  <2>2. /\ handle[w].dir = blocks /\ handle[w].n = nblocks /\ reg[w].op # "none"
        /\ reg[w].op = "growPage" => HasOffset(w)
        /\ Dead(w) \in Allocated /\ NotLive(Dead(w)) /\ Dead(w) \notin freed \cup retired
    BY <1>3, <2>1 DEF WriterState, Inserts, Grows
  <2>3. reg[w].op = "growDir" \/ reg[w].op = "growPage"
    BY <1>1, <2>2 DEF Locals
  <2>4. HasOffset(w)' = HasOffset(w) /\ Dead(w)' = Dead(w) /\ NotLive(Dead(w))' = NotLive(Dead(w))
    BY <1>4, <1>5, <2>1
  <2>5. \/ pc'[w] = "push" /\ UNCHANGED <<freed, retired>>
        \/ pc'[w] = "ensure"
        \/ pc'[w] = "write" /\ reg[w].op = "growPage"
    BY <1>1, <1>11, <2>3 DEF Retire, RetirePush, Grown, Goto, shared
  <2>6. handle'[w].dir = blocks' /\ handle'[w].n = nblocks' /\ reg'[w].op = reg[w].op
    BY <1>2, <2>1, <2>2
  <2>7. pc'[w] = "push" => (Dead(w) \in Allocated /\ NotLive(Dead(w)) /\ Dead(w) \notin freed \cup retired)'
    BY <1>2, <2>2, <2>4, <2>5
  <2> QED
    BY <2>2, <2>4, <2>5, <2>6, <2>7 DEF WriterState, Inserts, Invalidates, Drains, Grows
<1>12. CASE Invalidate(w)
  <2>1. pc'[w] = "invFast" /\ done[reg'[w].elem] # "absent"
    BY <1>1, <1>12 DEF Invalidate, Goto, NoReg
  <2> QED
    BY <1>2, <2>1 DEF WriterState, Inserts, Invalidates, Drains, Grows
<1>13. CASE InvalidateFast(w)
  <2>1. pc'[w] \in {"wild", "invRefresh"} \/ (pc'[w] = "invPage" /\ reg'[w].new \in DOMAIN pages')
    BY <1>1, <1>2, <1>6, <1>13 DEF InvalidateFast, Follow, Goto, Locals
  <2>2. done'[reg'[w].elem] # "absent"
    <3>1. reg'[w].elem = reg[w].elem
      BY <1>1, <1>13 DEF InvalidateFast, Follow, Locals
    <3> QED
      BY <1>2, <1>3, <1>13, <3>1 DEF InvalidateFast, WriterState, Invalidates
  <2> QED
    BY <2>1, <2>2 DEF WriterState, Inserts, Invalidates, Drains, Grows
<1>14. CASE InvalidateRefresh(w)
  <2>1. Block(w) < nblocks => HasBlock(w)
    BY <1>1, <1>14, LocalTypes, LengthPublished DEF InvalidateRefresh, Invalidates
  <2>2. pc'[w] = "idle" \/ (pc'[w] = "invPage" /\ reg'[w].new \in DOMAIN pages')
    BY <1>1, <1>2, <1>6, <1>14, <2>1 DEF InvalidateRefresh, HasBlock, Unlock, Goto, Locals
  <2>3. pc'[w] = "invPage" => done'[reg'[w].elem] # "absent"
    <3>1. pc'[w] = "invPage" => reg'[w].elem = reg[w].elem
      BY <1>1, <1>14 DEF InvalidateRefresh, Unlock, Goto, Locals
    <3> QED
      BY <1>2, <1>3, <1>14, <3>1 DEF InvalidateRefresh, WriterState, Invalidates
  <2> QED
    BY <2>2, <2>3 DEF WriterState, Inserts, Invalidates, Drains, Grows
<1> QED
  BY <1>7, <1>8, <1>9, <1>10, <1>11, <1>12, <1>13, <1>14 DEF WriterStep

LEMMA WriterPreserves ==
  ASSUME ArraysAssumption, IInv, NEW w \in Writers, WriterStep(w)
  PROVE  IInv'
<1>1. MemoryInv /\ CountInv /\ LockInv /\ ReaderInv /\ DrainInv /\ LiveInv /\ LengthInv /\ WriterInv
      /\ KeptInv
  BY DEF IInv
<1>2. UNCHANGED <<dirs, pages, blocks, done>>
  BY DEF WriterStep, Insert, EnsurePage, GiveUp, GrowLen, Retire, RetirePush, Invalidate,
         InvalidateFast, InvalidateRefresh, shared, memory
<1>3. WriterInv'
  BY <1>1, OtherWriters, WriterWriter DEF WriterInv
<1>4. KeptInv'
  BY <1>1, <1>2, SameKept
<1> QED
  BY <1>1, <1>2, <1>3, <1>4, MemoryWriter, CountOther, LockWriter, ReaderWriter, DrainWriter,
     LiveWriter, LengthWriter DEF IInv

-----------------------------------------------------------------------------
(* A growth, or a write to an entry *)

(* A directory comes to name nothing but arrays just allocated, and the    *)
(* live one names besides these only what the one before it did.           *)
LEMMA GrowNames ==
  ASSUME ArraysAssumption, MemoryInv, WriterInv, NEW w \in Writers, GrowStep(w)
  PROVE  /\ \A d \in DOMAIN dirs :
              /\ d \in DOMAIN dirs' /\ DOMAIN dirs'[d] = DOMAIN dirs[d]
              /\ \A k \in DOMAIN dirs[d] :
                   dirs'[d][k] = dirs[d][k] \/ Page(dirs'[d][k]) \notin Allocated
         /\ blocks' = blocks \/ Dir(blocks') \notin Allocated
         /\ \A k \in DOMAIN dirs'[blocks'] :
              \/ dirs'[blocks'][k] = Null
              \/ k \in DOMAIN dirs[blocks] /\ dirs'[blocks'][k] = dirs[blocks][k]
              \/ k = Block(w) /\ Page(dirs'[blocks'][k]) \notin Allocated
         /\ \A p \in DOMAIN pages : p \in DOMAIN pages' /\ DOMAIN pages'[p] = DOMAIN pages[p]
<1>1. blocks \in DOMAIN dirs
  BY DEF MemoryInv
<1>2. \A d : Dir(d) \in Allocated => d \in DOMAIN dirs
  BY Names DEF Allocated
<1>3. \A p : Page(p) \in Allocated => p \in DOMAIN pages
  BY Names DEF Allocated
<1>4. CASE GrowDir(w)
  <2> DEFINE new == Len(dirs) + 1
  <2>1. /\ UNCHANGED pages /\ DOMAIN dirs' = 1..new /\ new \notin DOMAIN dirs
        /\ \A d \in DOMAIN dirs : d \in DOMAIN dirs' /\ dirs'[d] = dirs[d]
        /\ DOMAIN dirs'[new] = 0..(Block(w) + DirGrow)
        /\ \A k \in 0..(Block(w) + DirGrow) :
             dirs'[new][k] = IF k \in DOMAIN dirs[blocks] THEN dirs[blocks][k] ELSE Null
    BY <1>4, GrowDirMemory
  <2>2. blocks' = new
    BY <1>4 DEF GrowDir
  <2> HIDE DEF new
  <2> QED
    BY <1>2, <2>1, <2>2
<1>5. CASE GrowPage(w) \/ NewPage(w)
  <2> DEFINE new == Len(pages) + 1
             d0  == dirs[blocks]
  <2>1. /\ handle[w].dir = blocks /\ HasBlock(w)
        /\ GrowPage(w) => HasPage(w)
    BY <1>5, GrowReady
  <2>2. /\ new \notin DOMAIN pages
        /\ \A p \in DOMAIN pages : p \in DOMAIN pages' /\ pages'[p] = pages[p]
        /\ DOMAIN dirs' = DOMAIN dirs
        /\ \A i \in DOMAIN dirs : i # blocks => dirs'[i] = dirs[i]
        /\ dirs'[blocks] = [d0 EXCEPT ![Block(w)] = new]
    BY <1>5, <2>1, NewArrayMemory
  <2>3. Page(new) \notin Allocated
    BY <1>3, <2>2
  <2>4. blocks' = blocks
    BY <1>5 DEF GrowPage, NewPage, shared
  <2>5. /\ DOMAIN dirs'[blocks] = DOMAIN d0
        /\ \A k \in DOMAIN d0 : dirs'[blocks][k] = IF k = Block(w) THEN new ELSE d0[k]
    BY <2>2
  <2> HIDE DEF new
  <2> QED
    BY <1>1, <2>2, <2>3, <2>4, <2>5
<1>6. CASE Write(w) \/ InvalidateEntry(w)
  <2>1. UNCHANGED <<dirs, blocks>>
    BY <1>6 DEF Write, InvalidateEntry
  <2>2. UNCHANGED pages \/ \E p \in DOMAIN pages : \E o \in DOMAIN pages[p] : \E e \in Entry :
                              pages' = [pages EXCEPT ![p][o] = e]
    <3>1. CASE Write(w)
      <4>1. /\ handle[w].dir = blocks /\ HasOffset(w)
            /\ dirs[blocks][Block(w)] \in DOMAIN pages
        BY <3>1, GrowReady
      <4> QED
        BY <3>1, <4>1 DEF Write, PageOf, HasOffset, Entry
    <3>2. CASE InvalidateEntry(w)
      <4>1. reg[w].new \in DOMAIN pages
        BY <3>2, GrowReady
      <4> QED
        BY <3>2, <4>1 DEF InvalidateEntry, Entry
    <3> QED
      BY <1>6, <3>1, <3>2
  <2>3. \A p \in DOMAIN pages : p \in DOMAIN pages' /\ DOMAIN pages'[p] = DOMAIN pages[p]
    BY <2>2, SetEntryMemory
  <2> QED
    BY <2>1, <2>3
<1> QED
  BY <1>4, <1>5, <1>6 DEF GrowStep

LEMMA ReaderGrow ==
  ASSUME ArraysAssumption, MemoryInv, ReaderInv, WriterInv, NEW w \in Writers, GrowStep(w)
  PROVE  ReaderInv'
<1>1. freed' = freed /\ freed \subseteq Allocated
  BY DEF GrowStep, GrowDir, GrowPage, NewPage, Write, InvalidateEntry, MemoryInv
<1>2. ASSUME NEW r \in Readers
      PROVE  pc'[r] = pc[r] /\ reg'[r] = reg[r] /\ handle'[r] = handle[r] /\ held'[r] = held[r]
  <2>1. r \in Backends \ {w}
    BY DEF Backends, ArraysAssumption
  <2> QED
    BY <2>1, WriterFrame
<1>3. ASSUME NEW r \in Readers PROVE Apart(r, freed)'
  <2>1. Apart(r, freed) /\ held[r] \subseteq Allocated
    BY DEF ReaderInv
  <2>2. \A d : Dir(d) \in held[r] => d \in DOMAIN dirs
    BY <2>1, Names DEF Allocated
  <2>3. ASSUME NEW d \in DOMAIN dirs', Dir(d) \in held[r], NEW k \in DOMAIN dirs'[d],
               dirs'[d][k] # Null
        PROVE  Page(dirs'[d][k]) \notin freed
    <3>1. d \in DOMAIN dirs /\ k \in DOMAIN dirs[d]
      BY <2>2, <2>3, GrowNames
    <3>2. dirs'[d][k] = dirs[d][k] \/ Page(dirs'[d][k]) \notin Allocated
      BY <3>1, GrowNames
    <3> QED
      BY <1>1, <2>1, <2>3, <3>1, <3>2 DEF Apart
  <2> QED
    BY <1>1, <1>2, <2>1, <2>3 DEF Apart
<1>4. Allocated \subseteq Allocated'
  BY MemoryGrow
<1>5. \A p \in DOMAIN pages : p \in DOMAIN pages'
  BY GrowNames
<1> QED
  BY <1>2, <1>3, <1>4, <1>5 DEF ReaderInv

LEMMA LiveGrow ==
  ASSUME ArraysAssumption, MemoryInv, LiveInv, WriterInv, NEW w \in Writers, GrowStep(w)
  PROVE  LiveInv'
<1>1. freed' = freed /\ retired' = retired /\ freed \cup retired \subseteq Allocated
  BY DEF GrowStep, GrowDir, GrowPage, NewPage, Write, InvalidateEntry, MemoryInv, shared
<1>2. /\ blocks' = blocks \/ Dir(blocks') \notin Allocated
      /\ \A k \in DOMAIN dirs'[blocks'] :
              \/ dirs'[blocks'][k] = Null
              \/ k \in DOMAIN dirs[blocks] /\ dirs'[blocks'][k] = dirs[blocks][k]
              \/ k = Block(w) /\ Page(dirs'[blocks'][k]) \notin Allocated
  BY GrowNames
<1>3. ASSUME NEW x \in Allocated, NotLive(x) PROVE NotLive(x)'
  BY <1>2, <1>3 DEF NotLive
<1>4. \A k \in DOMAIN dirs[blocks] : dirs[blocks][k] # Null => Page(dirs[blocks][k]) \in Allocated
  BY DEF MemoryInv, Allocated
<1>5. ASSUME NEW j \in DOMAIN dirs'[blocks'], NEW k \in DOMAIN dirs'[blocks'],
             dirs'[blocks'][j] = dirs'[blocks'][k], dirs'[blocks'][j] # Null
      PROVE  j = k
  <2>1. CASE j \in DOMAIN dirs[blocks] /\ dirs'[blocks'][j] = dirs[blocks][j]
    <3>1. k \in DOMAIN dirs[blocks] /\ dirs'[blocks'][k] = dirs[blocks][k]
      BY <1>2, <1>4, <1>5, <2>1
    <3> QED
      BY <1>5, <2>1, <3>1 DEF LiveInv
  <2>2. CASE j = Block(w) /\ Page(dirs'[blocks'][j]) \notin Allocated
    BY <1>2, <1>4, <1>5, <2>2
  <2> QED
    BY <1>2, <1>5, <2>1, <2>2
<1> QED
  BY <1>1, <1>3, <1>5 DEF LiveInv

LEMMA LengthGrow ==
  ASSUME ArraysAssumption, MemoryInv, LengthInv, WriterInv, NEW w \in Writers, GrowStep(w)
  PROVE  LengthInv'
<1>1. w \in DOMAIN pc /\ nblocks' = nblocks
  BY DEF MemoryInv, Backends, GrowStep, GrowDir, GrowPage, NewPage, Write, InvalidateEntry, shared
<1>2. CASE GrowDir(w)
  <2>1. pc'[w] = "growLen"
    BY <1>1, <1>2 DEF GrowDir, Goto
  <2> QED
    BY <2>1 DEF LengthInv
<1>3. CASE ~GrowDir(w)
  <2>1. blocks' = blocks /\ pc[w] # "growLen"
    BY <1>3 DEF GrowStep, GrowPage, NewPage, Write, InvalidateEntry, shared
  <2>2. DOMAIN dirs'[blocks'] = DOMAIN dirs[blocks]
    BY <2>1, GrowNames DEF MemoryInv
  <2>3. \A v \in Writers : pc[v] = "growLen" => pc'[v] = "growLen"
    BY <2>1, WriterFrame DEF Backends
  <2> QED
    BY <1>1, <2>2, <2>3 DEF LengthInv
<1> QED
  BY <1>2, <1>3

LEMMA WriterGrow ==
  ASSUME ArraysAssumption, MemoryInv, LiveInv, WriterInv, NEW w \in Writers, GrowStep(w)
  PROVE  WriterState(w)'
<1>1. /\ w \in DOMAIN pc /\ w \in DOMAIN reg /\ reg[w] \in Locals
      /\ blocks \in DOMAIN dirs
  BY DEF MemoryInv, Backends
<1>2. WriterState(w) /\ Offset(w) \in Nat /\ Offset(w) >= 1 /\ PageGrow \in Nat
  BY LocalTypes DEF WriterInv, Backends, ArraysAssumption
<1>3. UNCHANGED <<freed, retired, nblocks, handle>> /\ Allocated \subseteq Allocated'
  BY MemoryGrow DEF GrowStep, GrowDir, GrowPage, NewPage, Write, InvalidateEntry, shared
<1>4. CASE GrowDir(w)
  <2>1. /\ pc'[w] = "growLen" /\ reg'[w].new = blocks' /\ reg'[w].op = reg[w].op
        /\ reg'[w].old = blocks /\ blocks' = Len(dirs) + 1
    BY <1>1, <1>4 DEF GrowDir, Goto, Locals
  <2>2. reg[w].op = "growDir"
    BY <1>2, <1>4 DEF GrowDir, WriterState
  <2>3. Dead(w)' = Dir(blocks)
    BY <2>1, <2>2 DEF Dead, Dir
  <2>4. Dir(blocks) \in Allocated' /\ Dir(blocks) \notin freed \cup retired
    BY <1>1, <1>3 DEF Allocated, LiveInv, NotLive
  <2>5. blocks' # blocks
    BY <1>1, <2>1, Shapes
  <2>6. NotLive(Dead(w))'
    <3>1. \A p : Page(p) # Dir(blocks)
      BY Names
    <3>2. Dir(blocks') # Dir(blocks)
      BY <2>5, Names
    <3>3. Dir(blocks) # Dir(blocks')
          /\ \A k \in DOMAIN dirs'[blocks'] : dirs'[blocks'][k] # Null => Dir(blocks) # Page(dirs'[blocks'][k])
      BY <3>1, <3>2
    <3> QED
      BY <2>3, <3>3 DEF NotLive
  <2> QED
    BY <1>3, <2>1, <2>2, <2>3, <2>4, <2>6 DEF WriterState, Inserts, Invalidates, Drains, Grows
<1>5. CASE GrowPage(w) \/ NewPage(w)
  <2> DEFINE new == Len(pages) + 1
             d0  == dirs[blocks]
  <2>1. /\ handle[w].dir = blocks /\ HasBlock(w)
        /\ GrowPage(w) => HasPage(w) /\ d0[Block(w)] \in DOMAIN pages
    BY <1>5, GrowReady
  <2>2. /\ DOMAIN pages' = 1..new /\ new \notin DOMAIN pages
        /\ DOMAIN pages'[new] = 1..(Offset(w) + PageGrow)
        /\ DOMAIN dirs' = DOMAIN dirs
        /\ dirs'[blocks] = [d0 EXCEPT ![Block(w)] = new]
    BY <1>5, <2>1, NewArrayMemory
  <2>3. blocks' = blocks
    BY <1>5 DEF GrowPage, NewPage, shared
  <2>4. /\ DOMAIN dirs'[blocks] = DOMAIN d0
        /\ \A k \in DOMAIN d0 : dirs'[blocks][k] = IF k = Block(w) THEN new ELSE d0[k]
    BY <2>2
  <2>5. new # Null
    BY Shapes DEF Null
  <2>6. reg'[w].elem = reg[w].elem /\ reg'[w].op = reg[w].op
        /\ (GrowPage(w) => reg'[w].old = d0[Block(w)])
    BY <1>1, <1>5, <2>1 DEF GrowPage, NewPage, PageOf, Locals
  <2>7. HasOffset(w)'
    <3>1. Block(w)' = Block(w) /\ Offset(w)' = Offset(w)
      BY <2>6 DEF Block, Offset
    <3>2. Offset(w) \in 1..(Offset(w) + PageGrow)
      BY <1>2
    <3>3. dirs'[blocks'][Block(w)] = new /\ Block(w) \in DOMAIN dirs'[blocks']
      BY <2>1, <2>3, <2>4 DEF HasBlock
    <3> QED
      BY <2>2, <2>5, <3>1, <3>2, <3>3 DEF HasOffset, HasPage, HasBlock
  <2>8. pc[w] \in {"growPage", "newPage"} /\ handle[w].n = nblocks
    BY <1>2, <1>5 DEF GrowPage, NewPage, WriterState, Inserts, Grows
  <2>9. CASE NewPage(w)
    <3>1. pc'[w] = "write"
      BY <1>1, <2>9 DEF NewPage, Goto
    <3> QED
      BY <1>3, <2>1, <2>3, <2>7, <2>8, <3>1 DEF WriterState, Inserts, Invalidates, Drains, Grows
  <2>10. CASE GrowPage(w)
    <3> DEFINE old == d0[Block(w)]
    <3>1. pc'[w] = "retire" /\ reg[w].op = "growPage"
      BY <1>1, <1>2, <2>10 DEF GrowPage, Goto, WriterState
    <3>2. Dead(w)' = Page(old)
      BY <2>6, <2>10, <3>1 DEF Dead, Page
    <3>3. old \in DOMAIN pages /\ old # Null /\ Block(w) \in DOMAIN d0
      BY <2>1, <2>10 DEF HasPage, HasBlock
    <3>4. Page(old) \in Allocated' /\ Page(old) \notin freed \cup retired
      <4>1. Page(old) \in Allocated
        BY <3>3 DEF Allocated
      <4>2. Page(old) \notin freed \cup retired
        BY <3>3 DEF LiveInv, NotLive
      <4> QED
        BY <1>3, <4>1, <4>2
    <3>5. \A k \in DOMAIN d0 : dirs'[blocks][k] # old
      BY <2>2, <2>4, <3>3 DEF LiveInv
    <3>6. Page(old) # Dir(blocks')
          /\ \A k \in DOMAIN dirs'[blocks'] : dirs'[blocks'][k] # Null => Page(old) # Page(dirs'[blocks'][k])
      BY <2>3, <2>4, <3>5, Names
    <3>7. NotLive(Dead(w))'
      BY <3>2, <3>6 DEF NotLive
    <3> QED
      BY <1>3, <2>1, <2>3, <2>6, <2>7, <2>8, <3>1, <3>2, <3>4, <3>7
      DEF WriterState, Inserts, Invalidates, Drains, Grows
  <2> QED
    BY <1>5, <2>9, <2>10
<1>6. CASE Write(w) \/ InvalidateEntry(w)
  <2>1. pc'[w] = "idle"
    BY <1>1, <1>6 DEF Write, InvalidateEntry, Unlock, Goto
  <2> QED
    BY <2>1 DEF WriterState, Inserts, Invalidates, Drains, Grows
<1> QED
  BY <1>4, <1>5, <1>6 DEF GrowStep

(* A copy holds what the array before it held, and a write to an entry     *)
(* never makes one absent.                                                 *)
LEMMA KeptGrow ==
  ASSUME ArraysAssumption, MemoryInv, KeptInv, WriterInv, NEW w \in Writers, GrowStep(w)
  PROVE  KeptInv'
<1> SUFFICES ASSUME NEW x \in Elements, done'[x] # "absent" PROVE LiveEntry(x)' # "absent"
  BY DEF KeptInv
<1> DEFINE d0 == dirs[blocks]
<1>1. blocks \in DOMAIN dirs /\ d0 \in Directories
  BY Shapes DEF MemoryInv
<1>2. \A k \in DOMAIN d0 : d0[k] # Null => d0[k] \in DOMAIN pages
  BY DEF MemoryInv
<1>3. Block(w) \in Nat /\ Offset(w) \in Nat /\ DirGrow \in Nat /\ PageGrow \in Nat
  BY LocalTypes DEF ArraysAssumption, Backends
<1>4. LiveEntry(x) # "absent" <=> /\ x[1] \in DOMAIN d0 /\ d0[x[1]] # Null
                                  /\ x[2] \in DOMAIN pages[d0[x[1]]]
                                  /\ pages[d0[x[1]]][x[2]] # "absent"
  BY DEF LiveEntry
<1>5. LiveEntry(x)' # "absent" <=> /\ x[1] \in DOMAIN dirs'[blocks'] /\ dirs'[blocks'][x[1]] # Null
                                   /\ x[2] \in DOMAIN pages'[dirs'[blocks'][x[1]]]
                                   /\ pages'[dirs'[blocks'][x[1]]][x[2]] # "absent"
  BY DEF LiveEntry
<1>6. CASE GrowDir(w)
  <2> DEFINE new == Len(dirs) + 1
  <2>1. /\ UNCHANGED pages
        /\ DOMAIN dirs'[new] = 0..(Block(w) + DirGrow)
        /\ \A k \in 0..(Block(w) + DirGrow) :
             dirs'[new][k] = IF k \in DOMAIN d0 THEN d0[k] ELSE Null
    BY <1>6, GrowDirMemory
  <2>2. blocks' = new /\ done' = done
    BY <1>6 DEF GrowDir
  <2>3. LiveEntry(x) # "absent"
    BY <2>2 DEF KeptInv
  <2>4. DOMAIN d0 \subseteq 0..(Block(w) + DirGrow)
    <3>1. PICK n \in Nat : d0 \in [0..n -> Nat]
      BY <1>1 DEF Directories
    <3>2. Block(w) \notin 0..n
      BY <1>6, <3>1, GrowReady DEF HasBlock
    <3> QED
      BY <1>3, <3>1, <3>2
  <2> HIDE DEF new, d0
  <2> QED
    BY <1>4, <1>5, <2>1, <2>2, <2>3, <2>4
<1>7. CASE GrowPage(w) \/ NewPage(w)
  <2> DEFINE new == Len(pages) + 1
             old == pages[d0[Block(w)]]
  <2>1. /\ handle[w].dir = blocks /\ HasBlock(w)
        /\ GrowPage(w) => HasPage(w) /\ d0[Block(w)] \in DOMAIN pages
    BY <1>7, GrowReady
  <2>2. /\ \A p \in DOMAIN pages : p \in DOMAIN pages' /\ pages'[p] = pages[p]
        /\ DOMAIN pages'[new] = 1..(Offset(w) + PageGrow)
        /\ GrowPage(w) =>
              \A o \in DOMAIN pages'[new] :
                 pages'[new][o] = IF o \in DOMAIN old THEN old[o] ELSE "absent"
        /\ dirs'[blocks] = [d0 EXCEPT ![Block(w)] = new]
    BY <1>7, <2>1, NewArrayMemory
  <2>3. /\ DOMAIN dirs'[blocks] = DOMAIN d0
        /\ \A k \in DOMAIN d0 : dirs'[blocks][k] = IF k = Block(w) THEN new ELSE d0[k]
    BY <2>2
  <2>4. blocks' = blocks /\ done' = done
    BY <1>7 DEF GrowPage, NewPage, shared
  <2>5. LiveEntry(x) # "absent"
    BY <2>4 DEF KeptInv
  <2>6. new # Null
    BY Shapes DEF Null
  <2>7. CASE x[1] # Block(w)
    BY <1>2, <1>4, <1>5, <2>2, <2>3, <2>4, <2>5, <2>7
  <2>8. CASE x[1] = Block(w)
    <3>1. d0[Block(w)] # Null
      BY <1>4, <2>5, <2>8
    <3>2. GrowPage(w)
      <4>1. ~NewPage(w)
        BY <2>1, <3>1, GrowReady DEF HasPage
      <4> QED
        BY <1>7, <4>1
    <3>3. DOMAIN old \subseteq 1..(Offset(w) + PageGrow)
      <4>1. old \in PageArrays
        BY <2>1, <3>2, Shapes
      <4>2. PICK n \in Nat : old \in [1..n -> Entry]
        BY <4>1 DEF PageArrays
      <4>3. Offset(w) \notin 1..n
        BY <2>1, <3>1, <3>2, <4>2, GrowReady DEF HasOffset, HasPage
      <4>4. Offset(w) >= 1
        BY LocalTypes DEF Backends
      <4> QED
        BY <1>3, <4>2, <4>3, <4>4
    <3> HIDE DEF new, old
    <3>4. x[2] \in DOMAIN old /\ old[x[2]] # "absent" /\ x[1] \in DOMAIN d0
      BY <1>4, <2>5, <2>8 DEF old
    <3>5. dirs'[blocks'][x[1]] = new
      BY <2>3, <2>4, <2>8, <3>4
    <3>6. x[2] \in DOMAIN pages'[new] /\ pages'[new][x[2]] # "absent"
      BY <2>2, <3>2, <3>3, <3>4
    <3> QED
      BY <1>5, <2>3, <2>4, <2>6, <3>4, <3>5, <3>6
  <2> QED
    BY <2>7, <2>8
<1>8. CASE Write(w) \/ InvalidateEntry(w)
  <2>1. UNCHANGED <<dirs, blocks>>
    BY <1>8 DEF Write, InvalidateEntry
  <2>2. \/ UNCHANGED <<pages, done>>
        \/ \E p \in DOMAIN pages : \E o \in DOMAIN pages[p] : \E e \in {"live", "deleted"} :
              pages' = [pages EXCEPT ![p][o] = e] /\ done' = [done EXCEPT ![reg[w].elem] = e]
    <3>1. CASE Write(w)
      <4>1. /\ handle[w].dir = blocks /\ HasOffset(w)
            /\ d0[Block(w)] \in DOMAIN pages
        BY <3>1, GrowReady
      <4> QED
        BY <3>1, <4>1 DEF Write, PageOf, HasOffset
    <3>2. CASE InvalidateEntry(w)
      <4>1. reg[w].new \in DOMAIN pages
        BY <3>2, GrowReady
      <4> QED
        BY <3>2, <4>1 DEF InvalidateEntry
    <3> QED
      BY <1>8, <3>1, <3>2
  <2>3. ASSUME LiveEntry(x) # "absent" PROVE LiveEntry(x)' # "absent"
    <3>1. CASE UNCHANGED <<pages, done>>
      BY <2>1, <2>3, <3>1 DEF LiveEntry
    <3>2. ASSUME NEW p \in DOMAIN pages, NEW o \in DOMAIN pages[p], NEW e \in {"live", "deleted"},
                 pages' = [pages EXCEPT ![p][o] = e]
          PROVE  LiveEntry(x)' # "absent"
      <4>1. /\ \A q \in DOMAIN pages : DOMAIN pages'[q] = DOMAIN pages[q]
            /\ pages'[p][o] = e
            /\ \A q \in DOMAIN pages : \A i \in DOMAIN pages[q] :
                 <<q, i>> # <<p, o>> => pages'[q][i] = pages[q][i]
        BY <3>2, SetEntryMemory DEF Entry
      <4>2. d0[x[1]] \in DOMAIN pages
        BY <1>2, <1>4, <2>3
      <4>3. e # "absent"
        OBVIOUS
      <4> QED
        BY <1>4, <1>5, <2>1, <2>3, <4>1, <4>2, <4>3
    <3> QED
      BY <2>2, <3>1, <3>2
  <2>4. CASE done[x] # "absent"
    BY <2>3, <2>4 DEF KeptInv
  <2>5. CASE done[x] = "absent"
    <3>1. x = reg[w].elem
      <4>1. done \in [Elements -> Entry] /\ reg[w].elem \in Elements
        BY LocalTypes DEF MemoryInv, Backends
      <4> QED
        BY <2>2, <2>5, <4>1
    <3>2. Write(w)
      <4>1. InvalidateEntry(w) => done[reg[w].elem] # "absent"
        BY DEF WriterInv, WriterState, InvalidateEntry, Invalidates
      <4> QED
        BY <1>8, <2>5, <3>1, <4>1
    <3>3. /\ handle[w].dir = blocks /\ HasOffset(w)
          /\ d0[Block(w)] \in DOMAIN pages
      BY <3>2, GrowReady
    <3> DEFINE p == d0[Block(w)]
    <3>4. pages' = [pages EXCEPT ![p][Offset(w)] = "live"] /\ Offset(w) \in DOMAIN pages[p]
          /\ Block(w) \in DOMAIN d0 /\ p # Null
      BY <3>2, <3>3 DEF Write, PageOf, HasOffset, HasPage, HasBlock
    <3>5. DOMAIN pages'[p] = DOMAIN pages[p] /\ pages'[p][Offset(w)] = "live"
      BY <3>3, <3>4, SetEntryMemory DEF Entry
    <3>6. x[1] = Block(w) /\ x[2] = Offset(w)
      BY <3>1 DEF Block, Offset
    <3> QED
      BY <1>5, <2>1, <3>4, <3>5, <3>6
  <2> QED
    BY <2>4, <2>5
<1> QED
  BY <1>6, <1>7, <1>8 DEF GrowStep

LEMMA GrowPreserves ==
  ASSUME ArraysAssumption, IInv, NEW w \in Writers, GrowStep(w)
  PROVE  IInv'
<1>1. MemoryInv /\ CountInv /\ LockInv /\ ReaderInv /\ DrainInv /\ LiveInv /\ LengthInv /\ WriterInv
      /\ KeptInv
  BY DEF IInv
<1>2. WriterInv'
  BY <1>1, OtherWriters, WriterGrow DEF WriterInv
<1> QED
  BY <1>1, <1>2, MemoryGrow, CountOther, LockWriter, ReaderGrow, DrainWriter, LiveGrow, LengthGrow,
     KeptGrow DEF IInv

-----------------------------------------------------------------------------
(* The invariant, and what follows from it *)

LEMMA InitInv == ASSUME ArraysAssumption, Init PROVE IInv
<1> DEFINE d == [k \in 0..DirGrow |-> IF k = 0 THEN 1 ELSE Null]
           p == [o \in {1} |-> "live"]
<1>1. DirGrow \in Nat /\ RetireMax \in Nat /\ <<0, 1>> \in Elements /\ NoWriter \notin Backends
      /\ Readers \subseteq Backends /\ Writers \subseteq Backends
  BY DEF ArraysAssumption, Elements, Backends
<1>2. d \in Directories /\ p \in PageArrays
  <2>1. d \in [0..DirGrow -> Nat]
    BY DEF Null
  <2>2. p \in [1..1 -> Entry]
    BY DEF Entry
  <2> QED
    BY <1>1, <2>1, <2>2 DEF Directories, PageArrays
<1>3. dirs = <<d>> /\ pages = <<p>>
  BY DEF Init
<1>4. d[0] = 1 /\ DOMAIN d = 0..DirGrow /\ \A k \in 0..DirGrow : k # 0 => d[k] = Null
  BY <1>1
<1>5. p[1] = "live" /\ DOMAIN p = {1}
  OBVIOUS
<1> HIDE DEF d, p
<1>6. /\ dirs \in Seq(Directories) /\ DOMAIN dirs = {1} /\ dirs[1] = d
      /\ pages \in Seq(PageArrays) /\ DOMAIN pages = {1} /\ pages[1] = p
  BY <1>2, <1>3
<1>7. NoReg \in Locals
  BY <1>1 DEF NoReg, Locals, Null
<1>8. /\ freed = {} /\ retired = {} /\ blocks = 1 /\ nblocks = 1 + DirGrow /\ active = 0
      /\ wlock = NoWriter
      /\ handle = [b \in Backends |-> [dir |-> 1, n |-> 1 + DirGrow]]
      /\ pc = [b \in Backends |-> "idle"]
      /\ reg = [b \in Backends |-> NoReg]
      /\ held = [r \in Readers |-> {}]
      /\ done = [x \in Elements |-> IF x = <<0, 1>> THEN "live" ELSE "absent"]
  BY DEF Init
<1>9. MemoryInv
  <2>1. \A i \in DOMAIN dirs : \A k \in DOMAIN dirs[i] : dirs[i][k] \in {Null} \cup DOMAIN pages
    BY <1>4, <1>6
  <2>2. done \in [Elements -> Entry]
    BY <1>8 DEF Entry
  <2>3. handle \in [Backends -> [dir : DOMAIN dirs, n : Nat]]
    BY <1>1, <1>6, <1>8
  <2> QED
    BY <1>1, <1>6, <1>7, <1>8, <2>1, <2>2, <2>3, FS_EmptySet DEF MemoryInv
<1>10. CountInv
  <2>1. Active = {}
    BY <1>1, <1>8 DEF Active, Scanning
  <2> QED
    BY <1>8, <2>1, FS_EmptySet DEF CountInv
<1>11. LockInv /\ DrainInv
  BY <1>8 DEF LockInv, DrainInv, Inserts, Invalidates, Drains, Grows
<1>12. ReaderInv
  BY <1>1, <1>8 DEF ReaderInv, Apart, Scanning
<1>13. LiveInv
  BY <1>4, <1>6, <1>8 DEF LiveInv
<1>14. LengthInv
  BY <1>1, <1>4, <1>6, <1>8 DEF LengthInv
<1>15. WriterInv
  BY <1>1, <1>8, IdleWriter DEF WriterInv
<1>16. KeptInv
  <2>1. \A x \in Elements : done[x] # "absent" => x = <<0, 1>>
    BY <1>8
  <2>2. LiveEntry(<<0, 1>>) = "live"
    BY <1>1, <1>4, <1>5, <1>6, <1>8 DEF LiveEntry, Null
  <2> QED
    BY <2>1, <2>2 DEF KeptInv
<1> QED
  BY <1>9, <1>10, <1>11, <1>12, <1>13, <1>14, <1>15, <1>16 DEF IInv

(* Every step keeps the invariant. *)
LEMMA Inductive == ASSUME ArraysAssumption, IInv, [Next]_vars PROVE IInv'
<1>1. CASE UNCHANGED vars
  <2>1. /\ UNCHANGED <<dirs, pages, freed, blocks, nblocks, retired, active, wlock, handle, pc, reg,
                       held, done>>
    BY <1>1 DEF vars
  <2>2. MemoryInv'
    BY <2>1 DEF IInv, MemoryInv, Allocated
  <2>3. CountInv' /\ LockInv'
    BY <2>1 DEF IInv, CountInv, LockInv, Active
  <2>4. ReaderInv' /\ DrainInv'
    BY <2>1 DEF IInv, ReaderInv, DrainInv, Apart, Allocated
  <2>5. LiveInv' /\ LengthInv' /\ KeptInv'
    BY <2>1 DEF IInv, LiveInv, NotLive, LengthInv, KeptInv, LiveEntry
  <2>6. WriterInv'
    BY <2>1, SameWriter DEF IInv, WriterInv
  <2> QED
    BY <2>2, <2>3, <2>4, <2>5, <2>6 DEF IInv
<1> QED
  BY <1>1, Steps, ReaderPreserves, DrainPreserves, WriterPreserves, GrowPreserves

LEMMA Invariance == Spec => []IInv
  BY ArraysAssumption, InitInv, Inductive, PTL DEF Spec

(* The slot's pointers, its lists, its count and the backends' handles     *)
(* name what they should, and the retire list stays within its length.     *)
THEOREM TypeCorrect == Spec => []TypeOK
<1>1. IInv => TypeOK
  <2> SUFFICES ASSUME IInv PROVE TypeOK
    OBVIOUS
  <2>1. active \in 0..Cardinality(Readers)
    <3>1. IsFiniteSet(Readers) /\ Active \subseteq Readers
      BY ArraysAssumption DEF ArraysAssumption, Active
    <3>2. Cardinality(Active) <= Cardinality(Readers) /\ IsFiniteSet(Active)
      BY <3>1, FS_Subset
    <3>3. Cardinality(Active) \in Nat /\ Cardinality(Readers) \in Nat
      BY <3>1, <3>2, FS_CardinalityType
    <3> QED
      BY <3>2, <3>3 DEF IInv, CountInv
  <2>2. \A q \in DOMAIN pages : \A o \in DOMAIN pages[q] : pages[q][o] \in Entry
    <3>1. \A q \in DOMAIN pages : pages[q] \in PageArrays
      BY Shapes DEF IInv
    <3> QED
      BY <3>1 DEF PageArrays
  <2> QED
    BY <2>1, <2>2 DEF IInv, MemoryInv, TypeOK, Allocated
<1> QED
  BY <1>1, Invariance, PTL

(* What a scan has resolved stays allocated until the scan ends.           *)
THEOREM MemorySafety == Spec => []ReaderMemorySafe
<1>1. IInv => ReaderMemorySafe
  BY DEF IInv, ReaderInv, Apart, ReaderMemorySafe
<1> QED
  BY <1>1, Invariance, PTL

(* Nothing is freed twice, and nothing that is live is freed or listed.    *)
THEOREM NoLiveFreed == Spec => []LiveNotFreed
<1>1. IInv => LiveNotFreed
  <2> SUFFICES ASSUME LiveInv PROVE LiveNotFreed
    BY DEF IInv
  <2>1. \A x \in freed \cup retired : NotLive(x)
    BY DEF LiveInv
  <2>2. retired \cap freed = {}
    BY DEF LiveInv
  <2> QED
    BY <2>1, <2>2 DEF LiveNotFreed, NotLive
<1> QED
  BY <1>1, Invariance, PTL

(* Growth loses no element.                                                *)
THEOREM NothingLost == Spec => []InsertsKept
<1>1. IInv => InsertsKept
  BY DEF IInv, KeptInv, InsertsKept
<1> QED
  BY <1>1, Invariance, PTL
=============================================================================
