# A TLA+ verification of pg_acorn

pg_acorn is a PostgreSQL extension: an HNSW index whose scans take a filter
into the graph search (ACORN). This directory holds its formal models, the
model-checking configurations and the machine-checked proofs. Paths are
relative to `src/`; where a number stands alone in the sections on the code
cache, it is a line of `src/acorn_codecache.c`.

Five parts of the repository are modelled:

* the **code cache**, the shared-memory cache of quantised vectors that scans
  read without locks while inserts and vacuum write it;
* the **index build** of Tier 2, a leader and its workers around one graph in
  memory, and the flush of that graph to the index;
* the **single-tuple insert** of Tier 2, several at once into one index;
* the **streaming scan** of Tier 2, among deletions, vacuum, inserts and a cache
  that comes and goes;
* the **benchmark scripts**, which the project's claims about recall and latency
  rest on: what they record after being killed, resumed and run after each other.

## 1. The system

| Component | State | Operations | Interacts with | Model |
|---|---|---|---|---|
| Code-cache **entry** (142-155, 1309-1377, 1649-1703) | a version counter, two flag bits, the payload | insert, invalidate (under the slot's `wlock`), lock-free read | scans, aminsert, ambulkdelete | `CodeCacheEntry` |
| Code-cache **slots** (157-220, 405-1228, 1396-1454, 1842-1936) | 64 shared slots: key, state, generation, area, creator pin, `active_scans`; per backend a hash table of attachments | `begin_scan`, load, attach, acquire, `end_scan`, abort callbacks, eviction, `writer_attach` | DSA, LWLocks, transaction callbacks, dynahash | `CodeCacheSlots` |
| Code-cache **arrays** (326-387, 1240-1307, 1463-1706) | block directory, page arrays, retire list | resolve, grow, retire, drain, invalidate | entries, slots | `CodeCacheArrays` |
| Code-cache **budget and statistics** (535-569, 798-825, 1727-1833) | `total_bytes`, `slot->bytes`, LRU clock | admission, accounting, SQL views | slots | admission and choice of a victim, in `CodeCacheSlots` |
| **Insert** (`acorn_build.c` 2827-3590, 4399-4438) | element and neighbour tuples, meta page | search, select, write the element, raise the entry point, reverse edges, co-located entries | pages, code cache | `T2Insert` |
| **Vacuum** (`acorn_am.c` 258-376) | `deleted` flags | mark elements, invalidate the cache | pages, code cache | `T2Scan`; its cache side in the `CodeCache*` modules |
| **Scan** (`acorn_scan.c`, `acorn_am.c` 160-252) | candidate and result queues, visited set, cache handle | begin, expand, rerank, emit, rescan, end | pages, code cache, executor | `T2Scan` |
| **Build** (`acorn_build.c` 985-2378, 3771-3943, 4240-4354) | graph in an arena of fixed size, one lock per node, `flushLock`, `entryLock`, workers, preassigned TIDs | insert nodes, select and shrink neighbours, flush, spill | heap scan, pages, meta page, insert | `ParallelBuild`, `MemFlush` |
| **Tier 1 hook** (`acorn_hook.c`) | planner and executor hooks over pgvector's index | rewrite the scan | pgvector | only when it applies, in `BenchServer` |
| **Cost, distance, GUCs** (`acorn_cost.c`, `acorn_dist.c`, `pg_acorn.c`) | settings | formulas, registration | planner | no |
| **Benchmark scripts** (`bench/*.py`) | tables, indexes, `tv_meta`, Qdrant collections, result files; a process with one session per server | load, build, sweep, resume, dump | PostgreSQL, Qdrant, the file system | `Bench*` and one module per script |

What makes it hard:

* *Concurrency without locks.* A scan holds no lock while it reads entries,
  page arrays and the directory. It is protected by a per-entry version, by a
  count of active scans per slot and by a generation that is re-checked.
* *Backend-local copies of shared state.* Every backend caches its attachment
  of an area and a snapshot of the block directory; an inserter carries an entry
  point, candidates and a neighbour's slots from one buffer lock to the next; a
  scan carries codes of elements that are vacuumed meanwhile.
* *Three copies of an element.* Its page, the co-located entries of the elements
  that name it, and the cached code. Only the page is kept up to date.
* *Ends that skip the code.* A query may end by an ERROR, by the rollback of a
  savepoint or by the death of its backend; `amendscan` does not run then. An
  insert that fails leaves on the pages what it has written.
* *Locks of different length.* A build holds `flushLock` over the insert of a row,
  `entryLock` over the insert of a node, a node's lock over one list; a participant
  that finds the arena full waits for all others to come to the end of theirs.
* *Positions promised before they exist.* The flush computes where each tuple will
  lie from a simulation of page packing, writes that into other tuples, and only
  then writes the tuples.
* *Reuse.* A slot is reused by another index, the same index comes back in another
  area, a heap TID comes back with another row.
* *Killed scripts.* A client that is killed leaves a CREATE INDEX running on the
  server, a truncated file, a half-loaded collection; the next run has to tell.

What makes each part correct: an entry read is never torn and never blocks;
references are counted exactly, so that the evictor may trust a zero; the codes
a scan reads stay mapped until it ends; nothing reachable is freed, no finished
insert is lost by a growth; every operation of the cache ends. A build ends, with each
row in the index once, and what is read back from its pages is the graph that was in
memory, every node of which can be reached. Whatever inserts
overlap, fail or crash, every neighbour slot can be followed, the entry point is
the highest element, and without overlap nothing becomes unreachable. The executor,
which rechecks nothing, gets each wanted row at most once, in order where order is
claimed, and a scan that ran to its end has found all that the graph leads to. A
recorded measurement was made with the engine, the session, the data and the
collection it names.

## 2. The modules

| Module | Models | Source |
|---|---|---|
| `EntryHint` | what one entry promises: a lookup misses, or returns the element the entry holds at that instant | abstract |
| `CodeCacheEntry` | the seqlock, one load or store per step | 142-155, 921-943, 1309-1377, 1649-1706; `acorn_codecache.h` 28-56 |
| `CodeCacheEntryProofs` | theorems about `CodeCacheEntry` | |
| `CodeCacheSlots` | the slot life cycle, with aborts and errors | 157-271, 405-1228, 1396-1504, 1842-1936 |
| `CodeCacheSlotsProofs` | theorems about `CodeCacheSlots` | |
| `CodeCacheArrays` | directory and page arrays of one incarnation | 326-387, 1004-1039, 1136-1160, 1240-1307, 1463-1706 |
| `CodeCacheArraysProofs` | theorems about `CodeCacheArrays` | |
| `NeighborSelection` | what the build and the single-tuple insert compute alike: nearest and diverse selection, the place in the neighbour array, whom a full list gives up | `acorn_build.c` 694-712, 1434-1480, 2640-2704, 2869-3045 |
| `NeighborSelectionProofs` | theorems about `NeighborSelection` | |
| `MemFlush` | the graph in memory, the geometry of its tuples, preassigned TIDs, the three passes of the flush, and reading the pages back | `acorn_build.c` 527-636, 2009-2378; `acorn_t2_page.h` 48-67, 241-272 |
| `ParallelBuild` | the participants of a build, serial or parallel | `acorn_build.c` 985-1153, 1155-1988, 3771-3943, 4316-4354 |
| `ParallelBuildProofs` | theorems about `ParallelBuild` | |
| `T2Insert` | concurrent aminserts on the pages of one index | `acorn_build.c` 527-563, 2827-3590, 4399-4438; `acorn_t2_page.h` |
| `T2InsertProofs`, `T2InsertLinksProofs` | theorems about `T2Insert` | |
| `RowStream` | what an ordered index scan promises the executor | abstract |
| `T2Scan` | a streaming scan among vacuum, inserts and the cache | `acorn_scan.c` 1500-2472; `acorn_am.c` 160-376 |
| `T2ScanProofs` | theorems about `T2Scan` | |
| `BenchStatements` | the statements the scripts are made of | `bench/*.py` |
| `ThesisValidation`, `HeadToHead`, `HeadToHeadFair`, `OverheadLedger`, `BuildOps`, `QdrantRematch`, `QdrantCodepathProbe`, `FastPath`, `Colocation`, `GraphAudit`, `BenchRunner` | one script each; the last one `run_bench.py` with its targets and scenarios | the script of that name |
| `BenchPrograms` | the command lines | |
| `BenchServer` | the process, PostgreSQL, Qdrant, the files: what a statement does | `bench/*.py`, and external |
| `BenchProperties` | what a recorded measurement can be relied on for | |
| `MC...` | constants and symmetry for TLC | |

`CodeCacheEntry` implements `EntryHint` and `T2Scan` implements `RowStream`, each
through the mapping at its end. The modules of the extension divide its state
between them: `CodeCacheArrays` takes an entry as one value, which `CodeCacheEntry`
justifies, and has no eviction; `CodeCacheSlots` has eviction and takes all arrays
of an area as the area; `T2Scan` takes the cache as a set of served codes that are
loaded, invalidated, regrown and evicted as those three allow, and the graph as one
any insert may rewire, which `T2Insert` refines. `ParallelBuild` extends `MemFlush`,
both it and `T2Insert` extend `NeighborSelection`; a row that a build inserts after its flush
is one element tuple there, since the rest of that insert is `T2Insert`.

### CodeCacheEntry

`version`, `flags` and `word` are the shared entry; `word` maps each machine
word of the payload to the element it was last written for. A writer takes
`wlock`, makes the version odd (`WriteBegin`), makes its stores *in any order*
(`Store`; only the two barriers order them against the version), makes the
version even (`WriteEnd`) and unlocks. A reader follows `acorn_codecache_read`
step by step: `ReadVersion`, `ReadFlags`, then either `Recheck` or `CopyWord`
for each word in any order, then `Verify`; `Retry` is the loop's `continue`,
two attempts in all. `Init` is a zeroed entry or one the loader filled.

### CodeCacheSlots

`slot[s]` is the shared slot, `active[s]` its `active_scans`, `contents[a]` the
index area `a` was loaded from (a ghost: it is what the properties compare
with), `creatorPin` the areas whose `dsa_pin` is in force. Per backend:
`mapped` (areas in its address space), `handle` and `freeList` (its attachment
hash table; `HASH_REMOVE` leaves the element's memory alone and dynahash reuses
it last in, first out, which matters because open scans hold a pointer to it),
`scans` (open scans by number, the element each points to, and the subtransaction
level that opened it), `depth`. `pc` and `reg` are a backend's control state and local
variables. The action names follow the functions:

| Actions | Code |
|---|---|
| `BeginScan`, `SlotLookup`, `ReadState`, `Attach` | `begin_scan`, `slot_lookup`, the CAS, `attach` |
| `AcquireInc`, `AcquireValidate`, `AcquireSnapshot` | `scan_acquire`: the increment, the second look, the snapshot |
| `SkipAdmission`, `LoadCreate`, `LoadPublish`, `LoadBlocks`, `LoadFinish`, `LoadCreateFails`, `LoadAllocateFails`, `LoadError` | `acorn_cc_load`, with its PG_CATCH and the ERRORs before it: of `dsa_create`, and of `dsa_allocate0` once the area is pinned |
| `EndScan`, `Drain` | `end_scan`, `release_one_ref`, `drain_retired` |
| `Savepoint`, `ReleaseSavepoint`, `Abort`, `Terminate`, `AbortRelease`, `AbortDone` | transaction machinery and the two callbacks |
| `EvictLock`, `EvictChoose`, `EvictClear`, `EvictCheck`, `EvictUnlock` | evict, reset and `evict_to_fit`, which hold `dir->lock` throughout |
| `WriterAttach`, `WriterCold`, `WriterLookup`, `WriterLock`, `Write` | `writer_attach`, `insert`, `invalidate` |
| `Resolve` | the refresh of an open scan's snapshot |

Sections under `dir->lock` are one step when nothing else in them can be
observed without that lock, several when it can. Which victim an eviction takes,
and how many, is left open: evict takes at most one, reset all, `evict_to_fit`
as many as it needs.

### CodeCacheArrays

`dirs` and `pages` grow and are never reused, `freed` says which of them were
given back: an access to freed memory is then visible. `blocks` and `nblocks`
are the slot's two words, read and written in separate steps. `held[r]` collects
what reader `r` may dereference until its scan ends, because the scan resolves
entries ahead of reading them (`acorn_scan.c` 1825-1911). `done` is a ghost: what
finished writers made of each element. A pointer looked up behind the end of a
directory leads to `"wild"`, and that backend is not followed further; therefore
the runs of this module do not check for deadlock.

### T2Insert

Shared state is what the pages hold: `meta` (the entry point and its level),
`elements` (element tuples written), `nbr` (the slots of each neighbour tuple, one
array from the element's top layer down to layer 0, with the payload half at the
end) and `inl` (the element each co-located entry describes). `ins[e]` holds the
local variables of the backend that inserts `e`; every step is what the code does
under one buffer lock.

| Actions | Code |
|---|---|
| `ReadMeta` | options, entry point, empty tuple (3403-3440) |
| `Descend`, `Expand` | one turn of the greedy descent, one expansion of the beam search |
| `SelectLayer`, `SelectGlobalHalf`, `SelectPayloadHalf` | selection, nearest or diverse; both halves of layer 0 with the backfill |
| `WriteNeighborTuple`, `WriteElementTuple`, `MaybeUpdateEntry` | steps 5 to 7 and `acorn_maybe_update_entry` |
| `ReadReverse`, `WriteReverse`, `InlineWriteEntry` | the two phases of `acorn_add_reverse_edge_at_layer`, and the co-located entry |
| `Fail` | an ERROR, a cancellation or a crash between any two page writes |

A vector is a position on a line, no two distances are equal; levels and partitions
are given. `AlterOptions` is ALTER INDEX; only `insert_layout` uses it.

### ParallelBuild

`nodes`, `nbr`, `entry` and `part_entry` are the shared graph, `flushed` the flag of
that name, `taken` the rows the parallel heap scan has handed out, `work[p]` the control state and
the local variables of participant `p`. `writes` is the log of what goes to the
index; `Disk` replays it into pages (`Flush`, `InsertElement`), which is sound because the graph is not
touched after the flush (theorem `GraphFrozen`).

| Actions | Code |
|---|---|
| `TakeRow`, `ScanDone` | the callback of the heap scan, the end of a participant's scan |
| `Push`, `NoRoom` | `acorn_mem_push_node`: room in the arena and the node array, or none |
| `WaitForEntry`, `ReadEntry`, `WaitForExclusive`, `ReadEntryExclusive` | the entry-point protocol, `entryWaitLock` and `entryLock` (1728-1769) |
| `Descend`, `Expand` | one turn of the greedy descent; one expansion of either beam search, which copies a node's slots under its lock |
| `SelectLayer`, `SelectGlobalHalf`, `SelectPayloadHalf` | selection, and the node's own slots, written without its lock |
| `Link` | `acorn_mem_add_reverse_edge`, a read-modify-write under the target's lock |
| `UpdateEntryPoint`, `Register` | the end of `acorn_mem_insert_node`; `acorn_mem_register_part_entry`, and `flushLock` given back |
| `Spill` | a row that finds no room, under `flushLock` in exclusive mode: the flush, if nobody has done it, and the single-tuple insert |
| `LeaderFlush` | the leader's wait for all participants, and its flush |

A step is what is done under one lock that is taken and given back. `flushLock`
and `entryLock` are held for longer; who holds them, and how, can be read off `work`
(`HoldsFlushLock`, `hold`), and so no variable is spent on them. While `flushLock` is held
exclusively nobody else touches the graph or the index, so that section is one
step. The serial build is a build with one participant; its memory budget takes the
arena's place. Sizes are small numbers (a page of 14, an element of 4): what counts is
that several tuples share a page, that one may just not fit, and that co-located entries
overflow into continuation chunks.

### T2Scan

The heap (`row`, `tid`, `heap`), the pages (`written`, `deleted`, `nbr`, `inl`,
`entry`), the cache as one slot with the codes it serves, and the scan's variables:
candidates `C` and member candidates `Cm`, results `R` found by codes or pages and
`Rx` with exact distances, `visited`, the cache incarnation it goes on reading
(`old`). `mode` is one combination of the GUCs and layouts the code distinguishes.

| Actions | Code |
|---|---|
| `Rescan`, `Seed`, `EndScan` | `amrescan` and the first `amgettuple`, the greedy descent, `amendscan` |
| `ReadNeighbors`, `VisitAgain`, `VisitPage`, `VisitCached`, `VisitInline` | popping a candidate, and each of its neighbours by the copy that is used |
| `RerankOne`, `Emit`, `Fetch`, `Exhaust` | the exact head, emission, the executor's heap fetch, the end |
| `DeleteRow`, `BulkDelete`, `BulkDeleteFails`, `FreeTid` | a DELETE, `ambulkdelete` per element, and the heap pass of vacuum, after which the TID has another row |
| `InsertRow`, `AppendElement`, `LinkFrom`, `WriteInlineEntry`, `FinishInsert`, `AbortInsert` | an insert, seen from the scan |
| `LoadBegin`, `LoadPage`, `LoadEnd`, `Evict` | the cache of the index |

Distances (`Exact`), codes (`Approx`) and the lower bounds (`Lb`) are constants; the
greedy descent may end at any element as near as the entry point.

### The benchmark modules

A script is a sequence of statements, built by operators that bear the names of
its Python functions (`Each` is a loop, `Try` a try block, `ExitUnless` an assertion);
`BenchStatements` has the vocabulary. `BenchServer` executes one process at a time
against the servers: `sess` is what SET changed in each connection, `tables`,
`indexes`, `building` and `meta` the database, `colls` the Qdrant collections with
points queued, applied and indexed, `files` the result files, `mem` what the process
has collected, `watch` the sampling thread of `build_ops_bench.py`. A recorded
measurement is a record: the engine's name, the point, the path the planner took,
the index's options, the rows searched, the rows the ground truth is of, and the
settings of the session.

Any request may fail (`Fails`), a process may be killed between two statements
(`Kill`), inside a CREATE INDEX, which then goes on (`OrphanEnds`), and while it writes a file
(`KillInDump`). Qdrant applies and indexes in its own time (`ApplyBatch`,
`Optimize`). The planner takes any path the settings allow (`Paths`), but plans the
same query in the same way as long as the paths and the settings its cost model
reads are the same (`Planned`). `HookApplies` is the condition of
`acorn_set_rel_pathlist`.

What is assumed of the servers: a fresh connection has the default settings; a custom
and a generic plan of the same query agree; DROP, ANALYZE, SET and closing a
connection succeed; no two fixtures that share a table name have the same number of
rows, which is what the reuse tests look at.

## 3. The runs

| Run | Configuration | Bounds | Shows |
|---|---|---|---|
| `entry` | `MCCodeCacheEntry.cfg` | 1 reader, 2 writers, 2 words, 2 elements, 3 updates | `TypeOK`, `NoTornHit`, `HintSpec`, `LookupAnswers` |
| `slots` | `MCCodeCacheSlots.cfg` | 2 backends, 2 indexes, 1 slot, 2 areas, 1 scan each | `TypeOK`, `RefsCovered`, `ServablePinned`, `GuardSound`, `InsertOwnIncarnation`, `LoaderAlone` |
| `slots_solo` | `MCCodeCacheSlotsSolo.cfg` | 1 backend, 2 indexes, 2 slots, 3 areas, 2 scans, 1 savepoint | `RefsBalanced`, `PinsAccounted` |
| `slots_live` | `MCCodeCacheSlotsLive.cfg` | 2 backends, 1 index, 1 slot, 2 areas | `OperationsEnd` |
| `arrays` | `MCCodeCacheArrays.cfg` | 2 readers, 2 writers, 2 blocks, 2 offsets, 2 directories, 2 page arrays, retire list of 1 | `TypeOK`, `ReaderMemorySafe`, `LiveNotFreed`, `InsertsKept` |
| `build` | `MCParallelBuild.cfg` | 4 rows, 2 levels, 2 partitions, 2 participants, `Efc` = 2, pages of 14, four layouts and arenas | `TypeOK`, `PublishedComplete`, `LayersConnected`, `DiskMatchesGraph`, `EachRowOnce`, `BuildEnds` |
| `t2_insert` | `MCT2Insert.cfg` | 4 rows, 2 levels, 2 partitions, `Efc` = 2, five index layouts; two inserts at once in two of them | `TypeOK`, `LayerSafe`, `EntryHighest`, `Connected`, `InlineInSync`, `NearestKept`, `LoopsEnd` |
| `t2_scan` | `MCT2Scan.cfg` | 3 built rows and 1 inserted, 3 heap TIDs, six modes | `TypeOK`, `Complete`, `StreamSpec` |
| `scripts` | `MCBench.cfg` | 18 sequences of one or two command lines | `TypeOK`, `MadeAsNamed`, `TruthMatchesData`, `MetaHonest`, `OnePoint`, `PeakComplete`, `NothingLost` |
| `cross_read`, `savepoint` | `MCCodeCacheSlotsCrossRead.cfg`, `...Savepoint.cfg` | as `slots`; 1 backend | violated, section 4 |
| `insert_layout` | `MCT2InsertLayout.cfg` | as `t2_insert` | violated, section 4 |

Why these bounds reach the interesting cases:

* *entry.* A torn copy needs two words and two elements; a retry needs two
  updates during one lookup, and the third finds the attempts used up. A reader
  changes nothing that anyone else reads, so one suffices; the proofs cover any
  number.
* *slots.* One slot and two indexes force the slot to change hands; two areas are
  two incarnations of it; the second backend is the evictor, loader or writer
  that comes in between. Savepoints and overlapping scans of one backend are in
  `slots_solo`, where the third area allows a reload of each index.
* *arrays.* The second block needs a new directory, the second offset a new page
  array; with no headroom every insert grows. A retire list of length one is
  filled by the first and overflowed by the second array. Two readers give a last
  one out and one that comes in meanwhile; two writers give stale snapshots.
* *build.* In `InMemoryWide` everything fits and lists of three and more never overflow, which is
  what `LayersConnected` is about; two rows of level 1 compete for the entry point.
  In `SpillBySize` two or three nodes fit, depending on their levels, lists overflow,
  one partition is too small for a payload search, and entries are co-located. `NoArena` flushes an empty
  graph; `SplitChunks` has diverse selection, both halves of layer 0, continuation
  chunks, and is stopped by the number of nodes. Two participants take the four rows in any order and
  meet at every lock; a third would be one more waiter (the proofs cover any number).
* *t2_insert.* The rows lie on a Golomb ruler (0, 1, 4, 6: no two distances equal) and
  are inserted in every order, so that their places need not vary. Lists of one
  slot (`Narrow`, `Split`, `Diverse`) are full after the first edge and every further
  one replaces; lists of three (`Wide3`, `WideSplit`) never are, which is what
  `Connected` is about. Two rows of level 1 compete for the entry point. `Efc` = 2 ends a
  search with candidates left. `MaxActive` is 2 where slots are contended.
* *t2_scan.* The middle one of three rows fails the filter and is the only way to the
  third; codes order rows otherwise than distances do; the fourth row takes the
  heap TID of a vacuumed one. The modes are a plain index with buffered and with
  eager emission, co-located entries, the cache with and without the error bound, and
  an expansion budget of one. `doomed` says which rows are deleted in a mode.
* *scripts.* Most scripts run twice, or after another that shares its table, collection
  or file, and each first run may end at any statement. Sweeps are represented by
  two or three values (the smallest and the largest), collections are loaded in two
  batches (`AllPoints`), the second of which is the one that waits.

`RefsBalanced` and `PinsAccounted` hold for one backend and fail for two
(section 5): the passing run is kept because it shows that abort and savepoint
handling is right as long as no other backend evicts between the steps of this one.
`PinsAccounted` does not say that no area is lost: a load that fails in `dsa_allocate0`, or dies
in its page walk, loses one. It says that such loads are the only way, and that each blocks its
slot, so that the loss is bounded by the number of slots.

Deadlock is not checked in `arrays` (a reader that followed a stale pointer is not
followed further), in `build` (it ends; `BuildEnds` says that it does), in `t2_insert` (all rows are inserted) and in `scripts` (all
programs have run).

### Fairness

`entry` assumes weak fairness of each reader's next step and nothing of writers:
a backend in a lookup keeps executing, while a writer may stop anywhere. It
justifies `LookupAnswers` exactly because there is nothing to wait for.

`slots_live` assumes strong fairness of each backend's continuation: a running
backend takes its next step, and a waiter on an LWLock, which queues waiters in
order, gets the lock if it is released again and again. Nothing is assumed of the
start of operations. The run also covers the eviction loop: it may only go round
while it finds servable slots, and each round empties one.

`build` assumes weak fairness of each participant and of the leader's flush: processes are
scheduled, and a lock that stays free is granted. Strong fairness is not needed: a
participant can be passed over at a lock only while others take rows, and these run
out. `BuildEnds` is refuted as soon as the shared `entryLock` is kept while
the exclusive one is waited for, which is what 1735-1741 avoid.

The other runs assume none. That an insert ends is the action property `LoopsEnd`:
each turn of its loops uses something up, also while others rewire the graph (proved in
section 6).

## 4. Disagreements between code and comments

Each has a run whose configuration checks one property and whose counterexample is
the scenario.

| Run | Property | What happens |
|---|---|---|
| `cross_read` | `ScanReadsOwnIndex` | `slot_lookup` drops `dir->lock`; before the caller's CAS the slot is loaded, evicted and claimed for another index. The caller loads its index into the other's slot. (`acorn_codecache.h` 12-14) |
| `savepoint` | `ScanAreaMapped` | The rollback of a savepoint returns the references of the outer transaction's open scans; an eviction by the same backend unmaps the area they read. (`acorn_codecache.h` 120) |
| `insert_layout` | `WithinTuple` | After ALTER INDEX ... SET (m), an insert computes slots of earlier tuples with the new m, also past their ends. (`acorn_t2_page.h` 346-348) |

A comment that is out of date, without consequence: 1617-1618 says that eviction
does not take `wlock`; `evict_slot` takes it at 456.

## 5. What the code does not promise

Properties that are stated in the modules, that one might rely on, and that TLC
refutes. They have no run of their own; to see the trace, put the property on the
INVARIANTS line of the configuration named.

The code cache (`MCCodeCacheSlotsCrossRead.cfg` unless another is named):

* `RefsBalanced` with two backends: forgetting a stale attachment loses the count of
  an open scan's reference, and `active_scans` never returns to 0 (1198).
* `LoadingHasLoader` (`MCCodeCacheSlotsSolo.cfg`): an ERROR from `dsa_create` or `dsa_allocate0`,
  before the PG_TRY, leaves the slot LOADING for ever (773), and so does FATAL in the page walk, which does
  not run PG_CATCH. The ERROR of `dsa_allocate0` (842) comes after `dsa_pin` and
  `dsa_pin_mapping` (830-831) and before `area_pinned` is set (850): the area
  stays allocated, mapped in this backend, and recorded nowhere. After FATAL it is recorded in a slot
  that no evictor chooses.
* `DrainFreesOwnArea`: an eviction that chose its victim before a scan acquired it
  leaves the scan on the old area; the slot is reloaded, and that scan, the last one
  out, frees the new incarnation's retired arrays through the old area (357, 1250).
* `SnapshotOfOwnArea`: after a reload, `acquire` on an attachment of an earlier
  incarnation leaves a snapshot that points into another area, against 1250-1252.
* `PinsAccounted` with two backends: an eviction that finds a reader in its race
  window leaves the pin to "a later evictor" (486), but the slot is EMPTY, is skipped
  by every evictor, and the next load overwrites the handle.
* `ColdWriterNoSlot`: "directory never created => no warm slot" (1431) reads a
  backend-local pointer; another backend may have created the directory and filled
  a slot, whose entry this write then leaves stale.
* `ScanReadsOwnIndex` with a single backend (`MCCodeCacheSlotsSolo.cfg`): after a
  savepoint rollback and an eviction, dynahash hands the hash element an outer
  scan still points to, to another index.
* `ReaderInBounds` (`MCCodeCacheArrays.cfg`): old `blocks` with new `nblocks`, a
  reader indexes past the old directory (37-39).
* `WriterMemorySafe` (`MCCodeCacheArrays.cfg`): an invalidation follows a directory
  another writer has freed (33-34).
* `InvalidationsKept` (`MCCodeCacheArrays.cfg`): an invalidation made through a stale
  directory marks an entry of a replaced page array and is lost, against 1695-1699.
* `DrainedAtRest` (`MCCodeCacheArrays.cfg`): a writer that saw a scan active pushes
  the array after that scan has looked at the empty list and left; the array waits
  for the next growth or scan, against `acorn_codecache.h` 144.

Inserts (`MCT2Insert.cfg`):

* `SnapshotStillValid`: "Build/insert is serialized per index so the phase-1 snapshot
  remains valid" (`acorn_build.c` 2821). Two aminserts choose a slot of the same neighbour from
  copies, and the second overwrites the first one's edge; aminsert takes no lock that
  excludes another. `LayerSafe`, with `NoDoubleLink` in it, says what holds all the same.
* `Connected` without its condition `~overlap`: two first inserts into an empty index
  both read no entry point and write no edges; only one becomes the entry point, and
  nothing leads to the other. Once lists are full, a replaced edge may have been the
  only one to an element, which the fixed-slot replacement accepts (hence `Wide`). A
  parallel build has neither of these losses: its entry-point protocol and the locked
  read-modify-write give `LayersConnected` without a condition on overlap.

The benchmark scripts (`MCBench.cfg`; with the mission named as `Missions`):

* `GroundTruthExact` (`TruthMission`): in scenario D of `run_bench.py` the ground truth is asked over
  a connection on which nobody turned the hook off, of a table that has an hnsw
  index; it may come from an approximate search (`run_bench.py` 42, 122).
* `RecallParity` (`DefaultStages`): `build_ops_bench.py` leaves `bo_w_idx` on the table
  (226), and the planner may use it for both sides of the comparison of a serial
  with a parallel build (18-20).
* `ForcedThroughVector` (`ForcedSweep`): `a_selectivity_sweep.py` 33 says that
  `force_index` pins a target on its vector index; a btree Index Scan with a Sort
  remains enabled.

Further observations made while translating the scripts, which need no
counterexample:

* `head2head_fair.py` 274 says "bitmap prefilter forced"; both correlations share a
  connection, and `run_pg_acorn` leaves `enable_bitmapscan` off (326).
* `run_bench.py`: scenario C calls `insert_batch`, which `PrefilterExactTarget` does not
  have, so that it always fails there; scenario D fails for Qdrant when the table
  its truth is asked of has been dropped.
* `thesis_validation.py`: `dump()` truncates the file before it writes; a kill in between
  leaves one the next run cannot read. The plan of `stage_postfilter` is checked once
  per selectivity, while pgvector's costs depend on `hnsw.ef_search`. An orphaned
  CREATE INDEX may commit after the DROP IF EXISTS of `stage_acorn` (568); the next
  CREATE then fails.
* `qdrant_rematch.py` only prints the outcome of its gate; with `--skip-load`
  nothing checks what the collection holds.
* `overhead_ledger.py` 728-729 counts the planning time twice in section [A].
* `build_ops_bench.py`: an exception between `th.start()` and `stop.set()` leaves a
  thread that keeps the process alive. The watcher counts the workers of other builds
  as well.
* `cc_evict_stress.py` 65 takes its truth from a search with `ef_search` 200.
* Scenarios B and C order by `<->` while the index is `vector_cosine_ops`.

## 6. Proofs

`CodeCacheEntryProofs` proves, for every number of readers, writers, payload words
and elements:

* `TypeCorrect`: `Spec => []TypeOK`;
* `NeverTorn`: `Spec => []NoTornHit`;
* `Refinement`: `Spec => HintSpec`, the seqlock implements the atomic entry;
* `Invariance`: `Spec => []IInv`, which the others rest on.

The assumptions are those of `EntryAssumption`: there is at least one word, and the
special values are not elements. `MaxVersion` occurs only in the guard of
`WriteBegin`; no fact about it is used, so that the bound does not limit the proofs.

`NoTornHit` is not inductive: it says nothing of a reader half-way through its copy.
`IInv` adds, from the writer's side, that the lock has one holder (`LockInv`), the
version is odd exactly while stores are in flight (`VersionInv`), the stores made so
far are the update's (`WritingInv`), and an entry at rest is one element's
(`StableInv`); from the reader's side, that as long as the version it started from
has not moved, what it has copied is what the entry holds (`ReaderInv`). The step
proof has a lemma for each conjunct or group of conjuncts (`TypeStep`, `RetryReader`,
`ReaderShape`, `SafeStep`, ...) and one case per action in each.

The refinement maps an odd version to `Busy`, an even one to the element or
`Absent`, and each reader's control state to what it has been told. `WriteBegin` is
`BeginUpdate`, `WriteEnd` is `EndUpdate`, `Lookup` is `Ask`, a successful `Verify` is
`AnswerHit`, the end of the last attempt and a confirmed `Recheck` are `AnswerMiss`;
every other step stutters. The point that needs the invariant is `Verify`: the copy
equals the entry *at that moment*, not only at some earlier one.

`T2InsertProofs` proves, for every set of rows, any levels, vectors, partitions and
index layouts, and any number of inserts in flight:

* `EntryIsHighest`: `Spec => []EntryHighest`;
* `EntryNeverFalls`: no step lowers the level of the entry point;
* `Invariance`: `Spec => []IInv`, which the others rest on.

The assumptions are those of `SelectionAssumption`; `MaxActive`, `Efc` and
`InsertAssumption` are not used.
`EntryHighest` does not say why an inserter's element is on its page when the meta page
is written, nor that `meta.level` is -1 as long as there is no entry point; `IInv` adds
both. Of an inserter's record it needs only the control state: the lemma `OwnStep`
covers every step that changes nothing else, `EarlySteps` and `LateSteps` apply it to the
search and to the reverse edges, and only `ElementStep` and `EntryStep` look at the
pages. The point of the proof is that `MaybeUpdateEntry` compares with the meta page
as it is under the lock, not with the level read in step 2.

`T2InsertLinksProofs` proves, for the same and any `Efc`:

* `LinksSafe`: `Spec => []LayerSafe`, every slot can be followed at its layer, and no list
  names an element twice or its owner;
* `LinksTyped`: `Spec => []TypeOK`;
* `LoopsProgress`: `Spec => LoopsEnd`, each turn of an insert's loops makes progress, whatever
  others rewire under it;
* `EntriesInSync`: `Spec => []InlineInSync`, after inserts that did not overlap the co-located
  entries describe the slots;
* `NearestStays`: `Spec => NearestKept`, of such inserts none takes from a list its nearest
  member, except for a nearer one.

The assumptions are `SelectionAssumption` and `InsertAssumption` (m at least 1).
`LayerSafe` is a matter of what an inserter carries from one buffer lock to the next, and
`LInv` describes that. The elements anyone may come across are `Known`: on their page,
and not between their element tuple and their turn at the meta page. All that an
inserter holds is known and has the layer it works at (`Descending`, `Searching`), and
the slots its search will fill are still empty. An array, on a page or not, is `Sound` if
its slots name known elements of the slot's layer and no two slots of a layer the same
one. For an overwritten slot the point is `Offering`: an element is written into others'
lists by its own inserter only, at most once per list and layer, because its own array is sound; so
`WriteReverse` may overwrite a slot that has changed since `ReadReverse` chose it
(`SnapshotStillValid` is violated, section 5) and yet never makes a double link.
`MaybeUpdateEntryStep` is where an element becomes known, and no list can name it before.
`Geometry` says that the layers partition the slots of a tuple, `RangeInLayer` that what
a neighbour is asked for lies in the layer of the inserter's slot; `LocalStep` covers the steps that
change only the inserter's variables, `PhaseKept` what a step does to everyone else. `LoopsProgress` needs
no more than `LInv`: candidates are known elements, so that there is a nearest one (`StepProgress`).

`InlineInSync` speaks of a graph at rest, `NearestKept` of one step, and the code makes both come
true over several buffer locks: it reads a list, chooses a slot, writes it, and then writes the
co-located entry. `SyncInv` says what holds in between as long as no two inserts have been in
flight at once. There is one inserter (`Alone`), every step is its own (`OnlyMover`), and so
what it is about to complete stays: the edge without its entry stands in layer 0 of the
neighbour (`Placed`), every co-located entry describes its slot or is the one that the inserter
writes next (`Described`), and putting the inserter into the chosen slot leaves something as near as
each member of the range it chose from (`Sparing`). The range is one layer of the list, or its
half without a filter, which is why the nearest of the whole list is spared
(`LinkKeepsNearest`). An insert that fails between the slot and the entry leaves it stale;
`Described` is claimed only as long as none has. An insert that runs alone after two that
overlapped is not covered either: `overlap` is never reset, here as in the runs.

`NeighborSelectionProofs` has what both rest on: the k nearest and the diverse selection are
candidates, each once, at most k (`NearestChosen`, `DiverseChosen`), and `TargetSlot` is in
the range or `None` (`TargetIn`).
The nearest candidate is always chosen (`DiverseNearest`), and so a slot outside the payload half is
given up only for a nearer one, or while one as near stays (`TargetSpares`).
These are facts about CHOOSE and a recursive function,
found without induction over data: the rank of a candidate is a bijection onto 0..n-1
(`NthIn`), and of a finite sequence of turns there is a first that goes wrong (`UpTo`).

`ParallelBuildProofs` proves, for any number of participants, any finite number of rows, any
levels, partitions, layouts and arenas, and whatever the searches find:

* `Published`: `Spec => []PublishedComplete`, a node whose own slots are still being written is in
  no list of another, is not the entry point and stands for no partition;
* `WithinArrays`: what a descent or a search copies and what a reverse edge may take lies within
  the array it is indexed in;
* `Typed`: `Spec => []TypeOK`; in particular a node is pushed once and the arena is never overrun;
* `RowsAccounted`: at the end the graph has been flushed once and first, every row is either
  one node of it or was inserted once, and all are counted;
* `NothingInFlight`: once the graph has been flushed no insert into it is in flight, and
  none begins;
* `GraphFrozen`: no step changes the nodes, their slots or the entry point after the flush;
* `NoneAboveEntry`: a node above the entry point is one whose insert has not come to its end.

The assumptions are those of `SelectionAssumption` and `BuildAssumption`: the rows are finitely
many and each has a partition, somebody takes part, m and the beam are at least 1. There are two
inductive invariants. `IInv` describes each participant
relative to the others (`Sound`): it holds `entryLock` exactly in the phases from reading the entry point
to the end of its insert, in a mode the others allow; in those phases the level it has
read is the present one; and it holds the lock exclusively unless its own node is no
higher. That is what `UpdateEntryPoint` needs, which compares with the level read at the
start: if it raises the entry point, no one else has read it. `OwnStep` covers every step
that leaves the nodes and the entry point alone, `SameHold` those that in addition keep
the lock; `PushStep`, `EntryRaised` and `FlushSteps` are the three kinds of steps that
do not.

`BuildInv` adds what can be come across. `Wired` are the nodes whose own slots are complete.
Every array names wired nodes only, and on each layer only nodes that have it (`Safe`); so do
the entry point and the partitions' entries (`EntryIn`, `PartsIn`), and all that a participant has in
hand (`Phase`): where it descends, its candidates, what it has found, and the reverse edges
it still owes, each within one layer of its target (`Due`). `PublishedComplete` alone is not inductive: an
insert could find an unfinished node in its own lists. That a node met on a layer has that layer
is what keeps the reads within the arrays, and that the layers of a node share no slot
(`Geometry`) what keeps it true when slots are written. `RowInv` says that a row is in the
hands of one participant. `MemStep` covers all steps of an insert, `OwnMove`
those that write nothing, `WireBuild` those that write the node's own slots, `OutMove` what
happens between inserts; `CopyIn` says what is read, `EdgesDue` what is owed.
`RoomInv` is the arena: what is spent is the last of running totals, which are shown to exist
and to agree on a common beginning (`TotalsExist`, `TotalsAgree`). `CountInv` is the account of the rows:
those taken and in nobody's hands are as many as have been counted, and those of them that are
not nodes have been written one by one after the flush (`Journal`).

`RowsAccounted` is `EachRowOnce` up to the pages: what is
written, not yet where it lands. `NothingInFlight` is the first conjunct of
`DiskMatchesGraph`, `NoneAboveEntry` the part of `LayersConnected` that has no reachability in it.

`CodeCacheArraysProofs` proves, for any number of lock-free scans, of writers, of
blocks and of offsets, any headroom and any length of the retire list:

* `MemorySafety`: `Spec => []ReaderMemorySafe`, what a scan may dereference stays
  allocated until it ends;
* `NoLiveFreed`: `Spec => []LiveNotFreed`;
* `NothingLost`: `Spec => []InsertsKept`, no growth loses an element;
* `TypeCorrect`: `Spec => []TypeOK`.

The assumptions are those of `ArraysAssumption`: the scans are finitely many, since
`active_scans` counts them, and no backend is a scan and a writer at the same time
(section 7). `MaxArrays` and `MaxLookups` occur only in guards and are not used.

The argument is the RECLAIM SAFETY ARGUMENT of `acorn_codecache.c` (283-318), and the
invariant says what the comment leaves to the reader. Besides the types (`MemoryInv`) it has:

* `CountInv`: `active_scans` is the number of scans between their increment and their
  decrement, so that a drain that reads zero knows there is none;
* `ReaderInv`: no scan can come to dereference what is freed, be it held, named by a
  directory that is held, or on its way from `"page"` (`Apart`);
* `DrainInv`: between a drain's reading of zero and its freeing, the same is true of
  all that is on the list. A scan that starts in this window is kept apart from the list by
  `LiveInv`: it can only acquire what is live, and nothing live is listed;
* `LiveInv`: what the slot leads to is neither freed nor listed, and no page array
  serves two blocks, without which `GrowPage` would retire an array that still serves another;
* `LengthInv`, `WriterInv`: where a writer is between its stores, and that the array
  it is about to retire is dead, allocated and not listed yet;
* `KeptInv`: no element that was ever inserted is missing in the live arrays.

`MemorySafety` needs neither a bound on the directories nor that a scan's `nblocks`
belongs to its `blocks`; a scan for which it does not is `"wild"` (`ReaderInBounds`, section 5) and is
counted as active for ever. The writers' invalidations are not covered: `WriterMemorySafe`
is false (section 5).

`CodeCacheSlotsProofs` proves, for any number of backends, slots, indexes, areas, open
scans and savepoints:

* `RefsCounted`: `Spec => []RefsCovered`, `active_scans` counts at least the references that
  handles remember and those being acquired; where it reads zero there are none of these. This
  does not say that no scan is open: the rollback of a savepoint makes the handle forget the
  references of scans that go on (run `savepoint`);
* `ServableHasPin`: `Spec => []ServablePinned`;
* `GenerationGuards`: `Spec => []GuardSound`, equal generations imply the same area,
  mapped, and its directory;
* `InsertsStay`: `Spec => []InsertOwnIncarnation`;
* `LoadsAlone`: `Spec => []LoaderAlone`;
* `TypeCorrect`: `Spec => []TypeOK`, with it that no release takes `active_scans` below
  zero and that every attachment element is in use or free.

The assumptions are those of `SlotsAssumption`: backends and indexes are finitely many
(the references to a slot are counted, and an attachment table has an element for each index).
The bounds occur in guards; only that the areas in use are within `MaxAreas` is
needed, for their type.

The six properties hang together, which is why there is one invariant (`IInv`) for
all of them. The chain from the code's locks to the generation is this:

* `LoaderAlone` and `PhaseInv` say who may write a slot: the loader that won the
  compare-and-swap, or the holder of `dir->lock`; an insert's test of the generation
  stays true as long as it holds `wlock`: an evictor of its slot has to take that lock, and
  no loader changes a slot that some handle is up to date with (`GenInv`).
* `VictimInv` says that an evictor's victim does not come back while it holds `dir->lock`:
  a loader needs that lock to publish.
* `SlotInv`: a servable slot has its pin and a directory in its area, and no two slots
  record the same area; `UnpublishedInv` and `PublishedInv` say the same of an area on its
  way into a slot, which is in nobody's table yet.
* `GenInv` is the heart of `GuardSound`: a handle's generation is at most its slot's, equality
  means the slot's area, and *no* handle is of the present generation while the slot is
  EMPTY or being loaded (`Fresh`). Without `Fresh` the clause about
  the directory would not be inductive: generation and area change at `LoadPublish`, the
  directory only at `LoadBlocks`.
* `TableInv` says that a backend's table never has two elements for one index or for one area,
  and that the free list is exactly the rest. `Forget` then forgets one area and one
  element, and `FreeElement` (a pigeonhole argument) shows that there is always one to store into.
* `RefsInv` counts references as tokens, one per handle and count, and one for a reference
  published and not yet validated (`References`): a step adds or removes one token at most, or the
  tokens of one handle, and `active_scans` moves by at least as much in the same direction. It
  is an inequality because `Forget` drops tokens and leaves the count (section 5, `RefsBalanced`).

The steps are grouped by what they touch: `Quiet` moves change a backend's locals only,
`CountSteps` the references, `SlotSteps` a slot; each conjunct has a lemma per group
(`...Step`), and frame lemmas (`QuietFrame`, `TableSame`) dispose of the rest.

`T2ScanProofs` proves, for any finite set of elements, any graph, heap TIDs, distances, codes,
co-located entries and combination of the GUCs:

* `ScanIsStream`: `Spec => StreamSpec`, a scan among vacuum, inserts and the cache implements
  the row stream that `RowStream` states;
* `ScanComplete`: `Spec => []Complete`;
* `ScanTyped`: `Spec => []TypeOK`;
* `Invariance`: `Spec => []IInv`, which the others rest on.

The assumptions are those of `ScanAssumption`: the built rows have a heap TID each, the lower
bound of a co-located entry is one, and no two elements have equal distances (section 7). In
the mapping a rescan and the end of a scan are the start of a stream, the fetch of a visible
row is `Return`, and all other steps stutter. What `IInv` adds, and why:

* A result names a heap TID, and by the time the executor fetches it vacuum may have freed it and
  an insert taken it. `SnapshotKept` says that the rows the snapshot sees keep theirs;
  `Owned`, that at the heap TID of an element to be emitted is its own row or nothing
  that is seen. `Owned` holds of an exact result from the time its page was read, but of a coded one
  only from rerank's look at the page; that is why rerank has to check that the
  tuple is still the one that was found (`StillThere`). `CopiesInv` says which of the three
  copies (page, code, co-located entry) may still tell the scan what (`Says`).
* `OrderInv`: a scan that claims an order emits the nearest result only when nothing that
  is left, be it a candidate or a result with only a bound, can be nearer (`ResultNearest`). The heads of
  the queues exist and are least because the queues are finite (`Heads`, `Minimal`).
* `ReachInv`: an element that was visited and is no candidate any more has its neighbours visited
  too, or still in the list that is being gone through. From that `Complete` follows at the end, when there is
  no candidate; what is reached in a number of steps is visited, by the least number for which
  it is not (`UpTo`), so that no induction over data is needed.

`RecordUndisturbed` and `Undisturbed` say what vacuum, inserts and the cache leave as it is
for a scan, `FreeTidKeeps` and `InsertRowKeeps` look at the two steps that touch heap TIDs,
and `DiscoverKeeps` at the one that all three ways of looking at a neighbour have in common.
`Complete` speaks of edges that were there all the time; an insert that rewires the graph
under a scan may hide an element from it, in the code as in the model.

No leaf of the proofs has a goal of the form `X \subseteq Y \cap Z`; the two inclusions are stated
apart, since Zenon in this version of tlapm also accepts such a goal when only one of
them follows.

The assumptions of the proofs are evaluated by TLC in the runs that extend the
modules. The invariants of both code-cache proofs, `LInv`, `SyncInv` and those of `T2ScanProofs` and
`ParallelBuildProofs` were checked by TLC first, that of the slots exhaustively within the bounds of
`slots` and by simulation with two slots and savepoints, the others exhaustively within those of
`t2_insert`, `t2_scan` and `build`.

Only model-checked: liveness (`LookupAnswers`, `OperationsEnd`, `BuildEnds`), which is beyond the
prover; `RefsBalanced` and `PinsAccounted`, which are true of one backend only; of `T2Insert`,
`Connected` (reachability, an induction over data); of `ParallelBuild`, `LayersConnected` (reachability again), that each row is found once
on the pages (`EachRowOnce`) and that these read as the graph (`DiskMatchesGraph`), since `Disk` and
`Flush` replay a log by recursion; the benchmark scripts, whose programs are constants.

## 7. What the models leave out

* *Weak memory beyond the barriers.* `CodeCacheEntry` reorders plain loads and
  stores between barriers. `CodeCacheSlots` and `CodeCacheArrays` are sequentially
  consistent per step: the full fences at 344, 376, 479 and 1012 order the
  accesses their algorithms depend on, and locks the rest.
* *Integer width.* The version and the generation are unbounded in the models and
  32 bits wide in the code; `active_scans` is shown never to go below zero.
* *Allocation failure of the hash tables and out-of-memory in the backend*. These ERRORs
  change no shared state, but `attach_store` may raise one in the middle of an attach or a load:
  the area then stays mapped without a hash entry, and a slot being loaded stays LOADING
  with its pin recorded, as after FATAL.
* *Scans held across transactions* (WITH HOLD cursors materialise at commit, so the
  index scan ends there).
* *One backend calling insert while a scan of its own is between two of its cache
  calls in the same function*: the cache is entered by one function at a time.
* *Pages.* `T2Insert` and `T2Scan` name a tuple by its element: that tuples fit their
  pages, page extension and WAL records are left out; `MemFlush` has pages. An element has
  one heap TID.
* *Vectors.* `T2Insert` and `ParallelBuild` have one dimension and no equal distances; ties and NaN are
  not considered.
* *Numbers.* The benchmark modules keep under which conditions a value was measured,
  not the value; thresholds on recall and latency only print or set an exit code.

## 8. Not modelled

* *Of the index build*: the histogram the meta page gets, the draw of levels (they are
  given), rows without a vector, WAL at the end of the build, and a participant that
  fails: the ERROR ends the leader's command, and the index is dropped with its
  transaction.
* *The byte accounting of the budget*: `evict_slot` reads `slot->bytes` at 442, before
  `wlock`; a growth in between leaves `total_bytes` too high. Statistics views and
  the LRU clock are read-only or a hint.
* *The Tier 1 hook* beyond the condition under which it adds a path: its executor works on
  pgvector's pages.
* *The cost model and the distance kernels*: arithmetic without state. *GUCs and the
  handler*: registration.
* *Reports and fixtures* of the benchmark: they read files and compute numbers.
* *Single-purpose probes*, one measurement each with no state of their own to hand
  on. Reading them showed: `gamma_sweep.py` checks no plan and leaves
  `tv_pm_*` and `tv_acorn_autoef` in place; `payload_m_sweep.py` leaves g3 and g4;
  `bench3way_pg.py` never turns the hook off, keeps settings from one configuration to
  the next and only prints its plans; `remeasure_money_cells.py` takes whichever variant
  `tv_acorn_idx` is; `plan_choice_probe.py` ignores the labels of its forced modes;
  `iterative_scan_bench.py` asks its truth of the table with the hnsw index in place.

## 9. Plan

1. `CodeCacheBudget`: the total is the sum of what is resident, up to what an eviction
   misjudges.
2. `HookScan`: Tier 1 scans over pgvector's pages.
