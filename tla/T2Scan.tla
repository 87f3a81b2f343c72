------------------------------- MODULE T2Scan -------------------------------
(***************************************************************************)
(* A Tier 2 streaming scan (acorn_scan.c, acorn_am.c) among what changes   *)
(* under it: rows deleted, vacuumed, their heap TIDs given to new rows;    *)
(* elements inserted, linked and cached; the index's code cache loaded,    *)
(* invalidated, regrown, evicted.  The scan works on three copies of what  *)
(* an element says: its page, co-located entries, cached codes.  Only the  *)
(* first is kept up to date, and only rerank_one looks at it again.        *)
(*                                                                         *)
(* An element tuple never moves and its TID is never reused: of what a     *)
(* page says, only `deleted` changes.  A row is named by its element; its  *)
(* heap TID is reused.  How an insert chooses neighbours is T2Insert's     *)
(* subject and how a cache array is replaced under its readers             *)
(* CodeCacheArrays': here any slot may be rewired and any array replaced.  *)
(***************************************************************************)
EXTENDS Integers, Sequences, FiniteSets, Functions

CONSTANTS
  Built,      \* rows the index was built on
  Added,      \* rows inserted later
  Tids,       \* heap TIDs
  FirstTid,   \* FirstTid[e]: heap TID of a built row
  Graph,      \* Graph[e]: layer-0 slots of a built element
  Entry,      \* the built index's entry point
  Exact,      \* Exact[e]: distance of e from the query
  Approx,     \* Approx[e]: the same by e's SQ8 code
  Lb,         \* Lb[e]: acorn_t2_inline_lb, a lower bound of Exact[e]
  Block,      \* Block[e]: e's page
  Matching,   \* elements whose filter value satisfies the scan keys
  Modes,      \* GUCs and index layouts considered; bound: which rows are deleted
  Window,     \* ACORN_T2_RERANK_WINDOW
  None        \* an invalid TID

Elements == Built \cup Added
Slots == DOMAIN Graph[Entry]

ASSUME ScanAssumption ==
  /\ IsFiniteSet(Elements) /\ Slots \subseteq Nat
  /\ None \notin Elements /\ None \notin Tids
  /\ FirstTid \in [Built -> Tids] /\ Entry \in Built
  /\ \A d, e \in Built : FirstTid[d] = FirstTid[e] => d = e
  /\ Graph \in [Built -> [Slots -> Built \cup {None}]]
  /\ Matching \subseteq Elements
  /\ \A f \in {Exact, Approx, Lb, Block} : f \in [Elements -> Int]
  /\ \A e \in Elements : Lb[e] <= Exact[e]
  /\ \A d, e \in Elements : Exact[d] = Exact[e] \/ Approx[d] = Approx[e] => d = e

VARIABLES
  row,      \* row[e]: absent, inserting, live or dead
  tid,      \* tid[e]: heaptids[0] of e's element
  heap,     \* heap[t]: the row at heap TID t
  written,  \* elements on their pages
  deleted,  \* those with the deleted flag
  nbr,      \* nbr[e][s]: layer-0 slots
  inl,      \* inl[e][s]: what the co-located entry describes
  entry,    \* the entry point on the meta page
  cache,    \* the index's code cache slot and the entries it serves
  mode,     \* the configuration of this run
  scan      \* the scan's variables

vars == <<row, tid, heap, written, deleted, nbr, inl, entry, cache, mode, scan>>
heapVars == <<row, tid, heap>>
pageVars == <<written, deleted, nbr, inl, entry>>

LeastOf(S) == CHOOSE x \in S : \A y \in S : x <= y

Closed == [pc |-> "closed", snapshot |-> {}, attached |-> FALSE, approx |-> FALSE,
           old |-> {}, C |-> {}, Cm |-> {}, R |-> {}, Rx |-> {}, visited |-> {},
           coded |-> {}, n_expansions |-> 0, node |-> None, tids |-> <<>>,
           todo |-> {}, fetch |-> None, rows |-> <<>>, seed |-> None, steady |-> {}]

NoCache == [state |-> "EMPTY", present |-> {}, dead |-> {}, toload |-> {}]

(* The layer-0 edges there are. *)
Edges == {d \in written \X written : d[2] \in Range(nbr[d[1]])}

Init ==
  /\ mode \in Modes
  /\ row = [e \in Elements |-> IF e \in Built THEN "live" ELSE "absent"]
  /\ tid = [e \in Elements |-> IF e \in Built THEN FirstTid[e] ELSE None]
  /\ heap = [t \in Tids |-> IF t \in Range(FirstTid)
                            THEN CHOOSE e \in Built : FirstTid[e] = t ELSE None]
  /\ written = Built /\ deleted = {}
  /\ nbr = [e \in Elements |-> IF e \in Built THEN Graph[e] ELSE [s \in Slots |-> None]]
  /\ inl = [e \in Elements |-> [s \in Slots |-> [elem |-> nbr[e][s], deleted |-> FALSE]]]
  /\ entry = Entry
  /\ cache = NoCache
  /\ scan = Closed

-----------------------------------------------------------------------------
(* Rows and vacuum *)

DeleteRow(e) ==
  /\ e \in mode.doomed /\ row[e] = "live"
  /\ row' = [row EXCEPT ![e] = "dead"]
  /\ UNCHANGED <<tid, heap, mode, cache, scan, pageVars>>

(* acorn_codecache_invalidate; acorn_cc_writer_attach skips a slot that is *)
(* not being served.                                                       *)
Invalidated(e) ==
  IF cache.state = "READY" THEN [cache EXCEPT !.present = @ \ {e}] ELSE cache

(* Variant: the callback answers for any row no snapshot sees. *)
DeadToAllUnseen(e) == e \notin scan.snapshot

(* acorn_bulkdelete's callback: no snapshot can see the row any more. *)
DeadToAll(e) == row[e] = "dead" /\ e \notin scan.snapshot

(* Flag and cache entry change under the element page's EXCLUSIVE lock. *)
BulkDelete(e) ==
  /\ e \in written \ deleted
  /\ DeadToAll(e)
  /\ deleted' = deleted \cup {e}
  /\ cache' = Invalidated(e)
  /\ UNCHANGED <<written, nbr, inl, entry, mode, scan, heapVars>>

(* The entry is gone and GenericXLogFinish does not happen. *)
BulkDeleteFails(e) ==
  /\ e \in written \ deleted
  /\ DeadToAll(e)
  /\ cache' = Invalidated(e)
  /\ UNCHANGED <<mode, scan, heapVars, pageVars>>

(* External: vacuum's second heap pass frees the TIDs the index forgot. *)
FreeTid(e) ==
  /\ e \in deleted \/ (e \notin written /\ DeadToAll(e))
  /\ tid[e] \in Tids /\ heap[tid[e]] = e
  /\ heap' = [heap EXCEPT ![tid[e]] = None]
  /\ UNCHANGED <<row, tid, mode, cache, scan, pageVars>>

-----------------------------------------------------------------------------
(* Inserts, one at a time: the heap row, the element with its neighbour    *)
(* tuple, reverse edges and their co-located entries, the cache upsert.    *)

Inserting == {e \in Added : row[e] = "inserting"}

InsertRow(e) ==
  /\ e \in Added /\ row[e] = "absent" /\ Inserting = {}
  /\ \E t \in Tids :
       /\ heap[t] = None
       /\ heap' = [heap EXCEPT ![t] = e]
       /\ tid' = [tid EXCEPT ![e] = t]
  /\ row' = [row EXCEPT ![e] = "inserting"]
  /\ UNCHANGED <<mode, cache, scan, pageVars>>

AppendElement(e) ==
  /\ e \in Inserting \ written
  /\ \E n \in written, highest \in BOOLEAN :
       /\ nbr' = [nbr EXCEPT ![e] = [s \in Slots |-> IF s = 1 THEN n ELSE None]]
       /\ inl' = IF mode.layout = "inline"
                  THEN [inl EXCEPT ![e][1] = [elem |-> n, deleted |-> n \in deleted]] ELSE inl
       /\ entry' = IF highest THEN e ELSE entry
  /\ written' = written \cup {e}
  /\ UNCHANGED <<deleted, mode, cache, scan, heapVars>>

LinkFrom(e, n, s) ==
  /\ e \in Inserting \cap written
  /\ n \in Range(nbr[e]) /\ e \notin Range(nbr[n])
  /\ nbr' = [nbr EXCEPT ![n][s] = e]
  /\ scan' = [scan EXCEPT !.steady = @ \ {<<n, nbr[n][s]>>}]
  /\ UNCHANGED <<written, deleted, inl, entry, mode, cache, heapVars>>

WriteInlineEntry(n, s) ==
  /\ mode.layout = "inline" /\ nbr[n][s] \in Inserting
  /\ inl' = [inl EXCEPT ![n][s] = [elem |-> nbr[n][s], deleted |-> FALSE]]
  /\ UNCHANGED <<written, deleted, nbr, entry, mode, cache, scan, heapVars>>

(* acorn_codecache_insert, and the commit.  A slot that is not served, or  *)
(* has no room, is skipped.  The entry's page array and the directory may  *)
(* be replaced by larger copies; an attached scan may go on reading what   *)
(* it had resolved.                                                        *)
FinishInsert(e) ==
  /\ e \in Inserting \cap written
  /\ row' = [row EXCEPT ![e] = "live"]
  /\ \/ UNCHANGED <<cache, scan>>
     \/ /\ cache.state = "READY"
        /\ cache' = [cache EXCEPT !.present = @ \cup {e}]
        /\ scan' \in {scan, [scan EXCEPT !.old = IF scan.attached
                                               THEN @ \cup cache.present ELSE @]}
  /\ UNCHANGED <<tid, heap, mode, pageVars>>

AbortInsert(e) ==
  /\ e \in Inserting
  /\ row' = [row EXCEPT ![e] = "dead"]
  /\ UNCHANGED <<tid, heap, mode, cache, scan, pageVars>>

-----------------------------------------------------------------------------
(* The code cache of the index *)

LoadBegin ==
  /\ mode.layout = "cached"
  /\ cache.state = "EMPTY"
  /\ cache' = [NoCache EXCEPT !.state = "LOADING", !.toload = {Block[e] : e \in written}]
  /\ UNCHANGED <<mode, scan, heapVars, pageVars>>

(* One page, under its SHARE lock. *)
LoadPage ==
  LET blkno    == LeastOf(cache.toload)
      elements == {e \in written : Block[e] = blkno}
  IN /\ cache.toload # {}
     /\ cache' = [cache EXCEPT !.toload = @ \ {blkno},
                               !.present = @ \cup elements,
                               !.dead = @ \cup (elements \cap deleted)]
     /\ UNCHANGED <<mode, scan, heapVars, pageVars>>

(* READY, or PARTIAL when the budget or an error ended it early. *)
LoadEnd ==
  /\ cache.state = "LOADING"
  /\ cache' = [cache EXCEPT !.state = "READY", !.toload = {}]
  /\ UNCHANGED <<mode, scan, heapVars, pageVars>>

(* A slot with an active scan is not evicted (CodeCacheSlots). *)
Evict ==
  /\ cache.state = "READY" /\ ~scan.attached
  /\ cache' = NoCache
  /\ UNCHANGED <<mode, scan, heapVars, pageVars>>

-----------------------------------------------------------------------------
(* The scan *)

(* Not inside an expansion, and no row on its way. *)
Between == scan.pc = "next" /\ scan.todo = {} /\ scan.fetch = None

(* acorn_rescan, then the first amgettuple; the snapshot is the query's,   *)
(* so a rescan keeps it.  acorn_codecache_begin_scan does not wait for a   *)
(* loader.                                                                 *)
StreamBegin ==
  LET attached == mode.layout = "cached" /\ cache.state = "READY"
  IN scan' = [Closed EXCEPT
                !.pc = "open", !.attached = attached,
                !.approx = attached \/ mode.layout = "inline",
                !.snapshot = IF scan.pc = "closed" THEN {e \in Elements : row[e] = "live"}
                             ELSE scan.snapshot,
                !.steady = Edges]

Rescan ==
  /\ scan.pc = "next" => Between
  /\ StreamBegin
  /\ UNCHANGED <<mode, cache, heapVars, pageVars>>

EndScan ==
  /\ scan.pc # "closed"
  /\ scan' = Closed
  /\ UNCHANGED <<mode, cache, heapVars, pageVars>>

(* What the scan takes for the distance of a discovered element. *)
Found(e) == IF e \in scan.coded THEN Approx[e] ELSE Exact[e]
Bound(e) ==
  IF e \in scan.coded THEN (IF mode.bound THEN Lb[e] ELSE Approx[e]) ELSE Exact[e]

Nearest(S) == CHOOSE e \in S : \A x \in S : Found(e) <= Found(x)
RHead == CHOOSE e \in scan.R : \A x \in scan.R : Bound(e) <= Bound(x)
RxHead == CHOOSE e \in scan.Rx : \A x \in scan.Rx : Exact[e] <= Exact[x]

(* Variant: only passing elements become candidates. *)
DiscoverPassing(e, r, coded, dead) ==
  LET passes == ~dead /\ e \in Matching
  IN [r EXCEPT !.visited = @ \cup {e},
               !.coded = IF coded THEN @ \cup {e} ELSE @,
               !.C = IF passes THEN @ \cup {e} ELSE @,
               !.R = IF passes THEN @ \cup {e} ELSE @]

(* Element e is found, through its code or on its page, dead or alive. *)
Discover(e, r, coded, dead) ==
  LET passes == ~dead /\ e \in Matching
  IN [r EXCEPT !.visited = @ \cup {e},
               !.coded = IF coded THEN @ \cup {e} ELSE @,
               !.C = IF mode.member_first /\ passes THEN @ ELSE @ \cup {e},
               !.Cm = IF mode.member_first /\ passes THEN @ \cup {e} ELSE @,
               !.R = IF passes THEN @ \cup {e} ELSE @]

(* acorn_t2_greedy_descent ends at the entry point or nearer. *)
Seed(e) ==
  /\ scan.pc = "open"
  /\ e \in written /\ Exact[e] <= Exact[entry]
  /\ scan' = Discover(e, [scan EXCEPT !.pc = "next", !.seed = e], FALSE, e \in deleted)
  /\ UNCHANGED <<mode, cache, heapVars, pageVars>>

(* The expansion gate of acorn_t2_stream_next.  Heads are by distance; the *)
(* eager mode compares the lower of their bounds with the nearest result.  *)
Gate ==
  /\ scan.C \cup scan.Cm # {}
  /\ scan.n_expansions < mode.ef
  /\ \/ mode.buffered
     \/ \E S \in {scan.C, scan.Cm} \ {{}} :
          /\ scan.R # {} => Bound(Nearest(S)) <= Found(RHead)
          /\ scan.approx /\ scan.Rx # {} => Bound(Nearest(S)) <= Exact[RxHead]

Candidate ==
  IF mode.member_first /\ scan.Cm # {} THEN Nearest(scan.Cm)
  ELSE Nearest(scan.C \cup scan.Cm)

(* Copying the neighbour slots of the popped candidate under SHARE. *)
ReadNeighbors ==
  /\ Between /\ Gate
  /\ LET c == Candidate
     IN scan' = [scan EXCEPT !.C = @ \ {c}, !.Cm = @ \ {c},
                             !.n_expansions = @ + 1,
                             !.node = c, !.tids = nbr[c],
                             !.todo = {s \in Slots : nbr[c][s] # None}]
  /\ UNCHANGED <<mode, cache, heapVars, pageVars>>

Visited(r, s) == [r EXCEPT !.todo = @ \ {s}]

VisitAgain ==
  LET s == LeastOf(scan.todo)
  IN /\ scan.todo # {} /\ scan.tids[s] \in scan.visited
     /\ scan' = Visited(scan, s)
     /\ UNCHANGED <<mode, cache, heapVars, pageVars>>

(* acorn_t2_load_node. *)
VisitPage ==
  LET s == LeastOf(scan.todo)
      e == scan.tids[s]
  IN /\ scan.todo # {} /\ e \notin scan.visited
     /\ mode.layout = "inline" => inl[scan.node][s].elem # e
     /\ scan' = Discover(e, Visited(scan, s), FALSE, e \in deleted)
     /\ UNCHANGED <<mode, cache, heapVars, pageVars>>

(* A hit in the code cache; the entry may be one that is no longer kept up. *)
VisitCached ==
  LET s == LeastOf(scan.todo)
      e == scan.tids[s]
  IN /\ scan.todo # {} /\ e \notin scan.visited
     /\ scan.attached /\ e \in cache.present \cup scan.old
     /\ scan' = Discover(e, Visited(scan, s), TRUE, e \in cache.dead)
     /\ UNCHANGED <<mode, cache, heapVars, pageVars>>

(* The co-located entry of the slot, if it still describes the slot's      *)
(* element.                                                                *)
VisitInline ==
  LET s == LeastOf(scan.todo)
      e == scan.tids[s]
      entry_s == inl[scan.node][s]
  IN /\ mode.layout = "inline"
     /\ scan.todo # {} /\ e \notin scan.visited
     /\ entry_s.elem = e
     /\ scan' = Discover(e, Visited(scan, s), TRUE, entry_s.deleted)
     /\ UNCHANGED <<mode, cache, heapVars, pageVars>>

(* While a result could still come before the exact head. *)
MustRerank ==
  /\ scan.approx /\ scan.R # {}
  /\ scan.Rx # {} =>
       \/ Bound(RHead) <= Exact[RxHead]
       \/ ~mode.bound /\ Cardinality(scan.Rx) < Window

(* Variant: a coded result is emitted as found. *)
StillThereCoded(e) == TRUE

(* acorn_t2_rerank_one: the element page again. *)
StillThere(e) == e \notin deleted

RerankOne ==
  /\ Between /\ ~Gate
  /\ MustRerank
  /\ scan' = [scan EXCEPT !.R = @ \ {RHead},
                          !.Rx = IF StillThere(RHead) THEN @ \cup {RHead} ELSE @]
  /\ UNCHANGED <<mode, cache, heapVars, pageVars>>

Result == IF scan.approx THEN RxHead ELSE RHead

Emit ==
  /\ Between /\ ~Gate /\ ~MustRerank
  /\ (IF scan.approx THEN scan.Rx ELSE scan.R) # {}
  /\ scan' = [scan EXCEPT !.R = IF scan.approx THEN @ ELSE @ \ {Result},
                          !.Rx = @ \ {Result},
                          !.fetch = Result]
  /\ UNCHANGED <<mode, cache, heapVars, pageVars>>

(* External: the executor fetches the heap TID under its MVCC snapshot and *)
(* rechecks nothing.                                                       *)
Fetch ==
  LET x == heap[tid[scan.fetch]]
  IN /\ scan.fetch # None
     /\ scan' = [scan EXCEPT !.fetch = None,
                             !.rows = IF x \in scan.snapshot THEN Append(@, x) ELSE @]
     /\ UNCHANGED <<mode, cache, heapVars, pageVars>>

Exhaust ==
  /\ Between /\ ~Gate /\ ~MustRerank
  /\ (IF scan.approx THEN scan.Rx ELSE scan.R) = {}
  /\ scan' = [scan EXCEPT !.pc = "exhausted"]
  /\ UNCHANGED <<mode, cache, heapVars, pageVars>>

Next ==
  \/ Rescan \/ EndScan
  \/ ReadNeighbors \/ VisitAgain \/ VisitPage \/ VisitCached \/ VisitInline
  \/ RerankOne \/ Emit \/ Fetch \/ Exhaust
  \/ \E e \in Elements :
       \/ Seed(e)
       \/ DeleteRow(e) \/ BulkDelete(e) \/ BulkDeleteFails(e) \/ FreeTid(e)
       \/ InsertRow(e) \/ AppendElement(e) \/ FinishInsert(e) \/ AbortInsert(e)
       \/ \E s \in Slots : WriteInlineEntry(e, s)
       \/ \E n \in Elements, s \in Slots : LinkFrom(e, n, s)
  \/ LoadBegin \/ LoadPage \/ LoadEnd \/ Evict

Spec == Init /\ [][Next]_vars

-----------------------------------------------------------------------------
(* Properties *)

(* Every variable stays in its type; a deleted element is a dead row's.    *)
TypeOK ==
  /\ row \in [Elements -> {"absent", "inserting", "live", "dead"}]
  /\ tid \in [Elements -> Tids \cup {None}]
  /\ heap \in [Tids -> Elements \cup {None}]
  /\ deleted \subseteq written /\ written \subseteq Elements
  /\ \A e \in deleted : row[e] = "dead"
  /\ nbr \in [Elements -> [Slots -> Elements \cup {None}]]
  /\ entry \in written
  /\ cache.state \in {"EMPTY", "LOADING", "READY"}
  /\ cache.dead \subseteq cache.present /\ cache.present \subseteq written
  /\ mode \in Modes
  /\ scan.pc \in {"closed", "open", "next", "exhausted"}

(* The scan keys and the snapshot's visibility, of the row itself. *)
Wanted == scan.snapshot \cap Matching

(* Rows come in the order of their exact distances, also when they were    *)
(* found by SQ8 codes: claimed for buffered emission, given an error bound *)
(* or exact distances ("zero inversions over the discovered set",          *)
(* acorn_scan.c:2267).                                                     *)
Sorted == scan.pc # "closed" /\ mode.buffered /\ (scan.approx => mode.bound)

(* acorn_gettuple: the rows the executor gets are a row stream: each is a  *)
(* visible row that satisfies the scan keys, none comes twice, and order   *)
(* is kept.  A stale code of a vacuumed element must not bring the row     *)
(* that has its heap TID now.                                              *)
Stream == INSTANCE RowStream WITH
            Distance <- Exact, wanted <- Wanted, sorted <- Sorted, returned <- scan.rows
StreamSpec == Stream!Spec

(* The elements that k <= |Elements| of the edges lead to. *)
Reached(from, edges) ==
  LET within[k \in 0..Cardinality(Elements)] ==
        IF k = 0 THEN {from}
        ELSE within[k - 1] \cup {x \in Elements : \E e \in within[k - 1] : <<e, x>> \in edges}
  IN within[Cardinality(Elements)]

(* acorn_t2_stream_next: a scan that ends with no candidate left has       *)
(* returned every wanted row whose element the seed leads to by edges that *)
(* have been there since it began, through failing and deleted elements    *)
(* alike, whichever copies it read (the invariant of ACORN: every          *)
(* neighbour stays expandable).                                            *)
Complete ==
  scan.pc = "exhausted" /\ scan.C \cup scan.Cm = {} =>
    Reached(scan.seed, scan.steady) \cap Wanted \subseteq Range(scan.rows)
=============================================================================
