--------------------------- MODULE CodeCacheSlots ---------------------------
(***************************************************************************)
(* The life of the code cache's directory slots (acorn_codecache.c): claim *)
(* a slot, load an index into a fresh DSA area, attach, scan under a       *)
(* reference, write through, evict, reload; transaction and                *)
(* subtransaction aborts, errors inside the loader, terminated backends.   *)
(*                                                                         *)
(* An area is a number, the position of the index it was loaded from in    *)
(* `contents`; a dsa_pointer is the area it points into.  A handle is an   *)
(* element of the backend's hash table of attachments.  Removing it leaves *)
(* its memory as it was, for the scans that still hold a pointer to it,    *)
(* until dynahash hands the element out again, most recently freed first.  *)
(* LRU order, byte accounting and the arrays inside an area are other      *)
(* modules' subject: any evictable slot may be the victim.                 *)
(***************************************************************************)
EXTENDS Integers, SequencesExt

CONSTANTS
  Backends,   \* server processes
  Indexes,    \* (dboid, relfilenumber) pairs
  NSlots,     \* length of the directory
  Dim,        \* Dim[i]: dimension of index i
  NoIndex,    \* InvalidOid
  NoBackend,  \* a free lock
  MaxAreas,   \* bound: areas ever created
  MaxScans,   \* bound: scans of one backend open at once
  MaxDepth    \* bound: nested subtransactions

ASSUME SlotsAssumption ==
  /\ IsFiniteSet(Backends) /\ IsFiniteSet(Indexes)
  /\ NSlots \in Nat \ {0}
  /\ Dim \in [Indexes -> Nat \ {0}]
  /\ NoIndex \notin Indexes
  /\ NoBackend \notin Backends
  /\ MaxAreas \in Nat /\ MaxScans \in Nat /\ MaxDepth \in Nat

Slots == 1..NSlots
Elems == 1..Cardinality(Indexes)

VARIABLES
  dirLock,    \* holder of dir->lock, when held over several steps
  wlock,      \* wlock[s]: holder of slot->wlock
  slot,       \* slot[s]: the shared slot
  active,     \* active[s]: slot->active_scans
  contents,   \* contents[a]: the index whose codes area a holds
  creatorPin, \* areas whose dsa_pin is in force
  mapped,     \* mapped[b]: areas in b's address space
  handle,     \* handle[b][e]: element e of b's attachment table
  freeList,   \* freeList[b]: its unused elements, next one first
  scans,      \* scans[b]: b's open scans that use the cache, by number
  depth,      \* depth[b]: nesting of b's subtransactions
  dirKnown,   \* dirKnown[b]: acorn_cc_dir # NULL in b
  pc,         \* control state of each backend
  reg         \* reg[b]: its local variables

shared == <<dirLock, wlock, slot, active, contents, creatorPin>>
local  == <<mapped, handle, freeList, scans, depth, dirKnown, pc, reg>>
vars   == <<dirLock, wlock, slot, active, contents, creatorPin,
            mapped, handle, freeList, scans, depth, dirKnown, pc, reg>>

NoArea   == 0
Areas    == 1..MaxAreas
Servable(st) == st \in {"READY", "PARTIAL"}
FreeSlot == [key |-> NoIndex, state |-> "EMPTY", gen |-> 0, area |-> NoArea,
             pinned |-> FALSE, blocks |-> NoArea, dim |-> 0, retired |-> {}]
NoHandle == [present |-> FALSE, key |-> NoIndex, area |-> NoArea, slot |-> 1, gen |-> 0,
             blocks |-> NoArea, refs |-> 0]
NoReg    == [idx |-> NoIndex, cc |-> 1, slot |-> 1, area |-> NoArea, op |-> "scan",
             cached |-> FALSE, dies |-> FALSE, ret |-> "idle",
             victim |-> 1, vkey |-> NoIndex]

Init ==
  /\ dirLock = NoBackend
  /\ wlock = [s \in Slots |-> NoBackend]
  /\ slot = [s \in Slots |-> FreeSlot]
  /\ active = [s \in Slots |-> 0]
  /\ contents = <<>>
  /\ creatorPin = {}
  /\ mapped = [b \in Backends |-> {}]
  /\ handle = [b \in Backends |-> [e \in Elems |-> NoHandle]]
  /\ freeList = [b \in Backends |-> [k \in Elems |-> k]]
  /\ scans = [b \in Backends |-> <<>>]
  /\ depth = [b \in Backends |-> 0]
  /\ dirKnown = [b \in Backends |-> FALSE]
  /\ pc = [b \in Backends |-> "idle"]
  /\ reg = [b \in Backends |-> NoReg]

-----------------------------------------------------------------------------
(* Helpers *)

Goto(b, l) == pc' = [pc EXCEPT ![b] = l]
Go(b, l)   == Goto(b, l) /\ UNCHANGED reg
Done(b)    == Goto(b, "idle") /\ reg' = [reg EXCEPT ![b] = NoReg]
GoBack(b)  == IF reg[b].ret = "idle" THEN Done(b) ELSE Go(b, reg[b].ret)
At(b, l)   == pc[b] = l
DirFree    == dirLock = NoBackend

\* acorn_cc_attach_find.
Attached(b, i) == \E e \in Elems : handle[b][e].present /\ handle[b][e].key = i
EntryOf(b, i)  == CHOOSE e \in Elems : handle[b][e].present /\ handle[b][e].key = i

\* The test every user of a cached attachment repeats: same incarnation,
\* same index, servable.
Live(h, i) ==
  /\ h.gen = slot[h.slot].gen
  /\ slot[h.slot].key = i
  /\ Servable(slot[h.slot].state)

\* acorn_cc_forget_attach: unmap the area, remove the hash entry.
Forget(b, i) ==
  IF Attached(b, i)
  THEN LET e == EntryOf(b, i) IN
       /\ mapped' = [mapped EXCEPT ![b] = @ \ {handle[b][e].area}]
       /\ handle' = [handle EXCEPT ![b][e].present = FALSE]
       /\ freeList' = [freeList EXCEPT ![b] = <<e>> \o @]
  ELSE UNCHANGED <<mapped, handle, freeList>>

\* acorn_cc_attach_store: enter the hash entry, with no reference on it.
StoreHandle(b, i, s, a, l) ==
  LET e == IF Attached(b, i) THEN EntryOf(b, i) ELSE Head(freeList[b]) IN
  /\ handle' = [handle EXCEPT ![b][e] =
       [present |-> TRUE, key |-> i, area |-> a, slot |-> s,
        gen |-> slot[s].gen, blocks |-> a, refs |-> 0]]
  /\ freeList' = [freeList EXCEPT ![b] = IF Attached(b, i) THEN @ ELSE Tail(@)]
  /\ reg' = [reg EXCEPT ![b].cc = e]
  /\ Goto(b, l)

SlotsOf(i) == {s \in Slots : slot[s].key = i}

\* An ERROR aborts the innermost transaction or subtransaction: the scans it
\* opened vanish without amendscan.
Raise(b, dies) ==
  LET survivors == {k \in DOMAIN scans[b] :
                      depth[b] > 0 /\ ~dies /\ scans[b][k].level < depth[b]} IN
  /\ scans' = [scans EXCEPT ![b] = Restrict(@, survivors)]
  /\ depth' = [depth EXCEPT ![b] = IF @ = 0 \/ dies THEN 0 ELSE @ - 1]
  /\ reg' = [reg EXCEPT ![b] = [NoReg EXCEPT !.dies = dies]]
  /\ Goto(b, "abort")

-----------------------------------------------------------------------------
(* begin_scan *)

BeginScan(b, i) ==
  /\ At(b, "idle")
  /\ DOMAIN scans[b] # 1..MaxScans
  /\ dirKnown' = [dirKnown EXCEPT ![b] = TRUE]
  /\ IF Attached(b, i) /\ Live(handle[b][EntryOf(b, i)], i)
     THEN /\ Goto(b, "acquire")
          /\ reg' = [reg EXCEPT ![b] = [NoReg EXCEPT !.idx = i,
                         !.cc = EntryOf(b, i), !.cached = TRUE]]
          /\ UNCHANGED <<mapped, handle, freeList>>
     ELSE /\ Goto(b, "lookup")
          /\ reg' = [reg EXCEPT ![b] = [NoReg EXCEPT !.idx = i]]
          /\ Forget(b, i)
  /\ UNCHANGED <<shared, scans, depth>>

\* slot_lookup: the index's slot, else the first unclaimed one, else no cache.
\* dir->lock is released before the slot is used.
SlotLookup(b) ==
  LET i == reg[b].idx IN
  /\ At(b, "lookup")
  /\ DirFree
  /\ LET found == IF SlotsOf(i) # {} THEN SlotsOf(i) ELSE SlotsOf(NoIndex) IN
     IF found = {}
     THEN Done(b) /\ UNCHANGED slot
     ELSE LET s == Min(found) IN
          /\ slot' = [slot EXCEPT ![s].key = i]
          /\ reg' = [reg EXCEPT ![b].slot = s]
          /\ Goto(b, "state")
  /\ UNCHANGED <<dirLock, wlock, active, contents, creatorPin,
                 mapped, handle, freeList, scans, depth, dirKnown>>

\* A claim that is not a compare-and-swap from EMPTY.
ReadStateNoCas(b) ==
  LET s == reg[b].slot IN
  /\ At(b, "state")
  /\ IF Servable(slot[s].state)
     THEN Go(b, "attach") /\ UNCHANGED slot
     ELSE slot' = [slot EXCEPT ![s].state = "LOADING"] /\ Go(b, "admit")
  /\ UNCHANGED <<dirLock, wlock, active, contents, creatorPin,
                 mapped, handle, freeList, scans, depth, dirKnown>>

\* Read the state, and claim the load by CAS if it is EMPTY.
ReadState(b) ==
  LET s == reg[b].slot IN
  /\ At(b, "state")
  /\ CASE slot[s].state = "EMPTY" ->
            /\ slot' = [slot EXCEPT ![s].state = "LOADING"]
            /\ Go(b, "admit")
       [] slot[s].state = "LOADING" -> Done(b) /\ UNCHANGED slot
       [] OTHER -> Go(b, "attach") /\ UNCHANGED slot
  /\ UNCHANGED <<dirLock, wlock, active, contents, creatorPin,
                 mapped, handle, freeList, scans, depth, dirKnown>>

\* The dim check, then acorn_cc_attach: reuse the hash entry, or map the
\* area under dir->lock after a second look at the slot.  Mapping an area a
\* second time is an ERROR (dsm_attach).
Attach(b) ==
  LET i == reg[b].idx
      s == reg[b].slot
      next == IF reg[b].op = "scan" THEN "acquire" ELSE "wlock"
      fits == reg[b].op = "scan" => slot[s].dim = Dim[i]
      holds == Servable(slot[s].state) /\ slot[s].key = i IN
  /\ At(b, "attach")
  /\ \/ /\ fits /\ Attached(b, i)
        /\ reg' = [reg EXCEPT ![b].cc = EntryOf(b, i)]
        /\ Goto(b, next)
        /\ UNCHANGED <<mapped, handle, freeList, scans, depth>>
     \/ /\ ~fits \/ (~Attached(b, i) /\ DirFree /\ ~holds)
        /\ Done(b)
        /\ UNCHANGED <<mapped, handle, freeList, scans, depth>>
     \/ /\ fits /\ ~Attached(b, i) /\ DirFree /\ holds
        /\ IF slot[s].area \in mapped[b]
           THEN Raise(b, FALSE) /\ UNCHANGED <<mapped, handle, freeList>>
           ELSE /\ mapped' = [mapped EXCEPT ![b] = @ \cup {slot[s].area}]
                /\ StoreHandle(b, i, s, slot[s].area, next)
                /\ UNCHANGED <<scans, depth>>
  /\ UNCHANGED <<shared, dirKnown>>

\* scan_acquire: publish the reference ...
AcquireIncSkipped(b) ==
  /\ At(b, "acquire")
  /\ Goto(b, "validate")
  /\ UNCHANGED <<shared, mapped, handle, freeList, scans, depth, dirKnown, reg>>

AcquireInc(b) ==
  /\ At(b, "acquire")
  /\ active' = [active EXCEPT ![handle[b][reg[b].cc].slot] = @ + 1]
  /\ Goto(b, "validate")
  /\ UNCHANGED <<dirLock, wlock, slot, contents, creatorPin,
                 mapped, handle, freeList, scans, depth, dirKnown, reg>>

\* ... then look again, and back out of a slot that died ...
AcquireValidate(b) ==
  LET i == reg[b].idx
      e == reg[b].cc
      h == handle[b][e] IN
  /\ At(b, "validate")
  /\ IF Live(h, i)
     THEN /\ handle' = [handle EXCEPT ![b][e].refs = @ + 1]
          /\ Go(b, "snapshot")
          /\ UNCHANGED <<active, mapped, freeList>>
     ELSE /\ active' = [active EXCEPT ![h.slot] = @ - 1]
          /\ IF reg[b].cached
             THEN /\ Forget(b, i)
                  /\ Goto(b, "lookup")
                  /\ reg' = [reg EXCEPT ![b].cached = FALSE]
             ELSE UNCHANGED <<mapped, handle, freeList>> /\ Done(b)
  /\ UNCHANGED <<dirLock, wlock, slot, contents, creatorPin,
                 scans, depth, dirKnown>>

\* ... and only then read where the block directory is.
AcquireSnapshot(b) ==
  LET e == reg[b].cc IN
  /\ At(b, "snapshot")
  /\ handle' = [handle EXCEPT ![b][e].blocks = slot[handle[b][e].slot].blocks]
  /\ \E k \in (1..MaxScans) \ DOMAIN scans[b] :
       scans' = [scans EXCEPT ![b] = [j \in DOMAIN scans[b] \cup {k} |->
         IF j = k THEN [idx |-> reg[b].idx, cc |-> e, level |-> depth[b]] ELSE scans[b][j]]]
  /\ Done(b)
  /\ UNCHANGED <<shared, mapped, freeList, depth, dirKnown>>

-----------------------------------------------------------------------------
(* acorn_cc_load, by the winner of the CAS *)

\* No eviction when the projected size exceeds the whole budget.
SkipAdmission(b) ==
  /\ At(b, "admit")
  /\ Goto(b, "create")
  /\ UNCHANGED <<shared, mapped, handle, freeList, scans, depth, dirKnown, reg>>

\* dsa_create, dsa_pin, dsa_pin_mapping.
LoadCreate(b) ==
  LET a == Len(contents) + 1 IN
  /\ At(b, "create")
  /\ a <= MaxAreas
  /\ contents' = Append(contents, reg[b].idx)
  /\ creatorPin' = creatorPin \cup {a}
  /\ mapped' = [mapped EXCEPT ![b] = @ \cup {a}]
  /\ reg' = [reg EXCEPT ![b].area = a]
  /\ Goto(b, "publish")
  /\ UNCHANGED <<dirLock, wlock, slot, active, handle, freeList, scans, depth,
                 dirKnown>>

LoadPublish(b) ==
  /\ At(b, "publish")
  /\ DirFree
  /\ LET s == reg[b].slot IN
     slot' = [slot EXCEPT ![s] =
                [slot[s] EXCEPT !.area = reg[b].area, !.pinned = TRUE,
                                !.dim = Dim[reg[b].idx], !.gen = slot[s].gen + 1]]
  /\ Goto(b, "blocks")
  /\ UNCHANGED <<dirLock, wlock, active, contents, creatorPin,
                 mapped, handle, freeList, scans, depth, dirKnown, reg>>

\* Outside the lock: the block directory, and the loader's own attachment.
LoadBlocks(b) ==
  LET s == reg[b].slot IN
  /\ At(b, "blocks")
  /\ slot' = [slot EXCEPT ![s].blocks = reg[b].area]
  /\ StoreHandle(b, reg[b].idx, s, reg[b].area, "fill")
  /\ UNCHANGED <<dirLock, wlock, active, contents, creatorPin,
                 mapped, scans, depth, dirKnown>>

\* The main-fork walk ends, at the last block or at the budget.
LoadFinish(b) ==
  /\ At(b, "fill")
  /\ \E st \in {"READY", "PARTIAL"} :
       slot' = [slot EXCEPT ![reg[b].slot].state = st]
  /\ Goto(b, "attach")
  /\ UNCHANGED <<dirLock, wlock, active, contents, creatorPin,
                 mapped, handle, freeList, scans, depth, dirKnown, reg>>

\* dsa_create fails, before the PG_TRY: the claim is not undone.
LoadCreateFails(b) ==
  /\ At(b, "create")
  /\ Raise(b, FALSE)
  /\ UNCHANGED <<shared, mapped, handle, freeList, dirKnown>>

\* dsa_allocate0 of the block directory fails, still before the PG_TRY: the
\* area stays pinned and mapped, and no slot has recorded it.
LoadAllocateFails(b) ==
  /\ At(b, "publish")
  /\ Raise(b, FALSE)
  /\ UNCHANGED <<shared, mapped, handle, freeList, dirKnown>>

\* An error in the walk: PG_CATCH publishes what is loaded and re-throws.
LoadError(b) ==
  /\ At(b, "fill")
  /\ slot' = [slot EXCEPT ![reg[b].slot].state = "PARTIAL"]
  /\ Raise(b, FALSE)
  /\ UNCHANGED <<dirLock, wlock, active, contents, creatorPin,
                 mapped, handle, freeList, dirKnown>>

-----------------------------------------------------------------------------
(* The end of a scan, and of transactions *)

\* release_one_ref or release_all_refs on b's element e: n references go;
\* the last reader out drains the retire list.
Release(b, e, n, ret) ==
  LET s == handle[b][e].slot IN
  /\ handle' = [handle EXCEPT ![b][e].refs = @ - n]
  /\ active' = [active EXCEPT ![s] = @ - n]
  /\ IF active[s] = n /\ slot[s].retired # {}
     THEN /\ reg' = [reg EXCEPT ![b] = [@ EXCEPT !.cc = e, !.ret = ret]]
          /\ Goto(b, "drain")
     ELSE Go(b, ret)

EndScan(b) ==
  /\ At(b, "idle")
  /\ \E k \in DOMAIN scans[b] :
       LET e == scans[b][k].cc IN
       /\ scans' = [scans EXCEPT ![b] = Restrict(@, DOMAIN @ \ {k})]
       /\ IF handle[b][e].refs > 0
          THEN Release(b, e, 1, "idle")
          ELSE UNCHANGED <<handle, active, reg, pc>>
  /\ UNCHANGED <<dirLock, wlock, slot, contents, creatorPin,
                 mapped, freeList, depth, dirKnown>>

\* drain_retired, under wlock, with the caller's mapping of the area.
Drain(b) ==
  LET s == handle[b][reg[b].cc].slot IN
  /\ At(b, "drain")
  /\ wlock[s] = NoBackend
  /\ slot' = [slot EXCEPT ![s].retired = IF active[s] = 0 THEN {} ELSE @]
  /\ GoBack(b)
  /\ UNCHANGED <<dirLock, wlock, active, contents, creatorPin,
                 mapped, handle, freeList, scans, depth, dirKnown>>

Savepoint(b) ==
  /\ At(b, "idle")
  /\ depth[b] < MaxDepth
  /\ depth' = [depth EXCEPT ![b] = @ + 1]
  /\ UNCHANGED <<shared, mapped, handle, freeList, scans, dirKnown, pc, reg>>

\* A committed subtransaction's scans belong to its parent.
ReleaseSavepoint(b) ==
  /\ At(b, "idle")
  /\ depth[b] > 0
  /\ depth' = [depth EXCEPT ![b] = @ - 1]
  /\ scans' = [scans EXCEPT ![b] =
       [k \in DOMAIN scans[b] |->
          [scans[b][k] EXCEPT !.level = Min({scans[b][k].level, depth[b] - 1})]]]
  /\ UNCHANGED <<shared, mapped, handle, freeList, dirKnown, pc, reg>>

Abort(b) ==
  /\ At(b, "idle")
  /\ depth[b] > 0 \/ scans[b] # <<>>
  /\ Raise(b, FALSE)
  /\ UNCHANGED <<shared, mapped, handle, freeList, dirKnown>>

\* FATAL: between commands, or at the walk's CHECK_FOR_INTERRUPTS, where it
\* does not run PG_CATCH.
Terminate(b) ==
  /\ pc[b] \in {"idle", "fill"}
  /\ At(b, "idle") => dirKnown[b]
  /\ Raise(b, TRUE)
  /\ UNCHANGED <<shared, mapped, handle, freeList, dirKnown>>

Held(b) == {e \in Elems : handle[b][e].present /\ handle[b][e].refs > 0}

\* An abort that gives the references back but forgets it did.
AbortReleaseTwice(b) ==
  /\ At(b, "abort")
  /\ \E e \in Held(b) :
       active' = [active EXCEPT ![handle[b][e].slot] = @ - handle[b][e].refs]
  /\ Goto(b, "idle")
  /\ UNCHANGED <<dirLock, wlock, slot, contents, creatorPin,
                 mapped, handle, freeList, scans, depth, dirKnown, reg>>

\* release_all_scan_refs: every reference of every hash entry.
AbortRelease(b) ==
  /\ At(b, "abort")
  /\ \E e \in Held(b) : Release(b, e, handle[b][e].refs, "abort")
  /\ UNCHANGED <<dirLock, wlock, slot, contents, creatorPin,
                 mapped, freeList, scans, depth, dirKnown>>

\* No abort callback: the executor is torn down and the references stay.
AbortDoneKeepsRefs(b) ==
  /\ At(b, "abort")
  /\ Done(b)
  /\ UNCHANGED <<shared, mapped, handle, freeList, scans, depth, dirKnown>>

\* The abort is over; a dying backend takes its mappings along.
AbortDone(b) ==
  /\ At(b, "abort")
  /\ Held(b) = {}
  /\ IF reg[b].dies
     THEN /\ mapped' = [mapped EXCEPT ![b] = {}]
          /\ handle' = [handle EXCEPT ![b] = [e \in Elems |-> NoHandle]]
          /\ freeList' = [freeList EXCEPT ![b] = [k \in Elems |-> k]]
          /\ dirKnown' = [dirKnown EXCEPT ![b] = FALSE]
     ELSE UNCHANGED <<mapped, handle, freeList, dirKnown>>
  /\ Done(b)
  /\ UNCHANGED <<shared, scans, depth>>

-----------------------------------------------------------------------------
(* Eviction: pg_acorn_code_cache_evict (at most one victim), reset (all), and *)
(* the loader's evict_to_fit, each under dir->lock from end to end           *)

EvictLock(b) ==
  /\ pc[b] \in {"idle", "admit"}
  /\ DirFree
  /\ dirLock' = b
  /\ dirKnown' = [dirKnown EXCEPT ![b] = TRUE]
  /\ reg' = [reg EXCEPT ![b].ret = IF At(b, "admit") THEN "create" ELSE "idle"]
  /\ Goto(b, "choose")
  /\ UNCHANGED <<wlock, slot, active, contents, creatorPin,
                 mapped, handle, freeList, scans, depth>>

EvictChoose(b) ==
  /\ At(b, "choose")
  /\ \E s \in Slots :
       /\ Servable(slot[s].state)
       /\ active[s] = 0
       /\ reg' = [reg EXCEPT ![b].victim = s]
  /\ Goto(b, "clear")
  /\ UNCHANGED <<shared, mapped, handle, freeList, scans, depth, dirKnown>>

\* Eviction that leaves the generation to the next load.
EvictClearSameGen(b) ==
  LET s == reg[b].victim IN
  /\ At(b, "clear")
  /\ wlock[s] = NoBackend
  /\ reg' = [reg EXCEPT ![b].vkey = slot[s].key]
  /\ slot' = [slot EXCEPT ![s] = [FreeSlot EXCEPT !.gen = slot[s].gen,
                !.area = slot[s].area, !.pinned = slot[s].pinned]]
  /\ Goto(b, "check")
  /\ UNCHANGED <<dirLock, wlock, active, contents, creatorPin,
                 mapped, handle, freeList, scans, depth, dirKnown>>

\* Eviction that clears the slot but leaves it servable until it is done.
EvictClearServable(b) ==
  LET s == reg[b].victim IN
  /\ At(b, "clear")
  /\ wlock[s] = NoBackend
  /\ reg' = [reg EXCEPT ![b].vkey = slot[s].key]
  /\ slot' = [slot EXCEPT ![s] = [@ EXCEPT !.gen = @ + 1, !.retired = {}]]
  /\ Goto(b, "check")
  /\ UNCHANGED <<dirLock, wlock, active, contents, creatorPin,
                 mapped, handle, freeList, scans, depth, dirKnown>>

\* evict_slot, first half, under wlock: EMPTY, a new generation, no key.
EvictClear(b) ==
  LET s == reg[b].victim IN
  /\ At(b, "clear")
  /\ wlock[s] = NoBackend
  /\ reg' = [reg EXCEPT ![b].vkey = slot[s].key]
  /\ slot' = [slot EXCEPT ![s] = [FreeSlot EXCEPT !.gen = slot[s].gen + 1,
                !.area = slot[s].area, !.pinned = slot[s].pinned]]
  /\ Goto(b, "check")
  /\ UNCHANGED <<dirLock, wlock, active, contents, creatorPin,
                 mapped, handle, freeList, scans, depth, dirKnown>>

\* An evictor that claims the pin and does not drop it.
EvictCheckKeepsPin(b) ==
  LET s == reg[b].victim IN
  /\ At(b, "check")
  /\ Forget(b, reg[b].vkey)
  /\ slot' = [slot EXCEPT ![s].pinned = FALSE]
  /\ Go(b, "choose")
  /\ UNCHANGED <<dirLock, wlock, active, contents, creatorPin,
                 scans, depth, dirKnown>>

\* evict_slot, second half: unless a reader slipped in, drop the creator pin,
\* through a mapping of its own; in any case forget this backend's mapping.
EvictCheck(b) ==
  LET s == reg[b].victim
      drops == active[s] = 0 /\ slot[s].pinned IN
  /\ At(b, "check")
  /\ Forget(b, reg[b].vkey)
  /\ slot' = [slot EXCEPT ![s].pinned = IF drops THEN FALSE ELSE @]
  /\ IF drops /\ slot[s].area \in mapped'[b]
     THEN /\ dirLock' = NoBackend
          /\ Raise(b, FALSE)
          /\ UNCHANGED creatorPin
     ELSE /\ creatorPin' = creatorPin \ (IF drops THEN {slot[s].area} ELSE {})
          /\ Goto(b, "choose")
          /\ UNCHANGED <<dirLock, scans, depth, reg>>
  /\ UNCHANGED <<wlock, active, contents, dirKnown>>

EvictUnlock(b) ==
  /\ At(b, "choose")
  /\ dirLock' = NoBackend
  /\ GoBack(b)
  /\ UNCHANGED <<wlock, slot, active, contents, creatorPin,
                 mapped, handle, freeList, scans, depth, dirKnown>>

-----------------------------------------------------------------------------
(* Write-through: aminsert's upsert and ambulkdelete's invalidation *)

\* writer_attach, with its cached attachment ...
WriterAttach(b, i) ==
  /\ At(b, "idle")
  /\ \E o \in {"insert", "invalidate"} :
       reg' = [reg EXCEPT ![b] = [NoReg EXCEPT !.idx = i, !.op = o,
                  !.cc = IF Attached(b, i) THEN EntryOf(b, i) ELSE @]]
  /\ IF Attached(b, i) /\ Live(handle[b][EntryOf(b, i)], i)
     THEN Goto(b, "wlock") /\ UNCHANGED <<mapped, handle, freeList>>
     ELSE /\ Forget(b, i)
          /\ Goto(b, IF dirKnown[b] THEN "wlookup" ELSE "cold")
  /\ UNCHANGED <<shared, scans, depth, dirKnown>>

\* ... without a directory ...
WriterCold(b) ==
  /\ At(b, "cold")
  /\ Done(b)
  /\ UNCHANGED <<shared, mapped, handle, freeList, scans, depth, dirKnown>>

\* ... or by searching it; a slot that is not servable is left to its loader.
WriterLookup(b) ==
  /\ At(b, "wlookup")
  /\ DirFree
  /\ \/ /\ \A s \in SlotsOf(reg[b].idx) : ~Servable(slot[s].state)
        /\ Done(b)
     \/ \E s \in SlotsOf(reg[b].idx) :
          /\ Servable(slot[s].state)
          /\ reg' = [reg EXCEPT ![b].slot = s]
          /\ Goto(b, "attach")
  /\ UNCHANGED <<shared, mapped, handle, freeList, scans, depth, dirKnown>>

\* An insert that trusts writer_attach once it has the lock.
WriterLockBlind(b) ==
  LET s == handle[b][reg[b].cc].slot IN
  /\ At(b, "wlock")
  /\ wlock[s] = NoBackend
  /\ wlock' = [wlock EXCEPT ![s] = b]
  /\ Goto(b, "write")
  /\ UNCHANGED <<dirLock, slot, active, contents, creatorPin,
                 mapped, handle, freeList, scans, depth, dirKnown, reg>>

\* An insert that returns without releasing wlock.
WriterLockKept(b) ==
  LET h == handle[b][reg[b].cc]
      s == h.slot IN
  /\ At(b, "wlock")
  /\ wlock[s] = NoBackend
  /\ wlock' = [wlock EXCEPT ![s] = b]
  /\ IF reg[b].op = "insert" /\ (h.gen # slot[s].gen \/ slot[s].key # reg[b].idx)
     THEN Done(b)
     ELSE Go(b, "write")
  /\ UNCHANGED <<dirLock, slot, active, contents, creatorPin,
                 mapped, handle, freeList, scans, depth, dirKnown>>

\* Under wlock an insert checks the incarnation again; an invalidation does
\* not, and may write into an area that is no longer the slot's.
WriterLock(b) ==
  LET h == handle[b][reg[b].cc]
      s == h.slot IN
  /\ At(b, "wlock")
  /\ wlock[s] = NoBackend
  /\ IF reg[b].op = "insert" /\ (h.gen # slot[s].gen \/ slot[s].key # reg[b].idx)
     THEN Done(b) /\ UNCHANGED wlock
     ELSE Go(b, "write") /\ wlock' = [wlock EXCEPT ![s] = b]
  /\ UNCHANGED <<dirLock, slot, active, contents, creatorPin,
                 mapped, handle, freeList, scans, depth, dirKnown>>

\* An insert may replace an array: the old one is freed if no scan is active
\* and joins the retire list otherwise.
Write(b) ==
  LET e == reg[b].cc
      s == handle[b][e].slot
      a == handle[b][e].area IN
  /\ At(b, "write")
  /\ \/ UNCHANGED <<slot, handle>>
     \/ /\ reg[b].op = "insert"
        /\ slot' = [slot EXCEPT ![s] =
             [slot[s] EXCEPT !.blocks = a,
                             !.retired = IF active[s] = 0 THEN {}
                                         ELSE slot[s].retired \cup {slot[s].blocks}]]
        /\ handle' = [handle EXCEPT ![b][e].blocks = a]
  /\ wlock' = [wlock EXCEPT ![s] = NoBackend]
  /\ Done(b)
  /\ UNCHANGED <<dirLock, active, contents, creatorPin,
                 mapped, freeList, scans, depth, dirKnown>>

-----------------------------------------------------------------------------
\* A lookup of an open scan that misses its snapshot refreshes it, if the
\* generation says the slot still holds the scan's incarnation.
Resolve(b) ==
  /\ At(b, "idle")
  /\ \E k \in DOMAIN scans[b] :
       LET e == scans[b][k].cc
           h == handle[b][e] IN
       /\ h.gen = slot[h.slot].gen
       /\ handle' = [handle EXCEPT ![b][e].blocks = slot[h.slot].blocks]
  /\ UNCHANGED <<shared, mapped, freeList, scans, depth, dirKnown, pc, reg>>

\* What a backend has started and goes on with.
Step(b) ==
  \/ SlotLookup(b) \/ ReadState(b) \/ Attach(b)
  \/ AcquireInc(b) \/ AcquireValidate(b) \/ AcquireSnapshot(b)
  \/ SkipAdmission(b) \/ LoadCreate(b) \/ LoadPublish(b) \/ LoadBlocks(b)
  \/ LoadFinish(b) \/ LoadCreateFails(b) \/ LoadAllocateFails(b) \/ LoadError(b)
  \/ Drain(b) \/ AbortRelease(b) \/ AbortDone(b)
  \/ EvictChoose(b) \/ EvictClear(b) \/ EvictCheck(b) \/ EvictUnlock(b)
  \/ WriterCold(b) \/ WriterLookup(b) \/ WriterLock(b) \/ Write(b)

Next ==
  \E b \in Backends :
    \/ \E i \in Indexes : BeginScan(b, i) \/ WriterAttach(b, i)
    \/ EndScan(b) \/ Resolve(b) \/ EvictLock(b)
    \/ Savepoint(b) \/ ReleaseSavepoint(b) \/ Abort(b) \/ Terminate(b)
    \/ Step(b)

Spec == Init /\ [][Next]_vars

\* The operating system keeps running a backend, and a lock's wait queue is
\* first in, first out: a backend that is inside an operation gets through
\* every step it can take again and again.
FairSpec == Spec /\ \A b \in Backends : SF_vars(Step(b))

-----------------------------------------------------------------------------
(* Properties *)

HandleType == [present : BOOLEAN, key : Indexes \cup {NoIndex},
               area : Areas \cup {NoArea}, slot : Slots,
               gen : Nat, blocks : Areas \cup {NoArea}, refs : Nat]
SlotType   == [key : Indexes \cup {NoIndex},
               state : {"EMPTY", "LOADING", "READY", "PARTIAL"},
               gen : Nat, area : Areas \cup {NoArea}, pinned : BOOLEAN,
               blocks : Areas \cup {NoArea}, dim : Nat, retired : SUBSET Areas]

\* Every counter is a natural number: no reference is given back twice (the
\* uint32 active_scans never wraps), no handle counts below zero.
TypeOK ==
  /\ dirLock \in Backends \cup {NoBackend}
  /\ wlock \in [Slots -> Backends \cup {NoBackend}]
  /\ slot \in [Slots -> SlotType]
  /\ active \in [Slots -> Nat]
  /\ contents \in Seq(Indexes) /\ Len(contents) <= MaxAreas
  /\ creatorPin \subseteq Areas
  /\ mapped \in [Backends -> SUBSET Areas]
  /\ handle \in [Backends -> [Elems -> HandleType]]
  /\ \A b \in Backends :
       ToSet(freeList[b]) = {e \in Elems : ~handle[b][e].present}
  /\ depth \in [Backends -> 0..MaxDepth]
  /\ dirKnown \in [Backends -> BOOLEAN]

\* The references a slot is under: those its handles remember, and the one
\* a backend has published and not yet validated.
References(s) ==
  UNION {{<<x[1], x[2], k>> :
            k \in (IF At(x[1], "validate") /\ reg[x[1]].cc = x[2] THEN 0 ELSE 1)
                  ..handle[x[1]][x[2]].refs} :
         x \in {y \in Backends \X Elems : handle[y[1]][y[2]].slot = s}}

\* slot->active_scans counts at least every one of them: an evictor that
\* reads 0 evicts under no handle that remembers a reference and under no scan
\* that is being acquired (scan_acquire, release_one_ref, the abort callbacks).
\* An open scan may have lost its reference before its end: a savepoint's
\* rollback gives the outer scan's back too (ScanAreaMapped).
RefsCovered == \A s \in Slots : active[s] >= Cardinality(References(s))

\* Once every scan is over, for any reason, no slot is held any more
\* (release_all_scan_refs: "active_scans returns to 0 when a scan ends for
\* ANY reason").
RefsBalanced ==
  (\A b \in Backends : At(b, "idle") /\ scans[b] = <<>>)
    => \A s \in Slots : active[s] = 0

\* An open scan's area stays in its backend's address space
\* (acorn_codecache_resolve: "a resolved pointer never dangles into freed
\* memory while the scan runs").
ScanAreaMapped ==
  \A b \in Backends : \A k \in DOMAIN scans[b] :
    handle[b][scans[b][k].cc].area \in mapped[b]

\* An open scan reads the codes of its own index ("a hint, never an
\* authority: to a fallback, never to a wrong result").
ScanReadsOwnIndex ==
  \A b \in Backends : \A k \in DOMAIN scans[b] :
    contents[handle[b][scans[b][k].cc].area] = scans[b][k].idx

\* The snapshot of an open scan points into the area the scan attached
\* (resolve_blocks: "the snapshot must only ever be refreshed against
\* cc->area").
SnapshotOfOwnArea ==
  \A b \in Backends : \A k \in DOMAIN scans[b] :
    LET h == handle[b][scans[b][k].cc] IN h.blocks \in {h.area, NoArea}

\* A drain frees arrays of the area it passes to dsa_free (drain_retired).
DrainFreesOwnArea ==
  \A b \in Backends :
    LET h == handle[b][reg[b].cc] IN
    (At(b, "drain") /\ active[h.slot] = 0) => slot[h.slot].retired \subseteq {h.area}

\* Whoever finds a slot servable under dir->lock may attach its area: the
\* creator's pin is in force, and recorded once, so that the one evictor to
\* come can drop it (acorn_cc_attach, "guarantees the area is still alive").
ServablePinned ==
  \A s \in Slots : Servable(slot[s].state) =>
    slot[s].pinned /\ slot[s].area \in creatorPin

\* The generation alone tells incarnations apart: while a handle's generation
\* is the slot's, the slot's area and block directory are the handle's, and
\* mapped (resolve_blocks: "a generation mismatch means reincarnation").
GuardSound ==
  \A b \in Backends, e \in Elems :
    LET h == handle[b][e] IN
    (h.present /\ h.gen = slot[h.slot].gen) =>
      /\ slot[h.slot].area = h.area /\ slot[h.slot].blocks = h.area
      /\ h.area \in mapped[b]

\* An insert that passed its test under wlock grows and fills the slot's
\* current incarnation, through a mapping it still has, until it lets go
\* (acorn_codecache_insert's re-validation).
InsertOwnIncarnation ==
  \A b \in Backends :
    LET h == handle[b][reg[b].cc] IN
    (At(b, "write") /\ reg[b].op = "insert") =>
      /\ h.area \in mapped[b]
      /\ slot[h.slot].area = h.area /\ slot[h.slot].gen = h.gen

Loading(b) ==
  \/ pc[b] \in {"admit", "create", "publish", "blocks", "fill"}
  \/ pc[b] \in {"choose", "clear", "check"} /\ reg[b].ret = "create"

\* A slot being loaded is its loader's alone: no second loader, no evictor,
\* nobody else moves it out of LOADING ("EMPTY -> LOADING by CAS").
LoaderAlone ==
  \A b \in Backends : Loading(b) =>
    /\ slot[reg[b].slot].state = "LOADING"
    /\ \A c \in Backends \ {b} : Loading(c) => reg[c].slot # reg[b].slot

\* The slots that a load which failed before the PG_TRY, or died in the walk,
\* has left LOADING: nobody can claim, serve or evict them any more.
Abandoned ==
  {s \in Slots : slot[s].state = "LOADING" /\
     \A b \in Backends : Loading(b) => reg[b].slot # s}

\* A slot in LOADING has a loader (acorn_cc_load: "on error the slot is
\* published PARTIAL").
LoadingHasLoader == Abandoned = {}

\* The areas whose pin an evictor can drop: it is recorded in a slot that may
\* be chosen, or in one that is being evicted.
Reclaimable ==
  {slot[s].area : s \in {t \in Slots : slot[t].pinned /\
     (Servable(slot[t].state) \/ \E b \in Backends : At(b, "check") /\ reg[b].victim = t)}}

\* The areas being loaded.
InLoad == {reg[b].area : b \in {c \in Backends : Loading(c)}}

\* An area whose creator pin nobody will ever drop was lost by a load that did
\* not reach its end, and there is no more than one for each slot that such a
\* load has left LOADING: eviction, reload and errors after publication lose none
\* (evict_slot: "drop the creator pin EXACTLY ONCE per incarnation").
PinsAccounted ==
  Cardinality(creatorPin \ (Reclaimable \cup InLoad)) <= Cardinality(Abandoned)

\* A writer that skips its update because it has no directory skips nothing
\* that is cached (writer_attach: "directory never created => no warm slot").
ColdWriterNoSlot ==
  \A b \in Backends : At(b, "cold") =>
    \A s \in SlotsOf(reg[b].idx) : ~Servable(slot[s].state)

\* Every operation of the cache comes to its end: readers never wait for a
\* loader, and the order of dir->lock and wlock never closes a cycle.
OperationsEnd == \A b \in Backends : (~At(b, "idle")) ~> At(b, "idle")
=============================================================================
