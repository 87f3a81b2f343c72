--------------------------- MODULE CodeCacheEntry ---------------------------
(***************************************************************************)
(* The seqlock of one shared-memory code-cache entry (acorn_codecache.c).  *)
(* Writers (aminsert's upsert, ambulkdelete's invalidate) hold the slot's  *)
(* wlock and bracket their stores with an odd version; readers hold no     *)
(* lock, copy the entry out between two reads of the version, retry once   *)
(* and then fall back to the element page.                                 *)
(*                                                                         *)
(* Every load and every store of shared memory is a step of its own.       *)
(* Between two barriers the compiler and the processor may reorder plain   *)
(* accesses, so the stores of one update, and the loads of one copy, are   *)
(* taken in any order.  The payload is a set of machine words, each of     *)
(* which remembers the element it was last written for.                    *)
(***************************************************************************)
EXTENDS Integers

CONSTANTS
  Readers,      \* scanning backends
  Writers,      \* inserting or vacuuming backends
  Words,        \* the payload's words: heaptid, nbrtid, ..., code
  Payloads,     \* elements an entry can be written for
  NoPayload,    \* the zeroed words of a fresh page array
  NoWriter,     \* wlock is free
  MaxVersion    \* bound: no update starts at this version or later

ASSUME EntryAssumption ==
  /\ Words # {}
  /\ NoPayload \notin Payloads
  /\ NoWriter \notin Writers
  /\ "flags" \notin Words
  /\ (Payloads \cup {NoPayload}) \cap {"busy", "waiting", "miss"} = {}

PRESENT == "PRESENT"
DELETED == "DELETED"
MaxAttempts == 2

VARIABLES
  version,    \* e->version
  flags,      \* e->flags, a set of the two bits
  word,       \* the payload words of the entry
  wlock,      \* holder of slot->wlock
  op,         \* op[w]: the update w is making
  stores,     \* stores[w]: the stores of that update still to be made
  wpc,        \* control state of each writer
  rpc,        \* control state of each reader
  attempt,    \* attempt[r]: the loop counter of the read
  v0,         \* v0[r]: the version the attempt started from
  loads,      \* loads[r]: the words still to be copied
  out         \* out[r]: the caller's copy

entryVars  == <<version, flags, word>>
writerVars == <<wlock, op, stores, wpc>>
readerVars == <<rpc, attempt, v0, loads, out>>
vars == <<version, flags, word, wlock, op, stores, wpc,
          rpc, attempt, v0, loads, out>>

Insert(p)  == [kind |-> "insert", payload |-> p]
Invalidate == [kind |-> "invalidate", payload |-> NoPayload]
Ops        == {Insert(p) : p \in Payloads} \cup {Invalidate}
Blank      == [x \in Words |-> NoPayload]
Whole(p)   == [x \in Words |-> p]

IsOdd(n)      == n % 2 = 1
MakeOdd(n)    == IF IsOdd(n) THEN n ELSE n + 1
NextStable(n) == (n - (n % 2)) + 2

\* The two halves of the servability test.
Servable(f) == PRESENT \in f /\ DELETED \notin f

-----------------------------------------------------------------------------
(* A zeroed entry of a fresh page array, or one the loader has filled, for *)
(* a live element or for one already vacuumed.                             *)
Init ==
  /\ version = 0
  /\ \/ flags = {} /\ word = Blank
     \/ /\ flags \in {{PRESENT}, {PRESENT, DELETED}}
        /\ \E p \in Payloads : word = Whole(p)
  /\ wlock = NoWriter
  /\ op = [w \in Writers |-> Invalidate]
  /\ stores = [w \in Writers |-> {}]
  /\ wpc = [w \in Writers |-> "idle"]
  /\ rpc = [r \in Readers |-> "miss"]
  /\ attempt = [r \in Readers |-> 0]
  /\ v0 = [r \in Readers |-> 0]
  /\ loads = [r \in Readers |-> {}]
  /\ out = [r \in Readers |-> Blank]

-----------------------------------------------------------------------------
(* Writers *)

\* The stores of an update: an insert overwrites everything, an
\* invalidation only the flags.
StoresOf(o) == IF o.kind = "insert" THEN Words \cup {"flags"} ELSE {"flags"}

FlagsAfter(o, f) ==
  IF o.kind = "insert" THEN {PRESENT} ELSE (f \ {PRESENT}) \cup {DELETED}

Lock(w) ==
  /\ wpc[w] = "idle"
  /\ wlock = NoWriter
  /\ wlock' = w
  /\ \E o \in Ops : op' = [op EXCEPT ![w] = o]
  /\ wpc' = [wpc EXCEPT ![w] = "locked"]
  /\ UNCHANGED <<entryVars, stores, readerVars>>

WriteBegin(w) ==
  /\ wpc[w] = "locked"
  /\ version < MaxVersion
  /\ version' = MakeOdd(version)
  /\ stores' = [stores EXCEPT ![w] = StoresOf(op[w])]
  /\ wpc' = [wpc EXCEPT ![w] = "writing"]
  /\ UNCHANGED <<flags, word, wlock, op, readerVars>>

Store(w) ==
  /\ wpc[w] = "writing"
  /\ \E x \in stores[w] :
       /\ stores' = [stores EXCEPT ![w] = @ \ {x}]
       /\ IF x = "flags"
          THEN flags' = FlagsAfter(op[w], flags) /\ UNCHANGED word
          ELSE word' = [word EXCEPT ![x] = op[w].payload] /\ UNCHANGED flags
  /\ UNCHANGED <<version, wlock, op, wpc, readerVars>>

\* A writer whose last store may drift past the final version store, as
\* without the write barrier before it.
WriteEndEarly(w) ==
  /\ wpc[w] = "writing"
  /\ version' = NextStable(version)
  /\ wpc' = [wpc EXCEPT ![w] = "written"]
  /\ UNCHANGED <<flags, word, wlock, op, stores, readerVars>>

WriteEnd(w) ==
  /\ wpc[w] = "writing"
  /\ stores[w] = {}
  /\ version' = NextStable(version)
  /\ wpc' = [wpc EXCEPT ![w] = "written"]
  /\ UNCHANGED <<flags, word, wlock, op, stores, readerVars>>

Unlock(w) ==
  /\ wpc[w] = "written"
  /\ wlock' = NoWriter
  /\ wpc' = [wpc EXCEPT ![w] = "idle"]
  /\ UNCHANGED <<entryVars, op, stores, readerVars>>

-----------------------------------------------------------------------------
(* Readers *)

Idle(r) == rpc[r] \in {"hit", "miss"}

Lookup(r) ==
  /\ Idle(r)
  /\ rpc' = [rpc EXCEPT ![r] = "version"]
  /\ attempt' = [attempt EXCEPT ![r] = 0]
  /\ out' = [out EXCEPT ![r] = Blank]
  /\ UNCHANGED <<v0, loads, entryVars, writerVars>>

\* One attempt too many.
RetryOneMore(r) ==
  /\ attempt' = [attempt EXCEPT ![r] = @ + 1]
  /\ rpc' = [rpc EXCEPT ![r] = IF attempt[r] + 1 <= MaxAttempts
                               THEN "version" ELSE "miss"]

\* A reader that spins until it finds the entry stable.
RetryForever(r) ==
  /\ rpc' = [rpc EXCEPT ![r] = "version"]
  /\ UNCHANGED attempt

\* `continue` of the attempt loop, or its end: the scan falls back.
Retry(r) ==
  /\ attempt' = [attempt EXCEPT ![r] = @ + 1]
  /\ rpc' = [rpc EXCEPT ![r] = IF attempt[r] + 1 < MaxAttempts
                               THEN "version" ELSE "miss"]

ReadVersion(r) ==
  /\ rpc[r] = "version"
  /\ IF IsOdd(version)
     THEN Retry(r) /\ UNCHANGED v0
     ELSE /\ v0' = [v0 EXCEPT ![r] = version]
          /\ rpc' = [rpc EXCEPT ![r] = "flags"]
          /\ UNCHANGED attempt
  /\ UNCHANGED <<loads, out, entryVars, writerVars>>

ReadFlags(r) ==
  /\ rpc[r] = "flags"
  /\ rpc' = [rpc EXCEPT ![r] = IF Servable(flags) THEN "copy" ELSE "recheck"]
  /\ loads' = [loads EXCEPT ![r] = Words]
  /\ UNCHANGED <<attempt, v0, out, entryVars, writerVars>>

\* Not servable: believe it only if no writer came by meanwhile.
Recheck(r) ==
  /\ rpc[r] = "recheck"
  /\ IF version # v0[r]
     THEN Retry(r)
     ELSE rpc' = [rpc EXCEPT ![r] = "miss"] /\ UNCHANGED attempt
  /\ UNCHANGED <<v0, loads, out, entryVars, writerVars>>

CopyWord(r) ==
  /\ rpc[r] = "copy"
  /\ \E x \in loads[r] :
       /\ out' = [out EXCEPT ![r][x] = word[x]]
       /\ loads' = [loads EXCEPT ![r] = @ \ {x}]
  /\ UNCHANGED <<rpc, attempt, v0, entryVars, writerVars>>

\* A reader that trusts its copy without reading the version again.
VerifyNothing(r) ==
  /\ rpc[r] = "copy"
  /\ loads[r] = {}
  /\ rpc' = [rpc EXCEPT ![r] = "hit"]
  /\ UNCHANGED <<attempt, v0, loads, out, entryVars, writerVars>>

Verify(r) ==
  /\ rpc[r] = "copy"
  /\ loads[r] = {}
  /\ IF version = v0[r]
     THEN rpc' = [rpc EXCEPT ![r] = "hit"] /\ UNCHANGED attempt
     ELSE Retry(r)
  /\ UNCHANGED <<v0, loads, out, entryVars, writerVars>>

-----------------------------------------------------------------------------
ReaderStep(r) ==
  ReadVersion(r) \/ ReadFlags(r) \/ Recheck(r) \/ CopyWord(r) \/ Verify(r)

Next ==
  \/ \E w \in Writers :
       Lock(w) \/ WriteBegin(w) \/ Store(w) \/ WriteEnd(w) \/ Unlock(w)
  \/ \E r \in Readers :
       \/ Lookup(r) \/ ReadVersion(r) \/ ReadFlags(r)
       \/ Recheck(r) \/ CopyWord(r) \/ Verify(r)

Spec == Init /\ [][Next]_vars

\* A scan that has called the lookup keeps executing; nothing is assumed of
\* the writers, which may stop for ever inside an update.
FairSpec == Spec /\ \A r \in Readers : WF_vars(ReaderStep(r))

-----------------------------------------------------------------------------
TypeOK ==
  /\ version \in Nat
  /\ flags \in SUBSET {PRESENT, DELETED}
  /\ word \in [Words -> Payloads \cup {NoPayload}]
  /\ wlock \in Writers \cup {NoWriter}
  /\ op \in [Writers -> Ops]
  /\ stores \in [Writers -> SUBSET (Words \cup {"flags"})]
  /\ wpc \in [Writers -> {"idle", "locked", "writing", "written"}]
  /\ rpc \in [Readers -> {"version", "flags", "recheck", "copy", "hit", "miss"}]
  /\ attempt \in [Readers -> 0..MaxAttempts]
  /\ v0 \in [Readers -> Nat]
  /\ loads \in [Readers -> SUBSET Words]
  /\ out \in [Readers -> [Words -> Payloads \cup {NoPayload}]]

\* A lookup never returns a mix of two elements (acorn_codecache_read:
\* "never a torn mix"): all the words of a hit were written for one element.
NoTornHit ==
  \A r \in Readers : rpc[r] = "hit" => \E p \in Payloads : out[r] = Whole(p)

\* A lookup that goes on has an attempt left.
AttemptInv == \A r \in Readers : ~Idle(r) => attempt[r] < MaxAttempts

\* The lock belongs to the one writer inside an update.
LockInv == \A w \in Writers : wpc[w] # "idle" <=> wlock = w

\* The version is odd exactly while some writer's stores are in flight.
VersionInv == IsOdd(version) <=> \E w \in Writers : wpc[w] = "writing"

\* The stores an update has made are the ones it has not still to make.
WritingInv ==
  \A w \in Writers : wpc[w] = "writing" =>
    IF op[w].kind = "insert"
    THEN /\ \A x \in Words \ stores[w] : word[x] = op[w].payload
         /\ "flags" \notin stores[w] => flags = {PRESENT}
    ELSE /\ stores[w] \subseteq {"flags"}
         /\ "flags" \notin stores[w] => PRESENT \notin flags

\* At rest, a servable entry is one element's.
StableInv ==
  ~IsOdd(version) /\ Servable(flags) => \E p \in Payloads : word = Whole(p)

\* A copy whose version has not moved is the entry's own so far.
ReaderInv ==
  \A r \in Readers :
    /\ rpc[r] \in {"flags", "recheck", "copy"} => ~IsOdd(v0[r]) /\ v0[r] <= version
    /\ rpc[r] = "copy" /\ v0[r] = version =>
         /\ Servable(flags)
         /\ \A x \in Words \ loads[r] : out[r][x] = word[x]

\* The inductive invariant behind NoTornHit and HintSpec.
IInv ==
  /\ TypeOK /\ AttemptInv /\ LockInv /\ VersionInv
  /\ WritingInv /\ StableInv /\ ReaderInv /\ NoTornHit

\* Readers never wait: whatever the writers do, and even if one stops in the
\* middle of an update, a lookup answers (acorn_codecache_read's two attempts).
LookupAnswers == \A r \in Readers : (~Idle(r)) ~> Idle(r)

-----------------------------------------------------------------------------
(* The entry as its readers see it. *)

Absent  == NoPayload
Busy    == "busy"
Waiting == "waiting"
Miss    == "miss"

ContentOf ==
  IF IsOdd(version) THEN Busy
  ELSE IF Servable(flags) THEN word[CHOOSE x \in Words : TRUE]
  ELSE Absent

AnswerFor(pc, copy) ==
  CASE pc = "hit"  -> copy[CHOOSE x \in Words : TRUE]
    [] pc = "miss" -> Miss
    [] OTHER       -> Waiting

AnswerOf == [r \in Readers |-> AnswerFor(rpc[r], out[r])]

Hint == INSTANCE EntryHint WITH content <- ContentOf, answer <- AnswerOf

\* The seqlock implements the atomic entry: a hit is the element the entry
\* holds at the instant the version is read for the second time.
HintSpec == Hint!Spec
=============================================================================
