------------------------ MODULE CodeCacheEntryProofs ------------------------
(***************************************************************************)
(* The seqlock of a code-cache entry, for any number of readers, writers,  *)
(* words, payloads and updates: it keeps its types, a hit is never torn,   *)
(* and it implements the atomic entry of EntryHint.                        *)
(***************************************************************************)
EXTENDS CodeCacheEntry, TLAPS

-----------------------------------------------------------------------------
(* Version arithmetic (acorn_cc_write_begin, acorn_cc_write_end): each call *)
(* moves a version of the expected parity up by one.                       *)

\* write_begin on an even version makes it odd, by one.
LEMMA MakeOddStep ==
  ASSUME NEW n \in Nat, ~IsOdd(n)
  PROVE  MakeOdd(n) = n + 1 /\ IsOdd(n + 1)
  BY DEF MakeOdd, IsOdd

\* write_end on an odd version makes it even, by one.
LEMMA NextStableStep ==
  ASSUME NEW n \in Nat, IsOdd(n)
  PROVE  NextStable(n) = n + 1 /\ ~IsOdd(n + 1)
  BY DEF NextStable, IsOdd

\* Both keep a version a natural number.
LEMMA VersionNat ==
  ASSUME NEW n \in Nat
  PROVE  MakeOdd(n) \in Nat /\ NextStable(n) \in Nat
  BY DEF MakeOdd, NextStable, IsOdd

-----------------------------------------------------------------------------
(* Type correctness *)

\* What an update may store, by its kind.
LEMMA StoresType ==
  ASSUME NEW o \in Ops
  PROVE  /\ StoresOf(o) \subseteq Words \cup {"flags"}
         /\ o.payload \in Payloads \cup {NoPayload}
         /\ o.kind = "insert" => o.payload \in Payloads
         /\ o.kind # "insert" => StoresOf(o) = {"flags"}
  BY DEF Ops, Insert, Invalidate, StoresOf

\* A failed attempt keeps the reader's types: it was not beyond the last.
LEMMA RetryType ==
  ASSUME TypeOK, AttemptInv, NEW r \in Readers, ~Idle(r), Retry(r)
  PROVE  /\ attempt' \in [Readers -> 0..MaxAttempts]
         /\ rpc' \in [Readers -> {"version", "flags", "recheck", "copy",
                                  "hit", "miss"}]
         /\ \A q \in Readers : rpc'[q] \notin {"hit", "miss"} =>
                               attempt'[q] < MaxAttempts
  BY DEF TypeOK, AttemptInv, Retry, MaxAttempts, Idle

\* Every step of the protocol keeps the types and the attempt bound.
LEMMA TypeStep == TypeOK /\ AttemptInv /\ [Next]_vars => TypeOK' /\ AttemptInv'
<1> SUFFICES ASSUME TypeOK, AttemptInv, [Next]_vars PROVE TypeOK' /\ AttemptInv'
  OBVIOUS
<1>1. ASSUME NEW w \in Writers, Lock(w) PROVE TypeOK' /\ AttemptInv'
  BY <1>1 DEF TypeOK, AttemptInv, Idle, Lock, entryVars, readerVars
<1>2. ASSUME NEW w \in Writers, WriteBegin(w) PROVE TypeOK' /\ AttemptInv'
  BY <1>2, VersionNat, StoresType DEF TypeOK, AttemptInv, Idle, WriteBegin, readerVars
<1>3. ASSUME NEW w \in Writers, Store(w) PROVE TypeOK' /\ AttemptInv'
  <2>1. op[w] \in Ops /\ op[w].payload \in Payloads \cup {NoPayload}
    BY StoresType DEF TypeOK
  <2>2. PICK x \in stores[w] :
          /\ stores' = [stores EXCEPT ![w] = @ \ {x}]
          /\ IF x = "flags"
             THEN flags' = FlagsAfter(op[w], flags) /\ UNCHANGED word
             ELSE word' = [word EXCEPT ![x] = op[w].payload] /\ UNCHANGED flags
    BY <1>3 DEF Store
  <2>3. flags' \in SUBSET {PRESENT, DELETED}
    BY <2>2 DEF TypeOK, FlagsAfter
  <2>4. word' \in [Words -> Payloads \cup {NoPayload}]
    BY <2>1, <2>2 DEF TypeOK
  <2>5. stores' \in [Writers -> SUBSET (Words \cup {"flags"})]
    BY <2>2 DEF TypeOK
  <2> QED
    BY <1>3, <2>3, <2>4, <2>5 DEF TypeOK, AttemptInv, Idle, Store, readerVars
<1>4. ASSUME NEW w \in Writers, WriteEnd(w) PROVE TypeOK' /\ AttemptInv'
  BY <1>4, VersionNat DEF TypeOK, AttemptInv, Idle, WriteEnd, readerVars
<1>5. ASSUME NEW w \in Writers, Unlock(w) PROVE TypeOK' /\ AttemptInv'
  BY <1>5 DEF TypeOK, AttemptInv, Idle, Unlock, entryVars, readerVars
<1>6. ASSUME NEW r \in Readers, Lookup(r) PROVE TypeOK' /\ AttemptInv'
  BY <1>6 DEF TypeOK, AttemptInv, Idle, Lookup, Blank, MaxAttempts, entryVars, writerVars
<1>7. ASSUME NEW r \in Readers, ReadVersion(r) PROVE TypeOK' /\ AttemptInv'
  <2>1. CASE IsOdd(version)
    BY <1>7, <2>1, RetryType
    DEF ReadVersion, TypeOK, AttemptInv, Idle, entryVars, writerVars
  <2>2. CASE ~IsOdd(version)
    BY <1>7, <2>2 DEF ReadVersion, TypeOK, AttemptInv, Idle, entryVars, writerVars
  <2> QED
    BY <2>1, <2>2
<1>8. ASSUME NEW r \in Readers, ReadFlags(r) PROVE TypeOK' /\ AttemptInv'
  BY <1>8 DEF ReadFlags, TypeOK, AttemptInv, Idle, entryVars, writerVars
<1>9. ASSUME NEW r \in Readers, Recheck(r) PROVE TypeOK' /\ AttemptInv'
  <2>1. CASE version # v0[r]
    BY <1>9, <2>1, RetryType
    DEF Recheck, TypeOK, AttemptInv, Idle, entryVars, writerVars
  <2>2. CASE version = v0[r]
    BY <1>9, <2>2 DEF Recheck, TypeOK, AttemptInv, Idle, entryVars, writerVars
  <2> QED
    BY <2>1, <2>2
<1>10. ASSUME NEW r \in Readers, CopyWord(r) PROVE TypeOK' /\ AttemptInv'
  <2>1. PICK x \in loads[r] :
          /\ out' = [out EXCEPT ![r][x] = word[x]]
          /\ loads' = [loads EXCEPT ![r] = @ \ {x}]
    BY <1>10 DEF CopyWord
  <2>2. x \in Words /\ word[x] \in Payloads \cup {NoPayload}
    BY <2>1 DEF TypeOK
  <2>3. out' \in [Readers -> [Words -> Payloads \cup {NoPayload}]]
    BY <2>1, <2>2 DEF TypeOK
  <2>4. loads' \in [Readers -> SUBSET Words]
    BY <2>1 DEF TypeOK
  <2> QED
    BY <1>10, <2>3, <2>4 DEF CopyWord, TypeOK, AttemptInv, Idle, entryVars, writerVars
<1>11. ASSUME NEW r \in Readers, Verify(r) PROVE TypeOK' /\ AttemptInv'
  <2>1. CASE version # v0[r]
    BY <1>11, <2>1, RetryType
    DEF Verify, TypeOK, AttemptInv, Idle, entryVars, writerVars
  <2>2. CASE version = v0[r]
    BY <1>11, <2>2 DEF Verify, TypeOK, AttemptInv, Idle, entryVars, writerVars
  <2> QED
    BY <2>1, <2>2
<1>12. CASE UNCHANGED vars
  BY <1>12 DEF vars, TypeOK, AttemptInv, Idle
<1> QED
  BY <1>1, <1>2, <1>3, <1>4, <1>5, <1>6, <1>7, <1>8, <1>9, <1>10, <1>11, <1>12 DEF Next

\* The initial states are well typed.
LEMMA TypeInit == Init => TypeOK /\ AttemptInv
<1> SUFFICES ASSUME Init PROVE TypeOK /\ AttemptInv
  OBVIOUS
<1>1. flags \in SUBSET {PRESENT, DELETED} /\ word \in [Words -> Payloads \cup {NoPayload}]
  BY DEF Init, Blank, Whole
<1>2. op \in [Writers -> Ops]
  BY DEF Init, Ops
<1> QED
  BY <1>1, <1>2 DEF Init, TypeOK, AttemptInv, Idle, Blank, MaxAttempts

-----------------------------------------------------------------------------
(* The inductive invariant.  The step lemma has one case per action; an     *)
(* action of a reader disturbs nothing but ReaderInv and NoTornHit, and     *)
(* those only for itself.                                                   *)

Shape == LockInv /\ VersionInv /\ WritingInv /\ StableInv
SafeInv == Shape /\ ReaderInv /\ NoTornHit

\* Any failed attempt leaves the copies alone and never counts as a hit.
LEMMA RetryReader ==
  ASSUME TypeOK, ReaderInv, NoTornHit, NEW r \in Readers,
         Retry(r), UNCHANGED <<version, flags, word, v0, loads, out>>
  PROVE  ReaderInv' /\ NoTornHit'
<1>1. \A q \in Readers : rpc'[q] = rpc[q] \/ rpc'[q] \in {"version", "miss"}
  BY DEF Retry, TypeOK
<1> QED
  BY <1>1 DEF ReaderInv, NoTornHit

\* A reader's step leaves the shared entry and its writers as they are.
LEMMA ReaderShape ==
  ASSUME Shape, UNCHANGED entryVars, UNCHANGED writerVars
  PROVE  Shape'
  BY DEF Shape, LockInv, VersionInv, WritingInv, StableInv, entryVars, writerVars

\* A writer outside its stores leaves what the readers rely on.
LEMMA WriterReaders ==
  ASSUME TypeOK, ReaderInv, NoTornHit, UNCHANGED readerVars,
         UNCHANGED <<flags, word>> \/ IsOdd(version),
         version' = version \/ version' = version + 1,
         IsOdd(version') \/ UNCHANGED <<flags, word>>
  PROVE  ReaderInv' /\ NoTornHit'
<1>1. NoTornHit'
  BY DEF NoTornHit, readerVars
<1>2. ASSUME NEW r \in Readers,
             rpc[r] \in {"flags", "recheck", "copy"}
      PROVE  ~IsOdd(v0[r]) /\ v0[r] <= version'
  BY <1>2 DEF ReaderInv, TypeOK
<1>3. ASSUME NEW r \in Readers, rpc[r] = "copy", v0[r] = version'
      PROVE  /\ Servable(flags')
             /\ \A x \in Words \ loads[r] : out[r][x] = word'[x]
  <2>1. v0[r] = version /\ ~IsOdd(version')
    BY <1>2, <1>3 DEF ReaderInv, TypeOK
  <2> QED
    BY <1>3, <2>1 DEF ReaderInv
<1> QED
  BY <1>1, <1>2, <1>3 DEF ReaderInv, readerVars

\* No step of a writer or of a reader breaks the seqlock's invariant.
LEMMA SafeStep == TypeOK /\ SafeInv /\ [Next]_vars => SafeInv'
<1> SUFFICES ASSUME TypeOK, SafeInv, [Next]_vars PROVE SafeInv'
  OBVIOUS
<1> USE DEF SafeInv
<1>1. ASSUME NEW w \in Writers, Lock(w) PROVE SafeInv'
  <2>1. ReaderInv' /\ NoTornHit'
    BY <1>1, WriterReaders DEF Lock, entryVars
  <2>2. LockInv' /\ VersionInv' /\ StableInv'
    BY <1>1, EntryAssumption
    DEF Lock, entryVars, Shape, LockInv, VersionInv, StableInv, TypeOK
  <2>3. WritingInv'
    BY <1>1 DEF Lock, entryVars, Shape, WritingInv, TypeOK
  <2> QED
    BY <2>1, <2>2, <2>3 DEF Shape
<1>2. ASSUME NEW w \in Writers, WriteBegin(w) PROVE SafeInv'
  <2>1. \A v \in Writers : wpc[v] # "idle" => v = w
    BY <1>2 DEF WriteBegin, Shape, LockInv
  <2>2. ~IsOdd(version)
    BY <1>2, <2>1 DEF WriteBegin, Shape, VersionInv
  <2>3. version' = version + 1 /\ IsOdd(version')
    BY <1>2, <2>2, MakeOddStep DEF WriteBegin, TypeOK
  <2>4. ReaderInv' /\ NoTornHit'
    BY <1>2, <2>3, WriterReaders DEF WriteBegin
  <2>5. LockInv' /\ VersionInv' /\ StableInv'
    BY <1>2, <2>3 DEF WriteBegin, Shape, LockInv, VersionInv, StableInv, TypeOK
  <2>6. WritingInv'
    BY <1>2, <2>1 DEF WriteBegin, WritingInv, StoresOf, TypeOK
  <2> QED
    BY <2>4, <2>5, <2>6 DEF Shape
<1>3. ASSUME NEW w \in Writers, Store(w) PROVE SafeInv'
  <2>1. \A v \in Writers : wpc[v] # "idle" => v = w
    BY <1>3 DEF Store, Shape, LockInv
  <2>2. IsOdd(version) /\ version' = version
    BY <1>3 DEF Store, Shape, VersionInv
  <2>3. ReaderInv' /\ NoTornHit'
    BY <1>3, <2>2, WriterReaders DEF Store
  <2>4. LockInv' /\ VersionInv' /\ StableInv'
    BY <1>3, <2>2 DEF Store, Shape, LockInv, VersionInv, StableInv
  <2>5. WritingInv'
    <3>1. PICK x \in stores[w] :
            /\ stores' = [stores EXCEPT ![w] = @ \ {x}]
            /\ IF x = "flags"
               THEN flags' = FlagsAfter(op[w], flags) /\ UNCHANGED word
               ELSE word' = [word EXCEPT ![x] = op[w].payload] /\ UNCHANGED flags
      BY <1>3 DEF Store
    <3>2. stores'[w] = stores[w] \ {x} /\ op' = op /\ wpc' = wpc
      BY <1>3, <3>1 DEF Store, TypeOK
    <3>3. CASE op[w].kind = "insert"
      <4>1. \A y \in Words \ stores'[w] : word'[y] = op[w].payload
        BY <1>3, <3>1, <3>2, <3>3, EntryAssumption
        DEF Store, Shape, WritingInv, TypeOK
      <4>2. "flags" \notin stores'[w] => flags' = {PRESENT}
        BY <1>3, <3>1, <3>2, <3>3 DEF Store, Shape, WritingInv, FlagsAfter
      <4> QED
        BY <2>1, <3>2, <3>3, <4>1, <4>2 DEF WritingInv
    <3>4. CASE op[w].kind # "insert"
      <4>1. stores[w] \subseteq {"flags"} /\ x = "flags"
        BY <1>3, <3>1, <3>4 DEF Store, Shape, WritingInv
      <4>2. PRESENT \notin flags'
        BY <3>1, <3>4, <4>1 DEF FlagsAfter, PRESENT, DELETED
      <4> QED
        BY <2>1, <3>2, <3>4, <4>1, <4>2 DEF WritingInv
    <3> QED
      BY <3>3, <3>4
  <2> QED
    BY <2>3, <2>4, <2>5 DEF Shape
<1>4. ASSUME NEW w \in Writers, WriteEnd(w) PROVE SafeInv'
  <2>1. \A v \in Writers : wpc[v] # "idle" => v = w
    BY <1>4 DEF WriteEnd, Shape, LockInv
  <2>2. IsOdd(version)
    BY <1>4 DEF WriteEnd, Shape, VersionInv
  <2>3. version' = version + 1 /\ ~IsOdd(version')
    BY <1>4, <2>2, NextStableStep DEF WriteEnd, TypeOK
  <2>4. ReaderInv' /\ NoTornHit'
    BY <1>4, <2>3, WriterReaders DEF WriteEnd
  <2>5. LockInv' /\ VersionInv' /\ WritingInv'
    BY <1>4, <2>1, <2>3
    DEF WriteEnd, Shape, LockInv, VersionInv, WritingInv, TypeOK
  <2>6. StableInv'
    <3>1. CASE op[w].kind = "insert"
      <4>1. word = Whole(op[w].payload) /\ op[w].payload \in Payloads
        BY <1>4, <3>1, StoresType DEF WriteEnd, Shape, WritingInv, TypeOK, Whole
      <4> QED
        BY <1>4, <4>1 DEF WriteEnd, StableInv
    <3>2. CASE op[w].kind # "insert"
      BY <1>4, <3>2 DEF WriteEnd, Shape, WritingInv, StableInv, Servable
    <3> QED
      BY <3>1, <3>2
  <2> QED
    BY <2>4, <2>5, <2>6 DEF Shape
<1>5. ASSUME NEW w \in Writers, Unlock(w) PROVE SafeInv'
  <2>1. ReaderInv' /\ NoTornHit'
    BY <1>5, WriterReaders DEF Unlock, entryVars
  <2>2. LockInv'
    BY <1>5, EntryAssumption DEF Unlock, Shape, LockInv, TypeOK
  <2>3. VersionInv' /\ StableInv' /\ WritingInv'
    BY <1>5 DEF Unlock, entryVars, Shape, VersionInv, StableInv, WritingInv, TypeOK
  <2> QED
    BY <2>1, <2>2, <2>3 DEF Shape
<1>6. ASSUME NEW r \in Readers, Lookup(r) PROVE SafeInv'
  <2>1. ReaderInv' /\ NoTornHit'
    BY <1>6 DEF Lookup, ReaderInv, NoTornHit, TypeOK, entryVars
  <2> QED
    BY <1>6, <2>1, ReaderShape DEF Lookup
<1>7. ASSUME NEW r \in Readers, ReadVersion(r) PROVE SafeInv'
  <2>1. CASE IsOdd(version)
    <3>1. ReaderInv' /\ NoTornHit'
      BY <1>7, <2>1, RetryReader DEF ReadVersion, entryVars
    <3> QED
      BY <1>7, <3>1, ReaderShape DEF ReadVersion
  <2>2. CASE ~IsOdd(version)
    <3>1. /\ v0' = [v0 EXCEPT ![r] = version]
          /\ rpc' = [rpc EXCEPT ![r] = "flags"]
          /\ UNCHANGED <<version, flags, word, loads, out>>
      BY <1>7, <2>2 DEF ReadVersion, entryVars
    <3>2. \A q \in Readers :
            \/ q = r /\ rpc'[q] = "flags" /\ v0'[q] = version
            \/ rpc'[q] = rpc[q] /\ v0'[q] = v0[q]
      BY <3>1 DEF TypeOK
    <3>3. version <= version
      BY DEF TypeOK
    <3>4. ReaderInv' /\ NoTornHit'
      BY <2>2, <3>1, <3>2, <3>3 DEF ReaderInv, NoTornHit
    <3> QED
      BY <1>7, <3>4, ReaderShape DEF ReadVersion
  <2> QED
    BY <2>1, <2>2
<1>8. ASSUME NEW r \in Readers, ReadFlags(r) PROVE SafeInv'
  <2>1. ReaderInv' /\ NoTornHit'
    BY <1>8 DEF ReadFlags, ReaderInv, NoTornHit, TypeOK, entryVars
  <2> QED
    BY <1>8, <2>1, ReaderShape DEF ReadFlags
<1>9. ASSUME NEW r \in Readers, Recheck(r) PROVE SafeInv'
  <2>1. CASE version # v0[r]
    BY <1>9, <2>1, RetryReader, ReaderShape DEF Recheck, entryVars
  <2>2. CASE version = v0[r]
    <3>1. ReaderInv' /\ NoTornHit'
      BY <1>9, <2>2 DEF Recheck, ReaderInv, NoTornHit, TypeOK, entryVars
    <3> QED
      BY <1>9, <3>1, ReaderShape DEF Recheck
  <2> QED
    BY <2>1, <2>2
<1>10. ASSUME NEW r \in Readers, CopyWord(r) PROVE SafeInv'
  <2>1. PICK x \in loads[r] :
          /\ out' = [out EXCEPT ![r][x] = word[x]]
          /\ loads' = [loads EXCEPT ![r] = @ \ {x}]
    BY <1>10 DEF CopyWord
  <2>2. NoTornHit'
    BY <1>10, <2>1 DEF CopyWord, NoTornHit, TypeOK
  <2>3. ReaderInv'
    <3>1. ASSUME NEW q \in Readers,
                 rpc[q] = "copy", v0[q] = version
          PROVE  \A y \in Words \ loads'[q] : out'[q][y] = word[y]
      BY <2>1, <3>1 DEF ReaderInv, TypeOK
    <3> QED
      BY <1>10, <3>1 DEF CopyWord, ReaderInv, entryVars
  <2> QED
    BY <1>10, <2>2, <2>3, ReaderShape DEF CopyWord
<1>11. ASSUME NEW r \in Readers, Verify(r) PROVE SafeInv'
  <2>1. CASE version # v0[r]
    BY <1>11, <2>1, RetryReader, ReaderShape DEF Verify, entryVars
  <2>2. CASE version = v0[r]
    <3>1. ~IsOdd(version) /\ Servable(flags)
      BY <1>11, <2>2 DEF Verify, ReaderInv
    <3>2. PICK p \in Payloads : word = Whole(p)
      BY <3>1 DEF Shape, StableInv
    <3>3. out[r] = Whole(p)
      BY <1>11, <2>2, <3>2 DEF Verify, ReaderInv, Whole, TypeOK
    <3>4. ReaderInv' /\ NoTornHit'
      BY <1>11, <2>2, <3>3 DEF Verify, ReaderInv, NoTornHit, TypeOK, entryVars
    <3> QED
      BY <1>11, <3>4, ReaderShape DEF Verify
  <2> QED
    BY <2>1, <2>2
<1>12. CASE UNCHANGED vars
  BY <1>12 DEF vars, Shape, LockInv, VersionInv, WritingInv, StableInv,
               ReaderInv, NoTornHit
<1> QED
  BY <1>1, <1>2, <1>3, <1>4, <1>5, <1>6, <1>7, <1>8, <1>9, <1>10, <1>11, <1>12 DEF Next

\* A fresh or freshly loaded entry satisfies it.
LEMMA SafeInit == Init => SafeInv
<1> SUFFICES ASSUME Init PROVE SafeInv
  OBVIOUS
<1>1. ~IsOdd(version)
  BY DEF Init, IsOdd
<1>2. LockInv /\ VersionInv /\ WritingInv
  BY <1>1, EntryAssumption DEF Init, LockInv, VersionInv, WritingInv
<1>3. StableInv
  BY DEF Init, StableInv, Servable
<1>4. ReaderInv /\ NoTornHit
  BY DEF Init, ReaderInv, NoTornHit
<1> QED
  BY <1>2, <1>3, <1>4 DEF SafeInv, Shape

-----------------------------------------------------------------------------
(* The theorems *)

\* In every behaviour of the seqlock the inductive invariant holds.
THEOREM Invariance == Spec => []IInv
<1>1. Init => IInv
  BY TypeInit, SafeInit DEF IInv, SafeInv, Shape
<1>2. IInv /\ [Next]_vars => IInv'
  BY TypeStep, SafeStep DEF IInv, SafeInv, Shape
<1> QED
  BY <1>1, <1>2, PTL DEF Spec

\* acorn_cc_write_begin/end, acorn_codecache_insert, _invalidate and _read
\* keep every field in its type; the reader's loop never starts a third
\* attempt.
THEOREM TypeCorrect == Spec => []TypeOK
<1>1. IInv => TypeOK
  BY DEF IInv
<1> QED
  BY <1>1, Invariance, PTL

\* acorn_codecache_read never returns a torn mix of two elements, for any
\* number of backends, of words in an entry and of updates.
THEOREM NeverTorn == Spec => []NoTornHit
<1>1. IInv => NoTornHit
  BY DEF IInv
<1> QED
  BY <1>1, Invariance, PTL

-----------------------------------------------------------------------------
(* Refinement: the entry under its seqlock is the atomic entry of          *)
(* EntryHint.  write_begin is BeginUpdate, write_end is EndUpdate, the     *)
(* second read of the version is the answer, everything else stutters.     *)

\* The words of a whole payload all show it.
LEMMA WholeWord ==
  ASSUME NEW p
  PROVE  Whole(p)[CHOOSE x \in Words : TRUE] = p
  BY EntryAssumption DEF Whole

\* A stable entry holds an element or nothing; an unstable one is busy.
LEMMA ContentType ==
  ASSUME TypeOK, StableInv
  PROVE  IF IsOdd(version) THEN ContentOf = Busy
         ELSE ContentOf \in Payloads \cup {Absent}
<1>1. CASE ~IsOdd(version) /\ Servable(flags)
  <2>1. PICK p \in Payloads : word = Whole(p)
    BY <1>1 DEF StableInv
  <2> QED
    BY <1>1, <2>1, WholeWord DEF ContentOf
<1> QED
  BY <1>1 DEF ContentOf, Absent

\* What a reader's control state shows of its lookup.
LEMMA AnswerValues ==
  ASSUME NEW pc, NEW copy
  PROVE  /\ pc \in {"version", "flags", "recheck", "copy"} =>
              AnswerFor(pc, copy) = Waiting
         /\ pc = "miss" => AnswerFor(pc, copy) = Miss
         /\ pc = "hit" => AnswerFor(pc, copy) = copy[CHOOSE x \in Words : TRUE]
  BY DEF AnswerFor

\* A step of one reader changes no answer but its own.
LEMMA AnswerMove ==
  ASSUME NEW r \in Readers, NEW a, AnswerFor(rpc'[r], out'[r]) = a,
         \A q \in Readers \ {r} : rpc'[q] = rpc[q] /\ out'[q] = out[q]
  PROVE  AnswerOf' = [AnswerOf EXCEPT ![r] = a]
  BY DEF AnswerOf

\* The entry's content depends on the entry alone.
LEMMA ContentSame ==
  ASSUME UNCHANGED entryVars
  PROVE  ContentOf' = ContentOf
  BY DEF entryVars, ContentOf

\* A step that leaves a reader waiting, or lets it give up, is a stutter or
\* a miss of the atomic entry.
LEMMA WaitOrMiss ==
  ASSUME NEW r \in Readers, TypeOK, ~Idle(r),
         rpc' \in [Readers -> {"version", "flags", "recheck", "copy", "hit", "miss"}],
         rpc'[r] # "hit",
         \A q \in Readers \ {r} : rpc'[q] = rpc[q] /\ out'[q] = out[q],
         UNCHANGED entryVars
  PROVE  [Hint!Next]_(Hint!hintVars)
<1>1. AnswerOf[r] = Waiting
  BY AnswerValues DEF TypeOK, Idle, AnswerOf
<1>2. ContentOf' = ContentOf
  BY ContentSame
<1>3. CASE rpc'[r] = "miss"
  <2>0. AnswerFor(rpc'[r], out'[r]) = Miss
    BY <1>3, AnswerValues
  <2>1. AnswerOf' = [AnswerOf EXCEPT ![r] = Miss]
    BY <2>0, AnswerMove
  <2>2. Hint!AnswerMiss(r)
    BY <1>1, <1>2, <2>1 DEF Hint!AnswerMiss
  <2> QED
    BY <2>2 DEF Hint!Next
<1>4. CASE rpc'[r] # "miss"
  <2>1. rpc'[r] \in {"version", "flags", "recheck", "copy"}
    BY <1>4
  <2>0. AnswerFor(rpc'[r], out'[r]) = Waiting
    BY <2>1, AnswerValues
  <2>2. AnswerOf' = [AnswerOf EXCEPT ![r] = Waiting]
    BY <2>0, AnswerMove
  <2>3. AnswerOf' = AnswerOf
    BY <1>1, <2>2 DEF AnswerOf
  <2> QED
    BY <1>2, <2>3 DEF Hint!hintVars
<1> QED
  BY <1>3, <1>4

\* The initial entry is an initial atomic entry.
LEMMA RefineInit == TypeOK /\ StableInv /\ Init => Hint!Init
<1> SUFFICES ASSUME TypeOK, StableInv, Init PROVE Hint!Init
  OBVIOUS
<1>1. ContentOf \in Payloads \cup {Absent}
  BY ContentType DEF Init, IsOdd
<1>2. AnswerOf = [r \in Readers |-> Miss]
  BY AnswerValues DEF Init, AnswerOf
<1> QED
  BY <1>1, <1>2 DEF Hint!Init

\* Every step of the seqlock is a step of the atomic entry or a stutter.
LEMMA RefineStep ==
  IInv /\ IInv' /\ [Next]_vars => [Hint!Next]_(Hint!hintVars)
<1> SUFFICES ASSUME IInv, IInv', [Next]_vars
             PROVE  [Hint!Next]_(Hint!hintVars)
  OBVIOUS
<1>a. TypeOK /\ TypeOK' /\ StableInv /\ StableInv'
  BY DEF IInv
<1>1. ASSUME NEW w \in Writers, Lock(w) \/ Unlock(w)
      PROVE  [Hint!Next]_(Hint!hintVars)
  BY <1>1, ContentSame DEF Lock, Unlock, readerVars, AnswerOf, Hint!hintVars
<1>2. ASSUME NEW w \in Writers, WriteBegin(w) PROVE [Hint!Next]_(Hint!hintVars)
  <2>1. ~IsOdd(version)
    <3>1. \A v \in Writers : wpc[v] # "idle" => v = w
      BY <1>2 DEF WriteBegin, IInv, LockInv
    <3> QED
      BY <1>2, <3>1 DEF WriteBegin, IInv, VersionInv
  <2>2. IsOdd(version')
    BY <1>2, <1>a, <2>1, MakeOddStep DEF WriteBegin, TypeOK
  <2>3. ContentOf # Busy
    BY <1>a, <2>1, ContentType, EntryAssumption DEF Busy, Absent
  <2>4. ContentOf' = Busy
    BY <2>2 DEF ContentOf
  <2>5. AnswerOf' = AnswerOf
    BY <1>2 DEF WriteBegin, readerVars, AnswerOf
  <2> QED
    BY <2>3, <2>4, <2>5 DEF Hint!Next, Hint!BeginUpdate
<1>3. ASSUME NEW w \in Writers, Store(w) PROVE [Hint!Next]_(Hint!hintVars)
  <2>1. IsOdd(version) /\ version' = version
    BY <1>3 DEF Store, IInv, VersionInv
  <2> QED
    BY <1>3, <2>1 DEF Store, ContentOf, readerVars, AnswerOf, Hint!hintVars
<1>4. ASSUME NEW w \in Writers, WriteEnd(w) PROVE [Hint!Next]_(Hint!hintVars)
  <2>1. IsOdd(version)
    BY <1>4 DEF WriteEnd, IInv, VersionInv
  <2>2. ~IsOdd(version')
    BY <1>4, <1>a, <2>1, NextStableStep DEF WriteEnd, TypeOK
  <2>3. ContentOf = Busy
    BY <2>1 DEF ContentOf
  <2>4. ContentOf' \in Payloads \cup {Absent}
    <3>1. CASE Servable(flags')
      <4>1. PICK p \in Payloads : word' = Whole(p)
        BY <1>a, <2>2, <3>1 DEF StableInv, Servable
      <4> QED
        BY <2>2, <3>1, <4>1, WholeWord DEF ContentOf, Servable
    <3>2. CASE ~Servable(flags')
      BY <2>2, <3>2 DEF ContentOf, Servable, Absent
    <3> QED
      BY <3>1, <3>2
  <2>5. AnswerOf' = AnswerOf
    BY <1>4 DEF WriteEnd, readerVars, AnswerOf
  <2> QED
    BY <2>3, <2>4, <2>5 DEF Hint!Next, Hint!EndUpdate
<1>5. ASSUME NEW r \in Readers, Lookup(r) PROVE [Hint!Next]_(Hint!hintVars)
  <2>1. ContentOf' = ContentOf
    BY <1>5, ContentSame DEF Lookup
  <2>2. AnswerOf' = [AnswerOf EXCEPT ![r] = Waiting]
    <3>1. rpc'[r] = "version"
      BY <1>5, <1>a DEF Lookup, TypeOK
    <3>2. \A q \in Readers \ {r} : rpc'[q] = rpc[q] /\ out'[q] = out[q]
      BY <1>5, <1>a DEF Lookup, TypeOK
    <3>3. AnswerFor(rpc'[r], out'[r]) = Waiting
      BY <3>1, AnswerValues
    <3> QED
      BY <3>2, <3>3, AnswerMove
  <2>3. AnswerOf[r] # Waiting
    <3>1. CASE rpc[r] = "miss"
      BY <3>1, AnswerValues DEF AnswerOf, Waiting, Miss
    <3>2. CASE rpc[r] = "hit"
      <4>1. PICK p \in Payloads : out[r] = Whole(p)
        BY <3>2 DEF IInv, NoTornHit
      <4>2. AnswerOf[r] = p
        BY <3>2, <4>1, AnswerValues, WholeWord DEF AnswerOf
      <4> QED
        BY <4>2, EntryAssumption DEF Waiting
    <3> QED
      BY <1>5, <3>1, <3>2 DEF Lookup, Idle
  <2> QED
    BY <2>1, <2>2, <2>3 DEF Hint!Next, Hint!Ask
<1>6. ASSUME NEW r \in Readers, ReadVersion(r) \/ ReadFlags(r) \/ Recheck(r)
      PROVE  [Hint!Next]_(Hint!hintVars)
  <2>1. ~Idle(r) /\ rpc'[r] # "hit" /\ UNCHANGED <<out, entryVars>>
    BY <1>6, <1>a DEF ReadVersion, ReadFlags, Recheck, Retry, Idle, TypeOK
  <2>2. \A q \in Readers \ {r} : rpc'[q] = rpc[q]
    BY <1>6, <1>a DEF ReadVersion, ReadFlags, Recheck, Retry, TypeOK
  <2> QED
    BY <1>a, <2>1, <2>2, WaitOrMiss DEF TypeOK
<1>7. ASSUME NEW r \in Readers, CopyWord(r) PROVE [Hint!Next]_(Hint!hintVars)
  <2>1. ~Idle(r) /\ rpc'[r] # "hit" /\ UNCHANGED <<rpc, entryVars>>
    BY <1>7 DEF CopyWord, Idle
  <2>2. \A q \in Readers \ {r} : out'[q] = out[q]
    BY <1>7, <1>a DEF CopyWord, TypeOK
  <2> QED
    BY <1>a, <2>1, <2>2, WaitOrMiss DEF TypeOK
<1>8. ASSUME NEW r \in Readers, Verify(r) PROVE [Hint!Next]_(Hint!hintVars)
  <2>1. ~Idle(r) /\ UNCHANGED <<out, entryVars>>
    BY <1>8 DEF Verify, Idle
  <2>2. \A q \in Readers \ {r} : rpc'[q] = rpc[q]
    BY <1>8, <1>a DEF Verify, Retry, TypeOK
  <2>3. CASE version # v0[r]
    <3>1. rpc'[r] # "hit"
      BY <1>8, <1>a, <2>3 DEF Verify, Retry, TypeOK
    <3> QED
      BY <1>a, <2>1, <2>2, <3>1, WaitOrMiss DEF TypeOK
  <2>4. CASE version = v0[r]
    <3>1. ~IsOdd(version) /\ Servable(flags)
      BY <1>8, <2>4 DEF Verify, IInv, ReaderInv
    <3>2. PICK p \in Payloads : word = Whole(p)
      BY <1>a, <3>1 DEF StableInv
    <3>3. ContentOf = p /\ ContentOf' = ContentOf
      BY <2>1, <3>1, <3>2, WholeWord, ContentSame DEF ContentOf
    <3>4. rpc'[r] = "hit"
      BY <1>8, <1>a, <2>4 DEF Verify, TypeOK
    <3>5. out'[r] = Whole(p)
      <4>1. \A x \in Words : out[r][x] = word[x]
        BY <1>8, <2>4 DEF Verify, IInv, ReaderInv
      <4> QED
        BY <1>a, <2>1, <3>2, <4>1 DEF Whole, TypeOK
    <3>6. AnswerOf' = [AnswerOf EXCEPT ![r] = ContentOf]
      <4>1. AnswerFor(rpc'[r], out'[r]) = ContentOf
        BY <3>3, <3>4, <3>5, AnswerValues, WholeWord
      <4> QED
        BY <2>1, <2>2, <4>1, AnswerMove
    <3>7. AnswerOf[r] = Waiting
      BY <1>a, <2>1, AnswerValues DEF TypeOK, Idle, AnswerOf
    <3>8. Hint!AnswerHit(r)
      BY <3>3, <3>6, <3>7 DEF Hint!AnswerHit
    <3> QED
      BY <3>8 DEF Hint!Next
  <2> QED
    BY <2>3, <2>4
<1>9. CASE UNCHANGED vars
  BY <1>9 DEF vars, ContentOf, AnswerOf, Hint!hintVars
<1> QED
  BY <1>1, <1>2, <1>3, <1>4, <1>5, <1>6, <1>7, <1>8, <1>9 DEF Next

\* acorn_codecache.h's contract of the area, "a hint, never an authority":
\* each lookup misses, or returns the element the entry held when its
\* version was read for the second time.
THEOREM Refinement == Spec => HintSpec
<1>1. Init => Hint!Init
  BY TypeInit, SafeInit, RefineInit DEF SafeInv, Shape
<1> QED
  BY <1>1, RefineStep, Invariance, PTL DEF Spec, HintSpec, Hint!Spec

=============================================================================
