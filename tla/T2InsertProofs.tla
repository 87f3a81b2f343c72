--------------------------- MODULE T2InsertProofs ---------------------------
(***************************************************************************)
(* The entry point of a Tier 2 index under concurrent inserts, for any     *)
(* number of rows, any levels, vectors and layouts: it is always an        *)
(* element on its page, at the highest level any insert has announced.     *)
(***************************************************************************)
EXTENDS T2Insert, TLAPS

-----------------------------------------------------------------------------
(* Phases of an insert *)

(* After acorn_maybe_update_entry. *)
Announced == {"reverse", "link", "colocate", "done"}

(* With the element tuple on its page, the inserter still alive. *)
OnPage == Announced \cup {"entry"}

(* The inductive invariant: an inserter past its element tuple has it in   *)
(* `elements`, and one past the meta page is not above the entry point.    *)
IInv ==
  /\ DOMAIN ins = Elements
  /\ \A e \in Elements : "pc" \in DOMAIN ins[e]
  /\ \A e \in Elements : ins[e].pc \in OnPage => e \in elements
  /\ elements \subseteq Elements
  /\ meta.level \in Int
  /\ meta.entry # None => meta.entry \in elements /\ meta.level = Level[meta.entry]
  /\ meta.entry = None => meta.level = -1
  /\ \A e \in Elements : ins[e].pc \in Announced => Level[e] <= meta.level

(* EntryHighest is a part of it. *)
LEMMA Implied == IInv => EntryHighest
  BY DEF IInv, EntryHighest, Announced

(* An empty index has no inserter and no entry point. *)
LEMMA Initially == SelectionAssumption /\ Init => IInv
  BY SMTT(30) DEF SelectionAssumption, Init, IInv, Idle, Announced, OnPage

-----------------------------------------------------------------------------
(* Steps that change nothing but the inserter's own variables.  The next   *)
(* phase may be any that asks nothing the last did not.                    *)

NoLater(p, q) ==
  /\ q \in OnPage => p \in OnPage
  /\ q \in Announced => p \in Announced

(* The invariant holds after any such step. *)
LEMMA OwnStep ==
  ASSUME IInv, NEW e \in Elements, NEW r, Become(e, r),
         "pc" \in DOMAIN r, NoLater(ins[e].pc, r.pc),
         UNCHANGED <<meta, elements>>
  PROVE  IInv'
<1>1. /\ DOMAIN ins' = Elements /\ ins'[e] = r
      /\ \A x \in Elements \ {e} : ins'[x] = ins[x]
  BY DEF IInv, Become
<1>2. ins'[e].pc \in OnPage => e \in elements
  BY <1>1 DEF IInv, NoLater
<1>3. ins'[e].pc \in Announced => Level[e] <= meta.level
  BY <1>1 DEF IInv, NoLater
<1> QED
  BY <1>1, <1>2, <1>3 DEF IInv

(* A search is an early phase. *)
LEMMA SearchEarly ==
  ASSUME NEW e, NEW r, "pc" \in DOMAIN r, NEW ep, NEW lc, NEW b
  PROVE  /\ "pc" \in DOMAIN Search(e, r, ep, lc, b)
         /\ Search(e, r, ep, lc, b).pc = "search"
  BY DEF Search

(* So is what follows the candidates of a layer. *)
LEMMA BelowEarly ==
  ASSUME NEW e, NEW r, "pc" \in DOMAIN r, NEW cands
  PROVE  /\ "pc" \in DOMAIN BelowLayer(e, r, cands)
         /\ BelowLayer(e, r, cands).pc \in {"search", "neighbors"}
  BY SearchEarly DEF BelowLayer

(* From the meta page to the neighbour tuple, the inserter has no element. *)
LEMMA EarlySteps ==
  ASSUME IInv, NEW e \in Elements,
         \/ ReadMeta(e) \/ Descend(e) \/ Expand(e)
         \/ SelectLayer(e) \/ SelectGlobalHalf(e) \/ SelectPayloadHalf(e)
  PROVE  IInv'
<1> DEFINE Early == {"descend", "search", "neighbors"}
<1>0. "pc" \in DOMAIN ins[e]
  BY DEF IInv
<1>1. \A q \in Early : NoLater(ins[e].pc, q)
  BY DEF NoLater, OnPage, Announced
<1>2. CASE ReadMeta(e)
  <2> DEFINE total == TotalSlots(Level[e], opt_m)
             r == [ins[e] EXCEPT !.m = opt_m, !.entry = meta.entry,
                                 !.entry_level = meta.level,
                                 !.tids = [s \in 0..(total - 1) |-> None]]
             none == [r EXCEPT !.pc = "neighbors"]
             down == [r EXCEPT !.pc = "descend", !.ep = meta.entry, !.lc = meta.level]
             at == Search(e, r, meta.entry, meta.level, FALSE)
  <2>1. UNCHANGED <<meta, elements>>
    BY <1>2 DEF ReadMeta
  <2>2. Become(e, none) \/ Become(e, down) \/ Become(e, at)
    BY <1>2 DEF ReadMeta
  <2>3. "pc" \in DOMAIN r
    BY <1>0
  <2> HIDE DEF r
  <2>4. /\ "pc" \in DOMAIN none /\ none.pc \in Early
        /\ "pc" \in DOMAIN down /\ down.pc \in Early
        /\ "pc" \in DOMAIN at /\ at.pc \in Early
    BY <2>3, SearchEarly
  <2> HIDE DEF none, down, at
  <2> QED
    BY <1>1, <2>1, <2>2, <2>4, OwnStep
<1>3. CASE Descend(e)
  <2> DEFINE nearer == {n \in NbrTidsAtLayer(ins[e].ep, ins[e].lc, ins[e].m) :
                          Dist(n, e) < Dist(ins[e].ep, e)}
             near == [ins[e] EXCEPT !.ep = Closest(e, nearer)]
             down == [ins[e] EXCEPT !.lc = ins[e].lc - 1]
             at == Search(e, ins[e], ins[e].ep, ins[e].lc - 1, FALSE)
  <2>1. UNCHANGED <<meta, elements>> /\ ins[e].pc = "descend"
    BY <1>3 DEF Descend
  <2>2. Become(e, near) \/ Become(e, down) \/ Become(e, at)
    BY <1>3 DEF Descend
  <2>3. /\ "pc" \in DOMAIN near /\ near.pc = ins[e].pc
        /\ "pc" \in DOMAIN down /\ down.pc = ins[e].pc
    BY <1>0
  <2>4. "pc" \in DOMAIN at /\ at.pc = "search"
    BY <1>0, SearchEarly
  <2> HIDE DEF near, down, at
  <2> QED
    BY <1>1, <2>1, <2>2, <2>3, <2>4, OwnStep
<1>4. CASE Expand(e)
  BY <1>0, <1>1, <1>4, OwnStep DEF Expand
<1>5. CASE SelectLayer(e)
  BY <1>0, <1>1, <1>5, OwnStep, BelowEarly DEF SelectLayer
<1>6. CASE SelectGlobalHalf(e)
  <2> DEFINE r == [ins[e] EXCEPT
                     !.tids = Put(@, Start0(e), Select(e, ins[e].W, ins[e].m)),
                     !.cands = ins[e].W]
             next == Search(e, r, ins[e].ep, 0, TRUE)
  <2>1. Become(e, next) /\ UNCHANGED <<meta, elements>>
    BY <1>6 DEF SelectGlobalHalf
  <2>2. "pc" \in DOMAIN r
    BY <1>0
  <2> HIDE DEF r
  <2>3. "pc" \in DOMAIN next /\ next.pc \in Early
    BY <2>2, SearchEarly
  <2> HIDE DEF next
  <2> QED
    BY <1>1, <2>1, <2>3, OwnStep
<1>7. CASE SelectPayloadHalf(e)
  BY <1>0, <1>1, <1>7, OwnStep, BelowEarly DEF SelectPayloadHalf
<1> QED
  BY <1>2, <1>3, <1>4, <1>5, <1>6, <1>7

(* So do the reverse edges, once the meta page is behind. *)
LEMMA LateSteps ==
  ASSUME IInv, NEW e \in Elements,
         \/ WriteNeighborTuple(e)
         \/ ReadReverse(e) \/ WriteReverse(e) \/ InlineWriteEntry(e)
         \/ Finish(e) \/ Fail(e)
  PROVE  IInv'
<1>0. "pc" \in DOMAIN ins[e] /\ "pc" \in DOMAIN Idle
  BY DEF IInv, Idle
<1>1. CASE WriteNeighborTuple(e)
  BY <1>0, <1>1, OwnStep DEF WriteNeighborTuple, NoLater, OnPage, Announced
<1>2. CASE ReadReverse(e)
  BY <1>0, <1>2, OwnStep DEF ReadReverse, NoLater, OnPage, Announced
<1>3. CASE WriteReverse(e)
  BY <1>0, <1>3, OwnStep DEF WriteReverse, Linked, NoLater, OnPage, Announced
<1>4. CASE InlineWriteEntry(e)
  BY <1>0, <1>4, OwnStep DEF InlineWriteEntry, Linked, NoLater, OnPage, Announced
<1>5. CASE Finish(e)
  BY <1>0, <1>5, OwnStep DEF Finish, NoLater, OnPage, Announced
<1>6. CASE Fail(e)
  BY <1>0, <1>6, OwnStep DEF Fail, NoLater, OnPage, Announced
<1> QED
  BY <1>1, <1>2, <1>3, <1>4, <1>5, <1>6

-----------------------------------------------------------------------------
(* The two steps that carry the property. *)

(* The element tuple reaches its page before the insert may announce it. *)
LEMMA ElementStep ==
  ASSUME IInv, NEW e \in Elements, WriteElementTuple(e)
  PROVE  IInv'
<1>1. /\ DOMAIN ins' = Elements
      /\ "pc" \in DOMAIN ins'[e] /\ ins'[e].pc = "entry"
      /\ \A x \in Elements \ {e} : ins'[x] = ins[x]
  BY DEF WriteElementTuple, Become, IInv
<1>2. elements' = elements \cup {e} /\ meta' = meta
  BY DEF WriteElementTuple
<1>3. "entry" \notin Announced
  BY DEF Announced
<1> QED
  BY <1>1, <1>2, <1>3 DEF IInv

(* The meta page is compared and written under one lock: the entry point's *)
(* level never falls, and afterwards it is at least this element's.        *)
LEMMA EntryStep ==
  ASSUME SelectionAssumption, IInv, NEW e \in Elements, MaybeUpdateEntry(e)
  PROVE  IInv' /\ meta.level <= meta'.level
<1>1. /\ DOMAIN ins' = Elements
      /\ "pc" \in DOMAIN ins'[e] /\ ins'[e].pc = "reverse"
      /\ \A x \in Elements \ {e} : ins'[x] = ins[x]
  BY DEF MaybeUpdateEntry, Become, IInv
<1>2. e \in elements /\ elements' = elements
  BY DEF MaybeUpdateEntry, IInv, OnPage
<1>3. \A x \in Elements : Level[x] \in Nat
  BY DEF SelectionAssumption
<1>4. /\ meta'.level \in Int
      /\ meta.level <= meta'.level /\ Level[e] <= meta'.level
      /\ meta'.entry # None => meta'.entry \in elements /\ meta'.level = Level[meta'.entry]
      /\ meta'.entry = None => meta'.level = -1
  <2>1. CASE Raises(e)
    <3>1. meta' = [entry |-> e, level |-> Level[e]]
      BY <2>1 DEF MaybeUpdateEntry
    <3>2. meta.level <= Level[e] /\ e # None
      BY <2>1, <1>3 DEF Raises, IInv, SelectionAssumption
    <3> QED
      BY <3>1, <3>2, <1>2, <1>3
  <2>2. CASE ~Raises(e)
    BY <2>2, <1>3 DEF Raises, MaybeUpdateEntry, IInv
  <2> QED
    BY <2>1, <2>2
<1>5. \A x \in Elements : ins'[x].pc \in Announced => Level[x] <= meta'.level
  BY <1>1, <1>3, <1>4 DEF IInv
<1> QED
  BY <1>1, <1>2, <1>4, <1>5 DEF IInv, OnPage, Announced

-----------------------------------------------------------------------------
(* Every step of Next keeps the invariant and never lowers the entry point. *)
LEMMA Inductive ==
  ASSUME SelectionAssumption, IInv, [Next]_vars
  PROVE  IInv' /\ meta.level <= meta'.level
<1>0. CASE UNCHANGED vars
  BY <1>0 DEF vars, IInv
<1>1. CASE Next
  <2>1. PICK e \in Elements : Step(e) \/ Fail(e)
    BY <1>1 DEF Next
  <2>2. CASE \/ ReadMeta(e) \/ Descend(e) \/ Expand(e)
             \/ SelectLayer(e) \/ SelectGlobalHalf(e) \/ SelectPayloadHalf(e)
    <3>1. meta' = meta
      BY <2>2 DEF ReadMeta, Descend, Expand, SelectLayer, SelectGlobalHalf, SelectPayloadHalf
    <3> QED
      BY <2>2, <3>1, EarlySteps DEF IInv
  <2>3. CASE \/ WriteNeighborTuple(e)
             \/ ReadReverse(e) \/ WriteReverse(e) \/ InlineWriteEntry(e)
             \/ Finish(e) \/ Fail(e)
    <3>1. meta' = meta
      BY <2>3 DEF WriteNeighborTuple, ReadReverse, WriteReverse, InlineWriteEntry, Finish, Fail
    <3> QED
      BY <2>3, <3>1, LateSteps DEF IInv
  <2>4. CASE WriteElementTuple(e)
    <3>1. meta' = meta
      BY <2>4 DEF WriteElementTuple
    <3> QED
      BY <2>4, <3>1, ElementStep DEF IInv
  <2>5. CASE MaybeUpdateEntry(e)
    BY <2>5, EntryStep
  <2> QED
    BY <2>1, <2>2, <2>3, <2>4, <2>5 DEF Step
<1> QED
  BY <1>0, <1>1

(* The inductive invariant holds throughout. *)
THEOREM Invariance == Spec => []IInv
<1>1. Init => IInv
  BY Initially, SelectionAssumption
<1>2. IInv /\ [Next]_vars => IInv'
  BY Inductive, SelectionAssumption
<1> QED
  BY <1>1, <1>2, PTL DEF Spec

(* acorn_maybe_update_entry: the entry point is an element on its page, at *)
(* the highest level any completed meta-page step has seen, however        *)
(* inserts interleave, fail or crash.                                      *)
THEOREM EntryIsHighest == Spec => []EntryHighest
  BY Invariance, Implied, PTL

(* acorn_maybe_update_entry: no step of any insert lowers the level scans  *)
(* and inserts start from.                                                 *)
THEOREM EntryNeverFalls == Spec => [][meta.level <= meta'.level]_vars
<1>1. IInv /\ [Next]_vars => [meta.level <= meta'.level]_vars
  BY Inductive, SelectionAssumption
<1> QED
  BY <1>1, Invariance, PTL DEF Spec
=============================================================================
