------------------------------ MODULE T2Insert ------------------------------
(***************************************************************************)
(* Tier 2 single-tuple inserts (acorn_build.c, acorn_insert_element as     *)
(* called by aminsert) of several backends into one index.  Every step is  *)
(* what the code does under one buffer lock; everything it carries from    *)
(* one step to the next is in the inserter's own variables.                *)
(*                                                                         *)
(* An element is written by one insert and never moves: its level, vector, *)
(* filter value and neighbour tuple location do not change, so only the    *)
(* contents of the neighbour slots and of the meta page are shared state.  *)
(* A vector is a position on a line, and no two distances are equal.  The  *)
(* neighbour tuple is one array: layers from the element's own down to     *)
(* layer 0, m slots each and payload_m more at the end.  Deletions are     *)
(* T2Scan's subject and the code cache CodeCacheSlots'.                    *)
(***************************************************************************)
EXTENDS NeighborSelection

CONSTANTS
  Indexes,    \* the indexes considered: reloptions at CREATE INDEX
  Efc,        \* acorn_ef_construction
  MaxActive   \* MaxActive[o], bound: inserts into index o in flight at once

ASSUME InsertAssumption ==
  /\ Efc \in Nat \ {0}
  /\ MaxActive \in [Indexes -> Nat \ {0}]
  /\ \A o \in Indexes : o.m \in Nat \ {0} /\ o.payload_m \in Nat

VARIABLES
  index,    \* what CREATE INDEX recorded and no ALTER INDEX changes
  opt_m,    \* m * gamma of the reloptions in force
  meta,     \* the entry point on the meta page
  elements, \* the element tuples written
  nbr,      \* nbr[e]: the slots of e's neighbour tuple, once written
  inl,      \* inl[e]: the element each co-located entry describes
  ins,      \* ins[e]: the variables of e's inserter
  overlap   \* two inserts have been in flight at once

vars == <<index, opt_m, meta, elements, nbr, inl, ins, overlap>>

-----------------------------------------------------------------------------
(* Geometry of a neighbour tuple (acorn_t2_page.h) *)

LayerM(layer, m) == IF layer = 0 THEN m + index.payload_m ELSE m
(* Variant: the symmetric layout, whatever the payload width. *)
TotalSlotsSymmetric(level, m) == (level + 2) * m

TotalSlots(level, m) == (level + 1) * m + index.payload_m

(* The slots of layer `layer` in the tuple of element e, as seen with m.   *)
LayerSlots(e, layer, m) ==
  LET start == NeighborStart(m, Level[e], layer)
  IN start..(start + LayerM(layer, m) - 1)

(* A slot beyond the end of the tuple has no content of its own; WithinTuple *)
(* says when it is read.                                                   *)
Slot(e, s) == IF s \in DOMAIN nbr[e] THEN nbr[e][s] ELSE None

NbrTidsAtLayer(e, layer, m) ==
  {Slot(e, s) : s \in LayerSlots(e, layer, m)} \ {None}

Select(e, S, k) ==
  IF index.diversify THEN SelectDiverse(e, S, k) ELSE Nearest(e, S, k)

-----------------------------------------------------------------------------
Idle == [pc |-> "idle", m |-> 0, entry |-> None, entry_level |-> 0,
         ep |-> None, lc |-> 0, restricted |-> FALSE, C |-> {}, W |-> {},
         visited |-> {}, expansions |-> 0, cands |-> {}, tids |-> <<>>,
         payload_real |-> 0, todo |-> {}, snap |-> <<>>, target |-> 0]

InFlight == {e \in Elements : ins[e].pc \notin {"idle", "done", "aborted"}}

Init ==
  /\ index \in Indexes
  /\ opt_m = index.m
  /\ meta = [entry |-> None, level |-> -1]
  /\ elements = {}
  /\ nbr = [e \in Elements |-> <<>>]
  /\ inl = [e \in Elements |-> <<>>]
  /\ ins = [e \in Elements |-> Idle]
  /\ overlap = FALSE

Become(e, r) == ins' = [ins EXCEPT ![e] = r]

(* Seeding a beam search at layer lc with the entry point ep. *)
Search(e, r, ep, lc, restricted) ==
  [r EXCEPT !.pc = "search", !.ep = ep, !.lc = lc, !.restricted = restricted,
            !.C = {ep}, !.visited = {ep}, !.expansions = 0,
            !.W = IF restricted /\ Partition[ep] # Partition[e] THEN {} ELSE {ep}]

(* Steps 1 to 3: the options, the entry point, an empty neighbour tuple. *)
ReadMeta(e) ==
  LET total == TotalSlots(Level[e], opt_m)
      r == [ins[e] EXCEPT !.m = opt_m, !.entry = meta.entry,
                          !.entry_level = meta.level,
                          !.tids = [s \in 0..(total - 1) |-> None]]
  IN /\ ins[e].pc = "idle"
     /\ Cardinality(InFlight) < MaxActive[index]
     /\ overlap' = (overlap \/ InFlight # {})
     /\ Become(e,
          IF meta.entry = None THEN [r EXCEPT !.pc = "neighbors"]
          ELSE IF meta.level > Level[e]
               THEN [r EXCEPT !.pc = "descend", !.ep = meta.entry, !.lc = meta.level]
               ELSE Search(e, r, meta.entry, meta.level, FALSE))
     /\ UNCHANGED <<index, opt_m, meta, elements, nbr, inl>>

(* One turn of acorn_greedy_descend_build: move to the nearest neighbour,  *)
(* or go down a layer when none is nearer.                                 *)
Descend(e) ==
  LET r == ins[e]
      nearer == {n \in NbrTidsAtLayer(r.ep, r.lc, r.m) : Dist(n, e) < Dist(r.ep, e)}
  IN /\ r.pc = "descend"
     /\ Become(e,
          IF nearer # {} THEN [r EXCEPT !.ep = Closest(e, nearer)]
          ELSE IF r.lc - 1 > Level[e] THEN [r EXCEPT !.lc = @ - 1]
          ELSE Search(e, r, r.ep, r.lc - 1, FALSE))
     /\ UNCHANGED <<index, opt_m, meta, elements, nbr, inl, overlap>>

-----------------------------------------------------------------------------
(* acorn_search_layer_construction.  A node too far for W is not kept as a *)
(* candidate by the code; keeping it only makes the loop end at its turn.  *)
Beyond(e, c) ==
  LET r == ins[e]
  IN /\ Cardinality(r.W) >= Efc
     /\ Dist(c, e) > Dist(Furthest(e, r.W), e)

SearchOver(e) ==
  LET r == ins[e]
  IN r.C # {} => \/ Beyond(e, Closest(e, r.C))
                 \/ r.restricted /\ r.expansions >= Efc * 8

(* Variant: the visited table is never consulted. *)
UnvisitedAny(e, c) == NbrTidsAtLayer(c, ins[e].lc, ins[e].m)

Unvisited(e, c) == NbrTidsAtLayer(c, ins[e].lc, ins[e].m) \ ins[e].visited

Expand(e) ==
  LET r == ins[e]
      c == Closest(e, r.C)
      new == Unvisited(e, c)
      members == {n \in new : r.restricted => Partition[n] = Partition[e]}
  IN /\ r.pc = "search"
     /\ ~SearchOver(e)
     /\ Become(e, [r EXCEPT !.C = (@ \ {c}) \cup new,
                            !.visited = @ \cup new,
                            !.expansions = @ + 1,
                            !.W = Range(Nearest(e, @ \cup members, Efc))])
     /\ UNCHANGED <<index, opt_m, meta, elements, nbr, inl, overlap>>

Start0(e) == NeighborStart(ins[e].m, Level[e], 0)

(* The next layer starts from the nearest candidate of this one. *)
BelowLayer(e, r, cands) ==
  IF r.lc = 0 THEN [r EXCEPT !.pc = "neighbors", !.C = {}, !.W = {}, !.visited = {},
                             !.cands = {}, !.ep = None, !.restricted = FALSE,
                             !.expansions = 0]
  ELSE Search(e, r, IF cands = {} THEN r.ep ELSE Closest(e, cands), r.lc - 1, FALSE)

SelectLayer(e) ==
  LET r == ins[e]
      at == NeighborStart(r.m, Level[e], r.lc)
  IN /\ r.pc = "search" /\ ~r.restricted
     /\ SearchOver(e)
     /\ ~(r.lc = 0 /\ index.payload_edges)
     /\ Become(e, BelowLayer(e,
          [r EXCEPT !.tids = Put(@, at, Select(e, r.W, LayerM(r.lc, r.m)))], r.W))
     /\ UNCHANGED <<index, opt_m, meta, elements, nbr, inl, overlap>>

(* Layer 0 with payload edges: the global half, then the restricted search. *)
SelectGlobalHalf(e) ==
  LET r == ins[e]
  IN /\ r.pc = "search" /\ ~r.restricted
     /\ SearchOver(e)
     /\ r.lc = 0 /\ index.payload_edges
     /\ Become(e, Search(e, [r EXCEPT !.tids = Put(@, Start0(e), Select(e, r.W, r.m)),
                                      !.cands = r.W],
                         r.ep, 0, TRUE))
     /\ UNCHANGED <<index, opt_m, meta, elements, nbr, inl, overlap>>

GlobalHalf(e) ==
  {ins[e].tids[s] : s \in Start0(e)..(Start0(e) + ins[e].m - 1)} \ {None}

(* Variant: candidates the global half already has stay in. *)
PayloadCandsAll(e) == ins[e].W

(* Members of the partition not wired as global neighbours, *)
PayloadCands(e) == ins[e].W \ GlobalHalf(e)

(* then what the unrestricted search left over. *)
Backfill(e, psel) ==
  Nearest(e, ins[e].cands \ (GlobalHalf(e) \cup Range(psel)), index.payload_m - Len(psel))

SelectPayloadHalf(e) ==
  LET r == ins[e]
      psel == Select(e, PayloadCands(e), index.payload_m)
  IN /\ r.pc = "search" /\ r.restricted
     /\ SearchOver(e)
     /\ Become(e, BelowLayer(e,
          [r EXCEPT !.tids = Put(@, Start0(e) + r.m, psel \o Backfill(e, psel)),
                    !.payload_real = Len(psel)], r.cands))
     /\ UNCHANGED <<index, opt_m, meta, elements, nbr, inl, overlap>>

-----------------------------------------------------------------------------
(* Steps 5 to 7.  The co-located entries are gathered for the layer-0 slots *)
(* from the element pages, and go out with the neighbour tuple.            *)
WriteNeighborTuple(e) ==
  LET r == ins[e]
      layer0 == 0..(LayerM(0, r.m) - 1)
  IN /\ r.pc = "neighbors"
     /\ nbr' = [nbr EXCEPT ![e] = r.tids]
     /\ inl' = IF index.inline
               THEN [inl EXCEPT ![e] = [j \in layer0 |-> r.tids[Start0(e) + j]]]
               ELSE inl
     /\ Become(e, [r EXCEPT !.pc = "element"])
     /\ UNCHANGED <<index, opt_m, meta, elements, overlap>>

WriteElementTuple(e) ==
  /\ ins[e].pc = "element"
  /\ elements' = elements \cup {e}
  /\ Become(e, [ins[e] EXCEPT !.pc = "entry"])
  /\ UNCHANGED <<index, opt_m, meta, nbr, inl, overlap>>

(* Variant: the layers end above 0 (lc > 0). *)
ReverseSlotsUpper(e) == {s \in DOMAIN ins[e].tids : ins[e].tids[s] # None /\ s < Start0(e)}

(* Step 8's loops: layers from the lower of the two levels down to 0, that *)
(* is, every slot filled above, in order; backfilled payload slots stay    *)
(* forward-only.                                                           *)
ReverseSlots(e) ==
  LET r == ins[e]
      payload0 == Start0(e) + r.m
  IN {s \in DOMAIN r.tids :
        /\ r.tids[s] # None
        /\ index.payload_edges => s < payload0 + r.payload_real}

(* Variant: decided on the level read in step 2. *)
RaisesStale(e) == ins[e].entry = None \/ Level[e] > ins[e].entry_level

Raises(e) == meta.entry = None \/ Level[e] > meta.level

MaybeUpdateEntry(e) ==
  /\ ins[e].pc = "entry"
  /\ meta' = IF Raises(e) THEN [entry |-> e, level |-> Level[e]] ELSE meta
  /\ Become(e, [ins[e] EXCEPT !.pc = "reverse", !.todo = ReverseSlots(e)])
  /\ UNCHANGED <<index, opt_m, elements, nbr, inl, overlap>>

-----------------------------------------------------------------------------
(* acorn_add_reverse_edge_at_layer.  The neighbour at slot s is offered e  *)
(* in the slots of the same layer, and of the same half of layer 0.        *)
LayerOfSlot(e, s) ==
  IF s >= Start0(e) THEN 0 ELSE Level[e] - s \div ins[e].m

InPayloadHalf(e, s) == index.payload_edges /\ s >= Start0(e) + ins[e].m

RangeOff(e, s) == IF InPayloadHalf(e, s) THEN ins[e].m ELSE 0

RangeLen(e, s) ==
  IF InPayloadHalf(e, s) THEN index.payload_m
  ELSE IF index.payload_edges THEN ins[e].m
  ELSE LayerM(LayerOfSlot(e, s), ins[e].m)

(* Variant: the layer's start counted from e's own level. *)
ReverseRangeOwn(e, s) ==
  LET start == NeighborStart(ins[e].m, Level[e], LayerOfSlot(e, s)) + RangeOff(e, s)
  IN start..(start + RangeLen(e, s) - 1)

(* The absolute slots of the range in the tuple of e's neighbour at slot s. *)
ReverseRange(e, s) ==
  LET n == ins[e].tids[s]
      start == NeighborStart(ins[e].m, Level[n], LayerOfSlot(e, s)) + RangeOff(e, s)
  IN start..(start + RangeLen(e, s) - 1)

(* Phase 1: copy the slots under SHARE, release, choose. *)
ReadReverse(e) ==
  LET r == ins[e]
      s == LeastOf(r.todo)
      n == r.tids[s]
      snap == [x \in ReverseRange(e, s) |-> Slot(n, x)]
      target == TargetSlot(index.diversify, e, n, snap, InPayloadHalf(e, s))
  IN /\ r.pc = "reverse" /\ r.todo # {}
     /\ Become(e, IF target = None
                  THEN [r EXCEPT !.todo = @ \ {s}]
                  ELSE [r EXCEPT !.pc = "link", !.snap = snap, !.target = target])
     /\ UNCHANGED <<index, opt_m, meta, elements, nbr, inl, overlap>>

Linked(e, r) == [r EXCEPT !.pc = "reverse", !.todo = @ \ {LeastOf(@)},
                          !.snap = <<>>, !.target = 0]

(* Phase 2: the chosen slot under EXCLUSIVE, whatever it holds by now. *)
WriteReverse(e) ==
  LET r == ins[e]
      s == LeastOf(r.todo)
      n == r.tids[s]
  IN /\ r.pc = "link"
     /\ nbr' = [nbr EXCEPT ![n] = [x \in DOMAIN @ |-> IF x = r.target THEN e ELSE @[x]]]
     /\ Become(e, IF index.inline /\ LayerOfSlot(e, s) = 0
                  THEN [r EXCEPT !.pc = "colocate"] ELSE Linked(e, r))
     /\ UNCHANGED <<index, opt_m, meta, elements, inl, overlap>>

(* Variant: the place is counted from the start of the half. *)
InlinePlaceInHalf(e, s) ==
  ins[e].target - NeighborStart(ins[e].m, Level[ins[e].tids[s]], 0) - RangeOff(e, s)

(* The entry's place is counted from the start of layer 0. *)
InlinePlace(e, s) ==
  LET n == ins[e].tids[s]
  IN ins[e].target - NeighborStart(ins[e].m, Level[n], 0)

InlineWriteEntry(e) ==
  LET r == ins[e]
      s == LeastOf(r.todo)
      n == r.tids[s]
  IN /\ r.pc = "colocate"
     /\ inl' = [inl EXCEPT ![n] =
                  [j \in DOMAIN @ |-> IF j = InlinePlace(e, s) THEN e ELSE @[j]]]
     /\ Become(e, Linked(e, r))
     /\ UNCHANGED <<index, opt_m, meta, elements, nbr, overlap>>

Finish(e) ==
  /\ ins[e].pc = "reverse" /\ ins[e].todo = {}
  /\ Become(e, [Idle EXCEPT !.pc = "done"])
  /\ UNCHANGED <<index, opt_m, meta, elements, nbr, inl, overlap>>

(* An error, a cancellation or a crash: what is on the pages stays there. *)
Fail(e) ==
  /\ e \in InFlight
  /\ Become(e, [Idle EXCEPT !.pc = "aborted"])
  /\ UNCHANGED <<index, opt_m, meta, elements, nbr, inl, overlap>>

Step(e) ==
  \/ ReadMeta(e) \/ Descend(e)
  \/ Expand(e) \/ SelectLayer(e) \/ SelectGlobalHalf(e) \/ SelectPayloadHalf(e)
  \/ WriteNeighborTuple(e) \/ WriteElementTuple(e) \/ MaybeUpdateEntry(e)
  \/ ReadReverse(e) \/ WriteReverse(e) \/ InlineWriteEntry(e) \/ Finish(e)

Next == \E e \in Elements : Step(e) \/ Fail(e)

Spec == Init /\ [][Next]_vars

(* ALTER INDEX ... SET (m = ...), or another acorn_default_gamma where the *)
(* index has no reloptions.                                                *)
AlterOptions(m) ==
  /\ opt_m' = m
  /\ UNCHANGED <<index, meta, elements, nbr, inl, ins, overlap>>

SpecAltered ==
  Init /\ [][Next \/ \E o \in Indexes : AlterOptions(o.m)]_vars

-----------------------------------------------------------------------------
(* Properties *)

States == {"idle", "descend", "search", "neighbors", "element", "entry",
           "reverse", "link", "colocate", "done", "aborted"}

(* Every variable stays in its type: slots hold TIDs, the entry point is an *)
(* element, inserters are in one of their phases, and a neighbour tuple has *)
(* the m slots of each layer and the payload half.                         *)
TypeOK ==
  /\ index \in Indexes /\ opt_m \in Nat
  /\ meta \in [entry : Elements \cup {None}, level : Nat \cup {-1}]
  /\ elements \subseteq Elements
  /\ \A e \in Elements :
       /\ Range(nbr[e]) \cup Range(inl[e]) \cup Range(ins[e].tids)
            \subseteq Elements \cup {None}
       /\ nbr[e] # <<>> =>
            DOMAIN nbr[e] = 0..((Level[e] + 1) * index.m + index.payload_m - 1)
       /\ ins[e].pc \in States
  /\ overlap \in BOOLEAN

(* The layer lists: one per layer, both halves of layer 0 together. *)
Layers(e) == 0..Level[e]
ListOf(n, l) == [s \in LayerSlots(n, l, index.m) |-> Slot(n, s)]

(* A list names an element at most once and never its owner: the payload   *)
(* half leaves out what the global half has, and a reverse edge is offered *)
(* once, in one half.                                                      *)
NoDoubleLink ==
  \A n \in elements : \A l \in Layers(n) :
    /\ n \notin Range(ListOf(n, l))
    /\ \A s, t \in LayerSlots(n, l, index.m) :
         Slot(n, s) # None /\ Slot(n, s) = Slot(n, t) => s = t

(* acorn_append_tuple, acorn_add_reverse_edge_at_layer: a slot of layer l  *)
(* names an element that is already on its page and whose own tuple has a  *)
(* layer l, and no two slots of the layer name the same one, whatever      *)
(* inserts overlap, fail or crash: a reader follows a slot without a test  *)
(* and computes (level - l) * m from it.                                   *)
LayerSafe ==
  NoDoubleLink /\ \A e \in Elements : \A s \in DOMAIN nbr[e] :
    nbr[e][s] # None =>
      /\ nbr[e][s] \in elements
      /\ s < NeighborStart(index.m, Level[e], 0) =>
           Level[nbr[e][s]] >= Level[e] - s \div index.m

(* acorn_maybe_update_entry: the entry point is a complete element, and no *)
(* insert past that step has a higher level, whichever of two concurrent   *)
(* inserts came first: a scan that starts below the top layer would never  *)
(* see the top layer's elements as starting points.                        *)
EntryHighest ==
  /\ meta.entry # None => meta.entry \in elements /\ meta.level = Level[meta.entry]
  /\ \A e \in elements :
       ins[e].pc \in {"reverse", "link", "colocate", "done"} => Level[e] <= meta.level

Wide == index.m >= Cardinality(Elements) - 1

(* Reached(k): the elements within k layer-0 edges of the entry point. *)
Reached ==
  LET within[k \in 0..Cardinality(Elements)] ==
        IF k = 0 THEN {meta.entry} \ {None}
        ELSE within[k - 1] \cup
             UNION {NbrTidsAtLayer(n, 0, index.m) : n \in within[k - 1]}
  IN within[Cardinality(Elements)]

(* As long as inserts do not overlap and lists are wide enough to need no  *)
(* replacement, every completed element can be reached from the entry      *)
(* point, also after inserts that failed or crashed half-way, the one that *)
(* had just become the entry point included.                               *)
Connected ==
  ~overlap /\ Wide =>
    \A e \in Elements : ins[e].pc = "done" => e \in Reached

(* acorn_t2_inline_write_entry: with no insert in flight, none overlapped  *)
(* and none failed, each layer-0 slot's co-located entry describes the     *)
(* element the slot names, in both halves and after replacements.          *)
InlineInSync ==
  index.inline /\ ~overlap /\ InFlight = {} /\ (\A e \in Elements : ins[e].pc # "aborted") =>
    \A n \in elements : \A j \in DOMAIN inl[n] :
      inl[n][j] = Slot(n, NeighborStart(index.m, Level[n], 0) + j)

(* The nearest neighbour in a list outside the payload half. *)
GlobalList(n, l) ==
  LET start == NeighborStart(index.m, Level[n], l)
      width == IF index.payload_edges THEN index.m ELSE LayerM(l, index.m)
  IN {Slot(n, s) : s \in start..(start + width - 1)} \ {None}

(* acorn_add_reverse_edge_at_layer: the fixed-slot replacement may drop    *)
(* far neighbours, the heuristic may too; without overlap neither makes a  *)
(* list lose its nearest one except to a nearer one.                       *)
NearestKept ==
  [][\A n \in elements : \A l \in Layers(n) :
       ~overlap' /\ GlobalList(n, l) # {} =>
         \E x \in GlobalList(n, l)' :
           Dist(n, x) <= Dist(n, Closest(n, GlobalList(n, l)))]_vars

(* A beam search that goes on has one more element visited, or one         *)
(* candidate less and no new one; a descent that goes on is nearer, or a   *)
(* layer below.  So every aminsert ends, also while others rewire the      *)
(* graph under it.                                                         *)
LoopsEnd ==
  [][\A e \in Elements :
       LET old == ins[e] new == ins'[e]
           same(p) == old.pc = p /\ new.pc = p /\ old.lc = new.lc
       IN old # new =>
            /\ same("descend") => Dist(new.ep, e) < Dist(old.ep, e)
            /\ same("search") /\ old.restricted = new.restricted =>
                 \/ new.visited # old.visited /\ old.visited \subseteq new.visited
                 \/ new.C # old.C /\ new.C \subseteq old.C]_vars

(* acorn_build.c:2821: "Build/insert is serialized per index so the        *)
(* phase-1 snapshot remains valid".                                        *)
SnapshotStillValid ==
  \A e \in Elements :
    ins[e].pc = "link" =>
      LET n == ins[e].tids[LeastOf(ins[e].todo)]
      IN \A s \in DOMAIN ins[e].snap : Slot(n, s) = ins[e].snap[s]

(* What the inserter's next step reads or writes, as <<node, slots>>. *)
Touches(e) ==
  LET r == ins[e]
  IN CASE r.pc = "descend" -> {<<r.ep, LayerSlots(r.ep, r.lc, r.m)>>}
       [] r.pc = "search" /\ ~SearchOver(e) ->
            LET c == Closest(e, r.C) IN {<<c, LayerSlots(c, r.lc, r.m)>>}
       [] r.pc = "reverse" /\ r.todo # {} ->
            LET s == LeastOf(r.todo) IN {<<r.tids[s], ReverseRange(e, s)>>}
       [] OTHER -> {}

(* acorn_t2_page.h:346-348: "ALTER INDEX ... SET only changes                  *)
(* pg_class.reloptions and must not flip how existing pages are            *)
(* interpreted": what a step reads of a neighbour tuple is in the tuple.   *)
WithinTuple ==
  \A e \in Elements : \A t \in Touches(e) : t[2] \subseteq DOMAIN nbr[t[1]]
=============================================================================
