-------------------------- MODULE NeighborSelection --------------------------
(***************************************************************************)
(* What the in-memory build and the single-tuple insert of Tier 2          *)
(* (acorn_build.c) compute in the same way, the one over node ids and the  *)
(* other over TIDs: which candidates become neighbours, where they stand   *)
(* in the neighbour array, and whom a full list gives up for a new one.    *)
(*                                                                         *)
(* A vector is a position on a line, and no two distances are equal.       *)
(***************************************************************************)
EXTENDS Integers, Sequences, FiniteSets, Functions

CONSTANTS
  Elements,   \* the rows of the table
  Level,      \* Level[e]: acorn_assign_level, random
  Position,   \* Position[e]: its vector
  Partition,  \* Partition[e]: acorn_payload_partition of its filter value
  None        \* no element: an invalid TID, the id -1

Abs(n) == IF n < 0 THEN -n ELSE n
Dist(a, b) == Abs(Position[a] - Position[b])

ASSUME SelectionAssumption ==
  /\ None \notin Elements
  /\ Level \in [Elements -> Nat]
  /\ Position \in [Elements -> Int]
  /\ \A a, b, c \in Elements : Dist(a, b) = Dist(a, c) => b = c

(* Where layer `layer` starts in the neighbour array of an element: layers *)
(* from its own level down to 0, m slots each.                             *)
NeighborStart(m, level, layer) == (level - layer) * m

LeastOf(S) == CHOOSE x \in S : \A y \in S : x <= y

(* The member of S with exactly k others nearer to e, nearest first. *)
Nth(e, S, k) == CHOOSE x \in S : Cardinality({y \in S : Dist(y, e) < Dist(x, e)}) = k
Closest(e, S) == Nth(e, S, 0)
Furthest(e, S) == Nth(e, S, Cardinality(S) - 1)
Nearest(e, S, k) ==
  [i \in 1..(IF Cardinality(S) < k THEN Cardinality(S) ELSE k) |-> Nth(e, S, i - 1)]

(* acorn_select_diverse_tids: keep a candidate that no kept one is nearer  *)
(* to than the base is; refill with the pruned ones, nearest first.        *)
Kept(e, S, k) ==
  LET after[i \in 0..Cardinality(S)] ==
        IF i = 0 THEN {}
        ELSE LET c == Nth(e, S, i - 1)
             IN IF /\ Cardinality(after[i - 1]) < k
                   /\ \A j \in after[i - 1] : Dist(c, j) > Dist(c, e)
                THEN after[i - 1] \cup {c} ELSE after[i - 1]
  IN after[Cardinality(S)]

SelectDiverse(e, S, k) ==
  IF Cardinality(S) <= k THEN Nearest(e, S, k)
  ELSE LET kept == Kept(e, S, k)
       IN Nearest(e, kept, k) \o Nearest(e, S \ kept, k - Cardinality(kept))

(* Writing the selection sel to the slots from `at` on. *)
Put(slots, at, sel) ==
  [s \in DOMAIN slots |->
     IF s \in at..(at + Len(sel) - 1) THEN sel[s - at + 1] ELSE slots[s]]

(* Variant: a full list gives up its first slot. *)
TargetSlotFirst(diversify, e, n, snap, payload) ==
  IF e \in Range(snap) \/ DOMAIN snap = {} THEN None
  ELSE IF None \in Range(snap) THEN LeastOf({s \in DOMAIN snap : snap[s] = None})
  ELSE LeastOf(DOMAIN snap)

(* The slot e would take in neighbour n's copied slots, or None: the first *)
(* empty one; a stranger's in the payload half; else the heuristic's or    *)
(* the furthest occupant's.                                                *)
TargetSlot(diversify, e, n, snap, payload) ==
  LET occupants == Range(snap) \ {None}
      strangers == {x \in occupants : payload /\ Partition[x] # Partition[e]}
      at(x) == CHOOSE s \in DOMAIN snap : snap[s] = x
      kept == Range(SelectDiverse(n, occupants \cup {e}, Cardinality(occupants)))
  IN IF e \in occupants \/ DOMAIN snap = {} THEN None
     ELSE IF None \in Range(snap)
          THEN LeastOf({s \in DOMAIN snap : snap[s] = None})
     ELSE IF strangers # {} THEN at(Furthest(n, strangers))
     ELSE IF diversify
          THEN IF e \in kept
               THEN LeastOf({s \in DOMAIN snap : snap[s] \notin kept}) ELSE None
     ELSE IF Dist(n, e) < Dist(n, Furthest(n, occupants))
          THEN at(Furthest(n, occupants)) ELSE None
=============================================================================
