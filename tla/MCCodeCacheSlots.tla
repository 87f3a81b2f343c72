-------------------------- MODULE MCCodeCacheSlots --------------------------
(* Backends are interchangeable, and so are indexes of one dimension.      *)
EXTENDS CodeCacheSlots, TLC

SameDim == [i \in Indexes |-> 1]
Symmetry == Permutations(Backends) \cup Permutations(Indexes)
=============================================================================
