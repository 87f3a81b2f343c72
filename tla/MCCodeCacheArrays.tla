-------------------------- MODULE MCCodeCacheArrays --------------------------
(* Two blocks of two offsets: one growth of the directory and growths of    *)
(* each block's page array.                                                 *)
EXTENDS CodeCacheArrays, TLC

Symmetry == Permutations(Readers) \cup Permutations(Writers)
=============================================================================
