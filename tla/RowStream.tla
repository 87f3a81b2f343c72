----------------------------- MODULE RowStream ------------------------------
(***************************************************************************)
(* What an ordered index scan promises to the executor above it            *)
(* (acorn_am.c, amgettuple with xs_recheck = xs_recheckorderby = false):   *)
(* each row it leads to is one of the rows wanted, comes once, and in the  *)
(* order of the query where the scan claims to have one.  It may leave     *)
(* rows out, it is an approximate index, and it may be restarted.          *)
(***************************************************************************)
EXTENDS Integers, Sequences

CONSTANT Distance   \* Distance[x]: of row x from the query

VARIABLES
  wanted,    \* rows visible to the snapshot that satisfy the scan keys
  sorted,    \* rows come by distance
  returned   \* the rows so far

streamVars == <<wanted, sorted, returned>>

Returned == {returned[i] : i \in DOMAIN returned}

Init == returned = <<>> /\ sorted = FALSE /\ wanted = {}

Start ==
  /\ returned' = <<>>
  /\ wanted' \subseteq DOMAIN Distance
  /\ sorted' \in BOOLEAN

Return(x) ==
  /\ x \in wanted \ Returned
  /\ sorted => \A y \in Returned : Distance[y] <= Distance[x]
  /\ returned' = Append(returned, x)
  /\ UNCHANGED <<wanted, sorted>>

Next == Start \/ \E x \in wanted : Return(x)

Spec == Init /\ [][Next]_streamVars
=============================================================================
