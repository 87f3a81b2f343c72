--------------------------- MODULE MCParallelBuild ---------------------------
(* The leader and one worker; participants take rows in every order.       *)
EXTENDS ParallelBuild

CONSTANTS e1, e2, e3, e4

MCElements  == {e1, e2, e3, e4}
MCLevel     == [e \in MCElements |-> IF e \in {e2, e4} THEN 1 ELSE 0]
MCPosition  == [e \in MCElements |->
                  CASE e = e1 -> 0 [] e = e2 -> 1 [] e = e3 -> 4 [] e = e4 -> 6]
MCPartition == [e \in MCElements |-> IF e = e2 THEN 1 ELSE 0]

(* All in memory, lists that never overflow. *)
InMemoryWide == [m |-> 3, payload_m |-> 3, payload_edges |-> FALSE, gated |-> {},
                 diversify |-> FALSE, inline |-> FALSE, arena |-> 100, max_nodes |-> 4]
(* Two or three nodes fit, by their levels; lists overflow. *)
SpillBySize == [m |-> 1, payload_m |-> 1, payload_edges |-> TRUE, gated |-> {1},
                diversify |-> FALSE, inline |-> TRUE, arena |-> 10, max_nodes |-> 4]
(* No node fits: the index is flushed empty. *)
NoArena == [m |-> 1, payload_m |-> 1, payload_edges |-> FALSE, gated |-> {},
            diversify |-> TRUE, inline |-> FALSE, arena |-> 0, max_nodes |-> 0]
SplitChunks == [m |-> 3, payload_m |-> 1, payload_edges |-> TRUE, gated |-> {},
                diversify |-> TRUE, inline |-> TRUE, arena |-> 100, max_nodes |-> 3]

MCIndexes == {InMemoryWide, SpillBySize, NoArena, SplitChunks}
=============================================================================
