----------------------------- MODULE MCT2Insert -----------------------------
(* Distances on a Golomb ruler are all different.  Inserts run in every    *)
(* order, so the levels and vectors need not vary.                         *)
EXTENDS T2Insert, TLC

CONSTANTS e1, e2, e3, e4

MCElements  == {e1, e2, e3, e4}
MCLevel     == [e \in MCElements |-> IF e \in {e2, e4} THEN 1 ELSE 0]
MCPosition  == [e \in MCElements |->
                  CASE e = e1 -> 0 [] e = e2 -> 1 [] e = e3 -> 4 [] e = e4 -> 6]
MCPartition == [e \in MCElements |-> IF e = e2 THEN 1 ELSE 0]

Wide3   == [m |-> 3, payload_m |-> 3, payload_edges |-> FALSE,
            diversify |-> FALSE, inline |-> FALSE]
Narrow  == [m |-> 1, payload_m |-> 1, payload_edges |-> FALSE,
            diversify |-> FALSE, inline |-> TRUE]
Split   == [m |-> 1, payload_m |-> 1, payload_edges |-> TRUE,
            diversify |-> FALSE, inline |-> TRUE]
Diverse == [m |-> 1, payload_m |-> 1, payload_edges |-> FALSE,
            diversify |-> TRUE, inline |-> FALSE]
WideSplit == [m |-> 3, payload_m |-> 2, payload_edges |-> TRUE,
            diversify |-> TRUE, inline |-> TRUE]

MCIndexes   == {Wide3, Narrow, Split, Diverse, WideSplit}
MCMaxActive == [o \in MCIndexes |-> IF o \in {Split, Diverse} THEN 2 ELSE 1]
=============================================================================
