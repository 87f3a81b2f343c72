------------------------------ MODULE MCT2Scan ------------------------------
(* The entry point e1 leads to e3 only through e2, which fails the filter, *)
(* and codes order the elements otherwise than distances do.               *)
EXTENDS T2Scan

CONSTANTS e1, e2, e3, e4, t1, t2, t3, t4

MCBuilt    == {e1, e2, e3}
MCAdded    == {e4}
MCFirstTid == [e \in MCBuilt |-> CASE e = e1 -> t1 [] e = e2 -> t2 [] e = e3 -> t3]
MCGraph    == [e \in MCBuilt |-> CASE e = e1 -> <<e2, None>>
                                   [] e = e2 -> <<e1, e3>>
                                   [] e = e3 -> <<e2, None>>]
MCExact    == [e \in MCBuilt \cup MCAdded |->
                 CASE e = e1 -> 2 [] e = e2 -> 4 [] e = e3 -> 1 [] e = e4 -> 3]
MCApprox   == [e \in MCBuilt \cup MCAdded |->
                 CASE e = e1 -> 4 [] e = e2 -> 5 [] e = e3 -> 3 [] e = e4 -> 2]
MCBlock    == [e \in MCBuilt \cup MCAdded |-> IF e = e1 \/ e = e2 THEN 1 ELSE 2]
MCLb       == [e \in MCBuilt \cup MCAdded |-> MCApprox[e] - 2]

(* One layout and setting of the GUCs per run. *)
Plain   == [layout |-> "plain", buffered |-> TRUE, member_first |-> TRUE,
            bound |-> TRUE, ef |-> 9, doomed |-> {e2, e3}]
Eager   == [Plain EXCEPT !.buffered = FALSE, !.member_first = FALSE]
Inline  == [Plain EXCEPT !.layout = "inline", !.member_first = FALSE]
Cached  == [Plain EXCEPT !.layout = "cached", !.doomed = {e3}]
NoBound == [Cached EXCEPT !.buffered = FALSE, !.member_first = FALSE, !.bound = FALSE]
Budget  == [Cached EXCEPT !.ef = 1]
MCModes == {Plain, Eager, Inline, Cached, NoBound, Budget}
=============================================================================
