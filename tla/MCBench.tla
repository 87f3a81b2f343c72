------------------------------ MODULE MCBench ------------------------------
(***************************************************************************)
(* Which scripts are run after which. A second run of the same script, or  *)
(* of another one on the same tables, collections and files, finds what    *)
(* the first one left, however it ended.                                   *)
(***************************************************************************)
EXTENDS BenchProperties

Suites ==
    {<<"thesis", "again">>, <<"again", "accept">>, <<"accept", "again">>, <<"again", "smoke">>,
     <<"fair1t", "fairnt">>, <<"head2head">>, <<"ledger", "ledger">>,
     <<"builds", "builds">>, <<"builds", "parity">>, <<"rematch", "rematch_again">>, <<"probe">>,
     <<"fast_baseline", "fast_prefetch">>, <<"colocation", "colocation">>,
     <<"audit", "audit_post">>,
     <<"scenario_a">>, <<"scenario_a_free", "scenario_b">>, <<"scenario_b", "scenario_c">>,
     <<"scenario_d">>}

(* One mission each for the three statements a run refutes. *)
TruthMission == {<<"scenario_d">>}
DefaultStages == {<<"build_ops">>}
ForcedSweep == {<<"scenario_a">>}
=============================================================================
