--------------------------- MODULE BenchPrograms ---------------------------
(***************************************************************************)
(* The command lines under which the benchmark scripts are run.            *)
(***************************************************************************)
EXTENDS BenchStatements, TLC

Thesis == INSTANCE ThesisValidation
Fair == INSTANCE HeadToHeadFair
H2h == INSTANCE HeadToHead
Ledger == INSTANCE OverheadLedger
BuildBench == INSTANCE BuildOps
Rematch == INSTANCE QdrantRematch
Probe == INSTANCE QdrantCodepathProbe
Runner == INSTANCE BenchRunner
Fast == INSTANCE FastPath
Coloc == INSTANCE Colocation
Audit == INSTANCE GraphAudit

ThesisRun(stages) == Thesis!Main(stages, "results_thesis_250k", FALSE, FALSE)

Programs ==
    "thesis" :> ThesisRun({"load", "prefilter", "postfilter", "free", "acorn_g1", "acorn_g2"})
    @@ "accept" :> ThesisRun({"load", "prefilter_cal", "acorn_g1_inline", "acorn_g2_inline"})
    @@ "again"  :> ThesisRun({"load", "acorn_g2"})
    @@ "smoke"  :> Thesis!Main({"load", "acorn_g1"}, "results_thesis_smoke", TRUE, FALSE)
    @@ "fair1t" :> Fair!Main("fair1t", "results_head2head_fair1t")
    @@ "fairnt" :> Fair!Main("fairnt", "results_head2head_fairnt")
    @@ "head2head" :> H2h!Main("results_head2head")
    @@ "ledger" :> Ledger!Main("results_overhead_ledger")
    @@ "builds" :> BuildBench!Main({"rss", "workers", "confirm250k"}, "results_build_ops")
    @@ "parity" :> BuildBench!Main({"recall"}, "results_build_ops")
    @@ "build_ops" :> BuildBench!Main({"rss", "workers", "recall"}, "results_build_ops")
    @@ "rematch" :> Rematch!Main(FALSE, "results_qdrant_rematch")
    @@ "rematch_again" :> Rematch!Main(TRUE, "results_qdrant_rematch")
    @@ "probe" :> Probe!Main
    @@ "fast_baseline" :> Fast!Main("results_fastpath_baseline", "results_fastpath_baseline")
    @@ "fast_prefetch" :> Fast!Main("results_fastpath_baseline", "results_fastpath_prefetch")
    @@ "colocation" :> Coloc!Main("results_colocation")
    @@ "audit" :> Audit!Main(FALSE, "results_graph_audit")
    @@ "audit_post" :> Audit!Main(TRUE, "results_graph_audit")
    @@ "scenario_a" :> Runner!Main(Runner!PgTargets, {"a"}, TRUE, "results")
    @@ "scenario_a_free" :> Runner!Main(<<"pg_acorn_tier1_g1", "qdrant">>, {"a"}, FALSE, "results")
    @@ "scenario_b" :> Runner!Main(<<"prefilter_exact", "pgvector">>, {"b"}, TRUE, "results")
    @@ "scenario_c" :> Runner!Main(<<"prefilter_exact", "pg_acorn_tier2_g1">>, {"c"}, TRUE, "results")
    @@ "scenario_d" :> Runner!Main(<<"pgvector", "qdrant">>, {"d"}, TRUE, "results")
=============================================================================
