-------------------------- MODULE ThesisValidation --------------------------
(***************************************************************************)
(* bench/thesis_validation.py: acorn_hnsw against the best native          *)
(* PostgreSQL plans on one table, in stages that can be run again one by   *)
(* one. One operator per function; ops are kept in the result file across  *)
(* runs, the variant of the acorn index in table tv_meta.                  *)
(***************************************************************************)
EXTENDS BenchStatements

(* Representatives of the swept values. *)
SELS == <<5>>
EFS_ACORN == <<40, 1600>>
EFS_PGV == <<40, 1000>>

NoEf == 0
Table == "tv_items"
MakeFixture(smoke) == Rows(IF smoke THEN "tv_20k" ELSE "tv_250k")
ExactTruth(smoke) == Truth(MakeFixture(smoke))

AddOp(out) == Commit \o Dump(out)

PgVerifyServer(out, c) == Verify(c) \o Dump(out)

(* The prewarm pass, the timed queries and the buffer samples. *)
PgMeasure(c, q, eng, sel, ef) == Measure(c, Table, q, eng, sel, ef)

PlanCheck(out, c, q, sel, vias) ==
    Explain(c, Table, q, sel) \o Dump(out) \o ExitUnless({PlanThrough(vias)})

TimedIndex(out, c, index, am, options) ==
    Set(c, [maintenance_work_mem |-> "2GB"])
        \o CreateIndex(index, Table, am, options, IF am = "acorn" THEN 0 ELSE 2)
        \o Dump(out)

(* An index that is not recorded as finished is built again. *)
EnsureAcornRecordsFirst(out, c, variant, gamma, inline) ==
    Unless({MetaIs("acorn_index", variant), IndexExists("tv_acorn_idx")},
        PutMeta("acorn_index", variant)
            \o DropIndex("tv_acorn_idx")
            \o TimedIndex(out, c, "tv_acorn_idx", "acorn",
                          [gamma |-> gamma, inline |-> inline]))
EnsureAcorn(out, c, variant, gamma, inline) ==
    Unless({MetaIs("acorn_index", variant), IndexExists("tv_acorn_idx")},
        DropIndex("tv_acorn_idx")
            \o PutMeta("acorn_index", "building")
            \o Set(c, [build_seed |-> 42, build_direct_dist |-> "on"])
            \o TimedIndex(out, c, "tv_acorn_idx", "acorn",
                          [gamma |-> gamma, inline |-> inline])
            \o PutMeta("acorn_index", variant))

StageLoad(c, smoke, force) ==
    LET load == DropTable(Table) \o DropMeta \o CreateTable(Table)
                    \o Copy(Table, MakeFixture(smoke)) \o Analyze(Table)
    IN IF force THEN load ELSE Unless({RowsAre(Table, MakeFixture(smoke))}, load)

(* run_cells: the plan is checked, and the buffers are warmed, once for all *)
(* the ef values of a selectivity.                                          *)
RunCells(out, c, eng, q, vias, guc, efs) ==
    LET SetEf(ef) == IF ef = NoEf THEN <<>> ELSE Set(c, [g \in {guc} |-> ef])
        Cell(sel, ef) == SetEf(ef) \o PgMeasure(c, q, eng, sel, ef) \o AddOp(out)
        Sweep(sel) == PlanCheck(out, c, q, sel, vias) \o SetEf(efs[Len(efs)])
                        \o Each(efs, LAMBDA ef : Cell(sel, ef))
    IN Each(SELS, Sweep)

NativeSession(c) == Set(c, [enable_hook |-> "off"])

AcornSession(c, memberFirst) ==
    NativeSession(c)
        \o Set(c, [enable_seqscan |-> "off", enable_bitmapscan |-> "off", enable_sort |-> "off",
                   member_first |-> memberFirst, scan_fast_paths |-> "on",
                   scan_prefetch |-> "off"])

DropVectorIndexes ==
    DropIndex("tv_hnsw_idx") \o PutMeta("hnsw", "absent")
        \o DropIndex("tv_acorn_idx") \o PutMeta("acorn_index", "none")

BuildBtree(out, c) ==
    TimedIndex(out, c, "tv_bucket_btree", "btree", NoOptions) \o PutMeta("btree", "built")

StagePrefilter(out, c) ==
    NativeSession(c) \o DropVectorIndexes
        \o Unless({MetaIs("btree", "built"), IndexExists("tv_bucket_btree")},
                  DropIndex("tv_bucket_btree") \o BuildBtree(out, c))
        \o Analyze(Table)
        \o RunCells(out, c, "pg_prefilter", "filter", {"sort", "hook"}, None, <<NoEf>>)
        \o ExitUnless({AllExact("pg_prefilter")})

StagePrefilterCal(out, c) ==
    NativeSession(c) \o DropVectorIndexes
        \o Unless({IndexExists("tv_bucket_btree")}, BuildBtree(out, c))
        \o Analyze(Table)
        \o PlanCheck(out, c, "filter", SELS[1], {"sort", "hook"})
        \o PgMeasure(c, "filter", "pg_prefilter_cal", SELS[1], NoEf) \o AddOp(out)
        \o Dump(out)
        \o ExitUnless({AllExact("pg_prefilter_cal")})

StagePostfilter(out, c) ==
    NativeSession(c)
        \o DropIndex("tv_bucket_btree") \o PutMeta("btree", "absent")
        \o DropIndex("tv_acorn_idx") \o PutMeta("acorn_index", "none")
        \o Unless({MetaIs("hnsw", "built"), IndexExists("tv_hnsw_idx")},
                  DropIndex("tv_hnsw_idx")
                    \o TimedIndex(out, c, "tv_hnsw_idx", "hnsw", NoOptions)
                    \o PutMeta("hnsw", "built"))
        \o Analyze(Table)
        \o Each(<<"relaxed", "strict">>, LAMBDA order :
              Set(c, [iterative_scan |-> order])
                \o RunCells(out, c, IF order = "relaxed" THEN "pgv_post_relaxed"
                                    ELSE "pgv_post_strict",
                            "filter", {"hnsw"}, "hnsw_ef", EFS_PGV))

(* The planner is free; ef is swept only where it takes the hnsw index.     *)
StageFree(out, c) ==
    LET SetEf(ef) == Set(c, [hnsw_ef |-> ef])
        Cell(sel, ef) == PgMeasure(c, "filter", "pgv_free", sel, ef) \o AddOp(out)
    IN NativeSession(c)
        \o ExitUnless({IndexExists("tv_hnsw_idx")})
        \o Unless({IndexExists("tv_bucket_btree")}, BuildBtree(out, c))
        \o Analyze(Table)
        \o Set(c, [iterative_scan |-> "relaxed"])
        \o Each(SELS, LAMBDA sel :
              Explain(c, Table, "filter", sel) \o Dump(out)
                \o IfElse({PlanThrough({"hnsw"})},
                          SetEf(EFS_PGV[Len(EFS_PGV)])
                            \o Each(EFS_PGV, LAMBDA ef : SetEf(ef) \o Cell(sel, ef)),
                          Cell(sel, NoEf)))

OnlyAcornNoAnalyze(out, c, variant, gamma, inline) ==
    DropIndex("tv_hnsw_idx") \o PutMeta("hnsw", "absent")
        \o EnsureAcorn(out, c, variant, gamma, inline)
OnlyAcorn(out, c, variant, gamma, inline) ==
    DropIndex("tv_hnsw_idx") \o PutMeta("hnsw", "absent")
        \o EnsureAcorn(out, c, variant, gamma, inline)
        \o Analyze(Table)

StageAcorn(out, c, variant, gamma, postfilterToo) ==
    LET Swept(eng, q) == RunCells(out, c, eng, q, {"acorn"}, "acorn_ef", EFS_ACORN)
        infilter == IF gamma = 1 THEN "acorn_g1_infilter" ELSE "acorn_g2_infilter"
    IN OnlyAcorn(out, c, variant, gamma, FALSE)
        \o AcornSession(c, "on") \o Swept(infilter, "filter")
        \o IF postfilterToo
           THEN AcornSession(c, "off") \o Swept("acorn_g2_postfilter", "wrapped")
           ELSE <<>>

StageAcornInline(out, c, variant, gamma) ==
    OnlyAcorn(out, c, variant, gamma, TRUE)
        \o AcornSession(c, "on") \o Set(c, [scan_inline_vectors |-> "on"])
        \o RunCells(out, c, IF gamma = 1 THEN "acorn_g1pe_mf_inline" ELSE "acorn_g2pe_mf_inline",
                    "filter", {"acorn"}, "acorn_ef", EFS_ACORN)

(* The engines whose earlier ops a stage replaces: those that match its     *)
(* prefixes. "acorn_g1_" is not a prefix of "acorn_g1pe_mf_inline".         *)
EnginesOfNoPostfilter(stage) ==
    IF stage = "acorn_g2" THEN {"acorn_g2_infilter"} ELSE {}
EnginesOfAllAcorn(stage) ==
    IF stage = "acorn_g2" THEN {"acorn_g1_infilter", "acorn_g2_infilter", "acorn_g2_postfilter"}
    ELSE {}
EnginesOf(stage) ==
    CASE stage = "prefilter"       -> {"pg_prefilter"}
      [] stage = "prefilter_cal"   -> {"pg_prefilter_cal"}
      [] stage = "postfilter"      -> {"pgv_post_relaxed", "pgv_post_strict"}
      [] stage = "free"            -> {"pgv_free"}
      [] stage = "acorn_g1"        -> {"acorn_g1_infilter"}
      [] stage = "acorn_g2"        -> {"acorn_g2_infilter", "acorn_g2_postfilter"}
      [] stage = "acorn_g1_inline" -> {"acorn_g1pe_mf_inline"}
      [] stage = "acorn_g2_inline" -> {"acorn_g2pe_mf_inline"}
      [] OTHER -> {}

(* Stages run in the order of main, whatever the order they are named in.   *)
Main(stages, out, smoke, reload) ==
    LET c == "conn"
        Stage(name, code) == IF name \in stages THEN code ELSE <<>>
    IN (IF reload THEN <<>> ELSE Resume(out, UNION {EnginesOf(s) : s \in stages}))
        \o Dump(out)
        \o ExactTruth(smoke)
        \o Connect(c) \o PgVerifyServer(out, c)
        \o Stage("load", StageLoad(c, smoke, reload))
        \o Stage("prefilter", StagePrefilter(out, c))
        \o Stage("prefilter_cal", StagePrefilterCal(out, c))
        \o Stage("postfilter", StagePostfilter(out, c))
        \o Stage("free", StageFree(out, c))
        \o Stage("acorn_g1", StageAcorn(out, c, "g1", 1, FALSE))
        \o Stage("acorn_g2", StageAcorn(out, c, "g2", 2, TRUE))
        \o Stage("acorn_g1_inline", StageAcornInline(out, c, "g1pe_mf_inline", 1))
        \o Stage("acorn_g2_inline", StageAcornInline(out, c, "g2pe_mf_inline", 2))
        \o Close(c) \o Dump(out)
=============================================================================
