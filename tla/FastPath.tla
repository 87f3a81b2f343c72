------------------------------ MODULE FastPath ------------------------------
(***************************************************************************)
(* bench/bench_fastpath.py: one index, built once and kept, is measured    *)
(* under several sets of scan toggles that take turns in one session; then *)
(* a table with a pgvector index, the scans of which the hook takes over.  *)
(* A stage's results are compared with those of the baseline.              *)
(***************************************************************************)
EXTENDS BenchStatements

(* Representatives of the toggle sets; those of the second leg are a part.  *)
Configs == <<"alloff", "scan_direct_dist">>
EFS == <<100, 400>>
SelBucket == 40

Conn == "conn"
Table == "fastpath_items"
T1Table == "fastpath_t1"
Index(t) == IF t = Table THEN "fastpath_items_idx" ELSE "fastpath_t1_idx"
MakeData == Rows("fastpath")
ExactTruth == Truth(MakeData)

(* The index is kept if its table has all the rows. *)
Keep(t, build) ==
    Unless({IndexExists(Index(t)), RowsAre(t, MakeData)},
           DropTable(t) \o CreateTable(t) \o Copy(t, MakeData) \o build)

EnsureTable == Keep(Table, CreateIndex(Index(Table), Table, "acorn", [gamma |-> 2], 0))
EnsureT1 == Keep(T1Table, CreateIndex(Index(T1Table), T1Table, "hnsw", NoOptions, 0))

ApplyConfig(config, ef) ==
    Set(Conn, [enable_seqscan |-> "off", enable_hook |-> "off", acorn_ef |-> ef,
               scan_toggles |-> config])

T1Config(config) ==
    Set(Conn, [enable_seqscan |-> "off", enable_indexscan |-> "off", enable_hook |-> "on",
               scan_toggles |-> config])

(* The plan of every query is asserted, once for each set of toggles; the   *)
(* timed passes come after that, the sets taking turns.                     *)
Interleaved(t, apply(_), via, eng, timed, ef) ==
    LET Run(name, config) == Measure(Conn, t, "filter", name, <<config, SelBucket>>, ef)
    IN Each(Configs, LAMBDA config :
            apply(config)
              \o Explain(Conn, t, "filter", <<config, SelBucket>>)
              \o ExitUnless({PlanThrough({via})})
              \o Run(eng, config))
         \o Each(Configs, LAMBDA config : apply(config) \o Run(timed, config))
         \o AssertSame

RunEf(ef) ==
    Interleaved(Table, LAMBDA config : ApplyConfig(config, ef), "acorn",
                "fastpath", "fastpath_timed", ef)

RunT1 == Interleaved(T1Table, T1Config, "hook", "fastpath_t1", "fastpath_t1_timed", 0)

Main(baseline, out) ==
    ExactTruth \o Connect(Conn) \o Verify(Conn) \o EnsureTable
      \o Each(EFS, LAMBDA ef : RunEf(ef) \o Commit)
      \o EnsureT1 \o RunT1 \o Commit
      \o (IF out = baseline THEN <<>> ELSE Compare(baseline))
      \o Dump(out)
=============================================================================
