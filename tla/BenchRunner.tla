---------------------------- MODULE BenchRunner ----------------------------
(***************************************************************************)
(* bench/run_bench.py with its targets and scenarios: the systems are set  *)
(* up and measured one after the other on the same table; one that fails   *)
(* is skipped, and the results are written again after each one that does  *)
(* not. The ground truth is asked of the server, over a connection of its  *)
(* own.                                                                    *)
(***************************************************************************)
EXTENDS BenchStatements

(* Representatives of the swept values and of the targets. *)
SELECTIVITIES == <<1>>
EF_SEARCHES == <<1600>>
N_ROUNDS == 1
PgTargets == <<"prefilter_exact", "pgvector", "pg_acorn_tier1_g1", "pg_acorn_tier2_g1">>

NoEf == 0
Table == "bench_items"
Coll == <<"bench_items">>
Ref == "pgvector_ref"   \* pgvector_ref.conn; self.conn is named as its target
Fixture == Rows("bench")

(* --- targets ------------------------------------------------------------ *)

(* copy_load *)
CopyLoad(data) == Copy(Table, data)

MakeItems == DropTable(Table) \o CreateTable(Table)

PrefilterSetup(conn, data) ==
    Set(conn, [enable_hook |-> "off"]) \o MakeItems \o CopyLoad(data)
      \o CreateIndex("bench_items_bucket_idx", Table, "btree", NoOptions, 2)

PgvectorSetup(conn, data) ==
    Set(conn, [enable_hook |-> "off"]) \o MakeItems \o CopyLoad(data)
      \o CreateIndex("bench_items_embedding_idx", Table, "hnsw", NoOptions, 2)
      \o CreateIndex("bench_items_bucket_idx", Table, "btree", NoOptions, 2)

PgAcornSetup(conn, tier, data) ==
    MakeItems \o CopyLoad(data)
      \o (IF tier = 1
          THEN CreateIndex("bench_items_embedding_idx", Table, "hnsw", NoOptions, 2)
                 \o Set(conn, [enable_hook |-> "on"])
          ELSE CreateIndex("bench_items_embedding_bucket_idx", Table, "acorn", [gamma |-> 1], 0)
                 \o Set(conn, [enable_2hop |-> "off"]))
      \o CreateIndex("bench_items_bucket_idx", Table, "btree", NoOptions, 2)

QdrantSetup(data) ==
    QDelete(Coll) \o QCreate(Coll, data) \o QPut(Coll, FALSE) \o QPut(Coll, TRUE)

SetUp(target, data) ==
    CASE target = "prefilter_exact" -> PrefilterSetup(target, data)
      [] target = "pgvector" -> PgvectorSetup(target, data)
      [] target = "pg_acorn_tier1_g1" -> PgAcornSetup(target, 1, data)
      [] target = "pg_acorn_tier2_g1" -> PgAcornSetup(target, 2, data)
      [] target = "qdrant" -> QdrantSetup(data)

Open(target) == IF target = "qdrant" THEN <<>> ELSE Connect(target)
Teardown(target) == IF target = "qdrant" THEN QDelete(Coll) ELSE DropTable(Table)
CloseTarget(target) == IF target = "qdrant" THEN <<>> ELSE Close(target)

(* Only the targets with a vector index have force_index_scan. *)
Forced == {"pgvector", "pg_acorn_tier1_g1", "pg_acorn_tier2_g1"}
ForceIndexScan(target) ==
    IF target \in Forced
    THEN Set(target, [enable_seqscan |-> "off", enable_bitmapscan |-> "off"]) ELSE <<>>
UnforceIndexScan(target) ==
    IF target \in Forced THEN Reset(target, {"enable_seqscan", "enable_bitmapscan"}) ELSE <<>>

SetEfSearch(target, ef) ==
    CASE target \in {"pgvector", "pg_acorn_tier1_g1"} ->
             Set(target, [hnsw_ef |-> IF ef > 1000 THEN 1000 ELSE ef])
      [] target = "pg_acorn_tier2_g1" -> Set(target, [acorn_ef |-> ef])
      [] OTHER -> <<>>

QueryFiltered(target, scenario, sel, ef) ==
    IF target = "qdrant" THEN QMeasure(Coll, target, <<scenario, sel>>, ef)
    ELSE Measure(target, Table, "filter", target, <<scenario, sel>>, ef)

(* --- scenarios ---------------------------------------------------------- *)

(* Settings of a run that fails are left to the end of the connection. *)
SelectivitySweep(target, force) ==
    LET efs == IF target = "prefilter_exact" THEN <<NoEf>> ELSE EF_SEARCHES
        scenario == IF force THEN "a" ELSE "a_free"
    IN (IF force THEN ForceIndexScan(target) ELSE <<>>)
         \o Each(SELECTIVITIES, LAMBDA sel :
               Each(efs, LAMBDA ef :
                   SetEfSearch(target, ef) \o QueryFiltered(target, scenario, sel, ef)))
         \o (IF force THEN UnforceIndexScan(target) ELSE <<>>)

(* The nearest rows by another distance than the index's, then the filter. *)
PostfilterRecall ==
    Each(<<1, 50>>, LAMBDA multiplier :
        Measure(Ref, Table, "cte", "pgvector_cte", <<"b", 5>>, multiplier))

BruteTruth ==
    Set(Ref, [enable_indexscan |-> "off", enable_bitmapscan |-> "off"])
      \o TruthBySql(Ref, Table, "l2", <<"truth", 5>>)
      \o Reset(Ref, {"enable_indexscan", "enable_bitmapscan"})

(* insert_batch; the exact baseline has no such method.                     *)
InsertBatch(target) == IF target = "prefilter_exact" THEN Throw ELSE InsertRound(Table)

IncrementalRecall(target) ==
    LET Round(n) == BruteTruth \o QueryFiltered(target, "c", <<5, n>>, NoEf)
    IN Round(0) \o Each([n \in 1..N_ROUNDS |-> n],
                        LAMBDA n : InsertBatch(target) \o Round(n))

BuildGroundTruth ==
    Set(Ref, [enable_indexscan |-> "off", enable_bitmapscan |-> "off"])
      \o TruthBySql(Ref, Table, "filter", <<"truth", 1>>)
      \o Reset(Ref, {"enable_indexscan", "enable_bitmapscan"})

Correlation(target) ==
    Each(<<"low", "high">>, LAMBDA corr :
        Teardown(target) \o SetUp(target, Rows(corr)) \o BuildGroundTruth
          \o QueryFiltered(target, "d", <<corr, 10>>, NoEf))

(* --- main --------------------------------------------------------------- *)

MeasureTarget(target, scenarios, force, out) ==
    SetUp(target, Fixture) \o Connect(Ref)
      \o Unless({TruthKept}, BuildGroundTruth \o KeepTruth)
      \o (IF "a" \in scenarios THEN UseTruth \o SelectivitySweep(target, force) ELSE <<>>)
      \o (IF "b" \in scenarios /\ target = "pgvector" THEN UseTruth \o PostfilterRecall ELSE <<>>)
      \o (IF "c" \in scenarios /\ target # "qdrant" THEN IncrementalRecall(target) ELSE <<>>)
      \o (IF "d" \in scenarios THEN Correlation(target) ELSE <<>>)
      \o Commit \o Dump(out)

Main(targets, scenarios, force, out) ==
    Each(targets, Open)
      \o Each(targets, LAMBDA target :
          Try(MeasureTarget(target, scenarios, force, out), Forget)
          \o Try(Teardown(target), <<>>)
          \o CloseTarget(target) \o Close(Ref))
      \o Dump(out)
=============================================================================
