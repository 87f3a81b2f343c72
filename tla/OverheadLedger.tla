-------------------------- MODULE OverheadLedger --------------------------
(***************************************************************************)
(* bench/overhead_ledger.py: where the time of a filtered query goes, in   *)
(* five sections. S1 to S4 share one PostgreSQL session: each sets the     *)
(* planner up for its own measurement and resets it for the next one. The  *)
(* result file is written once, at the end.                                *)
(***************************************************************************)
EXTENDS BenchStatements

(* Representatives of the swept values. *)
Thresholds == <<1, 100>>
EFS == <<10, 320>>

NoEf == 0
Conn == "conn"
Table == "ledger_items"
Coll == <<"ledger_items">>
MakeData == Rows("ledger")
ExactTruth == Truth(MakeData)

(* EXPLAIN (ANALYZE) of the repetitions, the plan of which is kept. *)
RunExplain(q, eng, sel, ef) == Measure(Conn, Table, q, eng, sel, ef)
ClientLatMs(q, eng, sel, ef) == Measure(Conn, Table, q, eng, sel, ef)

SetupPg ==
    DropTable(Table) \o CreateTable(Table) \o Copy(Table, MakeData)
      \o CreateIndex("ledger_items_embedding_bucket_idx", Table, "acorn", [gamma |-> 4], 0)
      \o CreateIndex("ledger_items_bucket_idx", Table, "btree", NoOptions, 2)
      \o Analyze(Table)

(* A count and a sum of distances, over all rows. *)
S1Distance ==
    Set(Conn, [max_parallel_workers_per_gather |-> 0])
      \o Measure(Conn, Table, "all", "s1_distance", 100, NoEf)
      \o Reset(Conn, {"max_parallel_workers_per_gather"})
      \o Commit

S2OverridesOneMissing ==
    {"enable_seqscan", "enable_indexscan", "max_parallel_workers_per_gather"}
S2Overrides ==
    {"enable_seqscan", "enable_indexscan", "enable_indexonlyscan",
     "max_parallel_workers_per_gather"}

(* The bitmap points, then one sequential scan. *)
S2Page ==
    Set(Conn, [enable_seqscan |-> "off", enable_indexscan |-> "off",
               enable_indexonlyscan |-> "off", max_parallel_workers_per_gather |-> 0])
      \o Each(Thresholds, LAMBDA th :
            RunExplain("count", "s2_bitmap", th, NoEf) \o ExitUnless({PlanThrough({"bitmap"})}))
      \o Set(Conn, [enable_seqscan |-> "on", enable_bitmapscan |-> "off"])
      \o RunExplain("all", "s2_seq", 100, NoEf)
      \o Reset(Conn, {"enable_bitmapscan"})
      \o Reset(Conn, S2Overrides)
      \o Commit

S3BitmapKnn ==
    Set(Conn, [enable_seqscan |-> "off", enable_indexscan |-> "off",
               max_parallel_workers_per_gather |-> 0])
      \o RunExplain("literal", "s3_nodes", 1, NoEf)
      \o ClientLatMs("filter", "s3_client", 1, NoEf)
      \o Reset(Conn, {"enable_seqscan", "enable_indexscan", "max_parallel_workers_per_gather"})
      \o Commit

(* The sweep, then the LIMIT probe at the operating point, which is the     *)
(* first ef that reaches the recall, or the last one.                       *)
S4Acorn ==
    Set(Conn, [enable_seqscan |-> "off", enable_bitmapscan |-> "off", enable_sort |-> "off",
               max_parallel_workers_per_gather |-> 0])
      \o Each(EFS, LAMBDA ef :
            Set(Conn, [acorn_ef |-> ef])
              \o RunExplain("literal", "s4_acorn", 40, ef)
              \o ClientLatMs("filter", "s4_client", 40, ef))
      \o Set(Conn, [acorn_ef |-> EFS[Len(EFS)]])
      \o RunExplain("literal", "s4_probe", 40, NoEf)
      \o ExitUnless({PlanThrough({"acorn", "btree"})})
      \o Reset(Conn, {"enable_seqscan", "enable_bitmapscan", "enable_sort",
                      "max_parallel_workers_per_gather", "acorn_ef"})
      \o Commit

(* The collection is measured as soon as its status is green once. *)
S5Qdrant ==
    QDelete(Coll) \o QCreate(Coll, MakeData) \o QPut(Coll, FALSE) \o QPut(Coll, TRUE)
      \o QPoll(Coll, FALSE)
      \o Each(<<1, 40>>, LAMBDA th :
            Each(EFS, LAMBDA ef : QMeasure(Coll, "s5_qdrant", th, ef)))
      \o QDelete(Coll) \o Commit

Main(out) ==
    ExactTruth \o Connect(Conn) \o SetupPg
      \o S1Distance \o S2Page \o S3BitmapKnn \o S4Acorn \o S5Qdrant
      \o DropTable(Table) \o Close(Conn) \o Dump(out)
=============================================================================
