------------------------------ MODULE BuildOps ------------------------------
(***************************************************************************)
(* bench/build_ops_bench.py: memory of a build, builds with 0 to 4         *)
(* parallel workers, recall of a serial and of a parallel build, and one   *)
(* large build. A thread samples the backend or the parallel workers while *)
(* the main thread waits for CREATE INDEX.                                 *)
(***************************************************************************)
EXTENDS BenchStatements

(* Representatives of the swept values. *)
Counts == <<0, 2>>
EFS == <<100, 400>>
Sel == 10

Conn == "conn"
Items == "bo_items"
MakeFixture(n) == Rows(n)

LoadTable(table, data) ==
    DropTable(table) \o CreateTable(table) \o Copy(table, data) \o Analyze(table)

BuildIndex(table, name, mwm, workers) ==
    DropIndex(name)
      \o Set(Conn, [enable_hook |-> "off", build_direct_dist |-> "on", build_seed |-> 42,
                    maintenance_work_mem |-> mwm,
                    max_parallel_maintenance_workers |-> workers])
      \o AlterTable(table)
      \o CreateIndex(name, table, "acorn", [gamma |-> 2, workers |-> workers], workers)

TopkIds(table, eng, ef) ==
    Set(Conn, [enable_hook |-> "off"]) \o Set(Conn, [enable_seqscan |-> "off"])
      \o Set(Conn, [acorn_ef |-> ef])
      \o Measure(Conn, table, "literal", eng, Sel, ef)
      \o Reset(Conn, {"enable_seqscan"})

TruthIds(table) ==
    Set(Conn, [enable_indexscan |-> "off", enable_bitmapscan |-> "off",
               enable_seqscan |-> "on"])
      \o TruthBySql(Conn, table, "literal", Sel)
      \o Reset(Conn, {"enable_indexscan", "enable_bitmapscan"})

StageRss ==
    Each(<<"32MB", "2GB">>, LAMBDA mwm :
        Connect(Conn) \o Fork("rss") \o BuildIndex(Items, "bo_rss_idx", mwm, 0) \o Stop \o Join
          \o DropIndex("bo_rss_idx") \o Close(Conn))

StageWorkersNoJoin ==
    Each(Counts, LAMBDA w :
        Fork("workers") \o Connect(Conn) \o BuildIndex(Items, "bo_w_idx", "2GB", w)
          \o Close(Conn) \o Stop \o RecordPeak("bo_workers", w))
      \o Commit
StageWorkers ==
    Each(Counts, LAMBDA w :
        Fork("workers") \o Connect(Conn) \o BuildIndex(Items, "bo_w_idx", "2GB", w) \o Close(Conn)
          \o Stop \o Join \o RecordPeak("bo_workers", w))
      \o Commit

StageRecall ==
    LET Built(name, workers, eng) ==
            BuildIndex(Items, name, "2GB", workers)
              \o Each(EFS, LAMBDA ef : TopkIds(Items, eng, ef))
              \o DropIndex(name)
    IN Connect(Conn) \o TruthIds(Items)
         \o Built("bo_ser_idx", 0, "bo_serial")
         \o Built("bo_par_idx", 2, "bo_parallel")
         \o Close(Conn) \o Commit

StageConfirm250k ==
    Connect(Conn) \o LoadTable("bo_items_250k", MakeFixture("bo_250k"))
      \o Fork("workers") \o BuildIndex("bo_items_250k", "bo_250k_idx", "2GB", 2) \o Stop \o Join
      \o Close(Conn) \o RecordPeak("bo_confirm", 2) \o Commit

Main(stages, out) ==
    LET Stage(name, code) == IF name \in stages THEN code \o Dump(out) ELSE <<>>
        load == Connect(Conn) \o LoadTable(Items, MakeFixture("bo_60k")) \o Close(Conn)
    IN (IF stages \cap {"rss", "workers", "recall"} = {} THEN <<>> ELSE load)
         \o Stage("rss", StageRss)
         \o Stage("workers", StageWorkers)
         \o Stage("recall", StageRecall)
         \o Stage("confirm250k", StageConfirm250k)
         \o Dump(out)
=============================================================================
