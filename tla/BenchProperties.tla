-------------------------- MODULE BenchProperties --------------------------
(***************************************************************************)
(* What the numbers the benchmark scripts record can be relied on for: the *)
(* plan, the session, the data and the collection behind each of them, and *)
(* the results a later or an interrupted run leaves in place.              *)
(***************************************************************************)
EXTENDS BenchServer

TypeOK ==
    /\ run \in DOMAIN Programs \cup {Idle}
    /\ pc \in Nat \ {0} /\ (run = Idle => pc = 1)
    /\ hung \in BOOLEAN /\ (hung => run # Idle)
    /\ \A c \in Conns : sess[c].open \/ sess[c].set = NoOptions
    /\ mem.handler = 0 \/ mem.handler > pc
    /\ watch.out \in -1..4 /\ watch.peak \in 0..4
    /\ \A b, d \in building : b.own /\ d.own => b = d
    /\ \A c \in DOMAIN colls : colls[c].ix <= colls[c].pts /\ colls[c].pts <= AllPoints
    /\ \A f \in Files : files[f].state \in {"absent", "torn", "whole"}

(* All measurements: in memory and on disk. *)
Ops == Range(mem.ops) \cup Range(mem.part) \cup UNION {Range(files[f].ops) : f \in Files}

----------------------------------------------------------------------------
(* What a name under which a measurement is recorded stands for.            *)

ExactEngines == {"pg_prefilter", "pg_prefilter_cal", "pg_prefilter_exact",
                 "pg_prefilter_exact_nt", "prefilter_exact"}

NativeEngines == {"pg_prefilter", "pg_prefilter_cal", "pgv_post_relaxed", "pgv_post_strict",
                  "pgv_free", "pgvector", "prefilter_exact"}

AcornOptions ==
    [acorn_g1_infilter    |-> [gamma |-> 1, inline |-> FALSE],
     acorn_g2_infilter    |-> [gamma |-> 2, inline |-> FALSE],
     acorn_g2_postfilter  |-> [gamma |-> 2, inline |-> FALSE],
     acorn_g1pe_mf_inline |-> [gamma |-> 1, inline |-> TRUE],
     acorn_g2pe_mf_inline |-> [gamma |-> 2, inline |-> TRUE],
     pg_g1_pe_mf          |-> [gamma |-> 1, pe |-> TRUE],
     pg_g2_nope_mf        |-> [gamma |-> 2, pe |-> FALSE],
     fastpath             |-> [gamma |-> 2],
     fastpath_timed       |-> [gamma |-> 2],
     coloc_off            |-> [gamma |-> 2, pe |-> TRUE, inline |-> FALSE],
     coloc_off_timed      |-> [gamma |-> 2, pe |-> TRUE, inline |-> FALSE],
     coloc_on             |-> [gamma |-> 2, pe |-> TRUE, inline |-> TRUE],
     coloc_on_timed       |-> [gamma |-> 2, pe |-> TRUE, inline |-> TRUE],
     audit_off            |-> [gamma |-> 2, diversify |-> FALSE],
     audit_on             |-> [gamma |-> 2, diversify |-> TRUE],
     s4_acorn             |-> [gamma |-> 4],
     s4_client            |-> [gamma |-> 4]]

HookEngines == {"fastpath_t1", "fastpath_t1_timed"}

LedgerPaths == [s2_bitmap |-> "bitmap", s2_seq |-> "seq", s3_nodes |-> "bitmap",
                s3_client |-> "bitmap"]

KeptEngines == {"fastpath", "fastpath_timed", "coloc_off", "coloc_off_timed",
                "coloc_on", "coloc_on_timed"}

(* The enable_ settings a session of the engine has changed, by design.     *)
Enables == {"enable_seqscan", "enable_indexscan", "enable_indexonlyscan",
            "enable_bitmapscan", "enable_sort", "enable_hook"}
Changed(eng) ==
    CASE eng \in NativeEngines \ {"pgvector"} -> {"enable_hook"}
      [] eng = "s1_distance" -> {}
      [] eng = "s2_bitmap" -> {"enable_seqscan", "enable_indexscan", "enable_indexonlyscan"}
      [] eng \in {"s3_nodes", "s3_client"} -> {"enable_seqscan", "enable_indexscan"}
      [] eng \in {"s4_acorn", "s4_client", "s4_probe"} ->
             {"enable_seqscan", "enable_bitmapscan", "enable_sort"}
      [] eng \in KeptEngines -> {"enable_hook", "enable_seqscan"}
      [] eng \in HookEngines -> {"enable_hook", "enable_seqscan", "enable_indexscan"}
      [] eng \in {"audit_off", "audit_on"} ->
             {"enable_hook", "enable_seqscan", "enable_bitmapscan", "enable_sort"}
Designed == (NativeEngines \ {"pgvector"})
              \cup {"s1_distance", "s2_bitmap", "s3_nodes", "s3_client",
                    "s4_acorn", "s4_client", "s4_probe", "audit_off", "audit_on"}
              \cup KeptEngines \cup HookEngines

----------------------------------------------------------------------------
(* A measurement recorded under an engine's name was made with that engine: *)
(* an exact one read the passing rows, an acorn one went through an index   *)
(* of the recorded variant, a native one never met the hook, one of the     *)
(* hook never went around it, and a section of the ledger took the path it  *)
(* measures. thesis_validation.py checks the plan once per selectivity and  *)
(* the index by its name; orphaned builds, resumed runs and left-over       *)
(* indexes must not come between.                                           *)
PlanAsClaimed ==
    \A o \in Ops :
        /\ o.eng \in ExactEngines => o.via \in SortPaths
        /\ o.eng \in NativeEngines => o.via # "hook"
        /\ o.eng \in DOMAIN AcornOptions => o.via = "acorn" /\ o.built = AcornOptions[o.eng]
        /\ o.eng \in HookEngines => o.via = "hook"
        /\ o.eng \in DOMAIN LedgerPaths => o.via = LedgerPaths[o.eng]

(* A native or a ledger measurement ran in a session in which exactly the   *)
(* planner settings of its own section were changed: no section leaks its   *)
(* settings into the next one.                                              *)
SessionAsClaimed ==
    \A o \in Ops : o.eng \in Designed => DOMAIN o.set \cap Enables = Changed(o.eng)

(* A Qdrant measurement was made on a collection that had all its points,   *)
(* and the point and index counts recorded with it were true: at least as   *)
(* many vectors were indexed as the script had been told.                   *)
CollectionAsRecorded ==
    \A o \in Ops : (o.via = "qdrant" /\ o.eng \notin {"qdrant_forced_250k", "rematch_gate"})
                     => o.built.pts = AllPoints /\ o.built.told

(* A recorded number stands for what its name says, whatever ran, was killed*)
(* or was left behind before: the index and the plan of its engine, the     *)
(* session of its section, the collection of its point counts.              *)
MadeAsNamed == PlanAsClaimed /\ SessionAsClaimed /\ CollectionAsRecorded

(* Recall is computed against the ground truth of the rows that were        *)
(* searched, also after inserts, reloads and in a second correlation.       *)
TruthMatchesData == \A o \in Ops : o.via # "build" => o.truth = o.data

(* What tv_meta says of the acorn index is so, if there is one: an          *)
(* interrupted build must never pass for the variant a later run asks for.  *)
MetaHonest ==
    ("acorn_index" \in DOMAIN meta /\ "tv_acorn_idx" \in DOMAIN indexes) =>
        LET is(gamma, inline) ==
                indexes["tv_acorn_idx"].options = [gamma |-> gamma, inline |-> inline]
        IN CASE meta["acorn_index"] = "g1" -> is(1, FALSE)
             [] meta["acorn_index"] = "g2" -> is(2, FALSE)
             [] meta["acorn_index"] = "g1pe_mf_inline" -> is(1, TRUE)
             [] meta["acorn_index"] = "g2pe_mf_inline" -> is(2, TRUE)
             [] OTHER -> TRUE

(* A result file holds one measurement of each point, also when a run       *)
(* resumed it to measure a stage again.                                     *)
OnePoint ==
    \A f \in Files :
        LET ops == files[f].ops
        IN \A i, j \in DOMAIN ops :
               (ops[i].eng = ops[j].eng /\ ops[i].cell = ops[j].cell) => i = j

(* Engines whose measurements a command line replaces. *)
Remeasured ==
    [thesis |-> {"pg_prefilter", "pgv_post_relaxed", "pgv_post_strict", "pgv_free",
                 "acorn_g1_infilter", "acorn_g2_infilter", "acorn_g2_postfilter"},
     accept |-> {"pg_prefilter_cal", "acorn_g1pe_mf_inline", "acorn_g2pe_mf_inline"},
     again  |-> {"acorn_g2_infilter", "acorn_g2_postfilter"}]

(* A run of some stages leaves the recorded measurements of all the others  *)
(* in the file, whenever it is written ("resumable", thesis_validation.py). *)
KeepsOthers ==
    [][(/\ run \in DOMAIN Remeasured
        /\ \A f \in Files : files[f].state # "torn" /\ files'[f].state # "torn")
       => \A f \in Files : \A o \in Range(files[f].ops) :
              o.eng \notin Remeasured[run] => o \in Range(files'[f].ops)]_vars

(* A process never loses a result it has collected: a target that fails     *)
(* takes only its own results with it (run_bench.py).                       *)
ResultsKept == [][run' = run => IsPrefix(mem.ops, mem'.ops)]_vars

(* Neither a later command line nor the failure of a target takes away what *)
(* had been measured.                                                       *)
NothingLost == KeepsOthers /\ ResultsKept

(* A recorded number of workers is what the sampling thread had seen when   *)
(* it ended, -1 only if it failed, and never more than the build was        *)
(* allowed, unless another build was going on.                              *)
PeakComplete ==
    \A o \in Ops : o.via = "build" =>
        /\ o.built.failed <=> o.built.peak < 0
        /\ o.built.foreign \/ o.built.peak <= o.cell[1]

----------------------------------------------------------------------------
(* What the scripts' documentation says of three measurements.              *)

(* run_bench.py: "Brute-force ground truth via seq scan". *)
GroundTruthExact == \A o \in Ops : o.exact

(* build_ops_bench.py: the recall of a serial and of a parallel build are   *)
(* compared, so that each is searched through its own index.                *)
RecallParity ==
    \A o \in Ops :
        /\ o.eng = "bo_serial" => o.via = "acorn" /\ o.built = [gamma |-> 2, workers |-> 0]
        /\ o.eng = "bo_parallel" => o.via = "acorn" /\ o.built = [gamma |-> 2, workers |-> 2]

(* a_selectivity_sweep.py: "force_index=True pins each target on its vector *)
(* index".                                                                  *)
ForcedThroughVector ==
    \A o \in Ops : (o.eng \in Runner!Forced /\ o.cell[1][1] = "a")
                     => o.via \in {"hnsw", "acorn", "hook"}
=============================================================================
