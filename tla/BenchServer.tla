---------------------------- MODULE BenchServer ----------------------------
(***************************************************************************)
(* What the statements of BenchStatements do: one benchmark process at a   *)
(* time, the PostgreSQL and the Qdrant server it talks to, the result      *)
(* files, and what goes on behind its back.                                *)
(*                                                                         *)
(*   - A statement may fail; the exception reaches the nearest handler or  *)
(*     ends the process. The process may be killed between any two         *)
(*     statements and inside any CREATE INDEX, which the server then       *)
(*     carries on with: a killed client leaves an orphaned build.          *)
(*   - Every connection starts with the default settings and keeps what    *)
(*     SET changed until RESET or until it is closed.                      *)
(*   - The planner takes any path the settings allow. It plans the same    *)
(*     query the same way as long as the paths, and the settings its cost  *)
(*     model reads, are the same.                                          *)
(*   - Qdrant applies batches and indexes points in the background, in its *)
(*     own time or never.                                                  *)
(*   - A result file is truncated before it is written, and a process may  *)
(*     be killed in between.                                               *)
(***************************************************************************)
EXTENDS BenchPrograms, FiniteSets, FiniteSetsExt, Functions, TLC

CONSTANTS
    Missions    \* bound: the sequences of programs that are started in turn

ASSUME BenchAssumption == \A m \in Missions : Range(m) \subseteq DOMAIN Programs

Idle == "idle"
(* Paths that read the passing rows and compute every distance. *)
SortPaths == {"seq", "bitmap", "btree"}
Conns == {"conn", "pgvector_ref"} \cup Range(Runner!PgTargets)
Files == {"results_thesis_250k", "results_thesis_smoke", "results_head2head",
          "results_head2head_fair1t", "results_head2head_fairnt", "results_overhead_ledger",
          "results_build_ops", "results_qdrant_rematch", "results",
          "results_fastpath_baseline", "results_fastpath_prefetch", "results_graph_audit",
          "results_colocation"}
AllPoints == 2      \* a collection is loaded in two batches

VARIABLES
    run,        \* the script running, or Idle
    pc,         \* its next statement
    hung,       \* the main thread died while the sampling thread runs on
    sess,       \* [Conns -> [open, set]]: the settings changed in a session
    mem,        \* what the process has in memory
    watch,      \* the sampling thread
    tables,     \* [table name -> [src, extra]]: what each table holds
    indexes,    \* [index name -> [table, am, options]]
    meta,       \* tv_meta: [key -> value]
    building,   \* CREATE INDEX in progress: set of [name, index, workers, own]
    colls,      \* [collection -> [data, queued, pts, ix]]
    files,      \* [Files -> [state, ops]]
    launches    \* the programs started so far

process == <<hung, sess, mem, watch>>
postgres == <<tables, indexes, meta, building>>
vars == <<run, pc, process, postgres, colls, files, launches>>

NoPlan == [path |-> [via |-> None, index |-> None], key |-> <<>>]
NoTruth == [truth |-> NoData, exact |-> TRUE]
NoInfo == [name |-> <<>>, pts |-> 0, ix |-> 0]
EmptyMem == [part |-> <<>>, ops |-> <<>>, plan |-> NoPlan, truth |-> NoData,
             exact |-> TRUE, kept |-> NoTruth, info |-> NoInfo, seen |-> <<>>, handler |-> 0]
NoSession == [open |-> FALSE, set |-> NoOptions]
NoWatch == [on |-> FALSE, counts |-> "rss", stop |-> FALSE, peak |-> 0, out |-> -1,
            foreign |-> FALSE, failed |-> FALSE]
NoFile == [state |-> "absent", ops |-> <<>>]

Init ==
    /\ run = Idle /\ pc = 1 /\ hung = FALSE
    /\ sess = [c \in Conns |-> NoSession]
    /\ mem = EmptyMem /\ watch = NoWatch
    /\ tables = NoOptions /\ indexes = NoOptions /\ meta = NoOptions
    /\ building = {} /\ colls = NoOptions
    /\ files = [f \in Files |-> NoFile]
    /\ launches = <<>>

(* The statement a script is at. *)
StatementOf(programs) ==
    CASE run = Idle -> [do |-> Idle]
      [] run # Idle /\ pc \in DOMAIN programs[run] -> programs[run][pc]
      [] OTHER -> [do |-> "end"]

Here(s, kind) == ~hung /\ s.do = kind
Goto(n) == pc' = n
Advance == Goto(pc + 1) /\ UNCHANGED <<run, launches>>

Without(f, S) == Restrict(f, DOMAIN f \ S)

----------------------------------------------------------------------------
(* How a run begins and ends. *)

Launch ==
    /\ run = Idle
    /\ \E m \in Missions :
         /\ IsStrictPrefix(launches, m)
         /\ run' = m[Len(launches) + 1] /\ launches' = Append(launches, run')
    /\ pc' = 1
    /\ UNCHANGED <<process, postgres, colls, files>>

(* The process is gone: its sessions are closed, its memory is lost; a      *)
(* build it was waiting for goes on without it.                             *)
ProcessEnds ==
    /\ run' = Idle /\ pc' = 1 /\ hung' = FALSE
    /\ sess' = [c \in Conns |-> NoSession]
    /\ mem' = EmptyMem /\ watch' = NoWatch
    /\ building' = {[b EXCEPT !.own = FALSE] : b \in building}
    /\ UNCHANGED <<tables, indexes, meta, colls, launches>>

Finish(s) == (hung \/ s.do = "end") /\ run # Idle /\ ~watch.on /\ ProcessEnds
          /\ UNCHANGED files

Kill == run # Idle /\ ProcessEnds /\ UNCHANGED files

(* Killed between the truncation and the end of the write. *)
KillInDump(s) ==
    /\ Here(s, "dump") /\ ProcessEnds
    /\ files' = [files EXCEPT ![s.file] = [state |-> "torn", ops |-> <<>>]]

(* An exception: to the handler if there is one; otherwise the main thread  *)
(* ends, and the process with it unless the sampling thread, which is not a *)
(* daemon, has not ended.                                                   *)
Raise ==
    \/ /\ mem.handler # 0
       /\ Goto(mem.handler) /\ mem' = [mem EXCEPT !.handler = 0]
       /\ building' = {b \in building : ~b.own}
       /\ UNCHANGED <<run, hung, sess, watch, tables, indexes, meta, colls, files, launches>>
    \/ /\ mem.handler = 0 /\ ~watch.on
       /\ run' = Idle /\ pc' = 1 /\ hung' = FALSE
       /\ sess' = [c \in Conns |-> NoSession]
       /\ mem' = EmptyMem /\ watch' = NoWatch
       /\ building' = {b \in building : ~b.own}
       /\ UNCHANGED <<tables, indexes, meta, colls, files, launches>>
    \/ /\ mem.handler = 0 /\ watch.on
       /\ hung' = TRUE
       /\ building' = {b \in building : ~b.own}
       /\ UNCHANGED <<run, pc, sess, mem, watch, tables, indexes, meta, colls, files, launches>>

(* Statements a server may refuse or fail. *)
Requests == {"connect", "verify", "create_table", "copy", "insert", "create_index", "measure",
             "truth_by_sql", "q_create", "q_delete", "q_put", "q_measure"}
Fails(s) == ~hung /\ s.do \in Requests /\ Raise

----------------------------------------------------------------------------
(* Control and memory. *)

Holds(cond) ==
    CASE cond.on = "meta" -> cond.key \in DOMAIN meta /\ meta[cond.key] = cond.val
      [] cond.on = "index" -> cond.name \in DOMAIN indexes
      [] cond.on = "rows" -> cond.table \in DOMAIN tables
                               /\ tables[cond.table] = cond.data
      [] cond.on = "plan" -> mem.plan.path.via \in cond.vias
                               \cup (IF "sort" \in cond.vias THEN SortPaths ELSE {})
      [] cond.on = "exact" -> \A o \in Range(mem.ops) :
                                o.eng = cond.eng => (o.via \in SortPaths /\ o.data = o.truth)
      [] cond.on = "kept" -> mem.kept # NoTruth
      [] cond.on = "complete" -> /\ cond.name \in DOMAIN colls
                                 /\ colls[cond.name].pts = AllPoints
                                 /\ colls[cond.name].ix = AllPoints

Test(s) ==
    /\ Here(s, "test")
    /\ Goto(pc + 1 + IF \A c \in s.all : Holds(c) THEN 0 ELSE s.skip)
    /\ UNCHANGED <<run, process, postgres, colls, files, launches>>

Jump(s) ==
    /\ Here(s, "jump") /\ Goto(pc + 1 + s.skip)
    /\ UNCHANGED <<run, process, postgres, colls, files, launches>>

EnterTry(s) ==
    /\ Here(s, "try") /\ mem' = [mem EXCEPT !.handler = pc + 1 + s.skip]
    /\ Advance /\ UNCHANGED <<hung, sess, watch, postgres, colls, files>>

LeaveTry(s) ==
    /\ Here(s, "endtry") /\ mem' = [mem EXCEPT !.handler = 0]
    /\ Goto(pc + 1 + s.skip)
    /\ UNCHANGED <<run, hung, sess, watch, postgres, colls, files, launches>>

ThrowException(s) == Here(s, "throw") /\ Raise

(* results["ops"].append, results[...] = ..., and their loss.               *)
CommitResults(s) ==
    /\ Here(s, "commit")
    /\ mem' = [mem EXCEPT !.ops = @ \o mem.part, !.part = <<>>]
    /\ Advance /\ UNCHANGED <<hung, sess, watch, postgres, colls, files>>

ForgetAllResults(s) ==
    /\ Here(s, "forget") /\ mem' = [mem EXCEPT !.part = <<>>, !.ops = <<>>]
    /\ Advance /\ UNCHANGED <<hung, sess, watch, postgres, colls, files>>
ForgetResults(s) ==
    /\ Here(s, "forget") /\ mem' = [mem EXCEPT !.part = <<>>]
    /\ Advance /\ UNCHANGED <<hung, sess, watch, postgres, colls, files>>

SetTruth(s) ==
    /\ Here(s, "truth") /\ mem' = [mem EXCEPT !.truth = s.data, !.exact = TRUE]
    /\ Advance /\ UNCHANGED <<hung, sess, watch, postgres, colls, files>>

KeepTheTruth(s) ==
    /\ Here(s, "keep_truth")
    /\ mem' = [mem EXCEPT !.kept = [truth |-> mem.truth, exact |-> mem.exact]]
    /\ Advance /\ UNCHANGED <<hung, sess, watch, postgres, colls, files>>

UseTheTruth(s) ==
    /\ Here(s, "use_truth")
    /\ mem' = [mem EXCEPT !.truth = mem.kept.truth, !.exact = mem.kept.exact]
    /\ Advance /\ UNCHANGED <<hung, sess, watch, postgres, colls, files>>

(* open(OUT, "w"), json.dump and close *)
WriteOut(s) ==
    /\ Here(s, "dump")
    /\ files' = [files EXCEPT ![s.file] = [state |-> "whole", ops |-> mem.ops]]
    /\ Advance /\ UNCHANGED <<process, postgres, colls>>

(* json.load of an earlier run's file, without the ops of the engines this  *)
(* run measures again.                                                      *)
ResumeFrom(s) ==
    /\ Here(s, "resume")
    /\ \/ /\ files[s.file].state = "absent"
          /\ UNCHANGED mem /\ Advance /\ UNCHANGED <<hung, sess, watch, postgres, colls, files>>
       \/ /\ files[s.file].state = "whole"
          /\ mem' = [mem EXCEPT !.ops = SelectSeq(files[s.file].ops,
                                       LAMBDA o : o.eng \notin s.replaced)]
          /\ Advance /\ UNCHANGED <<hung, sess, watch, postgres, colls, files>>
       \/ files[s.file].state = "torn" /\ Raise

(* Assertions that queries return the same rows as others did. Which rows   *)
(* they return is left open.                                                *)
SameRows(s) ==
    /\ Here(s, "assert_same")
    /\ \/ Advance /\ UNCHANGED <<process, postgres, colls, files>>
       \/ Raise

CompareWith(s) ==
    /\ Here(s, "compare")
    /\ \/ files[s.file].state # "torn" /\ Advance
          /\ UNCHANGED <<process, postgres, colls, files>>
       \/ files[s.file].state # "absent" /\ Raise

----------------------------------------------------------------------------
(* Sessions. *)

OpenConn(s) ==
    /\ Here(s, "connect")
    /\ sess' = [sess EXCEPT ![s.c] = [open |-> TRUE, set |-> NoOptions]]
    /\ Advance /\ UNCHANGED <<hung, mem, watch, postgres, colls, files>>

CloseConnKeepsSettings(s) ==
    /\ Here(s, "close") /\ sess' = [sess EXCEPT ![s.c].open = FALSE]
    /\ Advance /\ UNCHANGED <<hung, mem, watch, postgres, colls, files>>
CloseConn(s) ==
    /\ Here(s, "close") /\ sess' = [sess EXCEPT ![s.c] = NoSession]
    /\ Advance /\ UNCHANGED <<hung, mem, watch, postgres, colls, files>>

VerifyServer(s) ==
    /\ Here(s, "verify") /\ sess[s.c].open
    /\ Advance /\ UNCHANGED <<process, postgres, colls, files>>

SetGucs(s) ==
    /\ Here(s, "set") /\ sess[s.c].open
    /\ sess' = [sess EXCEPT ![s.c].set = s.settings @@ @]
    /\ Advance /\ UNCHANGED <<hung, mem, watch, postgres, colls, files>>

ResetGucs(s) ==
    /\ Here(s, "reset") /\ sess[s.c].open
    /\ sess' = [sess EXCEPT ![s.c].set = Without(@, s.names)]
    /\ Advance /\ UNCHANGED <<hung, mem, watch, postgres, colls, files>>

----------------------------------------------------------------------------
(* Tables and indexes. A CREATE INDEX holds a lock that DROP, ALTER, COPY,  *)
(* INSERT and ANALYZE wait for; another CREATE INDEX or a query does not.   *)

NoBuildOn(t) == \A b \in building : b.index.table # t
IndexesOn(t) == {i \in DOMAIN indexes : indexes[i].table = t}

DropTableIfExists(s) ==
    /\ Here(s, "drop_table") /\ NoBuildOn(s.table)
    /\ tables' = Without(tables, {s.table})
    /\ indexes' = Without(indexes, IndexesOn(s.table))
    /\ Advance /\ UNCHANGED <<process, meta, building, colls, files>>

(* Every script drops the table or collection first. *)
MakeTable(s) ==
    /\ Here(s, "create_table") /\ s.table \notin DOMAIN tables
    /\ tables' = (s.table :> [src |-> "empty", extra |-> 0]) @@ tables
    /\ Advance /\ UNCHANGED <<process, indexes, meta, building, colls, files>>

(* COPY ... FROM STDIN: all rows or none. *)
CopyRows(s) ==
    /\ Here(s, "copy") /\ s.table \in DOMAIN tables /\ NoBuildOn(s.table)
    /\ tables' = [tables EXCEPT ![s.table] = s.data]
    /\ Advance /\ UNCHANGED <<process, indexes, meta, building, colls, files>>

InsertRows(s) ==
    /\ Here(s, "insert") /\ s.table \in DOMAIN tables /\ NoBuildOn(s.table)
    /\ tables' = [tables EXCEPT ![s.table].extra = @ + 1]
    /\ Advance /\ UNCHANGED <<process, indexes, meta, building, colls, files>>

AnalyzeTable(s) ==
    /\ Here(s, "analyze") \/ Here(s, "alter_table")
    /\ NoBuildOn(s.table)
    /\ Advance /\ UNCHANGED <<process, postgres, colls, files>>

DropIndexIfExists(s) ==
    /\ Here(s, "drop_index")
    /\ s.name \in DOMAIN indexes => NoBuildOn(indexes[s.name].table)
    /\ indexes' = Without(indexes, {s.name})
    /\ Advance /\ UNCHANGED <<process, tables, meta, building, colls, files>>

(* A build of the same name that has not committed is waited for. *)
StartBuild(s) ==
    /\ Here(s, "create_index")
    /\ \A b \in building : ~b.own /\ b.name # s.name
    /\ \/ /\ s.name \notin DOMAIN indexes /\ s.index.table \in DOMAIN tables
          /\ building' = building \cup
                 {[name |-> s.name, index |-> s.index, workers |-> s.workers, own |-> TRUE]}
          /\ UNCHANGED <<run, pc, process, tables, indexes, meta, colls, files, launches>>
       \/ (s.name \in DOMAIN indexes \/ s.index.table \notin DOMAIN tables) /\ Raise

FinishBuild(s) ==
    /\ Here(s, "create_index")
    /\ \E b \in building :
         /\ b.own
         /\ indexes' = (b.name :> b.index) @@ indexes
         /\ building' = building \ {b}
    /\ Advance /\ UNCHANGED <<process, tables, meta, colls, files>>

(* A build whose client is gone commits or fails. *)
OrphanEnds ==
    /\ \E b \in building :
         /\ ~b.own
         /\ building' = building \ {b}
         /\ indexes' \in {indexes, (b.name :> b.index) @@ indexes}
    /\ UNCHANGED <<run, pc, process, tables, meta, colls, files, launches>>

WriteMeta(s) ==
    /\ Here(s, "put_meta")
    /\ meta' = (s.key :> s.val) @@ meta
    /\ Advance /\ UNCHANGED <<process, tables, indexes, building, colls, files>>

ForgetMeta(s) ==
    /\ Here(s, "drop_meta") /\ meta' = NoOptions
    /\ Advance /\ UNCHANGED <<process, tables, indexes, building, colls, files>>

----------------------------------------------------------------------------
(* Plans and queries. A path reads the passing rows and sorts them, goes    *)
(* through a vector index, or is the AcornScan the hook adds.               *)

Off(c, guc) == guc \in DOMAIN sess[c].set /\ sess[c].set[guc] = "off"

Filtered == {"filter", "literal", "wrapped", "l2", "count"}
Ordered == {"filter", "literal", "wrapped", "l2", "unfiltered", "cte"}
Cosine == {"filter", "literal", "wrapped", "unfiltered"}

(* acorn_set_rel_pathlist: an hnsw index, a WHERE clause and an ORDER BY    *)
HookApplies(c, t, q) ==
    /\ ~Off(c, "enable_hook")
    /\ q \in Filtered \cap Ordered
    /\ \E i \in IndexesOn(t) : indexes[i].am = "hnsw"

(* A btree serves a plain condition on bucket; an index on cosine distance  *)
(* does not serve an ORDER BY on another one.                               *)
AllPaths(c, t, q) ==
    LET vector == IF q \in Cosine THEN {"acorn", "hnsw"} ELSE {}
        through == {[via |-> indexes[i].am, index |-> i] :
                       i \in {j \in IndexesOn(t) : indexes[j].am \in vector}}
        btree == IF /\ q \in Filtered \ {"wrapped"}
                    /\ \E i \in IndexesOn(t) : indexes[i].am = "btree"
                 THEN {"bitmap", "btree"} ELSE {}
        hook == IF HookApplies(c, t, q) THEN {"hook"} ELSE {}
    IN through \cup {[via |-> v, index |-> None] : v \in {"seq"} \cup btree \cup hook}

(* The hook's path has no pathkeys, so the planner sorts above it too. *)
Enabled(c, q, path) ==
    /\ (path.via \in SortPaths \cup {"hook"} /\ q \in Ordered) => ~Off(c, "enable_sort")
    /\ CASE path.via = "seq" -> ~Off(c, "enable_seqscan")
         [] path.via = "bitmap" -> ~Off(c, "enable_bitmapscan")
         [] path.via = "hook" -> TRUE
         [] OTHER -> ~Off(c, "enable_indexscan")

Paths(c, t, q) ==
    LET enabled == {p \in AllPaths(c, t, q) : Enabled(c, q, p)}
    IN IF enabled = {} THEN AllPaths(c, t, q) ELSE enabled

(* What the cost model reads: pgvector's depends on hnsw.ef_search, that of *)
(* acorn_hnsw not on pg_acorn.ef_search (acorn_cost.c).                     *)
CostGucs == {"enable_seqscan", "enable_indexscan", "enable_bitmapscan", "enable_sort",
             "enable_hook", "hnsw_ef"}
PlanKey(c, t, q, sel) ==
    LET set == sess[c].set
    IN <<t, q, sel, AllPaths(c, t, q), Restrict(set, DOMAIN set \cap CostGucs)>>
Planned(c, t, q, sel) ==
    {[path |-> p, key |-> PlanKey(c, t, q, sel)] :
        p \in IF mem.plan.key = PlanKey(c, t, q, sel) THEN {mem.plan.path}
              ELSE Paths(c, t, q)}

ExplainQuery(s) ==
    /\ Here(s, "explain")
    /\ \E plan \in Planned(s.c, s.table, s.q, s.sel) :
         mem' = [mem EXCEPT !.plan = plan]
    /\ Advance /\ UNCHANGED <<hung, sess, watch, postgres, colls, files>>

Options(path) == IF path.index = None THEN NoOptions ELSE indexes[path.index].options

MeasureQueries(s) ==
    /\ Here(s, "measure") /\ s.table \in DOMAIN tables
    /\ \E plan \in Planned(s.c, s.table, s.q, s.sel) :
         mem' = [mem EXCEPT !.plan = plan, !.part = Append(@,
                   [eng |-> s.eng, cell |-> <<s.sel, s.ef>>,
                    via |-> plan.path.via, built |-> Options(plan.path),
                    data |-> tables[s.table], truth |-> mem.truth,
                    exact |-> mem.exact, set |-> sess[s.c].set])]
    /\ Advance /\ UNCHANGED <<hung, sess, watch, postgres, colls, files>>

AskTruth(s) ==
    /\ Here(s, "truth_by_sql") /\ s.table \in DOMAIN tables
    /\ \E plan \in Planned(s.c, s.table, s.q, s.sel) :
         mem' = [mem EXCEPT !.plan = plan, !.truth = tables[s.table],
                            !.exact = plan.path.via \in SortPaths]
    /\ Advance /\ UNCHANGED <<hung, sess, watch, postgres, colls, files>>
(* Queries on a table that is not there fail. *)
NoSuchTable(s) ==
    /\ ~hung /\ s.do \in {"measure", "truth_by_sql", "copy", "insert"}
    /\ s.table \notin DOMAIN tables /\ Raise

----------------------------------------------------------------------------
(* Qdrant. *)

DeleteColl(s) ==
    /\ Here(s, "q_delete") /\ colls' = Without(colls, {s.name})
    /\ Advance /\ UNCHANGED <<process, postgres, files>>

CreateColl(s) ==
    /\ Here(s, "q_create") /\ s.name \notin DOMAIN colls
    /\ colls' = (s.name :> [data |-> s.data, queued |-> 0, pts |-> 0, ix |-> 0]) @@ colls
    /\ Advance /\ UNCHANGED <<process, postgres, files>>

(* PUT points; with ?wait=true the answer comes when all is applied. *)
PutPoints(s) ==
    /\ Here(s, "q_put") /\ s.name \in DOMAIN colls
    /\ colls' = IF s.wait
                THEN [colls EXCEPT ![s.name].queued = 0,
                                   ![s.name].pts = @ + colls[s.name].queued + 1]
                ELSE [colls EXCEPT ![s.name].queued = @ + 1]
    /\ Advance /\ UNCHANGED <<process, postgres, files>>

ApplyBatch ==
    /\ \E n \in DOMAIN colls :
         /\ colls[n].queued > 0
         /\ colls' = [colls EXCEPT ![n].queued = @ - 1, ![n].pts = @ + 1]
    /\ UNCHANGED <<run, pc, process, postgres, files, launches>>

Optimize ==
    /\ \E n \in DOMAIN colls :
         /\ colls[n].ix < colls[n].pts
         /\ colls' = [colls EXCEPT ![n].ix = colls[n].pts]
    /\ UNCHANGED <<run, pc, process, postgres, files, launches>>

(* One round of q_poll_indexed or poll_until_settled. *)
PollAgain(s) ==
    /\ Here(s, "q_poll") /\ s.name \in DOMAIN colls
    /\ \E status \in {"green", "yellow"} :
         mem' = [mem EXCEPT !.seen = <<status, colls[s.name].ix>>]
    /\ mem'.seen # mem.seen
    /\ UNCHANGED <<run, pc, hung, sess, watch, postgres, colls, files, launches>>

PollSettled(s) ==
    /\ Here(s, "q_poll") /\ s.name \in DOMAIN colls /\ mem.seen = <<"green", colls[s.name].ix>>
    /\ s.counts => colls[s.name].ix = colls[s.name].pts
    /\ mem' = [mem EXCEPT !.seen = <<>>]
    /\ Advance /\ UNCHANGED <<hung, sess, watch, postgres, colls, files>>

PollTimeout(s) ==
    /\ Here(s, "q_poll") /\ s.name \in DOMAIN colls /\ mem' = [mem EXCEPT !.seen = <<>>]
    /\ Advance /\ UNCHANGED <<hung, sess, watch, postgres, colls, files>>

ReadInfo(s) ==
    /\ Here(s, "q_info") /\ s.name \in DOMAIN colls
    /\ mem' = [mem EXCEPT !.info = [name |-> s.name, pts |-> colls[s.name].pts,
                                    ix |-> colls[s.name].ix]]
    /\ Advance /\ UNCHANGED <<hung, sess, watch, postgres, colls, files>>

WaitIndexed(s) ==
    /\ Here(s, "q_wait") /\ s.name \in DOMAIN colls
    /\ \/ colls[s.name].ix = AllPoints /\ Advance
                /\ UNCHANGED <<process, postgres, colls, files>>
       \/ Raise

(* What the script has read of the collection, if anything, is so. *)
AsTold(name) ==
    mem.info = NoInfo \/ ( /\ mem.info.name = name
                           /\ mem.info.pts = colls[name].pts
                           /\ mem.info.ix <= colls[name].ix )

MeasureColl(s) ==
    /\ Here(s, "q_measure") /\ s.name \in DOMAIN colls
    /\ LET coll == colls[s.name]
       IN mem' = [mem EXCEPT !.part = Append(@,
                   [eng |-> s.eng, cell |-> <<s.sel, s.ef>>, via |-> "qdrant",
                    built |-> [pts |-> coll.pts, told |-> AsTold(s.name)], data |-> coll.data,
                    truth |-> mem.truth, exact |-> mem.exact, set |-> NoOptions])]
    /\ Advance /\ UNCHANGED <<hung, sess, watch, postgres, colls, files>>

NoSuchColl(s) ==
    /\ ~hung /\ s.do \in {"q_put", "q_poll", "q_info", "q_wait", "q_measure"}
    /\ s.name \notin DOMAIN colls /\ Raise

----------------------------------------------------------------------------
(* The sampling thread: watch_parallel_workers of build_ops_bench.py. *)

ForkWatch(s) ==
    /\ Here(s, "fork") /\ watch' = [NoWatch EXCEPT !.on = TRUE, !.counts = s.counts]
    /\ Advance /\ UNCHANGED <<hung, sess, mem, postgres, colls, files>>

(* It counts the parallel workers of the server, whosever they are. *)
Sample ==
    /\ watch.on /\ ~watch.stop /\ watch.counts = "workers"
    /\ \E n \in 1..MapThenSumSet(LAMBDA b : b.workers, building) :
         /\ n > watch.peak
         /\ watch' = [watch EXCEPT !.peak = n,
                       !.foreign = @ \/ \E b \in building : ~b.own]
    /\ UNCHANGED <<run, pc, hung, sess, mem, postgres, colls, files, launches>>

WatchEnds ==
    /\ watch.on /\ watch.stop
    /\ watch' = [watch EXCEPT !.on = FALSE, !.out = watch.peak]
    /\ UNCHANGED <<run, pc, hung, sess, mem, postgres, colls, files, launches>>

(* The connection of the thread fails: it ends without a result. *)
WatchFails ==
    /\ watch.on /\ watch.counts = "workers"
    /\ watch' = [watch EXCEPT !.on = FALSE, !.failed = TRUE]
    /\ UNCHANGED <<run, pc, hung, sess, mem, postgres, colls, files, launches>>

StopWatch(s) ==
    /\ Here(s, "stop") /\ watch' = [watch EXCEPT !.stop = TRUE]
    /\ Advance /\ UNCHANGED <<hung, sess, mem, postgres, colls, files>>

JoinWatch(s) ==
    /\ Here(s, "join") /\ ~watch.on
    /\ Advance /\ UNCHANGED <<process, postgres, colls, files>>

RecordBuild(s) ==
    /\ Here(s, "record_peak")
    /\ mem' = [mem EXCEPT !.part = Append(@,
                [eng |-> s.eng, cell |-> <<s.workers, 0>>, via |-> "build",
                 built |-> [peak |-> watch.out, foreign |-> watch.foreign, failed |-> watch.failed],
                 data |-> NoData, truth |-> NoData, exact |-> TRUE, set |-> NoOptions])]
    /\ Advance /\ UNCHANGED <<hung, sess, watch, postgres, colls, files>>

----------------------------------------------------------------------------
Statement(s) ==
    \/ Test(s) \/ Jump(s) \/ EnterTry(s) \/ LeaveTry(s) \/ ThrowException(s)
    \/ CommitResults(s) \/ ForgetResults(s) \/ SetTruth(s) \/ KeepTheTruth(s)
    \/ UseTheTruth(s) \/ WriteOut(s) \/ ResumeFrom(s) \/ SameRows(s) \/ CompareWith(s) \/ OpenConn(s) \/ CloseConn(s)
    \/ VerifyServer(s) \/ SetGucs(s) \/ ResetGucs(s) \/ DropTableIfExists(s) \/ MakeTable(s)
    \/ CopyRows(s) \/ InsertRows(s) \/ AnalyzeTable(s) \/ DropIndexIfExists(s)
    \/ StartBuild(s) \/ FinishBuild(s) \/ WriteMeta(s) \/ ForgetMeta(s) \/ ExplainQuery(s)
    \/ MeasureQueries(s) \/ AskTruth(s) \/ NoSuchTable(s) \/ DeleteColl(s)
    \/ CreateColl(s) \/ PutPoints(s) \/ PollAgain(s) \/ PollSettled(s) \/ PollTimeout(s)
    \/ ReadInfo(s) \/ WaitIndexed(s) \/ MeasureColl(s) \/ NoSuchColl(s)
    \/ ForkWatch(s) \/ StopWatch(s) \/ JoinWatch(s) \/ RecordBuild(s) \/ Finish(s)
    \/ Fails(s) \/ KillInDump(s)

Background == OrphanEnds \/ ApplyBatch \/ Optimize \/ Sample \/ WatchEnds \/ WatchFails

Next == \/ Launch \/ Kill \/ Background
        \/ \E s \in {StatementOf(Programs)} : Statement(s)

Spec == Init /\ [][Next]_vars
=============================================================================
