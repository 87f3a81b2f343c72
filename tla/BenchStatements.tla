-------------------------- MODULE BenchStatements --------------------------
(***************************************************************************)
(* The vocabulary of the benchmark scripts under bench/. Each script is a  *)
(* sequence of statements sent to two servers, PostgreSQL and Qdrant, with *)
(* tests, handlers and writes of a result file in between; BenchServer     *)
(* says what a statement does. A constructor below builds a sequence, so   *)
(* that a Python function is the concatenation of what it calls.           *)
(*                                                                         *)
(* Sweeps (selectivities, ef values, queries, repetitions) are sequences   *)
(* of a few representatives; the queries of one cell, with their warm-up,  *)
(* prewarm pass and buffer samples, are one statement, because they change *)
(* nothing and run under one plan.                                         *)
(***************************************************************************)
EXTENDS Integers, Sequences, SequencesExt

None == "none"
NoOptions == <<>>
NoData == [src |-> "none", extra |-> 0]
Rows(src) == [src |-> src, extra |-> 0]

(* for x in S: Body(x) *)
Each(S, Body(_)) ==
    LET code[n \in 0..Len(S)] == IF n = 0 THEN <<>> ELSE code[n - 1] \o Body(S[n])
    IN code[Len(S)]

----------------------------------------------------------------------------
(* Control. *)

IfElse(conds, then, else) ==
    << [do |-> "test", all |-> conds, skip |-> Len(then) + 1] >> \o then
        \o << [do |-> "jump", skip |-> Len(else)] >> \o else
If(conds, then) == IfElse(conds, then, <<>>)
Unless(conds, then) == IfElse(conds, <<>>, then)

Throw == << [do |-> "throw"] >>
ExitUnless(conds) == Unless(conds, Throw)

(* try: body / except Exception: handler *)
Try(body, handler) ==
    << [do |-> "try", skip |-> Len(body) + 1] >> \o body
        \o << [do |-> "endtry", skip |-> Len(handler)] >> \o handler

(* Conditions a script tests. *)
MetaIs(k, v)      == [on |-> "meta", key |-> k, val |-> v]
IndexExists(i)    == [on |-> "index", name |-> i]
RowsAre(t, data)  == [on |-> "rows", table |-> t, data |-> data]
PlanThrough(vias) == [on |-> "plan", vias |-> vias]
AllExact(eng)     == [on |-> "exact", eng |-> eng]
TruthKept         == [on |-> "kept"]
CollComplete(name) == [on |-> "complete", name |-> name]

----------------------------------------------------------------------------
(* PostgreSQL. *)

Connect(c)          == << [do |-> "connect", c |-> c] >>
Close(c)            == << [do |-> "close", c |-> c] >>
(* CREATE EXTENSION and SHOW: the settings of the server are as expected.   *)
Verify(c)           == << [do |-> "verify", c |-> c] >>
Set(c, settings)    == << [do |-> "set", c |-> c, settings |-> settings] >>
Reset(c, names)     == << [do |-> "reset", c |-> c, names |-> names] >>
DropTable(t)        == << [do |-> "drop_table", table |-> t] >>
CreateTable(t)      == << [do |-> "create_table", table |-> t] >>
Copy(t, data)       == << [do |-> "copy", table |-> t, data |-> data] >>
InsertRound(t)      == << [do |-> "insert", table |-> t] >>
Analyze(t)          == << [do |-> "analyze", table |-> t] >>
AlterTable(t)       == << [do |-> "alter_table", table |-> t] >>
DropIndex(i)        == << [do |-> "drop_index", name |-> i] >>
CreateIndex(i, t, am, options, workers) ==
    << [do |-> "create_index", name |-> i, workers |-> workers,
        index |-> [table |-> t, am |-> am, options |-> options]] >>
PutMeta(k, v)       == << [do |-> "put_meta", key |-> k, val |-> v] >>
DropMeta            == << [do |-> "drop_meta"] >>

(* EXPLAIN; q is "filter" or "literal" (WHERE bucket < n ORDER BY embedding *)
(* <=> v LIMIT k, with parameters or without), "wrapped" (the same with a   *)
(* condition no index can use), "l2" (the same ordered by <->),             *)
(* "unfiltered" and "cte" (ORDER BY <=> or <-> without WHERE), "count"      *)
(* (WHERE without ORDER BY) or "all".                                       *)
Explain(c, t, q, sel) == << [do |-> "explain", c |-> c, table |-> t, q |-> q, sel |-> sel] >>
(* The queries of one cell, with their recall against the ground truth.     *)
Measure(c, t, q, eng, sel, ef) ==
    << [do |-> "measure", c |-> c, table |-> t, q |-> q, eng |-> eng,
        sel |-> sel, ef |-> ef] >>
(* Ground truth: computed from the fixture, or asked of the server.         *)
Truth(data)         == << [do |-> "truth", data |-> data] >>
TruthBySql(c, t, q, sel) ==
    << [do |-> "truth_by_sql", c |-> c, table |-> t, q |-> q, sel |-> sel] >>
(* A ground truth that outlives the next one. *)
KeepTruth           == << [do |-> "keep_truth"] >>
UseTruth            == << [do |-> "use_truth"] >>

----------------------------------------------------------------------------
(* Qdrant. The points of a collection are put in batches; only the last     *)
(* put waits until the server has applied what was put.                     *)

QDelete(name)         == << [do |-> "q_delete", name |-> name] >>
QCreate(name, data)   == << [do |-> "q_create", name |-> name, data |-> data] >>
QPut(name, wait)      == << [do |-> "q_put", name |-> name, wait |-> wait] >>
(* q_poll: leave when the count has settled, the status is green and, if    *)
(* counts, 95% are indexed; or when the time is over.                       *)
QPoll(name, counts)   == << [do |-> "q_poll", name |-> name, counts |-> counts] >>
QInfo(name)           == << [do |-> "q_info", name |-> name] >>
(* wait_indexed: as QPoll, but on the count alone, and TimeoutError.        *)
QWait(name)           == << [do |-> "q_wait", name |-> name] >>
QMeasure(name, eng, sel, ef) ==
    << [do |-> "q_measure", name |-> name, eng |-> eng, sel |-> sel, ef |-> ef] >>

----------------------------------------------------------------------------
(* Results: cells are collected, committed to the results and dumped.       *)

Commit       == << [do |-> "commit"] >>
Forget       == << [do |-> "forget"] >>
Dump(f)      == << [do |-> "dump", file |-> f] >>
(* The rows returned must be the same under every set of toggles, and those *)
(* recorded in another file, if it is there.                                *)
AssertSame   == << [do |-> "assert_same"] >>
Compare(f)   == << [do |-> "compare", file |-> f] >>
Resume(f, replaced) == << [do |-> "resume", file |-> f, replaced |-> replaced] >>

(* The sampling thread of build_ops_bench.py counts parallel workers, over  *)
(* a connection of its own, or the memory of the backend.                   *)
Fork(counts) == << [do |-> "fork", counts |-> counts] >>
Stop         == << [do |-> "stop"] >>
Join         == << [do |-> "join"] >>
RecordPeak(eng, workers) == << [do |-> "record_peak", eng |-> eng, workers |-> workers] >>
=============================================================================
