-------------------------- MODULE HeadToHeadFair --------------------------
(***************************************************************************)
(* bench/head2head_fair.py: acorn_hnsw and Qdrant with equal resources.    *)
(* Mode fair1t measures every engine; fairnt measures the exact searches   *)
(* again, on the collections fair1t left. One PostgreSQL connection serves *)
(* the whole run. One operator per function.                               *)
(***************************************************************************)
EXTENDS BenchStatements

(* Representatives of the swept values. *)
SELS == <<10>>
EFS_PG == <<40, 1600>>
EFS_QD == <<40>>
CORRS == <<"high", "low">>
PG_CONFIGS == << [name |-> "pg_g1_pe_mf", gamma |-> 1, pe |-> TRUE],
                 [name |-> "pg_g2_nope_mf", gamma |-> 2, pe |-> FALSE] >>

NoEf == 0
Conn == "conn"
Table == "h2h_items"
MakeFixture(corr) == Rows(corr)
ExactTruth(corr) == Truth(MakeFixture(corr))

AddOp(out) == Commit \o Dump(out)

PgVerifyServer(out) == Verify(Conn) \o Dump(out)

(* The warm-up, the prewarm pass, the timed queries and the buffer samples. *)
PgMeasure(out, corr, q, eng, sel, ef) ==
    Measure(Conn, Table, q, eng, <<corr, sel>>, ef) \o AddOp(out)

PgLoad(corr) ==
    DropTable(Table) \o CreateTable(Table) \o Copy(Table, MakeFixture(corr))
        \o CreateIndex("h2h_bucket_btree", Table, "btree", NoOptions, 2)
        \o Analyze(Table)

RunPgPrefilter(out, corr, mode) ==
    LET engine == IF mode = "fair1t" THEN "pg_prefilter_exact" ELSE "pg_prefilter_exact_nt"
        session == IF mode = "fair1t" THEN [enable_seqscan |-> "off"]
                   ELSE [max_parallel_workers_per_gather |-> 4]
    IN Set(Conn, session)
        \o Each(SELS, LAMBDA sel :
              Explain(Conn, Table, "filter", <<corr, sel>>)
                \o ExitUnless({PlanThrough({"sort", "hnsw", "hook"})})
                \o PgMeasure(out, corr, "filter", engine, sel, NoEf))

ForceAcorn ==
    Set(Conn, [enable_seqscan |-> "off", enable_bitmapscan |-> "off",
               member_first |-> "on", scan_fast_paths |-> "on", scan_prefetch |-> "off"])

(* Literals are tried when the statement with parameters is not planned     *)
(* through the acorn index.                                                 *)
AcornSweep(out, corr, name, sel) ==
    LET Planned(q) == Explain(Conn, Table, q, <<corr, sel>>)
        Cells(q) == Dump(out) \o ExitUnless({PlanThrough({"acorn"})})
                     \o Set(Conn, [acorn_ef |-> EFS_PG[Len(EFS_PG)]])
                     \o Each(EFS_PG, LAMBDA ef :
                           Set(Conn, [acorn_ef |-> ef])
                             \o PgMeasure(out, corr, q, name, sel, ef))
    IN Planned("filter")
        \o IfElse({PlanThrough({"acorn"})}, Cells("filter"),
                  Planned("literal") \o Cells("literal"))

RunPgAcorn(out, corr) ==
    Each(PG_CONFIGS, LAMBDA cfg :
        DropIndex("h2h_acorn_idx")
          \o CreateIndex("h2h_acorn_idx", Table, "acorn", [gamma |-> cfg.gamma, pe |-> cfg.pe], 0)
          \o Dump(out)
          \o ForceAcorn
          \o Each(SELS, LAMBDA sel : AcornSweep(out, corr, cfg.name, sel)))

Coll(corr, variant) == <<corr, variant>>

QCreateColl(corr, variant) ==
    QDelete(Coll(corr, variant)) \o QCreate(Coll(corr, variant), MakeFixture(corr))

(* Batches; only the last one waits. *)
QUpsert(name) == QPut(name, FALSE) \o QPut(name, TRUE)

QPollIndexed(name) == QPoll(name, TRUE) \o QInfo(name)

QEnsureAnyReuse(corr, variant, reuse) ==
    LET name == Coll(corr, variant)
        create == QCreateColl(corr, variant) \o QUpsert(name) \o QPollIndexed(name)
    IN IF reuse THEN Try(QInfo(name), create) ELSE create
QEnsure(corr, variant, reuse) ==
    LET name == Coll(corr, variant)
        create == QCreateColl(corr, variant) \o QUpsert(name) \o QPollIndexed(name)
    IN IF reuse THEN IfElse({CollComplete(name)}, QInfo(name), create) ELSE create

QMeasureCell(out, corr, variant, eng, sel, ef) ==
    QMeasure(Coll(corr, variant), eng, <<corr, sel>>, ef) \o AddOp(out)

RunQdrantFull(out, corr) ==
    Each(<<"default", "forced">>, LAMBDA variant :
        QEnsure(corr, variant, FALSE) \o Dump(out)
          \o Each(SELS, LAMBDA sel :
                Each(EFS_QD, LAMBDA ef :
                    QMeasureCell(out, corr, variant,
                                 IF variant = "default" THEN "qdrant_default"
                                 ELSE "qdrant_forced", sel, ef))
                  \o IF variant = "forced"
                     THEN QMeasureCell(out, corr, variant, "qdrant_exact", sel, NoEf)
                     ELSE <<>>))

RunQdrantExactNt(out, corr) ==
    QEnsure(corr, "default", TRUE) \o Dump(out)
      \o Each(SELS, LAMBDA sel :
            QMeasureCell(out, corr, "default", "qdrant_exact_nt", sel, NoEf))

MainOneTruth(mode, out) ==
    Connect(Conn) \o PgVerifyServer(out) \o ExactTruth("high")
      \o Each(CORRS, LAMBDA corr : PgLoad(corr) \o RunPgPrefilter(out, corr, mode))
Main(mode, out) ==
    Connect(Conn) \o PgVerifyServer(out)
      \o Each(CORRS, LAMBDA corr :
            ExactTruth(corr) \o PgLoad(corr) \o RunPgPrefilter(out, corr, mode)
              \o IF mode = "fair1t" THEN RunPgAcorn(out, corr) \o RunQdrantFull(out, corr)
                 ELSE RunQdrantExactNt(out, corr))
      \o Close(Conn) \o Dump(out)
=============================================================================
