---------------------------- MODULE HeadToHead ----------------------------
(***************************************************************************)
(* bench/head2head.py: the earlier comparison with Qdrant, on the table    *)
(* and the collections head2head_fair.py uses too. Every correlation opens *)
(* a PostgreSQL connection of its own, and selectivities are literals.     *)
(***************************************************************************)
EXTENDS BenchStatements

(* Representatives of the swept values. *)
EFS == <<400>>
SELS == <<10>>
CORRS == <<"high", "low">>
PG_CONFIGS == << [name |-> "pg_g1_pe_mf", gamma |-> 1, pe |-> TRUE],
                 [name |-> "pg_g2_nope_mf", gamma |-> 2, pe |-> FALSE] >>

NoEf == 0
Conn == "conn"
Table == "h2h_items"
MakeFixture(corr) == Rows(corr)
ExactTruth(corr) == Truth(MakeFixture(corr))

AddOp(out) == Commit \o Dump(out)

PgMeasure(out, corr, eng, sel, ef) ==
    Measure(Conn, Table, "literal", eng, <<corr, sel>>, ef) \o AddOp(out)

PlanLine(corr, sel, vias) ==
    Explain(Conn, Table, "literal", <<corr, sel>>) \o ExitUnless({PlanThrough(vias)})

LoadItems(corr) ==
    DropTable(Table) \o CreateTable(Table) \o Copy(Table, MakeFixture(corr))
        \o CreateIndex("h2h_bucket_btree", Table, "btree", NoOptions, 2)
        \o Analyze(Table)

RunPg(out, corr) ==
    Connect(Conn) \o LoadItems(corr)
      \o Set(Conn, [enable_seqscan |-> "off"])
      \o Each(SELS, LAMBDA sel :
            PlanLine(corr, sel, {"sort", "hnsw", "hook"})
              \o PgMeasure(out, corr, "pg_prefilter_exact", sel, NoEf))
      \o Each(PG_CONFIGS, LAMBDA cfg :
            DropIndex("h2h_acorn_idx")
              \o CreateIndex("h2h_acorn_idx", Table, "acorn",
                             [gamma |-> cfg.gamma, pe |-> cfg.pe], 0)
              \o Dump(out)
              \o Set(Conn, [enable_seqscan |-> "off", enable_bitmapscan |-> "off",
                            member_first |-> "on", scan_fast_paths |-> "on",
                            scan_prefetch |-> "off"])
              \o Each(SELS, LAMBDA sel :
                    PlanLine(corr, sel, {"acorn"})
                      \o Each(EFS, LAMBDA ef :
                            Set(Conn, [acorn_ef |-> ef])
                              \o PgMeasure(out, corr, cfg.name, sel, ef))))
      \o Close(Conn)

Coll(corr, variant) == <<corr, variant>>

QCreateColl(corr, variant) ==
    QDelete(Coll(corr, variant)) \o QCreate(Coll(corr, variant), MakeFixture(corr))

(* Batches; only the last one waits. *)
QUpsert(name) == QPut(name, FALSE) \o QPut(name, TRUE)

QPollIndexed(name) == QPoll(name, TRUE) \o QInfo(name)

QMeasureCell(out, corr, variant, eng, sel, ef) ==
    QMeasure(Coll(corr, variant), eng, <<corr, sel>>, ef) \o AddOp(out)

RunQdrant(out, corr) ==
    Each(<<"default", "forced">>, LAMBDA variant :
        QCreateColl(corr, variant) \o QUpsert(Coll(corr, variant))
          \o QPollIndexed(Coll(corr, variant)) \o Dump(out)
          \o Each(SELS, LAMBDA sel :
                Each(EFS, LAMBDA ef :
                    QMeasureCell(out, corr, variant,
                                 IF variant = "default" THEN "qdrant_default"
                                 ELSE "qdrant_forced", sel, ef))
                  \o IF variant = "forced"
                     THEN QMeasureCell(out, corr, variant, "qdrant_exact", sel, NoEf)
                     ELSE <<>>))

Main(out) ==
    Each(CORRS, LAMBDA corr : ExactTruth(corr) \o RunPg(out, corr) \o RunQdrant(out, corr))
      \o Dump(out)
=============================================================================
