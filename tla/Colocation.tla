----------------------------- MODULE Colocation -----------------------------
(***************************************************************************)
(* bench/validate_colocation.py: the same rows in two tables, one index    *)
(* with co-located entries and one without, measured in turns.             *)
(***************************************************************************)
EXTENDS BenchStatements

CONFIGS == <<"coloc_off", "coloc_on">>

(* Representatives of the swept values. *)
SELS == <<1, 40>>
EFS == <<100, 1600>>

Conn == "conn"
Index(t) == IF t = "coloc_on" THEN "coloc_on_idx" ELSE "coloc_off_idx"
Fixture == Rows("coloc")
ExactTruth == Truth(Fixture)

EnsureTable(t) ==
    Unless({IndexExists(Index(t)), RowsAre(t, Fixture)},
           DropTable(t) \o CreateTable(t) \o Copy(t, Fixture)
             \o CreateIndex(Index(t), t, "acorn",
                            [gamma |-> 2, pe |-> TRUE, inline |-> t = "coloc_on"], 0))

ApplyGucs(ef) ==
    Set(Conn, [enable_seqscan |-> "off", enable_hook |-> "off", member_first |-> "on",
               acorn_ef |-> ef])

(* Each table's engine bears its name; its timed passes, another. *)
Timed(t) == IF t = "coloc_on" THEN "coloc_on_timed" ELSE "coloc_off_timed"
RunCell(sel, ef) ==
    Each(CONFIGS, LAMBDA t :
        ApplyGucs(ef) \o Explain(Conn, t, "filter", sel)
          \o ExitUnless({PlanThrough({"acorn"})})
          \o Measure(Conn, t, "filter", t, sel, ef))
      \o Each(CONFIGS, LAMBDA t :
            ApplyGucs(ef) \o Measure(Conn, t, "filter", Timed(t), sel, ef))

Main(out) ==
    ExactTruth \o Connect(Conn) \o Verify(Conn)
      \o Each(CONFIGS, EnsureTable)
      \o Each(SELS, LAMBDA sel : Each(EFS, LAMBDA ef : RunCell(sel, ef) \o Commit))
      \o Dump(out)
=============================================================================
