----------------------------- MODULE GraphAudit -----------------------------
(***************************************************************************)
(* bench/graph_audit.py: for each variant of neighbour selection and each  *)
(* seed, the index is built anew on one table and its recall measured,     *)
(* unfiltered, filtered and with the filter left to the executor.          *)
(***************************************************************************)
EXTENDS BenchStatements

Variants == <<"off", "on">>

(* Representatives of the swept values. *)
Seeds == <<11, 22>>
SELS == <<10, 40>>
PostEfs == <<400>>
UnfEf == 2000
FilEf == 1600
PostSel == 20

Conn == "conn"
Table == "audit_items"
Index == "audit_idx"
MakeFixture == Rows("audit")
ExactTruth == Truth(MakeFixture)

LoadData ==
    Verify(Conn)
      \o Unless({RowsAre(Table, MakeFixture)},
                DropTable(Table) \o CreateTable(Table) \o Copy(Table, MakeFixture)
                  \o Analyze(Table))

BuildIndex(seed, variant) ==
    DropIndex(Index) \o Set(Conn, [build_seed |-> seed])
      \o CreateIndex(Index, Table, "acorn", [gamma |-> 2, diversify |-> variant = "on"], 0)

Session(member_first) ==
    Set(Conn, [enable_hook |-> "off", enable_seqscan |-> "off", enable_bitmapscan |-> "off",
               enable_sort |-> "off", member_first |-> member_first])

(* The plan is asserted, then the queries are run. *)
MeanRecall(q, eng, sel, ef) ==
    Explain(Conn, Table, q, sel) \o ExitUnless({PlanThrough({"acorn"})})
      \o Measure(Conn, Table, q, eng, sel, ef)

Cell(seed, eng, postfilter) ==
    Session("off") \o Set(Conn, [acorn_ef |-> UnfEf])
      \o MeanRecall("unfiltered", eng, <<seed, 100>>, UnfEf)
      \o Session("on") \o Set(Conn, [acorn_ef |-> FilEf])
      \o Each(SELS, LAMBDA sel : MeanRecall("filter", eng, <<seed, sel>>, FilEf))
      \o (IF postfilter
          THEN Session("off")
                 \o Each(PostEfs, LAMBDA ef :
                        Set(Conn, [acorn_ef |-> ef])
                          \o MeanRecall("wrapped", eng, <<seed, PostSel>>, ef))
          ELSE <<>>)

Main(postfilter, out) ==
    ExactTruth \o Connect(Conn) \o LoadData
      \o Each(Variants, LAMBDA variant :
            Each(Seeds, LAMBDA seed :
                BuildIndex(seed, variant) \o Analyze(Table)
                  \o Cell(seed, IF variant = "on" THEN "audit_on" ELSE "audit_off", postfilter)
                  \o Commit \o Dump(out)))
=============================================================================
