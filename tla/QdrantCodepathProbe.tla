------------------------ MODULE QdrantCodepathProbe ------------------------
(***************************************************************************)
(* bench/qdrant_codepath_probe.py: three collections, with the default     *)
(* configuration, large enough to be indexed, and with the graph forced.   *)
(* It prints its measurements and writes no file.                          *)
(***************************************************************************)
EXTENDS BenchStatements

Phases == << <<"probe_30k_bench">>, <<"probe_60k_indexed">>, <<"probe_60k_fst10">> >>

(* Representatives of the swept values. *)
SELS == <<1, 40>>
EFS == <<10, 400>>

MakeData(name) == Rows(IF name = Phases[1] THEN "probe_30k" ELSE "probe_60k")
ExactTruth(name) == Truth(MakeData(name))

CreateCollection(name) == QDelete(name) \o QCreate(name, MakeData(name))

Upsert(name) == QPut(name, FALSE) \o QPut(name, TRUE)

(* Green and unchanged for a while, indexed or not. *)
PollUntilSettled(name) == QPoll(name, FALSE) \o QInfo(name)

MeasureProbe(name, sel, ef) == QMeasure(name, name[1], sel, ef)

RunPhase(name) ==
    ExactTruth(name) \o CreateCollection(name) \o Upsert(name) \o PollUntilSettled(name)
      \o Each(SELS, LAMBDA sel : Each(EFS, LAMBDA ef : MeasureProbe(name, sel, ef)))
      \o Commit

Main == Each(Phases, RunPhase) \o Each(Phases, QDelete)
=============================================================================
