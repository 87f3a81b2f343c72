--------------------------- MODULE QdrantRematch ---------------------------
(***************************************************************************)
(* bench/qdrant_rematch.py: Qdrant with its HNSW graph forced, on the      *)
(* fixture of the 250K validation.                                         *)
(***************************************************************************)
EXTENDS BenchStatements

(* Representatives of the swept values. *)
SELS == <<1, 20>>
EFS == <<40, 800>>

Coll == <<"rematch_250k">>
MakeFixture == Rows("tv_250k")
ExactTruth == Truth(MakeFixture)

Setup ==
    QDelete(Coll) \o QCreate(Coll, MakeFixture)
      \o QPut(Coll, FALSE) \o QPut(Coll, TRUE)
      \o QWait(Coll)

(* The gate on the recall at low ef is computed and printed. *)
Main(skipLoad, out) ==
    (IF skipLoad THEN <<>> ELSE Setup)
      \o ExactTruth
      \o QMeasure(Coll, "rematch_gate", 10, 40)
      \o Forget
      \o Each(SELS, LAMBDA sel :
            Each(EFS, LAMBDA ef : QMeasure(Coll, "qdrant_forced_250k", sel, ef))
              \o Commit \o Dump(out))
      \o QDelete(Coll)
=============================================================================
