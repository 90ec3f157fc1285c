--------------------------- MODULE MCTypeTableGen ---------------------------
(***************************************************************************)
(* Files for model checking TypeTableGen, and its properties.              *)
(***************************************************************************)
EXTENDS TypeTableGen, CmdCodeTypes, GeneratedTypes, SequencesExt

\* Two records with names of two characters, cut off everywhere.
TwoRecords == <<1, 0, 0, 0, 5, 0, 0, 0, 65, 66,   2, 1, 3, 0, 10, 0, 0, 0, 67, 0>>

CutOff == [k \in 1 .. Len(TwoRecords) + 1 |-> SubSeq(TwoRecords, 1, k - 1)]

\* A record of a type that has no text.
Unknown == <<1, 0, 0, 0, 11, 0, 0, 0, 65, 66>>

\* The file of the table: flags and names do not matter.
TableFile ==
  LET byte(j) == CASE j % 10 = 5 -> Rows[(j - 1) \div 10 + 1] [] j % 10 = 9 -> 65 [] OTHER -> 0
      bytes   == [j \in 1 .. 10 * Len(Rows) |-> byte(j)]
  IN  SubSeq(bytes, 1, Len(bytes))

MCFiles == CutOff \o <<Unknown, TwoRecords \o Unknown, TableFile>>

-----------------------------------------------------------------------------
\* The types the generator writes are those of the header beside it, and
\* without the last row those of the header the server is built with.
GeneratedAsCommitted ==
  pc = "done" /\ counter # 0 /\ file = Len(MCFiles) /\ command = "generate-tcp-header" =>
    LET types == [i \in DOMAIN enumTypeFlag |-> enumTypeFlag[i].type] IN
    /\ types = GeneratedRows
    /\ Front(types) = Rows
=============================================================================
