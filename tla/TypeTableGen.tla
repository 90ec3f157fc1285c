---------------------------- MODULE TypeTableGen ----------------------------
(***************************************************************************)
(* The program that makes the table of command codes from a binary file    *)
(* (data-type-parser/main.cpp).  It reads the file record by record until  *)
(* the stream says eof, and a stream says so only once a read has failed.  *)
(*                                                                         *)
(* Reading is modelled byte by byte, since a file may end anywhere in a    *)
(* record.  What the rows look like in print is left out.                  *)
(***************************************************************************)
EXTENDS Integers, Sequences

CONSTANTS
  Files,               \* the files, as sequences of bytes
  STRING_NAME_SIZE,    \* bytes of a name
  Radix                \* the number of values of a byte

ASSUME GeneratorAssumption ==
  /\ Radix \in Nat \ {0}
  /\ STRING_NAME_SIZE \in Nat
  /\ Files \in Seq(Seq(0 .. Radix - 1))

VARIABLES
  pc,         \* "main", "loop", "done", or "crashed"
  argc,
  command,    \* argv[1]
  file,       \* argv[2]: the number of a file, or NotThere
  stream,     \* binFile: the bytes read, and whether no read has failed
  counter,
  enumValue, enumTypeFlag, enumText,    \* the rows of the three tables
  printed,    \* the rows written to the standard output
  outFile     \* EnumDataTypes.hpp

genVars == <<pc, argc, command, file, stream, counter, enumValue, enumTypeFlag,
             enumText, printed, outFile>>

g_parser_commands ==
  {"generate-tcp-header", "generate-tcp-csv", "generate-tcp-readable", "generate-udp-readable"}

\* The size of g_tcp_text_types.
TextTypes == 11

NotThere == 0    \* a path that cannot be opened

-----------------------------------------------------------------------------
(* Reading from the stream s of the file f *)

Good(pos) == [pos |-> pos, good |-> TRUE]
Failed(f) == [pos |-> Len(f), good |-> FALSE]

\* Mutant: the stream sees the end of the file when it gets there.
EndAhead(f, s, size) ==
  IF s.good /\ s.pos + size < Len(f) THEN Good(s.pos + size)
  ELSE Failed(f)

\* read() of size bytes takes what there is; after a failure, nothing.  The end
\* of the file is the only failure there is here.
After(f, s, size) ==
  IF s.good /\ s.pos + size <= Len(f) THEN Good(s.pos + size)
  ELSE Failed(f)

\* A number is 0 before it is read: bytes that are missing are zero.
Number(f, s, size) ==
  LET byte(i) == IF s.good /\ s.pos + i <= Len(f) THEN f[s.pos + i] ELSE 0
      from[i \in 1 .. size + 1] == IF i > size THEN 0 ELSE byte(i) + Radix * from[i + 1]
  IN  from[1]

\* str, when the characters of temp have been appended one by one.
NonZero(temp) ==
  LET str[i \in 0 .. Len(temp)] == IF i = 0 THEN <<>>
                                   ELSE IF temp[i] = 0 THEN str[i - 1]
                                   ELSE Append(str[i - 1], temp[i])
  IN  str[Len(temp)]

\* getStr: temp keeps the last character read, and is appended again in every
\* turn whose read fails.
getStr(f, s) ==
  LET there == IF s.good THEN Len(f) - s.pos ELSE 0
      temp(i) == IF i <= there THEN f[s.pos + i]
                 ELSE IF there = 0 THEN 0 ELSE f[s.pos + there]
  IN  NonZero([i \in 1 .. STRING_NAME_SIZE |-> temp(i)])

\* Mutant: the second flag is not read.
EntryOfOneFlag(f, s, index) ==
  LET s1 == After(f, s, 2)
      s3 == After(f, s1, 4)
  IN  [m_index |-> index, m_flag1 |-> Number(f, s, 2), m_flag2 |-> 0,
       m_type |-> Number(f, s1, 4), m_name |-> getStr(f, s3),
       stream |-> After(f, s3, STRING_NAME_SIZE)]

TypeEntryTCP(f, s, index) ==
  LET s1 == After(f, s, 2)
      s2 == After(f, s1, 2)
      s3 == After(f, s2, 4)
  IN  [m_index |-> index, m_flag1 |-> Number(f, s, 2), m_flag2 |-> Number(f, s1, 2),
       m_type |-> Number(f, s2, 4), m_name |-> getStr(f, s3),
       stream |-> After(f, s3, STRING_NAME_SIZE)]

TypeEntryUDP(f, s, index) ==
  LET s1 == After(f, s, STRING_NAME_SIZE)
  IN  [m_index |-> index, m_name |-> getStr(f, s), m_flags |-> Number(f, s1, 4),
       stream |-> After(f, s1, 4)]

-----------------------------------------------------------------------------
Init ==
  /\ pc = "main"
  /\ argc \in {2, 3}
  /\ command \in g_parser_commands \cup {"another"}
  /\ file \in DOMAIN Files \cup {NotThere}
  /\ stream = Good(0)
  /\ counter = 0
  /\ enumValue = <<>> /\ enumTypeFlag = <<>> /\ enumText = <<>>
  /\ printed = <<>>
  /\ outFile = "as it was"

MainReturns ==
  /\ pc = "main"
  /\ argc # 3 \/ file = NotThere \/ command \notin g_parser_commands
  /\ pc' = "done"
  /\ UNCHANGED <<argc, command, file, stream, counter, enumValue, enumTypeFlag,
                 enumText, printed, outFile>>

\* A function of main's starts; generateTcpHeaderFile overwrites its file first.
Start ==
  /\ pc = "main"
  /\ argc = 3 /\ file # NotThere /\ command \in g_parser_commands
  /\ pc' = "loop"
  /\ outFile' = IF command = "generate-tcp-header" THEN "begun" ELSE outFile
  /\ UNCHANGED <<argc, command, file, stream, counter, enumValue, enumTypeFlag,
                 enumText, printed>>

\* while(!binFile.eof())
Looping == pc = "loop" /\ stream.good

\* A turn of generateTcpHeaderFile.
HeaderRow ==
  /\ Looping /\ command = "generate-tcp-header"
  /\ LET entry == TypeEntryTCP(Files[file], stream, counter) IN
     /\ enumValue' = Append(enumValue, [name |-> entry.m_name, value |-> entry.m_index])
     /\ enumTypeFlag' = Append(enumTypeFlag, [type |-> entry.m_type, flags |-> entry.m_flag1])
     /\ enumText' = Append(enumText, entry.m_name)
     /\ stream' = entry.stream
  /\ counter' = counter + 1
  /\ UNCHANGED <<pc, argc, command, file, printed, outFile>>

\* A turn of generateTcpCsv or generateTcpReadable.  The text of the type is
\* read at g_tcp_text_types[m_type], which nothing compares with its size:
\* past the end, something is printed for a text or the process dies.
PrintTcpRow ==
  /\ Looping /\ command \in {"generate-tcp-csv", "generate-tcp-readable"}
  /\ LET entry == TypeEntryTCP(Files[file], stream, counter) IN
     /\ stream' = entry.stream
     /\ \/ /\ printed' = Append(printed, [index |-> entry.m_index, flag1 |-> entry.m_flag1,
                                          flag2 |-> entry.m_flag2, type |-> entry.m_type,
                                          name |-> entry.m_name])
           /\ counter' = counter + 1
           /\ UNCHANGED pc
        \/ /\ entry.m_type >= TextTypes
           /\ pc' = "crashed"
           /\ UNCHANGED <<printed, counter>>
  /\ UNCHANGED <<argc, command, file, enumValue, enumTypeFlag, enumText, outFile>>

\* A turn of generateUdpReadable.
PrintUdpRow ==
  /\ Looping /\ command = "generate-udp-readable"
  /\ LET entry == TypeEntryUDP(Files[file], stream, counter) IN
     /\ printed' = Append(printed, [index |-> entry.m_index, name |-> entry.m_name,
                                    flags |-> entry.m_flags])
     /\ stream' = entry.stream
  /\ counter' = counter + 1
  /\ UNCHANGED <<pc, argc, command, file, enumValue, enumTypeFlag, enumText, outFile>>

\* eof: the function returns, and so does main.
Finish ==
  /\ pc = "loop" /\ ~stream.good
  /\ pc' = "done"
  /\ outFile' = IF command = "generate-tcp-header" THEN "complete" ELSE outFile
  /\ UNCHANGED <<argc, command, file, stream, counter, enumValue, enumTypeFlag,
                 enumText, printed>>

Next == MainReturns \/ Start \/ HeaderRow \/ PrintTcpRow \/ PrintUdpRow \/ Finish

Spec == Init /\ [][Next]_genVars

-----------------------------------------------------------------------------
RecordSize ==
  IF command = "generate-udp-readable" THEN STRING_NAME_SIZE + 4 ELSE STRING_NAME_SIZE + 8

RowsMade == Len(enumValue) + Len(printed)

\* Every file gives one row more than it has whole records: the eof that ends
\* the loop is seen by the read behind the last of them
\* (data-type-parser/main.cpp:214, 237, 248, 259).
OneRowTooMany ==
  (pc = "loop" /\ ~stream.good) \/ (pc = "done" /\ counter # 0) =>
    /\ RowsMade = counter
    /\ (RowsMade - 1) * RecordSize <= Len(Files[file])
    /\ Len(Files[file]) < RowsMade * RecordSize

\* A field of the k-th record, from its offset in the record.
FieldOf(k, offset, size) ==
  Number(Files[file], Good(k * RecordSize + offset), size)

NameOf(k, offset) ==
  NonZero(SubSeq(Files[file], k * RecordSize + offset + 1,
                 k * RecordSize + offset + STRING_NAME_SIZE))

Whole(k) == (k + 1) * RecordSize <= Len(Files[file])

\* The row of a whole record has what the record has at the offsets of
\* data-type-parser/main.cpp:59-67, and is the row of its position in all three
\* tables: the program finds types and texts by the values of the enum
\* (EntryHeader.cpp:24, 124).  It is enough to look at the row made last.
RowsAreRecords ==
  LET i == RowsMade
      k == i - 1
  IN  i # 0 /\ Whole(k) =>
        CASE command = "generate-tcp-header" ->
               /\ enumValue[i] = [name |-> NameOf(k, 8), value |-> k]
               /\ enumTypeFlag[i] = [type |-> FieldOf(k, 4, 4), flags |-> FieldOf(k, 0, 2)]
               /\ enumText[i] = NameOf(k, 8)
          [] command = "generate-udp-readable" ->
               printed[i] = [index |-> k, name |-> NameOf(k, 0),
                             flags |-> FieldOf(k, STRING_NAME_SIZE, 4)]
          [] OTHER ->
               printed[i] = [index |-> k, flag1 |-> FieldOf(k, 0, 2), flag2 |-> FieldOf(k, 2, 2),
                             type |-> FieldOf(k, 4, 4), name |-> NameOf(k, 8)]

\* A file of whole records ends in a row without a name, of type 0 and value
\* counter: as the last one of udp_types.txt, and an enumerator that does not
\* compile (data-type-parser/EnumDataTypes.hpp:1578).
LastRowNameless ==
  pc = "done" /\ counter # 0 /\ Len(Files[file]) % RecordSize = 0 =>
    IF command = "generate-tcp-header"
    THEN /\ enumValue[counter] = [name |-> <<>>, value |-> counter - 1]
         /\ enumTypeFlag[counter] = [type |-> 0, flags |-> 0]
    ELSE printed[counter].name = <<>>

-----------------------------------------------------------------------------
(* The inductive invariant behind the properties of the rows.              *)

\* A command fills the three tables, row by row alike, or prints.
RowsInStep ==
  IF command = "generate-tcp-header"
  THEN Len(printed) = 0 /\ Len(enumTypeFlag) = Len(enumValue) /\ Len(enumText) = Len(enumValue)
  ELSE Len(enumValue) = 0

\* The row made last is that of the record behind the rows before it, whole or
\* not.
LastRowRead ==
  LET i == RowsMade
      k == i - 1
      s == Good(k * RecordSize)
  IN  i # 0 =>
        /\ file \in DOMAIN Files
        /\ CASE command = "generate-tcp-header" ->
                  LET entry == TypeEntryTCP(Files[file], s, k) IN
                  /\ enumValue[i] = [name |-> entry.m_name, value |-> k]
                  /\ enumTypeFlag[i] = [type |-> entry.m_type, flags |-> entry.m_flag1]
                  /\ enumText[i] = entry.m_name
             [] command = "generate-udp-readable" ->
                  LET entry == TypeEntryUDP(Files[file], s, k) IN
                  printed[i] = [index |-> k, name |-> entry.m_name, flags |-> entry.m_flags]
             [] OTHER ->
                  LET entry == TypeEntryTCP(Files[file], s, k) IN
                  printed[i] = [index |-> k, flag1 |-> entry.m_flag1, flag2 |-> entry.m_flag2,
                                type |-> entry.m_type, name |-> entry.m_name]
=============================================================================
