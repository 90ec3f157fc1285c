------------------------- MODULE TypeTableGenProofs -------------------------
(***************************************************************************)
(* Proofs about TypeTableGen, for all files and every length of a name.    *)
(***************************************************************************)
EXTENDS TypeTableGen, LoopFacts

-----------------------------------------------------------------------------
(* Sequences of anything *)

IsSeq(s) == \E S : s \in Seq(S)

\* Append makes a sequence longer by one, whatever is appended.
LEMMA AppendAny ==
  ASSUME NEW s, NEW x, IsSeq(s)
  PROVE  IsSeq(Append(s, x)) /\ Len(Append(s, x)) = Len(s) + 1
<1>1. PICK S : s \in Seq(S)
  BY DEF IsSeq
<1>2. s \in Seq(S \cup {x})
  BY <1>1
<1>3. Append(s, x) \in Seq(S \cup {x}) /\ Len(Append(s, x)) = Len(s) + 1
  BY <1>2
<1>. QED  BY <1>3 DEF IsSeq

LEMMA LenAny ==
  ASSUME NEW s, IsSeq(s)
  PROVE  Len(s) \in Nat
BY DEF IsSeq

-----------------------------------------------------------------------------
(* The stream *)

FileSize == Len(Files[file])

\* Files are sequences, so they have a size.
LEMMA FileSizes ==
  ASSUME file \in DOMAIN Files
  PROVE  FileSize \in Nat
BY GeneratorAssumption DEF FileSize

\* Two reads in a row are one read of both sizes.
LEMMA ReadsAddUp ==
  ASSUME NEW f, NEW p \in Nat, NEW m \in Nat, NEW n \in Nat, Len(f) \in Nat
  PROVE  After(f, After(f, Good(p), m), n) = After(f, Good(p), m + n)
<1>1. CASE p + m <= Len(f)
  <2>1. After(f, Good(p), m) = Good(p + m)
    BY <1>1 DEF After, Good, Failed
  <2>2. (p + m) + n = p + (m + n)
    OBVIOUS
  <2>. QED  BY <1>1, <2>1, <2>2 DEF After, Good, Failed
<1>2. CASE ~(p + m <= Len(f))
  <2>1. After(f, Good(p), m) = Failed(f)
    BY <1>2 DEF After, Good, Failed
  <2>2. ~(p + (m + n) <= Len(f))
    BY <1>2
  <2>. QED  BY <2>1, <2>2 DEF After, Good, Failed
<1>. QED  BY <1>1, <1>2

\* A constructor reads as much as a record has.
LEMMA EntryReadsRecord ==
  ASSUME NEW f, NEW p \in Nat, NEW index, Len(f) \in Nat
  PROVE  /\ TypeEntryTCP(f, Good(p), index).stream
              = After(f, Good(p), STRING_NAME_SIZE + 8)
         /\ TypeEntryUDP(f, Good(p), index).stream
              = After(f, Good(p), STRING_NAME_SIZE + 4)
<1>. DEFINE s  == Good(p)
            s1 == After(f, s, 2)
            s2 == After(f, s1, 2)
            s3 == After(f, s2, 4)
<1>0. STRING_NAME_SIZE \in Nat
  BY GeneratorAssumption
<1>1. s2 = After(f, s, 4)
  <2>1. s2 = After(f, s, 2 + 2)
    BY ReadsAddUp
  <2>. QED  BY <2>1
<1>2. s3 = After(f, s, 8)
  <2>1. After(f, After(f, s, 4), 4) = After(f, s, 4 + 4)
    BY ReadsAddUp
  <2>. QED  BY <1>1, <2>1
<1>3. After(f, s3, STRING_NAME_SIZE) = After(f, s, 8 + STRING_NAME_SIZE)
  BY <1>0, <1>2, ReadsAddUp
<1>4. 8 + STRING_NAME_SIZE = STRING_NAME_SIZE + 8
  BY <1>0
<1>5. TypeEntryTCP(f, s, index).stream = After(f, s3, STRING_NAME_SIZE)
  BY DEF TypeEntryTCP
<1>6. TypeEntryUDP(f, s, index).stream = After(f, After(f, s, STRING_NAME_SIZE), 4)
  BY DEF TypeEntryUDP
<1>7. After(f, After(f, s, STRING_NAME_SIZE), 4) = After(f, s, STRING_NAME_SIZE + 4)
  BY <1>0, ReadsAddUp
<1>. QED  BY <1>3, <1>4, <1>5, <1>6, <1>7

-----------------------------------------------------------------------------
(***************************************************************************)
(* The invariant: while no read has failed, the stream is behind as many   *)
(* whole records as there are rows; when one has, the last row is of what  *)
(* was left, less than a record.                                           *)
(***************************************************************************)
Counted ==
  /\ counter \in Nat \ {0}
  /\ (counter - 1) * RecordSize <= FileSize
  /\ FileSize < counter * RecordSize

Tables ==
  /\ IsSeq(enumValue) /\ IsSeq(printed)
  /\ counter \in Nat
  /\ pc # "crashed" => RowsMade = counter
  /\ file \in DOMAIN Files \cup {NotThere}

IInv ==
  /\ Tables
  /\ pc = "main" => counter = 0 /\ stream = Good(0)
  /\ pc = "loop" => /\ file \in DOMAIN Files
                    /\ \/ /\ stream = Good(counter * RecordSize)
                          /\ counter * RecordSize <= FileSize
                       \/ stream = Failed(Files[file]) /\ Counted
  /\ pc = "done" /\ counter # 0 => Counted

LEMMA RecordSizeNat == RecordSize \in Nat \ {0}
BY GeneratorAssumption DEF RecordSize

\* A record more is as many bytes more.
LEMMA NextRecord ==
  ASSUME NEW n \in Nat
  PROVE  /\ n * RecordSize \in Nat
         /\ (n + 1) * RecordSize = n * RecordSize + RecordSize
         /\ (n + 1) - 1 = n
BY RecordSizeNat

\* Reading one record more, or what is left of it.
LEMMA TurnCounted ==
  ASSUME file \in DOMAIN Files, counter \in Nat, counter' = counter + 1,
         stream = Good(counter * RecordSize), counter * RecordSize <= FileSize,
         stream' = After(Files[file], stream, RecordSize),
         UNCHANGED <<file, command>>
  PROVE  \/ /\ stream' = Good(counter' * RecordSize')
            /\ counter' * RecordSize' <= FileSize'
         \/ stream' = Failed(Files[file])' /\ Counted'
<1>1. RecordSize' = RecordSize /\ FileSize' = FileSize
  BY DEF RecordSize, FileSize
<1>2. /\ counter * RecordSize \in Nat
      /\ counter' * RecordSize = counter * RecordSize + RecordSize
      /\ counter' - 1 = counter
      /\ counter' \in Nat \ {0}
  BY NextRecord
<1>3. FileSize \in Nat /\ RecordSize \in Nat
  BY FileSizes, RecordSizeNat
<1>4. CASE counter * RecordSize + RecordSize <= FileSize
  <2>1. stream' = Good(counter * RecordSize + RecordSize)
    BY <1>4 DEF After, Good, Failed, FileSize
  <2>. QED  BY <1>1, <1>2, <1>4, <2>1
<1>5. CASE ~(counter * RecordSize + RecordSize <= FileSize)
  <2>1. stream' = Failed(Files[file])
    BY <1>5 DEF After, Good, Failed, FileSize
  <2>2. FileSize < counter' * RecordSize /\ (counter' - 1) * RecordSize <= FileSize
    BY <1>2, <1>3, <1>5
  <2>. QED  BY <1>1, <1>2, <2>1, <2>2 DEF Counted
<1>. QED  BY <1>4, <1>5

LEMMA InitInvariant == Init => IInv
<1>. SUFFICES ASSUME Init PROVE IInv
  OBVIOUS
<1>1. IsSeq(<<>>) /\ Len(<<>>) = 0
  <2>1. <<>> \in Seq({})
    OBVIOUS
  <2>. QED  BY <2>1 DEF IsSeq
<1>2. RowsMade = 0
  <2>1. Len(enumValue) = 0 /\ Len(printed) = 0
    BY <1>1 DEF Init
  <2>. QED  BY <2>1 DEF RowsMade
<1>3. Tables
  BY <1>1, <1>2 DEF Init, Tables
<1>. QED  BY <1>3 DEF Init, IInv

\* In a loop whose last read was good, the stream is behind the rows' records.
LEMMA LoopingStream ==
  ASSUME IInv, Looping
  PROVE  /\ file \in DOMAIN Files /\ counter \in Nat
         /\ stream = Good(counter * RecordSize)
         /\ counter * RecordSize <= FileSize
<1>1. stream # Failed(Files[file])
  BY DEF Looping, Failed
<1>. QED  BY <1>1 DEF IInv, Tables, Looping

\* The turn of a loop reads one record of its command.
LEMMA TurnReads ==
  ASSUME IInv, Looping
  PROVE  /\ command # "generate-udp-readable" =>
              TypeEntryTCP(Files[file], stream, counter).stream
                = After(Files[file], stream, RecordSize)
         /\ command = "generate-udp-readable" =>
              TypeEntryUDP(Files[file], stream, counter).stream
                = After(Files[file], stream, RecordSize)
<1>1. PICK p \in Nat : stream = Good(p)
  BY LoopingStream, NextRecord
<1>2. Len(Files[file]) \in Nat
  BY LoopingStream, FileSizes DEF FileSize
<1>3. /\ TypeEntryTCP(Files[file], Good(p), counter).stream
            = After(Files[file], Good(p), STRING_NAME_SIZE + 8)
      /\ TypeEntryUDP(Files[file], Good(p), counter).stream
            = After(Files[file], Good(p), STRING_NAME_SIZE + 4)
  BY <1>2, EntryReadsRecord
<1>. QED  BY <1>1, <1>3 DEF RecordSize

LEMMA StepInvariant == IInv /\ [Next]_genVars => IInv'
<1>. SUFFICES ASSUME IInv, [Next]_genVars PROVE IInv'
  OBVIOUS
<1>1. CASE UNCHANGED genVars
  <2>1. RecordSize' = RecordSize /\ FileSize' = FileSize
    BY <1>1 DEF genVars, RecordSize, FileSize
  <2>. QED  BY <1>1, <2>1 DEF genVars, IInv, Tables, Counted, RowsMade
<1>2. CASE MainReturns
  BY <1>2 DEF MainReturns, IInv, Tables, Counted, RowsMade
<1>3. CASE Start
  <2>1. file \in DOMAIN Files /\ file' = file
    BY <1>3 DEF Start, IInv, Tables
  <2>2. FileSize' \in Nat /\ RecordSize' \in Nat
    BY <2>1, FileSizes, RecordSizeNat, <1>3 DEF Start, FileSize, RecordSize
  <2>3. counter' = 0 /\ stream' = Good(0)
    BY <1>3 DEF Start, IInv
  <2>4. stream' = Good(counter' * RecordSize') /\ counter' * RecordSize' <= FileSize'
    <3>1. \A n \in Nat : 0 * n = 0 /\ 0 <= n
      OBVIOUS
    <3>2. 0 * RecordSize' = 0 /\ 0 <= FileSize'
      BY <2>2, <3>1
    <3>. QED  BY <2>3, <3>2
  <2>5. Tables'
    BY <1>3 DEF Start, IInv, Tables, RowsMade
  <2>6. pc' = "loop"
    BY <1>3 DEF Start
  <2>. QED  BY <2>1, <2>4, <2>5, <2>6 DEF IInv
<1>4. CASE HeaderRow
  <2>1. stream' = After(Files[file], stream, RecordSize)
    BY <1>4, TurnReads DEF HeaderRow
  <2>2. /\ Len(enumValue') = Len(enumValue) + 1 /\ IsSeq(enumValue')
    BY <1>4, AppendAny DEF HeaderRow, IInv, Tables
  <2>3. RowsMade' = RowsMade + 1
    BY <1>4, <2>2, LenAny DEF HeaderRow, IInv, Tables, RowsMade
  <2>4. Tables'
    BY <1>4, <2>2, <2>3 DEF HeaderRow, IInv, Tables, Looping
  <2>. QED  BY <1>4, <2>1, <2>4, LoopingStream, TurnCounted DEF HeaderRow, IInv, Looping
<1>5. CASE PrintTcpRow
  <2>1. stream' = After(Files[file], stream, RecordSize)
    BY <1>5, TurnReads DEF PrintTcpRow
  <2>2. CASE pc' = "crashed"
    BY <1>5, <2>2 DEF PrintTcpRow, IInv, Tables, Looping
  <2>3. CASE pc' # "crashed"
    <3>1. /\ Len(printed') = Len(printed) + 1 /\ IsSeq(printed')
          /\ counter' = counter + 1 /\ UNCHANGED pc
      BY <1>5, <2>3, AppendAny DEF PrintTcpRow, IInv, Tables
    <3>2. RowsMade' = RowsMade + 1
      BY <1>5, <3>1, LenAny DEF PrintTcpRow, IInv, Tables, RowsMade
    <3>3. Tables'
      BY <1>5, <3>1, <3>2 DEF PrintTcpRow, IInv, Tables, Looping
    <3>. QED  BY <1>5, <2>1, <3>1, <3>3, LoopingStream, TurnCounted
              DEF PrintTcpRow, IInv, Looping
  <2>. QED  BY <2>2, <2>3
<1>6. CASE PrintUdpRow
  <2>1. stream' = After(Files[file], stream, RecordSize)
    BY <1>6, TurnReads DEF PrintUdpRow
  <2>2. /\ Len(printed') = Len(printed) + 1 /\ IsSeq(printed')
    BY <1>6, AppendAny DEF PrintUdpRow, IInv, Tables
  <2>3. RowsMade' = RowsMade + 1
    BY <1>6, <2>2, LenAny DEF PrintUdpRow, IInv, Tables, RowsMade
  <2>4. Tables'
    BY <1>6, <2>2, <2>3 DEF PrintUdpRow, IInv, Tables, Looping
  <2>. QED  BY <1>6, <2>1, <2>4, LoopingStream, TurnCounted DEF PrintUdpRow, IInv, Looping
<1>7. CASE Finish
  <2>1. RecordSize' = RecordSize /\ FileSize' = FileSize
    BY <1>7 DEF Finish, RecordSize, FileSize
  <2>2. Counted
    BY <1>7 DEF Finish, IInv, Good
  <2>. QED  BY <1>7, <2>1, <2>2 DEF Finish, IInv, Tables, Counted, RowsMade
<1>. QED  BY <1>1, <1>2, <1>3, <1>4, <1>5, <1>6, <1>7 DEF Next

\* The invariant says of the rows what the property says.
LEMMA InvariantSuffices == IInv => OneRowTooMany
BY DEF IInv, Tables, Counted, OneRowTooMany, Good, Failed, FileSize

-----------------------------------------------------------------------------
\* Whatever the file, the table has one row more than the file has whole
\* records (data-type-parser/main.cpp:214, 237, 248, 259).
THEOREM RowsPerFile == Spec => []OneRowTooMany
<1>. QED  BY InitInvariant, StepInvariant, InvariantSuffices, PTL DEF Spec

-----------------------------------------------------------------------------
(***************************************************************************)
(* What is in the rows.                                                    *)
(***************************************************************************)

\* Of zeros nothing is kept.
LEMMA NonZeroOfZeros ==
  ASSUME NEW n \in Nat, NEW z \in [1 .. n -> {0}]
  PROVE  NonZero(z) = <<>>
<1>. DEFINE Step(str) == [i \in 0 .. Len(z) |-> IF i = 0 THEN <<>>
                                               ELSE IF z[i] = 0 THEN str[i - 1]
                                               ELSE Append(str[i - 1], z[i])]
            str == CHOOSE g : g = Step(g)
            nothing == [i \in 0 .. Len(z) |-> <<>>]
<1>1. Len(z) = n
  <2>1. z \in Seq({0})
    OBVIOUS
  <2>. QED  BY <2>1
<1>2. nothing = Step(nothing)
  BY <1>1
<1>3. str = Step(str)
  <2>. HIDE DEF Step, nothing
  <2>. QED  BY <1>2, Zenon
<1>. HIDE DEF str
<1>4. \A i \in 0 .. n : str[i] = <<>>
  <2>. DEFINE S == {m \in Nat : m <= n => str[m] = <<>>}
  <2>1. 0 \in S
    BY <1>1, <1>3
  <2>2. ASSUME NEW m \in Nat, m \in S PROVE m + 1 \in S
    <3>. SUFFICES ASSUME m + 1 <= n PROVE str[m + 1] = <<>>
      OBVIOUS
    <3>1. m + 1 \in 0 .. Len(z) /\ m + 1 # 0 /\ (m + 1) - 1 = m /\ m <= n /\ z[m + 1] = 0
      BY <1>1
    <3>2. str[m + 1] = str[m]
      BY <1>3, <3>1
    <3>. QED  BY <2>2, <3>1, <3>2
  <2>3. Nat \subseteq S
    <3>. HIDE DEF S
    <3>. QED  BY <2>1, <2>2, SetInduction
  <2>. QED  BY <2>3
<1>5. NonZero(z) = str[Len(z)]
  BY DEF NonZero, str
<1>. QED  BY <1>1, <1>4, <1>5

\* A number of which no byte is read is zero.
LEMMA NumberOfNothing ==
  ASSUME NEW f, NEW s, NEW size \in Nat,
         \A i \in 1 .. size : ~(s.good /\ s.pos + i <= Len(f))
  PROVE  Number(f, s, size) = 0
<1>. DEFINE byte(i) == IF s.good /\ s.pos + i <= Len(f) THEN f[s.pos + i] ELSE 0
            Step(from) == [i \in 1 .. size + 1 |-> IF i > size THEN 0
                                                  ELSE byte(i) + Radix * from[i + 1]]
            from == CHOOSE g : g = Step(g)
            zero == [i \in 1 .. size + 1 |-> 0]
<1>0. Radix \in Nat /\ Radix * 0 = 0
  BY GeneratorAssumption
<1>1. \A i \in 1 .. size : byte(i) = 0
  OBVIOUS
<1>2. zero = Step(zero)
  <2>1. ASSUME NEW i \in 1 .. size + 1
        PROVE  (IF i > size THEN 0 ELSE byte(i) + Radix * zero[i + 1]) = 0
    <3>1. CASE i > size
      BY <3>1
    <3>2. CASE ~(i > size)
      <4>1. i \in 1 .. size /\ i + 1 \in 1 .. size + 1
        BY <3>2
      <4>2. byte(i) = 0 /\ zero[i + 1] = 0
        BY <1>1, <4>1
      <4>. HIDE DEF byte, zero
      <4>3. byte(i) + Radix * zero[i + 1] = 0
        BY <1>0, <4>2
      <4>. QED  BY <3>2, <4>3
    <3>. QED  BY <3>1, <3>2
  <2>. HIDE DEF byte
  <2>. QED  BY <2>1
<1>3. from = Step(from)
  <2>. HIDE DEF Step, zero
  <2>. QED  BY <1>2, Zenon
<1>. HIDE DEF from
<1>4. \A j \in 0 .. size : from[(size + 1) - j] = 0
  <2>. DEFINE S == {j \in Nat : j <= size => from[(size + 1) - j] = 0}
  <2>1. 0 \in S
    <3>1. size + 1 \in 1 .. size + 1 /\ size + 1 > size /\ (size + 1) - 0 = size + 1
      OBVIOUS
    <3>2. from[size + 1] = 0
      BY <1>3, <3>1
    <3>. QED  BY <3>1, <3>2
  <2>2. ASSUME NEW j \in Nat, j \in S PROVE j + 1 \in S
    <3>. SUFFICES ASSUME j + 1 <= size PROVE from[(size + 1) - (j + 1)] = 0
      OBVIOUS
    <3>1. PICK i \in Nat : i = (size + 1) - (j + 1)
      OBVIOUS
    <3>2. i \in 1 .. size /\ i \in 1 .. size + 1 /\ ~(i > size) /\ i + 1 = (size + 1) - j
      BY <3>1
    <3>3. from[i] = byte(i) + Radix * from[i + 1]
      <4>. HIDE DEF byte
      <4>. QED  BY <1>3, <3>2
    <3>4. from[i + 1] = 0
      BY <2>2, <3>2
    <3>5. byte(i) = 0
      BY <1>1, <3>2
    <3>. HIDE DEF byte
    <3>. QED  BY <1>0, <3>1, <3>3, <3>4, <3>5
  <2>3. Nat \subseteq S
    <3>. HIDE DEF S
    <3>. QED  BY <2>1, <2>2, SetInduction
  <2>. QED  BY <2>3
<1>5. from[1] = 0
  <2>1. size \in 0 .. size /\ (size + 1) - size = 1
    OBVIOUS
  <2>. QED  BY <1>4, <2>1
<1>6. Number(f, s, size) = from[1]
  BY DEF Number, from
<1>. QED  BY <1>5, <1>6

\* The name of a record that is there.
LEMMA NameThere ==
  ASSUME NEW f, Len(f) \in Nat, NEW p \in Nat, p + STRING_NAME_SIZE <= Len(f)
  PROVE  getStr(f, Good(p)) = NonZero(SubSeq(f, p + 1, p + STRING_NAME_SIZE))
<1>. DEFINE there == Len(f) - p
            temp(i) == IF i <= there THEN f[p + i]
                       ELSE IF there = 0 THEN 0 ELSE f[p + there]
<1>0. STRING_NAME_SIZE \in Nat
  BY GeneratorAssumption
<1>1. getStr(f, Good(p)) = NonZero([i \in 1 .. STRING_NAME_SIZE |-> temp(i)])
  BY DEF getStr, Good
<1>2. SubSeq(f, p + 1, p + STRING_NAME_SIZE) = [i \in 1 .. STRING_NAME_SIZE |-> f[p + i]]
  <2>1. /\ (1 + (p + STRING_NAME_SIZE)) - (p + 1) = STRING_NAME_SIZE
        /\ \A i \in 1 .. STRING_NAME_SIZE : (i + (p + 1)) - 1 = p + i
    BY <1>0
  <2>2. SubSeq(f, p + 1, p + STRING_NAME_SIZE)
          = [i \in 1 .. (1 + (p + STRING_NAME_SIZE)) - (p + 1) |-> f[(i + (p + 1)) - 1]]
    BY <1>0
  <2>. QED  BY <2>1, <2>2
<1>3. \A i \in 1 .. STRING_NAME_SIZE : temp(i) = f[p + i]
  BY <1>0
<1>4. [i \in 1 .. STRING_NAME_SIZE |-> temp(i)] = [i \in 1 .. STRING_NAME_SIZE |-> f[p + i]]
  BY <1>3
<1>. QED  BY <1>1, <1>2, <1>4

\* The name read behind the end of the file.
LEMMA NameOfNothing ==
  ASSUME NEW f, NEW s, Len(f) \in Nat, ~s.good \/ s.pos = Len(f)
  PROVE  getStr(f, s) = <<>>
<1>. DEFINE there == IF s.good THEN Len(f) - s.pos ELSE 0
            temp(i) == IF i <= there THEN f[s.pos + i]
                       ELSE IF there = 0 THEN 0 ELSE f[s.pos + there]
<1>0. STRING_NAME_SIZE \in Nat
  BY GeneratorAssumption
<1>1. there = 0
  OBVIOUS
<1>2. \A i \in 1 .. STRING_NAME_SIZE : temp(i) = 0
  BY <1>0, <1>1
<1>3. getStr(f, s) = NonZero([i \in 1 .. STRING_NAME_SIZE |-> temp(i)])
  BY DEF getStr
<1>. HIDE DEF temp
<1>4. [i \in 1 .. STRING_NAME_SIZE |-> temp(i)] \in [1 .. STRING_NAME_SIZE -> {0}]
  BY <1>2
<1>. QED  BY <1>0, <1>3, <1>4, NonZeroOfZeros

\* A record that is there gives an entry of its fields.
LEMMA EntryOfRecord ==
  ASSUME NEW f, Len(f) \in Nat, NEW p \in Nat, NEW k
  PROVE  /\ p + (STRING_NAME_SIZE + 8) <= Len(f) =>
              LET entry == TypeEntryTCP(f, Good(p), k) IN
              /\ entry.m_flag1 = Number(f, Good(p), 2)
              /\ entry.m_flag2 = Number(f, Good(p + 2), 2)
              /\ entry.m_type = Number(f, Good(p + 4), 4)
              /\ entry.m_name = NonZero(SubSeq(f, (p + 8) + 1, (p + 8) + STRING_NAME_SIZE))
         /\ p + (STRING_NAME_SIZE + 4) <= Len(f) =>
              LET entry == TypeEntryUDP(f, Good(p), k) IN
              /\ entry.m_name = NonZero(SubSeq(f, p + 1, p + STRING_NAME_SIZE))
              /\ entry.m_flags = Number(f, Good(p + STRING_NAME_SIZE), 4)
<1>. DEFINE s  == Good(p)
            s1 == After(f, s, 2)
            s2 == After(f, s1, 2)
            s3 == After(f, s2, 4)
            u1 == After(f, s, STRING_NAME_SIZE)
<1>0. STRING_NAME_SIZE \in Nat
  BY GeneratorAssumption
<1>1. /\ TypeEntryTCP(f, s, k).m_flag1 = Number(f, s, 2)
      /\ TypeEntryTCP(f, s, k).m_flag2 = Number(f, s1, 2)
      /\ TypeEntryTCP(f, s, k).m_type = Number(f, s2, 4)
      /\ TypeEntryTCP(f, s, k).m_name = getStr(f, s3)
      /\ TypeEntryUDP(f, s, k).m_name = getStr(f, s)
      /\ TypeEntryUDP(f, s, k).m_flags = Number(f, u1, 4)
  BY DEF TypeEntryTCP, TypeEntryUDP
<1>2. ASSUME p + (STRING_NAME_SIZE + 8) <= Len(f)
      PROVE  /\ s1 = Good(p + 2) /\ s2 = Good(p + 4) /\ s3 = Good(p + 8)
             /\ (p + 8) + STRING_NAME_SIZE <= Len(f)
  <2>1. s1 = Good(p + 2)
    BY <1>0, <1>2 DEF After, Good
  <2>2. s2 = Good((p + 2) + 2)
    <3>. HIDE DEF s1
    <3>. QED  BY <1>0, <1>2, <2>1 DEF After, Good
  <2>3. s2 = Good(p + 4)
    <3>1. (p + 2) + 2 = p + 4
      OBVIOUS
    <3>. QED  BY <2>2, <3>1
  <2>4. s3 = Good((p + 4) + 4)
    <3>. HIDE DEF s2
    <3>. QED  BY <1>0, <1>2, <2>3 DEF After, Good
  <2>5. (p + 4) + 4 = p + 8 /\ (p + 8) + STRING_NAME_SIZE <= Len(f)
    BY <1>0, <1>2
  <2>. QED  BY <2>1, <2>3, <2>4, <2>5
<1>3. ASSUME p + (STRING_NAME_SIZE + 4) <= Len(f)
      PROVE  u1 = Good(p + STRING_NAME_SIZE) /\ p + STRING_NAME_SIZE <= Len(f)
  BY <1>0, <1>3 DEF After, Good
<1>4. p + 8 \in Nat
  OBVIOUS
<1>. HIDE DEF s, s1, s2, s3, u1
<1>5. ASSUME p + (STRING_NAME_SIZE + 8) <= Len(f)
      PROVE  getStr(f, s3) = NonZero(SubSeq(f, (p + 8) + 1, (p + 8) + STRING_NAME_SIZE))
  BY <1>2, <1>4, <1>5, NameThere
<1>6. ASSUME p + (STRING_NAME_SIZE + 4) <= Len(f)
      PROVE  getStr(f, s) = NonZero(SubSeq(f, p + 1, p + STRING_NAME_SIZE))
  BY <1>3, <1>6, NameThere DEF s
<1>. QED  BY <1>1, <1>2, <1>3, <1>5, <1>6 DEF s

\* Behind the last byte of a file there is an entry of nothing.
LEMMA EntryOfNothing ==
  ASSUME NEW f, Len(f) \in Nat, NEW k
  PROVE  /\ TypeEntryTCP(f, Good(Len(f)), k).m_name = <<>>
         /\ TypeEntryTCP(f, Good(Len(f)), k).m_type = 0
         /\ TypeEntryTCP(f, Good(Len(f)), k).m_flag1 = 0
         /\ TypeEntryUDP(f, Good(Len(f)), k).m_name = <<>>
<1>. DEFINE s  == Good(Len(f))
            s1 == After(f, s, 2)
            s2 == After(f, s1, 2)
            s3 == After(f, s2, 4)
<1>1. s.good /\ s.pos = Len(f)
  BY DEF Good
<1>2. s1 = Failed(f)
  BY DEF After, Good, Failed
<1>3. ~Failed(f).good
  BY DEF Failed
<1>4. s2 = Failed(f)
  BY <1>2, <1>3 DEF After
<1>5. s3 = Failed(f)
  BY <1>4, <1>3 DEF After
<1>6. /\ TypeEntryTCP(f, s, k).m_flag1 = Number(f, s, 2)
      /\ TypeEntryTCP(f, s, k).m_type = Number(f, s2, 4)
      /\ TypeEntryTCP(f, s, k).m_name = getStr(f, s3)
      /\ TypeEntryUDP(f, s, k).m_name = getStr(f, s)
  BY DEF TypeEntryTCP, TypeEntryUDP
<1>. HIDE DEF s, s2, s3
<1>7. Number(f, s, 2) = 0
  <2>1. \A i \in 1 .. 2 : ~(s.good /\ s.pos + i <= Len(f))
    BY <1>1
  <2>. QED  BY <2>1, NumberOfNothing
<1>8. Number(f, s2, 4) = 0
  <2>1. \A i \in 1 .. 4 : ~(s2.good /\ s2.pos + i <= Len(f))
    BY <1>3, <1>4
  <2>. QED  BY <2>1, NumberOfNothing
<1>9. getStr(f, s3) = <<>> /\ getStr(f, s) = <<>>
  BY <1>1, <1>3, <1>5, NameOfNothing
<1>. QED  BY <1>6, <1>7, <1>8, <1>9 DEF s

-----------------------------------------------------------------------------
(* The rows are made in step, and the last one is read where it belongs. *)

\* The element appended is the last one.
LEMMA AppendedLast ==
  ASSUME NEW s, NEW x, IsSeq(s)
  PROVE  Append(s, x)[Len(s) + 1] = x
<1>1. PICK S : s \in Seq(S)
  BY DEF IsSeq
<1>2. s \in Seq(S \cup {x}) /\ Len(s) \in Nat
  BY <1>1
<1>. QED  BY <1>2

RowsInv ==
  /\ IInv
  /\ IsSeq(enumTypeFlag) /\ IsSeq(enumText)
  /\ RowsInStep /\ LastRowRead

LEMMA InitRows == Init => RowsInv
<1>. SUFFICES ASSUME Init PROVE RowsInv
  OBVIOUS
<1>1. IsSeq(<<>>) /\ Len(<<>>) = 0
  <2>1. <<>> \in Seq({})
    OBVIOUS
  <2>. QED  BY <2>1 DEF IsSeq
<1>2. RowsMade = 0
  <2>1. Len(enumValue) = 0 /\ Len(printed) = 0
    BY <1>1 DEF Init
  <2>. QED  BY <2>1 DEF RowsMade
<1>. QED  BY <1>1, <1>2, InitInvariant DEF Init, RowsInv, RowsInStep, LastRowRead

\* A step that makes no row and changes no table.
LEMMA NoRow ==
  ASSUME RowsInv, UNCHANGED <<command, file, enumValue, enumTypeFlag, enumText, printed>>
  PROVE  IsSeq(enumTypeFlag)' /\ IsSeq(enumText)' /\ RowsInStep' /\ LastRowRead'
<1>1. RowsMade' = RowsMade /\ RecordSize' = RecordSize
  BY DEF RowsMade, RecordSize
<1>. QED  BY <1>1 DEF RowsInv, RowsInStep, LastRowRead

LEMMA StepRows == RowsInv /\ [Next]_genVars => RowsInv'
<1>. SUFFICES ASSUME RowsInv, [Next]_genVars PROVE RowsInv'
  OBVIOUS
<1>0. IInv' /\ IInv
  BY StepInvariant DEF RowsInv
<1>T. /\ IsSeq(enumValue) /\ IsSeq(printed) /\ IsSeq(enumTypeFlag) /\ IsSeq(enumText)
      /\ Len(enumValue) \in Nat /\ Len(printed) \in Nat
  BY LenAny DEF RowsInv, IInv, Tables
<1>L. ASSUME Looping
      PROVE  /\ file \in DOMAIN Files
             /\ stream = Good(counter * RecordSize)
             /\ counter \in Nat /\ RowsMade = counter
  BY <1>0, <1>L, LoopingStream DEF IInv, Tables, Looping
\* The row that is made last is row counter of the table, from one.
<1>N. ASSUME Looping, RowsMade' = RowsMade + 1
      PROVE  RowsMade' = counter + 1 /\ RowsMade' - 1 = counter
  BY <1>L, <1>N
<1>1. CASE MainReturns \/ Start \/ Finish \/ UNCHANGED genVars
  <2>1. UNCHANGED <<command, file, enumValue, enumTypeFlag, enumText, printed>>
    BY <1>1 DEF MainReturns, Start, Finish, genVars
  <2>. QED  BY <2>1, <1>0, NoRow DEF RowsInv
<1>2. CASE HeaderRow
  <2>. DEFINE entry == TypeEntryTCP(Files[file], stream, counter)
              last  == Len(enumValue) + 1
  <2>1. /\ Looping /\ command = "generate-tcp-header"
        /\ enumValue' = Append(enumValue, [name |-> entry.m_name, value |-> entry.m_index])
        /\ enumTypeFlag' = Append(enumTypeFlag, [type |-> entry.m_type, flags |-> entry.m_flag1])
        /\ enumText' = Append(enumText, entry.m_name)
        /\ UNCHANGED <<command, file, printed>>
    BY <1>2 DEF HeaderRow
  <2>2. entry.m_index = counter
    BY DEF TypeEntryTCP
  <2>. HIDE DEF entry
  <2>3. /\ Len(printed) = 0 /\ Len(enumTypeFlag) = Len(enumValue) /\ Len(enumText) = Len(enumValue)
    BY <2>1 DEF RowsInv, RowsInStep
  <2>4. /\ Len(enumValue') = last /\ Len(enumTypeFlag') = last /\ Len(enumText') = last
        /\ IsSeq(enumTypeFlag') /\ IsSeq(enumText')
    BY <1>T, <2>1, <2>3, AppendAny
  <2>5. /\ enumValue'[last] = [name |-> entry.m_name, value |-> counter]
        /\ enumTypeFlag'[last] = [type |-> entry.m_type, flags |-> entry.m_flag1]
        /\ enumText'[last] = entry.m_name
    BY <1>T, <2>1, <2>2, <2>3, AppendedLast
  <2>6. RowsMade' = RowsMade + 1 /\ RowsMade' = last
    BY <1>T, <2>1, <2>3, <2>4 DEF RowsMade
  <2>7. RowsMade' - 1 = counter
    BY <2>1, <2>6, <1>N
  <2>8. RowsInStep'
    BY <2>1, <2>3, <2>4 DEF RowsInStep
  <2>9. RecordSize' = RecordSize /\ file' = file /\ command' = "generate-tcp-header"
    BY <2>1 DEF RecordSize
  <2>10. entry = TypeEntryTCP(Files[file], Good(counter * RecordSize), counter)
    BY <2>1, <1>L DEF entry
  <2>11. LastRowRead'
    <3>. HIDE DEF last
    <3>1. file' \in DOMAIN Files
      BY <2>1, <2>9, <1>L
    <3>. QED  BY <2>5, <2>6, <2>7, <2>9, <2>10, <3>1 DEF LastRowRead
  <2>. QED  BY <1>0, <2>4, <2>8, <2>11 DEF RowsInv
<1>3. CASE PrintTcpRow
  <2>. DEFINE entry == TypeEntryTCP(Files[file], stream, counter)
              last  == Len(printed) + 1
  <2>1. /\ Looping /\ command \in {"generate-tcp-csv", "generate-tcp-readable"}
        /\ UNCHANGED <<command, file, enumValue, enumTypeFlag, enumText>>
    BY <1>3 DEF PrintTcpRow
  <2>2. CASE UNCHANGED printed
    BY <2>1, <2>2, <1>0, NoRow DEF RowsInv
  <2>3. CASE printed' = Append(printed, [index |-> entry.m_index, flag1 |-> entry.m_flag1,
                                         flag2 |-> entry.m_flag2, type |-> entry.m_type,
                                         name |-> entry.m_name])
    <3>2. entry.m_index = counter
      BY DEF TypeEntryTCP
    <3>. HIDE DEF entry
    <3>3. Len(enumValue) = 0
      BY <2>1 DEF RowsInv, RowsInStep
    <3>4. Len(printed') = last
      BY <1>T, <2>3, AppendAny
    <3>5. printed'[last] = [index |-> counter, flag1 |-> entry.m_flag1,
                            flag2 |-> entry.m_flag2, type |-> entry.m_type,
                            name |-> entry.m_name]
      BY <1>T, <2>3, <3>2, AppendedLast
    <3>6. RowsMade' = RowsMade + 1 /\ RowsMade' = last
      BY <1>T, <2>1, <3>3, <3>4 DEF RowsMade
    <3>7. RowsMade' - 1 = counter
      BY <2>1, <3>6, <1>N
    <3>8. RowsInStep' /\ IsSeq(enumTypeFlag') /\ IsSeq(enumText')
      BY <1>T, <2>1, <3>3 DEF RowsInStep
    <3>9. /\ RecordSize' = RecordSize /\ file' = file
          /\ command' # "generate-tcp-header" /\ command' # "generate-udp-readable"
      BY <2>1 DEF RecordSize
    <3>10. entry = TypeEntryTCP(Files[file], Good(counter * RecordSize), counter)
      BY <2>1, <1>L DEF entry
    <3>11. LastRowRead'
      <4>. HIDE DEF last
      <4>1. file' \in DOMAIN Files
        BY <2>1, <3>9, <1>L
      <4>. QED  BY <3>5, <3>6, <3>7, <3>9, <3>10, <4>1 DEF LastRowRead
    <3>. QED  BY <1>0, <3>8, <3>11 DEF RowsInv
  <2>. QED  BY <1>3, <2>2, <2>3 DEF PrintTcpRow
<1>4. CASE PrintUdpRow
  <2>. DEFINE entry == TypeEntryUDP(Files[file], stream, counter)
              last  == Len(printed) + 1
  <2>1. /\ Looping /\ command = "generate-udp-readable"
        /\ UNCHANGED <<command, file, enumValue, enumTypeFlag, enumText>>
        /\ printed' = Append(printed, [index |-> entry.m_index, name |-> entry.m_name,
                                       flags |-> entry.m_flags])
    BY <1>4 DEF PrintUdpRow
  <2>2. entry.m_index = counter
    BY DEF TypeEntryUDP
  <2>. HIDE DEF entry
  <2>3. Len(enumValue) = 0
    BY <2>1 DEF RowsInv, RowsInStep
  <2>4. Len(printed') = last
    BY <1>T, <2>1, AppendAny
  <2>5. printed'[last] = [index |-> counter, name |-> entry.m_name, flags |-> entry.m_flags]
    BY <1>T, <2>1, <2>2, AppendedLast
  <2>6. RowsMade' = RowsMade + 1 /\ RowsMade' = last
    BY <1>T, <2>1, <2>3, <2>4 DEF RowsMade
  <2>7. RowsMade' - 1 = counter
    BY <2>1, <2>6, <1>N
  <2>8. RowsInStep' /\ IsSeq(enumTypeFlag') /\ IsSeq(enumText')
    BY <1>T, <2>1, <2>3 DEF RowsInStep
  <2>9. RecordSize' = RecordSize /\ file' = file /\ command' = "generate-udp-readable"
    BY <2>1 DEF RecordSize
  <2>10. entry = TypeEntryUDP(Files[file], Good(counter * RecordSize), counter)
    BY <2>1, <1>L DEF entry
  <2>11. LastRowRead'
    <3>. HIDE DEF last
    <3>1. file' \in DOMAIN Files
      BY <2>1, <2>9, <1>L
    <3>. QED  BY <2>5, <2>6, <2>7, <2>9, <2>10, <3>1 DEF LastRowRead
  <2>. QED  BY <1>0, <2>8, <2>11 DEF RowsInv
<1>. QED  BY <1>1, <1>2, <1>3, <1>4 DEF Next

\* For every file and every length of a name, a row has what its record has,
\* field by field, and is the row of the record's position
\* (data-type-parser/main.cpp:59-67, 91-98).
THEOREM RowsHaveRecords == Spec => []RowsAreRecords
<1>1. RowsInv => RowsAreRecords
  <2>. SUFFICES ASSUME RowsInv, RowsMade # 0, Whole(RowsMade - 1)
                PROVE  RowsAreRecords
    BY DEF RowsAreRecords
  <2>1. RowsMade \in Nat
    <3>1. Len(enumValue) \in Nat /\ Len(printed) \in Nat
      BY LenAny DEF RowsInv, IInv, Tables
    <3>. QED  BY <3>1 DEF RowsMade
  <2>2. PICK k \in Nat : k = RowsMade - 1
    BY <2>1
  <2>3. PICK p \in Nat : p = k * RecordSize
    BY NextRecord
  <2>4. PICK f : f = Files[file]
    OBVIOUS
  <2>5. Len(f) \in Nat
    BY <2>4, FileSizes DEF RowsInv, LastRowRead, FileSize
  <2>6. p + RecordSize <= Len(f)
    <3>1. (k + 1) * RecordSize <= Len(f)
      BY <2>2, <2>4 DEF Whole
    <3>. QED  BY <2>3, <3>1, NextRecord
  <2>7. /\ FieldOf(k, 0, 2) = Number(f, Good(p), 2)
        /\ FieldOf(k, 2, 2) = Number(f, Good(p + 2), 2)
        /\ FieldOf(k, 4, 4) = Number(f, Good(p + 4), 4)
        /\ FieldOf(k, STRING_NAME_SIZE, 4) = Number(f, Good(p + STRING_NAME_SIZE), 4)
        /\ NameOf(k, 8) = NonZero(SubSeq(f, (p + 8) + 1, (p + 8) + STRING_NAME_SIZE))
        /\ NameOf(k, 0) = NonZero(SubSeq(f, p + 1, p + STRING_NAME_SIZE))
    <3>1. p + 0 = p
      OBVIOUS
    <3>. QED  BY <2>3, <2>4, <3>1 DEF FieldOf, NameOf
  <2>. DEFINE tcp == TypeEntryTCP(f, Good(p), k)
              udp == TypeEntryUDP(f, Good(p), k)
  <2>8. command # "generate-udp-readable" =>
          /\ tcp.m_flag1 = FieldOf(k, 0, 2) /\ tcp.m_flag2 = FieldOf(k, 2, 2)
          /\ tcp.m_type = FieldOf(k, 4, 4) /\ tcp.m_name = NameOf(k, 8)
    <3>1. command # "generate-udp-readable" => p + (STRING_NAME_SIZE + 8) <= Len(f)
      BY <2>6 DEF RecordSize
    <3>. QED  BY <2>5, <2>7, <3>1, EntryOfRecord
  <2>9. command = "generate-udp-readable" =>
          udp.m_name = NameOf(k, 0) /\ udp.m_flags = FieldOf(k, STRING_NAME_SIZE, 4)
    <3>1. command = "generate-udp-readable" => p + (STRING_NAME_SIZE + 4) <= Len(f)
      BY <2>6 DEF RecordSize
    <3>. QED  BY <2>5, <2>7, <3>1, EntryOfRecord
  <2>. HIDE DEF tcp, udp
  <2>10. CASE command = "generate-tcp-header"
    <3>1. /\ enumValue[RowsMade] = [name |-> tcp.m_name, value |-> k]
          /\ enumTypeFlag[RowsMade] = [type |-> tcp.m_type, flags |-> tcp.m_flag1]
          /\ enumText[RowsMade] = tcp.m_name
      BY <2>2, <2>3, <2>4, <2>10 DEF RowsInv, LastRowRead, tcp
    <3>2. /\ enumValue[RowsMade] = [name |-> NameOf(k, 8), value |-> k]
          /\ enumTypeFlag[RowsMade] = [type |-> FieldOf(k, 4, 4), flags |-> FieldOf(k, 0, 2)]
          /\ enumText[RowsMade] = NameOf(k, 8)
      BY <2>8, <2>10, <3>1
    <3>. QED  BY <2>2, <2>10, <3>2 DEF RowsAreRecords
  <2>11. CASE command = "generate-udp-readable"
    <3>1. printed[RowsMade] = [index |-> k, name |-> udp.m_name, flags |-> udp.m_flags]
      BY <2>2, <2>3, <2>4, <2>11 DEF RowsInv, LastRowRead, udp
    <3>2. printed[RowsMade] = [index |-> k, name |-> NameOf(k, 0),
                               flags |-> FieldOf(k, STRING_NAME_SIZE, 4)]
      BY <2>9, <2>11, <3>1
    <3>. QED  BY <2>2, <2>11, <3>2 DEF RowsAreRecords
  <2>12. CASE command \notin {"generate-tcp-header", "generate-udp-readable"}
    <3>1. printed[RowsMade] = [index |-> k, flag1 |-> tcp.m_flag1, flag2 |-> tcp.m_flag2,
                               type |-> tcp.m_type, name |-> tcp.m_name]
      BY <2>2, <2>3, <2>4, <2>12 DEF RowsInv, LastRowRead, tcp
    <3>2. printed[RowsMade] = [index |-> k, flag1 |-> FieldOf(k, 0, 2), flag2 |-> FieldOf(k, 2, 2),
                               type |-> FieldOf(k, 4, 4), name |-> NameOf(k, 8)]
      BY <2>8, <2>12, <3>1
    <3>. QED  BY <2>2, <2>12, <3>2 DEF RowsAreRecords
  <2>. QED  BY <2>10, <2>11, <2>12
<1>. QED  BY <1>1, InitRows, StepRows, PTL DEF Spec

\* Of what is counted, nothing is left over if the file is one of whole records.
LEMMA NothingLeft ==
  ASSUME Counted, FileSize \in Nat, FileSize % RecordSize = 0
  PROVE  FileSize = (counter - 1) * RecordSize
<1>1. PICK m \in Nat \ {0} : m = RecordSize
  BY RecordSizeNat
<1>2. PICK v \in Nat : v = FileSize
  OBVIOUS
<1>3. PICK n \in Nat : n = counter - 1
  BY DEF Counted
<1>4. n * m \in Nat /\ (n + 1) * m = n * m + m
  BY <1>1, NextRecord
<1>5. n * m <= v /\ v < n * m + m
  <2>1. counter = n + 1
    BY <1>3 DEF Counted
  <2>. QED  BY <1>1, <1>2, <1>3, <1>4, <2>1 DEF Counted
<1>6. PICK c \in 0 .. m - 1 : v = m * n + c
  <2>1. v - n * m \in 0 .. m - 1 /\ v = m * n + (v - n * m)
    BY <1>4, <1>5
  <2>. QED  BY <2>1
<1>7. v % m = c
  BY <1>6, Remainder
<1>8. c = 0
  BY <1>1, <1>2, <1>7
<1>. QED  BY <1>1, <1>2, <1>3, <1>4, <1>6, <1>8

\* Whatever is in it, a file of whole records ends in a row of nothing: an
\* enumerator without a name in the header that is written
\* (data-type-parser/main.cpp:214-228, EnumDataTypes.hpp:1578).
THEOREM LastRowIsNameless == Spec => []LastRowNameless
<1>1. RowsInv => LastRowNameless
  <2>. SUFFICES ASSUME RowsInv, pc = "done", counter # 0,
                       Len(Files[file]) % RecordSize = 0
                PROVE  LastRowNameless
    BY DEF LastRowNameless
  <2>1. Counted /\ RowsMade = counter
    BY DEF RowsInv, IInv, Tables
  <2>2. PICK f : f = Files[file]
    OBVIOUS
  <2>3. Len(f) \in Nat /\ Len(f) = FileSize
    BY <2>1, <2>2, FileSizes DEF RowsInv, LastRowRead, FileSize
  <2>4. (counter - 1) * RecordSize = Len(f)
    BY <2>1, <2>2, <2>3, NothingLeft
  <2>. DEFINE k   == counter - 1
              tcp == TypeEntryTCP(f, Good(Len(f)), k)
              udp == TypeEntryUDP(f, Good(Len(f)), k)
  <2>5. tcp.m_name = <<>> /\ tcp.m_type = 0 /\ tcp.m_flag1 = 0 /\ udp.m_name = <<>>
    BY <2>3, EntryOfNothing
  <2>. HIDE DEF tcp, udp
  <2>6. CASE command = "generate-tcp-header"
    <3>1. /\ enumValue[counter] = [name |-> tcp.m_name, value |-> counter - 1]
          /\ enumTypeFlag[counter] = [type |-> tcp.m_type, flags |-> tcp.m_flag1]
      BY <2>1, <2>2, <2>4, <2>6 DEF RowsInv, LastRowRead, tcp
    <3>. QED  BY <2>5, <2>6, <3>1 DEF LastRowNameless
  <2>7. CASE command = "generate-udp-readable"
    <3>1. printed[counter] = [index |-> k, name |-> udp.m_name, flags |-> udp.m_flags]
      BY <2>1, <2>2, <2>4, <2>7 DEF RowsInv, LastRowRead, udp
    <3>. QED  BY <2>5, <2>7, <3>1 DEF LastRowNameless
  <2>8. CASE command \notin {"generate-tcp-header", "generate-udp-readable"}
    <3>1. printed[counter] = [index |-> k, flag1 |-> tcp.m_flag1, flag2 |-> tcp.m_flag2,
                              type |-> tcp.m_type, name |-> tcp.m_name]
      BY <2>1, <2>2, <2>4, <2>8 DEF RowsInv, LastRowRead, tcp
    <3>. QED  BY <2>5, <2>8, <3>1 DEF LastRowNameless
  <2>. QED  BY <2>6, <2>7, <2>8
<1>. QED  BY <1>1, InitRows, StepRows, PTL DEF Spec
=============================================================================
