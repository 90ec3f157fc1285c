-------------------------- MODULE ReadBackProofs --------------------------
(***************************************************************************)
(* What a program builds, the parser of the other side reads back: for     *)
(* every table, every size of a byte, all entries and data sets, and       *)
(* frames of any number of packets.                                        *)
(*                                                                         *)
(* The loops of the reader are functions of the number of turns made.  To  *)
(* know what one computes, its states are written down and shown to follow *)
(* from each other; by induction (LoopFacts) there is one such function    *)
(* only.  Going up from bytes to frames, each part says where the next one *)
(* begins.                                                                 *)
(*                                                                         *)
(* And nothing else is read back.  For that the loops are described        *)
(* whatever the bytes are (where each turn starts, what it appends), and   *)
(* of what they return it is shown where in the frame it was taken from:   *)
(* a reader finds its values in the bytes between two places or, beyond    *)
(* the end, reads zeros.  A reader that expects what was built can only    *)
(* leave the place where it was built by taking bytes for an invalid       *)
(* entry, which ends a packet, and is then too far on in every packet      *)
(* behind.  At the end of the frame there is no room for that, but for the *)
(* two bytes of a size that the last header lacks; and packets that leave  *)
(* a reader two bytes too far on have headers without a size.  So it never *)
(* was, and what is read where it was built is readable.                   *)
(***************************************************************************)
EXTENDS PacketReadBack, PacketBuildProofs

-----------------------------------------------------------------------------
(* Bytes in a frame *)

\* The bytes b occur in w behind the first i.
At(w, i, b) == i + Len(b) <= Len(w) /\ \A k \in 1 .. Len(b) : w[i + k] = b[k]

\* What occurs as a whole occurs in parts, one behind the other.
LEMMA AtConcat ==
  ASSUME NEW w \in Seq(Byte), NEW i \in Nat, NEW b \in Seq(Byte), NEW c \in Seq(Byte)
  PROVE  At(w, i, b \o c) <=> At(w, i, b) /\ At(w, i + Len(b), c)
<1>1. PICK m \in Nat, n \in Nat : m = Len(b) /\ n = Len(c)
  OBVIOUS
<1>2. PICK d : d = b \o c
  OBVIOUS
<1>3. /\ Len(d) = m + n
      /\ \A k \in 1 .. m : d[k] = b[k]
      /\ \A k \in 1 .. n : d[m + k] = c[k]
  BY <1>1, <1>2
<1>4. Len(w) \in Nat
  OBVIOUS
<1>5. ASSUME At(w, i, d) PROVE At(w, i, b) /\ At(w, i + m, c)
  <2>1. i + (m + n) <= Len(w) /\ \A k \in 1 .. m + n : w[i + k] = d[k]
    BY <1>3, <1>5 DEF At
  <2>2. \A k \in 1 .. m : w[i + k] = b[k]
    BY <1>3, <2>1
  <2>3. ASSUME NEW k \in 1 .. n PROVE w[(i + m) + k] = c[k]
    <3>1. m + k \in 1 .. m + n /\ (i + m) + k = i + (m + k)
      OBVIOUS
    <3>. QED  BY <1>3, <2>1, <3>1
  <2>. QED  BY <1>1, <1>4, <2>1, <2>2, <2>3 DEF At
<1>6. ASSUME At(w, i, b), At(w, i + m, c) PROVE At(w, i, d)
  <2>1. ASSUME NEW k \in 1 .. m + n PROVE w[i + k] = d[k]
    <3>1. CASE k <= m
      BY <1>1, <1>3, <1>6, <3>1 DEF At
    <3>2. CASE k > m
      <4>1. PICK j \in 1 .. n : k = m + j
        <5>1. k - m \in 1 .. n /\ k = m + (k - m)
          BY <3>2
        <5>. QED  BY <5>1
      <4>2. (i + m) + j = i + k
        BY <4>1
      <4>3. w[(i + m) + j] = c[j]
        BY <1>1, <1>6 DEF At
      <4>. QED  BY <1>3, <4>1, <4>2, <4>3
    <3>. QED  BY <3>1, <3>2
  <2>2. i + (m + n) <= Len(w)
    BY <1>1, <1>6, <1>4 DEF At
  <2>. QED  BY <1>3, <2>1, <2>2 DEF At
<1>. QED  BY <1>1, <1>2, <1>5, <1>6

\* Where the parts of a concatenation occur.
LEMMA AtFlatten ==
  ASSUME NEW w \in Seq(Byte), NEW i \in Nat, NEW s \in Seq(Seq(Byte)), At(w, i, FlattenSeq(s))
  PROVE  \E off \in [0 .. Len(s) -> Nat] :
           /\ off[0] = i /\ off[Len(s)] = i + Len(FlattenSeq(s))
           /\ \A k \in 1 .. Len(s) : /\ off[k] = off[k - 1] + Len(s[k])
                                     /\ At(w, off[k - 1], s[k])
<1>1. PICK f : f = FlattenSeq(s)
  OBVIOUS
<1>2. PICK lf \in Nat, lw \in Nat, n \in Nat : lf = Len(f) /\ lw = Len(w) /\ n = Len(s)
  <2>1. f \in Seq(Byte)
    BY <1>1, FlattenFacts
  <2>2. Len(f) \in Nat /\ Len(w) \in Nat /\ Len(s) \in Nat
    BY <2>1
  <2>. QED  BY <2>2
<1>3. PICK o \in [0 .. n -> Nat] :
           /\ o[0] = 0
           /\ o[n] = lf
           /\ \A k \in 1 .. n :
                /\ o[k] = o[k - 1] + Len(s[k])
                /\ o[k] <= lf
                /\ \A j \in 1 .. Len(s[k]) : f[o[k - 1] + j] = s[k][j]
  <2>1. \E o \in [0 .. Len(s) -> Nat] :
           /\ o[0] = 0
           /\ o[Len(s)] = Len(FlattenSeq(s))
           /\ \A k \in 1 .. Len(s) :
                /\ o[k] = o[k - 1] + Len(s[k])
                /\ o[k] <= Len(FlattenSeq(s))
                /\ \A j \in 1 .. Len(s[k]) : FlattenSeq(s)[o[k - 1] + j] = s[k][j]
    BY FlattenLayout
  <2>2. Len(FlattenSeq(s)) = lf /\ Len(s) = n /\ FlattenSeq(s) = f
    BY <1>1, <1>2
  <2>. QED  BY ONLY <2>1, <2>2, Zenon
<1>4. PICK off : off = [k \in 0 .. n |-> i + o[k]]
  OBVIOUS
<1>5. off \in [0 .. n -> Nat] /\ off[0] = i /\ off[n] = i + lf
  BY <1>3, <1>4
<1>6. ASSUME NEW k \in 1 .. n
      PROVE  off[k] = off[k - 1] + Len(s[k]) /\ At(w, off[k - 1], s[k])
  <2>1. k \in 0 .. n /\ k - 1 \in 0 .. n
    OBVIOUS
  <2>2. PICK a \in Nat, b \in Nat : a = o[k - 1] /\ b = o[k] /\ off[k - 1] = i + a /\ off[k] = i + b
    BY <1>3, <1>4, <2>1
  <2>3. b = a + Len(s[k]) /\ b <= lf /\ \A j \in 1 .. Len(s[k]) : f[a + j] = s[k][j]
    BY <1>3, <2>2
  <2>4. s[k] \in Seq(Byte)
    BY <1>2
  <2>5. PICK m \in Nat : m = Len(s[k])
    BY <2>4
  <2>6. i + lf <= lw /\ \A j \in 1 .. lf : w[i + j] = f[j]
    BY <1>1, <1>2 DEF At
  <2>7. ASSUME NEW j \in 1 .. m PROVE w[(i + a) + j] = s[k][j]
    <3>1. a + j \in 1 .. lf /\ (i + a) + j = i + (a + j)
      BY <1>2, <2>3, <2>5
    <3>. QED  BY <2>3, <2>5, <2>6, <3>1
  <2>8. (i + a) + m <= lw /\ i + b = (i + a) + m
    <3>1. b = a + m /\ b <= lf
      BY <2>3, <2>5
    <3>2. i + lf <= lw
      BY <2>6
    <3>. QED  BY <3>1, <3>2
  <2>. QED  BY <1>2, <2>2, <2>5, <2>7, <2>8 DEF At
<1>. QED  BY <1>1, <1>2, <1>5, <1>6

\* A subsequence that occurs somewhere is what SubSeq takes from there.
LEMMA AtSubSeq ==
  ASSUME NEW w \in Seq(Byte), NEW i \in Nat, NEW b \in Seq(Byte), At(w, i, b)
  PROVE  SubSeq(w, i + 1, i + Len(b)) = b
<1>1. PICK n \in Nat : n = Len(b)
  OBVIOUS
<1>2. i + n <= Len(w) /\ Len(w) \in Nat /\ \A k \in 1 .. n : w[i + k] = b[k]
  BY <1>1 DEF At
<1>3. \A k \in i + 1 .. i + n : w[k] \in Byte
  BY <1>2
<1>4. PICK d : d = SubSeq(w, i + 1, i + n)
  OBVIOUS
<1>5. d \in Seq(Byte) /\ Len(d) = n /\ \A k \in 1 .. n : d[k] = w[i + k]
  <2>1. Len(d) = n /\ d \in Seq(Byte)
    BY <1>2, <1>3, <1>4, SubSeqProperties
  <2>2. \A k \in 1 .. n : d[k] = w[i + k]
    BY <1>2, <1>4
  <2>. QED  BY <2>1, <2>2
<1>. QED  BY <1>1, <1>2, <1>4, <1>5, SeqEqual

\* The first k members of a sequence.
Prefix(x, k) == [j \in 1 .. k |-> x[j]]

\* The prefixes of a sequence grow by one member at a time.
LEMMA PrefixFacts ==
  ASSUME NEW Q, NEW x \in Seq(Q)
  PROVE  /\ Prefix(x, 0) = <<>>
         /\ Prefix(x, Len(x)) = x
         /\ \A k \in 1 .. Len(x) : Append(Prefix(x, k - 1), x[k]) = Prefix(x, k)
<1>1. Prefix(x, 0) = <<>>
  BY DEF Prefix
<1>2. Prefix(x, Len(x)) = x
  BY DEF Prefix
<1>3. ASSUME NEW k \in 1 .. Len(x) PROVE Append(Prefix(x, k - 1), x[k]) = Prefix(x, k)
  <2>1. PICK a : a = Prefix(x, k - 1)
    OBVIOUS
  <2>2. PICK b : b = Prefix(x, k)
    OBVIOUS
  <2>3. a \in Seq(Q) /\ Len(a) = k - 1 /\ \A j \in 1 .. k - 1 : a[j] = x[j]
    BY <2>1 DEF Prefix
  <2>4. b \in Seq(Q) /\ Len(b) = k /\ \A j \in 1 .. k : b[j] = x[j]
    BY <2>2 DEF Prefix
  <2>5. x[k] \in Q
    OBVIOUS
  <2>6. PICK c : c = Append(a, x[k])
    OBVIOUS
  <2>7. c \in Seq(Q) /\ Len(c) = k /\ c[k] = x[k] /\ \A j \in 1 .. k - 1 : c[j] = a[j]
    <3>1. (k - 1) + 1 = k
      OBVIOUS
    <3>. QED  BY <2>3, <2>5, <2>6, <3>1, SeqFacts
  <2>8. \A j \in 1 .. k : c[j] = b[j]
    BY <2>3, <2>4, <2>7
  <2>9. c = b
    BY <2>4, <2>7, <2>8, SeqEqual
  <2>. QED  BY <2>1, <2>2, <2>6, <2>9
<1>. QED  BY <1>1, <1>2, <1>3

\* Parts of two bytes or more take two bytes or more each.
LEMMA TwoBytesEach ==
  ASSUME NEW n \in Nat, NEW off \in [0 .. n -> Nat],
         \A k \in 1 .. n : off[k] >= off[k - 1] + 2
  PROVE  \A k \in 0 .. n : /\ off[k] >= off[0] + 2 * k
                           /\ off[n] >= off[k] + 2 * (n - k)
<1>1. ASSUME NEW j \in 0 .. n PROVE \A k \in j .. n : off[k] >= off[j] + 2 * (k - j)
  <2> DEFINE S == {d \in Nat : j + d <= n => off[j + d] >= off[j] + 2 * d}
  <2>1. 0 \in S
    OBVIOUS
  <2>2. ASSUME NEW d \in Nat, d \in S PROVE d + 1 \in S
    <3> SUFFICES ASSUME j + (d + 1) <= n PROVE off[j + (d + 1)] >= off[j] + 2 * (d + 1)
      OBVIOUS
    <3>1. j + (d + 1) \in 1 .. n /\ (j + (d + 1)) - 1 = j + d /\ j + d \in 0 .. n
      OBVIOUS
    <3>2. off[j + (d + 1)] >= off[j + d] + 2
      BY <3>1
    <3>3. off[j + d] >= off[j] + 2 * d
      BY <2>2
    <3>4. off[j + (d + 1)] \in Nat /\ off[j + d] \in Nat /\ off[j] \in Nat
      BY <3>1
    <3>. QED  BY <3>2, <3>3, <3>4
  <2>3. Nat \subseteq S
    <3> HIDE DEF S
    <3>. QED  BY <2>1, <2>2, SetInduction
  <2>4. ASSUME NEW k \in j .. n PROVE off[k] >= off[j] + 2 * (k - j)
    <3>1. k - j \in Nat /\ j + (k - j) = k
      OBVIOUS
    <3>2. k - j \in S
      <4> HIDE DEF S
      <4>. QED  BY <2>3, <3>1
    <3>. QED  BY <3>1, <3>2
  <2>. QED  BY <2>4
<1>2. ASSUME NEW k \in 0 .. n PROVE off[k] >= off[0] + 2 * k /\ off[n] >= off[k] + 2 * (n - k)
  <2>1. 0 \in 0 .. n /\ k \in 0 .. n /\ n \in k .. n /\ k - 0 = k
    OBVIOUS
  <2>2. off[k] >= off[0] + 2 * (k - 0)
    BY <1>1, <2>1
  <2>3. off[n] >= off[k] + 2 * (n - k)
    BY <1>1, <2>1
  <2>. QED  BY <2>1, <2>2, <2>3
<1>. QED  BY <1>2

-----------------------------------------------------------------------------
(* Headers *)

\* to_uint16 reads what from_uint16 wrote, modulo 2^16.
LEMMA Word16Read ==
  ASSUME NEW w \in Seq(Byte), NEW i \in Nat, NEW v \in Nat, At(w, i, from_uint16(v))
  PROVE  uint16At(w, i) = v % Word /\ after16(w, i) = i + 2
<1>1. PICK b : b = from_uint16(v)
  OBVIOUS
<1>2. Len(b) = 2 /\ b[1] = v % Radix /\ b[2] = (v \div Radix) % Radix
  BY <1>1 DEF from_uint16
<1>3. i + 2 <= Len(w) /\ w[i + 1] = b[1] /\ w[i + 2] = b[2]
  BY <1>1, <1>2 DEF At
<1>4. (v % Radix) + Radix * ((v \div Radix) % Radix) = v % (Radix * Radix)
  BY TwoDigits, RadixAssumption
<1>5. w[i + 1] + Radix * w[i + 2] = v % Word
  BY <1>2, <1>3, <1>4 DEF Word
<1>. QED  BY <1>3, <1>5 DEF uint16At, after16, isEnoughAt

\* A number below 2^16 is read as it was written.
LEMMA FitsWord ==
  ASSUME NEW v \in Nat, v < Word
  PROVE  v % Word = v
<1>1. v < Radix * Radix => v % (Radix * Radix) = v
  BY TwoDigits, RadixAssumption
<1>. QED  BY <1>1 DEF Word

\* The table has a type for every code the program writes.
LEMMA CodesTyped ==
  ASSUME NEW h \in Headers
  PROVE  TypeOf(h) \in ENUM_TYPE /\ TypeOf(h) # NoType
<1>1. h.m_cmd \in CMD_CODE
  BY DEF Headers
<1>2. TypeOf(h) \in ENUM_TYPE
  BY <1>1, TableAssumption DEF TypeOf
<1>3. NoType \notin ENUM_TYPE
  BY DEF NoType, ENUM_TYPE, PrefixedTypes, FixedTypes, DATA_SET
<1>. QED  BY <1>2, <1>3

\* EntryHeader(it, end) reads what EntryHeader::build wrote.
LEMMA HeaderRead ==
  ASSUME NEW w \in Seq(Byte), NEW i \in Nat, NEW h, ProperHeader(h),
         At(w, i, HeaderBytes(h)), Prefixed(h.m_cmd) => h.m_contentSize < Word
  PROVE  HeaderAt(w, i) =
           [cmd  |-> h.m_cmd,
            type |-> TypeOf(h),
            size |-> IF Prefixed(h.m_cmd) THEN h.m_contentSize ELSE g_type_sizes(TypeOf(h)),
            next |-> i + Len(HeaderBytes(h))]
<1>1. h.m_cmd \in CMD_CODE /\ h.m_contentSize \in Nat /\ h \in Headers
  BY DEF ProperHeader, Headers
<1>2. h.m_cmd \in Nat /\ h.m_cmd < Word
  <2>1. Word \in Nat
    BY RadixAssumption DEF Word
  <2>2. h.m_cmd \in 0 .. Word - 1
    BY <1>1, CodesAssumption
  <2>. QED  BY <2>1, <2>2
<1>3. PICK b \in Seq(Byte), c \in Seq(Byte) :
        /\ b = from_uint16(h.m_cmd) /\ c = from_uint16(h.m_contentSize)
        /\ Len(b) = 2 /\ Len(c) = 2
  BY <1>1, <1>2, Word16Bytes
<1>4. CASE Prefixed(h.m_cmd)
  <2>1. h.m_sizeWidth = 2
    BY <1>4 DEF ProperHeader
  <2>2. At(w, i, b) /\ At(w, i + 2, c) /\ Len(HeaderBytes(h)) = 4
    <3>1. HeaderBytes(h) = b \o c
      BY <1>3, <2>1 DEF HeaderBytes
    <3>2. Len(HeaderBytes(h)) = 4
      <4>1. Len(HeaderBytes(h)) = 2 + h.m_sizeWidth
        BY <1>1, HeaderBytesTyped
      <4>. QED  BY <2>1, <4>1
    <3>. QED  BY <1>3, <3>1, <3>2, AtConcat
  <2>3. uint16At(w, i) = h.m_cmd /\ after16(w, i) = i + 2
    BY <1>2, <1>3, <2>2, Word16Read, FitsWord
  <2>4. uint16At(w, i + 2) = h.m_contentSize /\ after16(w, i + 2) = i + 4
    <3>1. i + 2 \in Nat /\ (i + 2) + 2 = i + 4
      OBVIOUS
    <3>. QED  BY <1>1, <1>3, <1>4, <2>2, <3>1, Word16Read, FitsWord
  <2>. QED  BY <1>1, <1>4, <2>2, <2>3, <2>4 DEF HeaderAt, TypedHeader, Prefixed, TypeOf
<1>5. CASE ~Prefixed(h.m_cmd)
  <2>1. h.m_sizeWidth = 0
    BY <1>5 DEF ProperHeader
  <2>2. At(w, i, b) /\ Len(HeaderBytes(h)) = 2
    <3>1. HeaderBytes(h) = b
      BY <1>3, <2>1, ConcatEmptySeq DEF HeaderBytes
    <3>. QED  BY <1>3, <3>1
  <2>3. uint16At(w, i) = h.m_cmd /\ after16(w, i) = i + 2
    BY <1>2, <1>3, <2>2, Word16Read, FitsWord
  <2>. QED  BY <1>1, <1>5, <2>2, <2>3 DEF HeaderAt, TypedHeader, Prefixed, TypeOf
<1>. QED  BY <1>4, <1>5

-----------------------------------------------------------------------------
(* Entries and arrays *)

\* What a reader gets to see of an entry.
EntrySeen(e) == [cmd |-> e.header.m_cmd, m_data |-> e.m_data]

\* DataEntry::m_parse reads what DataEntry::build wrote.
LEMMA EntryRead ==
  ASSUME NEW w \in Seq(Byte), NEW i \in Nat, NEW e, CorrectEntry(e),
         SizeFits(e.header, Len(e.m_data)), At(w, i, EntryBytes(e)),
         NEW h, h = HeaderAt(w, i)
  PROVE  /\ h.type = TypeOf(e.header)
         /\ EntryAt(w, h) = EntrySeen(e)
         /\ h.next + Len(e.m_data) = i + Len(EntryBytes(e))
<1>1. PICK b \in Seq(Byte), m \in Nat : b = HeaderBytes(e.header) /\ m = Len(b)
  <2>1. HeaderBytes(e.header) \in Seq(Byte)
    BY HeaderBytesTyped DEF CorrectEntry, ProperHeader
  <2>. QED  BY <2>1
<1>2. PICK d \in Seq(Byte), n \in Nat : d = e.m_data /\ n = Len(d)
  <2>1. e.m_data \in Seq(Byte)
    BY DEF CorrectEntry, BuiltEntries
  <2>. QED  BY <2>1
<1>3. At(w, i, b) /\ At(w, i + m, d) /\ Len(EntryBytes(e)) = m + n
  <2>1. EntryBytes(e) = b \o d
    BY <1>1, <1>2 DEF EntryBytes
  <2>2. Len(b \o d) = m + n
    BY <1>1, <1>2, ConcatProperties
  <2>3. At(w, i, b \o d)
    BY <2>1
  <2>4. At(w, i, b) /\ At(w, i + Len(b), d)
    BY <2>3, AtConcat
  <2>. QED  BY <1>1, <2>1, <2>2, <2>4
<1>4. Prefixed(e.header.m_cmd) => e.header.m_contentSize < Word
  BY DEF CorrectEntry, ProperHeader, SizeFits
<1>5. h = [cmd |-> e.header.m_cmd, type |-> TypeOf(e.header), size |-> n, next |-> i + m]
  BY <1>1, <1>2, <1>3, <1>4, HeaderRead DEF CorrectEntry
<1>6. isEnoughAt(w, h.next, h.size)
  BY <1>2, <1>3, <1>5 DEF At, isEnoughAt
<1>7. SubSeq(w, (i + m) + 1, (i + m) + n) = d
  <2>1. i + m \in Nat
    OBVIOUS
  <2>2. SubSeq(w, (i + m) + 1, (i + m) + Len(d)) = d
    BY <1>3, <2>1, AtSubSeq
  <2>. QED  BY <1>2, <2>2
<1>8. EntryAt(w, h) = EntrySeen(e)
  <2>1. h.next = i + m /\ h.size = n /\ h.cmd = e.header.m_cmd
    BY <1>5
  <2>2. SubSeq(w, h.next + 1, h.next + h.size) = d
    BY <1>7, <2>1
  <2>3. EntryAt(w, h) = [cmd |-> h.cmd, m_data |-> d]
    BY <1>6, <2>2 DEF EntryAt
  <2>. QED  BY <1>2, <2>1, <2>3 DEF EntrySeen
<1>9. h.next + n = i + (m + n)
  BY <1>5
<1>10. h.type = TypeOf(e.header)
  BY <1>5
<1>11. Len(e.m_data) = n /\ Len(EntryBytes(e)) = m + n
  BY <1>2, <1>3
<1>. QED  BY <1>8, <1>9, <1>10, <1>11

\* Where the entries occur.
LEMMA EntriesAt ==
  ASSUME NEW w \in Seq(Byte), NEW i \in Nat, NEW es \in BuiltArrays, At(w, i, EntriesBytes(es))
  PROVE  \E off \in [0 .. Len(es) -> Nat] :
           /\ off[0] = i /\ off[Len(es)] = i + Len(EntriesBytes(es))
           /\ \A k \in 1 .. Len(es) : /\ off[k] = off[k - 1] + Len(EntryBytes(es[k]))
                                      /\ off[k] >= off[k - 1] + 2
                                      /\ off[k] <= Len(w)
                                      /\ At(w, off[k - 1], EntryBytes(es[k]))
<1>1. PICK n \in Nat : n = Len(es)
  BY DEF BuiltArrays
<1>2. PICK s \in Seq(Seq(Byte)) : s = EntryParts(es)
  BY EntryPartsTyped
<1>3. /\ Len(s) = n /\ EntriesBytes(es) = FlattenSeq(s)
      /\ \A k \in 1 .. n : s[k] = EntryBytes(es[k])
  BY <1>1, <1>2, EntryPartsTyped DEF EntriesBytes, EntryParts
<1>4. PICK off \in [0 .. n -> Nat] :
           /\ off[0] = i /\ off[n] = i + Len(EntriesBytes(es))
           /\ \A k \in 1 .. n : off[k] = off[k - 1] + Len(s[k]) /\ At(w, off[k - 1], s[k])
  <2>1. At(w, i, FlattenSeq(s))
    BY <1>3
  <2>2. \E off \in [0 .. Len(s) -> Nat] :
           /\ off[0] = i /\ off[Len(s)] = i + Len(FlattenSeq(s))
           /\ \A k \in 1 .. Len(s) : /\ off[k] = off[k - 1] + Len(s[k])
                                     /\ At(w, off[k - 1], s[k])
    BY <2>1, AtFlatten
  <2>. QED  BY <1>3, <2>2
<1>5. ASSUME NEW k \in 1 .. n
      PROVE  off[k] >= off[k - 1] + 2 /\ off[k] <= Len(w)
  <2>1. es[k] \in BuiltEntries
    BY <1>1 DEF BuiltArrays
  <2>2. PICK m \in Nat : m = Len(s[k]) /\ m >= 2
    BY <1>3, <2>1, EntryBytesTyped
  <2>3. off[k - 1] \in Nat /\ off[k] = off[k - 1] + m
    BY <1>4, <2>2
  <2>4. off[k - 1] + m <= Len(w)
    BY <1>4, <2>2 DEF At
  <2>. QED  BY <2>2, <2>3, <2>4
<1>. QED  BY <1>1, <1>3, <1>4, <1>5

LEMMA EntriesSeenFacts ==
  ASSUME NEW es \in BuiltArrays
  PROVE  LET x == EntriesSeen(es)
         IN  /\ Prefix(x, 0) = <<>> /\ Prefix(x, Len(es)) = x
             /\ \A k \in 1 .. Len(es) : Append(Prefix(x, k - 1), EntrySeen(es[k])) = Prefix(x, k)
<1>1. PICK x : x = EntriesSeen(es)
  OBVIOUS
<1>2. PICK n \in Nat : n = Len(es) /\ DOMAIN es = 1 .. n
  BY DEF BuiltArrays
<1> DEFINE X == {EntrySeen(es[k]) : k \in 1 .. n}
<1>3. x = [k \in 1 .. n |-> EntrySeen(es[k])]
  BY <1>1, <1>2 DEF EntriesSeen, EntrySeen
<1>4. \A k \in 1 .. n : EntrySeen(es[k]) \in X
  OBVIOUS
<1> HIDE DEF X
<1>5. x \in Seq(X) /\ Len(x) = n /\ \A k \in 1 .. n : x[k] = EntrySeen(es[k])
  BY <1>3, <1>4
<1>6. /\ Prefix(x, 0) = <<>> /\ Prefix(x, n) = x
      /\ \A k \in 1 .. n : Append(Prefix(x, k - 1), x[k]) = Prefix(x, k)
  BY <1>5, PrefixFacts
<1>. QED  BY <1>1, <1>2, <1>5, <1>6

\* f has the states of the loop in AnonymousArray's constructor.
EntriesTurns(w, i, n, f) ==
  f = [k \in 0 .. n |-> IF k = 0 THEN [m_entries |-> <<>>, next |-> i]
                        ELSE EntriesTurn(w, f[k - 1])]

\* Whatever describes the turns of the loop is what the loop does.
LEMMA EntriesLoop ==
  ASSUME NEW w, NEW i, NEW n \in Nat, NEW f, EntriesTurns(w, i, n, f)
  PROVE  ReadEntries(w, i, n) = f[n]
<1> DEFINE F == CHOOSE read :
             read = [k \in 0 .. n |-> IF k = 0 THEN [m_entries |-> <<>>, next |-> i]
                                      ELSE EntriesTurn(w, read[k - 1])]
<1>1. F = [k \in 0 .. n |-> IF k = 0 THEN [m_entries |-> <<>>, next |-> i]
                            ELSE EntriesTurn(w, F[k - 1])]
  BY Zenon DEF EntriesTurns
<1>2. ReadEntries(w, i, n) = F[n]
  BY DEF ReadEntries
<1> HIDE DEF F
<1> DEFINE S == {k \in Nat : k <= n => F[k] = f[k]}
<1> USE DEF EntriesTurns
<1>3. 0 \in S
  BY <1>1
<1>4. ASSUME NEW k \in Nat, k \in S PROVE k + 1 \in S
  <2> SUFFICES ASSUME k + 1 <= n PROVE F[k + 1] = f[k + 1]
    OBVIOUS
  <2>1. k + 1 \in 0 .. n /\ k + 1 # 0 /\ (k + 1) - 1 = k
    OBVIOUS
  <2>2. F[k] = f[k]
    BY <1>4
  <2>. QED  BY <1>1, <2>1, <2>2
<1>5. n \in S
  <2> HIDE DEF S
  <2>. QED  BY <1>3, <1>4, SetInduction
<1>. QED  BY <1>2, <1>5

\* build() has been called, and the entry's bytes are those the reader takes.
PlainEntry(e) ==
  CorrectEntry(e) /\ TypeOf(e.header) # DATA_SET /\ SizeFits(e.header, Len(e.m_data))

\* The loop in AnonymousArray's constructor reads the entries that were written,
\* and every one of them has taken a byte at least.
LEMMA EntriesRead ==
  ASSUME NEW w \in Seq(Byte), NEW i \in Nat, NEW a \in BuiltArrays,
         \A k \in 1 .. Len(a) : PlainEntry(a[k]),
         At(w, i, EntriesBytes(a))
  PROVE  /\ ReadEntries(w, i, Len(a)) =
              [m_entries |-> EntriesSeen(a), next |-> i + Len(EntriesBytes(a))]
         /\ Len(a) <= Len(EntriesBytes(a))
<1>1. a \in Seq(BuiltEntries)
  BY DEF BuiltArrays
<1>2. PICK n \in Nat : n = Len(a) /\ DOMAIN a = 1 .. n
  BY <1>1
<1>3. PICK s \in Seq(Seq(Byte)) : s = EntryParts(a)
  BY EntryPartsTyped
<1>4. Len(s) = n /\ EntriesBytes(a) = FlattenSeq(s) /\ \A k \in 1 .. n : s[k] = EntryBytes(a[k])
  BY <1>2, <1>3, EntryPartsTyped DEF EntriesBytes, EntryParts
<1>5. PICK off \in [0 .. n -> Nat] :
           /\ off[0] = i /\ off[n] = i + Len(EntriesBytes(a))
           /\ \A k \in 1 .. n : off[k] = off[k - 1] + Len(s[k]) /\ At(w, off[k - 1], s[k])
  BY <1>4, AtFlatten
<1>6. PICK m \in Nat : m = Len(EntriesBytes(a))
  <2>1. EntriesBytes(a) \in Seq(Byte)
    BY <1>4, FlattenFacts
  <2>. QED  BY <2>1
<1>7. PICK x : x = EntriesSeen(a)
  OBVIOUS
<1>8. x \in Seq([cmd : CMD_CODE, m_data : Seq(Byte)]) /\ Len(x) = n
      /\ \A k \in 1 .. n : x[k] = EntrySeen(a[k])
  <2>1. \A k \in 1 .. n : EntrySeen(a[k]) \in [cmd : CMD_CODE, m_data : Seq(Byte)]
    <3> SUFFICES ASSUME NEW k \in 1 .. n
                 PROVE  EntrySeen(a[k]) \in [cmd : CMD_CODE, m_data : Seq(Byte)]
      OBVIOUS
    <3>1. PICK e \in BuiltEntries : e = a[k]
      BY <1>1, <1>2
    <3>2. e.header.m_cmd \in CMD_CODE /\ e.m_data \in Seq(Byte)
      BY DEF BuiltEntries, Headers
    <3>. QED  BY <3>1, <3>2 DEF EntrySeen
  <2>2. x = [k \in 1 .. n |-> EntrySeen(a[k])]
    BY <1>2, <1>7 DEF EntriesSeen, EntrySeen
  <2>. QED  BY <2>1, <2>2
<1>9. /\ Prefix(x, 0) = <<>> /\ Prefix(x, n) = x
      /\ \A k \in 1 .. n : Append(Prefix(x, k - 1), x[k]) = Prefix(x, k)
  BY <1>8, PrefixFacts
<1>10. PICK f : f = [k \in 0 .. n |-> [m_entries |-> Prefix(x, k), next |-> off[k]]]
  OBVIOUS
<1>11. ASSUME NEW k \in 1 .. n PROVE f[k] = EntriesTurn(w, f[k - 1])
  <2>1. k \in 0 .. n /\ k - 1 \in 0 .. n
    OBVIOUS
  <2>2. PICK j \in Nat : j = off[k - 1]
    BY <2>1
  <2>3. PICK h : h = HeaderAt(w, j)
    OBVIOUS
  <2>4. PICK e : e = a[k] /\ PlainEntry(e) /\ At(w, j, EntryBytes(e))
    BY <1>2, <1>4, <1>5, <2>2
  <2>5. /\ h.type = TypeOf(e.header) /\ EntryAt(w, h) = x[k] /\ x[k].m_data = e.m_data
        /\ h.next + Len(e.m_data) = j + Len(EntryBytes(e))
    <3>1. x[k] = EntrySeen(e) /\ x[k].m_data = e.m_data
      BY <1>8, <2>4 DEF EntrySeen
    <3>. QED  BY <2>3, <2>4, <3>1, EntryRead DEF PlainEntry
  <2>6. h.type # NoType /\ h.type # DATA_SET
    BY <2>4, <2>5, CodesTyped DEF PlainEntry, CorrectEntry, ProperHeader
  <2>7. j + Len(EntryBytes(e)) = off[k]
    BY <1>4, <1>5, <2>2, <2>4
  <2>8. PICK t : t = f[k - 1]
    OBVIOUS
  <2>9. t.m_entries = Prefix(x, k - 1) /\ t.next = j /\ j # Lost
    BY <1>10, <2>1, <2>2, <2>8 DEF Lost
  <2>10. EntriesTurn(w, t) =
           [m_entries |-> Append(t.m_entries, x[k]), next |-> h.next + Len(x[k].m_data)]
    BY <2>3, <2>5, <2>6, <2>9 DEF EntriesTurn, WithArrayEntry
  <2>11. f[k] = [m_entries |-> Prefix(x, k), next |-> off[k]]
    BY <1>10, <2>1
  <2>. QED  BY <1>9, <2>5, <2>7, <2>8, <2>9, <2>10, <2>11
<1>12. f[0] = [m_entries |-> <<>>, next |-> i]
  BY <1>5, <1>9, <1>10
<1>13. EntriesTurns(w, i, n, f)
  <2>1. \A k \in 0 .. n : f[k] = IF k = 0 THEN [m_entries |-> <<>>, next |-> i]
                                ELSE EntriesTurn(w, f[k - 1])
    BY <1>11, <1>12
  <2>2. f = [k \in 0 .. n |-> f[k]]
    BY <1>10
  <2>. QED  BY <2>1, <2>2 DEF EntriesTurns
<1>14. ReadEntries(w, i, n) = f[n]
  BY <1>13, EntriesLoop
<1>15. f[n] = [m_entries |-> x, next |-> i + Len(EntriesBytes(a))]
  BY <1>5, <1>9, <1>10
<1>16. n <= m
  <2>1. \A k \in 1 .. n : off[k] >= off[k - 1] + 2
    <3> SUFFICES ASSUME NEW k \in 1 .. n PROVE off[k] >= off[k - 1] + 2
      OBVIOUS
    <3>1. Len(EntryBytes(a[k])) >= 2 /\ EntryBytes(a[k]) \in Seq(Byte)
      BY <1>1, <1>2, EntryBytesTyped
    <3>2. off[k] = off[k - 1] + Len(EntryBytes(a[k])) /\ off[k - 1] \in Nat
      BY <1>4, <1>5
    <3>3. Len(EntryBytes(a[k])) \in Nat
      BY <3>1
    <3>. QED  BY <3>1, <3>2, <3>3
  <2>2. 0 \in 0 .. n
    OBVIOUS
  <2>3. off[n] >= off[0] + 2 * (n - 0)
    BY <2>1, <2>2, TwoBytesEach
  <2>. QED  BY <1>5, <1>6, <2>3
<1>. QED  BY <1>2, <1>6, <1>7, <1>14, <1>15, <1>16

\* The same of the entries of an array, and their number fits 16 bits.
PlainArray(a) == a \in BuiltArrays /\ Len(a) < Word /\ \A k \in 1 .. Len(a) : PlainEntry(a[k])

\* AnonymousArray's constructor reads what AnonymousArray::build wrote.
LEMMA ArrayRead ==
  ASSUME NEW w \in Seq(Byte), NEW i \in Nat, NEW a, PlainArray(a), At(w, i, ArrayBytes(a))
  PROVE  ReadArray(w, i) = [m_entries |-> EntriesSeen(a), next |-> i + Len(ArrayBytes(a))]
<1>1. a \in BuiltArrays /\ Len(a) \in Nat /\ Len(a) < Word
  BY DEF PlainArray, BuiltArrays
<1>2. PICK b \in Seq(Byte), c \in Seq(Byte) :
        b = from_uint16(Len(a)) /\ Len(b) = 2 /\ c = EntriesBytes(a)
  BY <1>1, Word16Bytes, EntriesBytesTyped
<1>3. At(w, i, b) /\ At(w, i + 2, c)
  <2>1. At(w, i, b \o c)
    BY <1>2 DEF ArrayBytes
  <2>2. At(w, i, b) /\ At(w, i + Len(b), c)
    BY <2>1, AtConcat
  <2>. QED  BY <1>2, <2>2
<1>4. uint16At(w, i) = Len(a) /\ after16(w, i) = i + 2
  BY <1>1, <1>2, <1>3, Word16Read, FitsWord
<1>5. i + 2 \in Nat
  OBVIOUS
<1>6. /\ ReadEntries(w, i + 2, Len(a)) = [m_entries |-> EntriesSeen(a), next |-> (i + 2) + Len(c)]
      /\ Len(a) <= Len(c)
  BY <1>1, <1>2, <1>3, <1>5, EntriesRead DEF PlainArray
<1>7. Len(c) \in Nat /\ Len(w) \in Nat /\ (i + 2) + Len(c) <= Len(w)
  BY <1>3 DEF At
<1>8. ~(Len(a) > Len(w) - (i + 2))
  BY <1>1, <1>6, <1>7
<1>9. ReadArray(w, i) = ReadEntries(w, i + 2, Len(a))
  BY <1>4, <1>8 DEF ReadArray
<1>10. (i + 2) + Len(c) = i + Len(ArrayBytes(a))
  <2>1. Len(ArrayBytes(a)) = 2 + Len(c)
    BY <1>1, <1>2, ArrayBytesTyped
  <2>. QED  BY <1>7, <2>1
<1>. QED  BY <1>6, <1>9, <1>10

-----------------------------------------------------------------------------
(* Data sets *)

\* What a reader gets to see of the arrays of a data set.
ArraysSeen(arrs) == [k \in DOMAIN arrs |-> EntriesSeen(arrs[k])]

\* f has the states of the loop in DataSet::m_parse.
ArraysTurns(w, i, n, f) ==
  f = [k \in 0 .. n |-> IF k = 0 THEN [m_anonArrays |-> <<>>, next |-> i]
                        ELSE ArraysTurn(w, f[k - 1])]

\* Where at most one byte is left, an array has no entries and takes no byte.
LEMMA EmptyArrayRead ==
  ASSUME NEW w \in Seq(Byte), NEW p \in 0 .. Len(w), p + 1 >= Len(w)
  PROVE  ReadArray(w, p) = [m_entries |-> <<>>, next |-> p]
<1>1. uint16At(w, p) = 0 /\ after16(w, p) = p
  BY DEF uint16At, after16, isEnoughAt
<1>2. ReadArray(w, p) = ReadEntries(w, p, 0)
  BY <1>1 DEF ReadArray
<1>3. PICK f : f = [k \in 0 .. 0 |-> [m_entries |-> <<>>, next |-> p]]
  OBVIOUS
<1>4. EntriesTurns(w, p, 0, f)
  BY <1>3 DEF EntriesTurns
<1>5. ReadEntries(w, p, 0) = f[0]
  BY <1>4, EntriesLoop
<1>. QED  BY <1>2, <1>3, <1>5

\* The states of the loop, of arrays of A.
ArraysStates(A, w) == [m_anonArrays : Seq(A), next : 0 .. Len(w) \cup {Lost}]

\* Where nothing is left, a turn stores an empty array.
LEMMA EmptyTurn ==
  ASSUME NEW w \in Seq(Byte), NEW A, <<>> \in A, NEW s \in ArraysStates(A, w), NothingLeft(w, s),
         NEW k \in Nat, NEW t, t = WithEmptyArrays(s, k)
  PROVE  ArraysTurn(w, t) = WithEmptyArrays(s, k + 1)
<1>1. CASE s.next = Lost
  BY <1>1 DEF ArraysTurn, WithEmptyArrays
<1>2. CASE s.next # Lost
  <2>1. PICK x \in Seq(A), p \in 0 .. Len(w) : s = [m_anonArrays |-> x, next |-> p]
    BY <1>2 DEF ArraysStates
  <2>2. p + 1 >= Len(w) /\ p # Lost
    BY <1>2, <2>1 DEF NothingLeft
  <2>3. PICK y, z : y = [j \in 1 .. k |-> <<>>] /\ z = [j \in 1 .. k + 1 |-> <<>>]
    OBVIOUS
  <2>4. y \in Seq(A) /\ z = Append(y, <<>>)
    BY <2>3
  <2>5. t = [m_anonArrays |-> x \o y, next |-> p]
    BY <1>2, <2>1, <2>3 DEF WithEmptyArrays
  <2>6. ReadArray(w, p) = [m_entries |-> <<>>, next |-> p]
    BY <2>2, EmptyArrayRead
  <2>7. ArraysTurn(w, t) = [m_anonArrays |-> Append(x \o y, <<>>), next |-> p]
    <3>1. PICK r : r = ReadArray(w, p)
      OBVIOUS
    <3>2. PICK q : q = x \o y
      OBVIOUS
    <3>3. t.next = p /\ t.m_anonArrays = q
      BY <2>5, <3>2
    <3>4. r.m_entries = <<>> /\ r.next = p
      BY <2>6, <3>1
    <3>. QED  BY <2>2, <3>1, <3>2, <3>3, <3>4 DEF ArraysTurn, WithArray
  <2>8. Append(x \o y, <<>>) = x \o z
    <3>1. PICK e \in A : e = <<>>
      OBVIOUS
    <3>2. x \o y \in Seq(A) /\ <<e>> \in Seq(A)
      BY <2>1, <2>4, ConcatProperties
    <3>3. Append(x \o y, e) = (x \o y) \o <<e>> /\ Append(y, e) = y \o <<e>>
      BY <2>4, <3>2, AppendIsConcat
    <3>4. (x \o y) \o <<e>> = x \o (y \o <<e>>)
      BY <2>1, <2>4, <3>2, ConcatAssociative
    <3>. QED  BY <2>4, <3>1, <3>3, <3>4
  <2>9. WithEmptyArrays(s, k + 1) = [m_anonArrays |-> x \o z, next |-> p]
    BY <1>2, <2>1, <2>3 DEF WithEmptyArrays
  <2>. QED  BY <2>7, <2>8, <2>9
<1>. QED  BY <1>1, <1>2

\* A function with these states is the one the loop computes: behind the turn
\* it stops looking at, the turns store empty arrays.
LEMMA ArraysLoop ==
  ASSUME NEW w \in Seq(Byte), NEW i, NEW n \in Nat, NEW A, <<>> \in A,
         NEW f \in [0 .. n -> ArraysStates(A, w)], ArraysTurns(w, i, n, f)
  PROVE  ReadArrays(w, i, n) = f[n]
<1> DEFINE F == CHOOSE read :
             read = [k \in 0 .. n |-> IF k = 0 THEN [m_anonArrays |-> <<>>, next |-> i]
                                      ELSE ArraysTurn(w, read[k - 1])]
           last == IF n <= TurnsIn(w, i) THEN n
                   ELSE CHOOSE k \in 0 .. n : k = n \/ NothingLeft(w, F[k])
<1>1. F = [k \in 0 .. n |-> IF k = 0 THEN [m_anonArrays |-> <<>>, next |-> i]
                            ELSE ArraysTurn(w, F[k - 1])]
  BY Zenon DEF ArraysTurns
<1>2. ReadArrays(w, i, n) = WithEmptyArrays(F[last], n - last)
  BY DEF ReadArrays
<1> HIDE DEF F
<1>3. last \in 0 .. n /\ (last = n \/ NothingLeft(w, F[last]))
  <2>1. CASE n <= TurnsIn(w, i)
    BY <2>1
  <2>2. CASE ~(n <= TurnsIn(w, i))
    <3>1. last = CHOOSE k \in 0 .. n : k = n \/ NothingLeft(w, F[k])
      BY <2>2
    <3>2. \E k \in 0 .. n : k = n \/ NothingLeft(w, F[k])
      OBVIOUS
    <3>. QED  BY <3>1, <3>2
  <2>. QED  BY <2>1, <2>2
<1> HIDE DEF last
<1> DEFINE S == {k \in Nat : k <= n => F[k] = f[k]}
<1>4. 0 \in S
  BY <1>1 DEF ArraysTurns
<1>5. ASSUME NEW k \in Nat, k \in S PROVE k + 1 \in S
  <2> SUFFICES ASSUME k + 1 <= n PROVE F[k + 1] = f[k + 1]
    OBVIOUS
  <2>1. k + 1 \in 0 .. n /\ k + 1 # 0 /\ (k + 1) - 1 = k
    OBVIOUS
  <2>2. F[k] = f[k]
    BY <1>5
  <2>. QED  BY <1>1, <2>1, <2>2 DEF ArraysTurns
<1>6. \A k \in 0 .. n : F[k] = f[k]
  <2>1. \A k \in Nat : k \in S
    <3> HIDE DEF S
    <3>. QED  BY <1>4, <1>5, SetInduction
  <2>. QED  BY <2>1
<1>7. PICK s \in ArraysStates(A, w) : s = f[last]
  BY <1>3
<1> DEFINE T == {k \in Nat : last + k <= n => f[last + k] = WithEmptyArrays(s, k)}
<1>8. 0 \in T
  <2>1. \A x \in Seq(A) : x \o [k \in 1 .. 0 |-> <<>>] = x
    OBVIOUS
  <2>2. PICK x \in Seq(A), p \in 0 .. Len(w) \cup {Lost} : s = [m_anonArrays |-> x, next |-> p]
    BY DEF ArraysStates
  <2>3. WithEmptyArrays(s, 0) = s
    BY <2>1, <2>2 DEF WithEmptyArrays
  <2>4. last + 0 = last
    BY <1>3
  <2>. QED  BY <1>7, <2>3, <2>4
<1>9. ASSUME NEW k \in Nat, k \in T PROVE k + 1 \in T
  <2> SUFFICES ASSUME last + (k + 1) <= n PROVE f[last + (k + 1)] = WithEmptyArrays(s, k + 1)
    OBVIOUS
  <2>1. PICK m \in 0 .. n : m = last + (k + 1) /\ m # 0 /\ m - 1 = last + k /\ last + k <= n /\ last # n
    BY <1>3
  <2>2. f[m - 1] = WithEmptyArrays(s, k)
    BY <1>9, <2>1
  <2>3. NothingLeft(w, s)
    BY <1>3, <1>6, <1>7, <2>1
  <2>4. f[m] = ArraysTurn(w, f[m - 1])
    BY <2>1 DEF ArraysTurns
  <2>. QED  BY <2>1, <2>2, <2>3, <2>4, EmptyTurn
<1>10. \A k \in Nat : k \in T
  <2> HIDE DEF T
  <2>. QED  BY <1>8, <1>9, SetInduction
<1>11. PICK d \in Nat : d = n - last /\ last + d = n
  BY <1>3
<1>12. f[n] = WithEmptyArrays(s, d)
  BY <1>10, <1>11
<1>. QED  BY <1>2, <1>3, <1>6, <1>7, <1>11, <1>12

\* DataSet::m_parse's loop reads the arrays that were written.
LEMMA ArraysRead ==
  ASSUME NEW w \in Seq(Byte), NEW i \in Nat, NEW arrs \in Seq(BuiltArrays),
         \A k \in 1 .. Len(arrs) : PlainArray(arrs[k]),
         At(w, i, ArraysBytes(arrs))
  PROVE  ReadArrays(w, i, Len(arrs)) =
              [m_anonArrays |-> ArraysSeen(arrs), next |-> i + Len(ArraysBytes(arrs))]
<1>1. PICK n \in Nat : n = Len(arrs) /\ DOMAIN arrs = 1 .. n
  OBVIOUS
<1>2. PICK s \in Seq(Seq(Byte)) : s = ArrayParts(arrs)
  BY ArrayPartsTyped
<1>3. /\ Len(s) = n /\ ArraysBytes(arrs) = FlattenSeq(s)
      /\ \A k \in 1 .. n : s[k] = ArrayBytes(arrs[k])
  BY <1>1, <1>2, ArrayPartsTyped DEF ArraysBytes
<1>4. PICK off \in [0 .. n -> Nat] :
           /\ off[0] = i /\ off[n] = i + Len(ArraysBytes(arrs))
           /\ \A k \in 1 .. n : off[k] = off[k - 1] + Len(s[k]) /\ At(w, off[k - 1], s[k])
  <2>1. At(w, i, FlattenSeq(s))
    BY <1>3
  <2>2. \E off \in [0 .. Len(s) -> Nat] :
           /\ off[0] = i /\ off[Len(s)] = i + Len(FlattenSeq(s))
           /\ \A k \in 1 .. Len(s) : /\ off[k] = off[k - 1] + Len(s[k])
                                     /\ At(w, off[k - 1], s[k])
    BY <2>1, AtFlatten
  <2>. QED  BY <1>3, <2>2
<1>5. PICK x : x = ArraysSeen(arrs)
  OBVIOUS
<1> DEFINE X == {EntriesSeen(arrs[k]) : k \in 1 .. n}
<1>6. x \in Seq(X) /\ Len(x) = n /\ \A k \in 1 .. n : x[k] = EntriesSeen(arrs[k])
  <2>1. x = [k \in 1 .. n |-> EntriesSeen(arrs[k])]
    BY <1>1, <1>5 DEF ArraysSeen
  <2>2. \A k \in 1 .. n : EntriesSeen(arrs[k]) \in X
    OBVIOUS
  <2> HIDE DEF X
  <2>. QED  BY <2>1, <2>2
<1>7. /\ Prefix(x, 0) = <<>> /\ Prefix(x, n) = x
      /\ \A k \in 1 .. n : Append(Prefix(x, k - 1), x[k]) = Prefix(x, k)
  <2> HIDE DEF X
  <2>. QED  BY <1>6, PrefixFacts
<1> HIDE DEF X
<1>8. PICK f : f = [k \in 0 .. n |-> [m_anonArrays |-> Prefix(x, k), next |-> off[k]]]
  OBVIOUS
<1>9. ASSUME NEW k \in 1 .. n PROVE f[k] = ArraysTurn(w, f[k - 1])
  <2>1. k \in 0 .. n /\ k - 1 \in 0 .. n
    OBVIOUS
  <2>2. PICK j \in Nat : j = off[k - 1]
    BY <2>1
  <2>3. ReadArray(w, j) = [m_entries |-> x[k], next |-> off[k]]
    <3>1. PlainArray(arrs[k]) /\ At(w, j, ArrayBytes(arrs[k]))
      BY <1>1, <1>3, <1>4, <2>2
    <3>2. j + Len(ArrayBytes(arrs[k])) = off[k]
      BY <1>3, <1>4, <2>2
    <3>. QED  BY <1>6, <3>1, <3>2, ArrayRead
  <2>4. PICK t : t = f[k - 1]
    OBVIOUS
  <2>5. t.m_anonArrays = Prefix(x, k - 1) /\ t.next = j /\ j # Lost
    BY <1>8, <2>1, <2>2, <2>4 DEF Lost
  <2>6. ArraysTurn(w, t) = [m_anonArrays |-> Append(t.m_anonArrays, x[k]), next |-> off[k]]
    <3>1. PICK r : r = ReadArray(w, j)
      OBVIOUS
    <3>2. PICK e, o : e = x[k] /\ o = off[k]
      OBVIOUS
    <3>3. r = [m_entries |-> e, next |-> o]
      BY <2>3, <3>1, <3>2
    <3>4. r.m_entries = e /\ r.next = o
      BY <3>3
    <3>. QED  BY <2>5, <3>1, <3>2, <3>4 DEF ArraysTurn, WithArray
  <2>7. f[k] = [m_anonArrays |-> Prefix(x, k), next |-> off[k]]
    BY <1>8, <2>1
  <2>. QED  BY <1>7, <2>4, <2>5, <2>6, <2>7
<1>10. f[0] = [m_anonArrays |-> <<>>, next |-> i]
  BY <1>4, <1>7, <1>8
<1>11. ArraysTurns(w, i, n, f)
  <2>1. \A k \in 0 .. n : f[k] = IF k = 0 THEN [m_anonArrays |-> <<>>, next |-> i]
                                ELSE ArraysTurn(w, f[k - 1])
    BY <1>9, <1>10
  <2>2. f = [k \in 0 .. n |-> f[k]]
    BY <1>8
  <2>. QED  BY <2>1, <2>2 DEF ArraysTurns
<1>12. ReadArrays(w, i, n) = f[n]
  <2>1. \A k \in 0 .. n : off[k] \in 0 .. Len(w)
    <3> SUFFICES ASSUME NEW k \in 0 .. n PROVE off[k] \in 0 .. Len(w)
      OBVIOUS
    <3>1. CASE k = n
      <4>1. Len(ArraysBytes(arrs)) \in Nat /\ i + Len(ArraysBytes(arrs)) <= Len(w)
        BY <1>2, <1>3 DEF At
      <4>. QED  BY <1>4, <3>1, <4>1
    <3>2. CASE k # n
      <4>1. k + 1 \in 1 .. n /\ (k + 1) - 1 = k
        BY <3>2
      <4>2. At(w, off[k], s[k + 1]) /\ s[k + 1] \in Seq(Byte)
        BY <1>2, <1>3, <1>4, <4>1
      <4>3. Len(s[k + 1]) \in Nat /\ off[k] + Len(s[k + 1]) <= Len(w) /\ off[k] \in Nat /\ Len(w) \in Nat
        BY <1>4, <4>2 DEF At
      <4>. QED  BY <4>3
    <3>. QED  BY <3>1, <3>2
  <2>2. PICK A : A = X \cup {<<>>}
    OBVIOUS
  <2>3. x \in Seq(A) /\ \A k \in 0 .. n : Prefix(x, k) \in Seq(A)
    <3>1. x \in Seq(A)
      BY <1>6, <2>2
    <3>2. \A k \in 0 .. n : Prefix(x, k) \in Seq(A)
      BY <1>6, <3>1 DEF Prefix
    <3>. QED  BY <3>1, <3>2
  <2>4. f \in [0 .. n -> ArraysStates(A, w)]
    <3>1. \A k \in 0 .. n : [m_anonArrays |-> Prefix(x, k), next |-> off[k]] \in ArraysStates(A, w)
      BY <2>1, <2>3 DEF ArraysStates
    <3>. QED  BY <1>8, <3>1
  <2>. QED  BY <1>11, <2>2, <2>4, ArraysLoop
<1>13. f[n] = [m_anonArrays |-> x, next |-> i + Len(ArraysBytes(arrs))]
  BY <1>4, <1>7, <1>8
<1>. QED  BY <1>1, <1>5, <1>12, <1>13

\* build() has been called, and the reader is one for data sets.
PlainDataSet(ds) ==
  /\ ds \in BuiltDataSets
  /\ ProperHeader(ds.header)
  /\ TypeOf(ds.header) = DATA_SET
  /\ ds.header.m_contentSize = Len(ds.m_anonArrays)
  /\ Len(ds.m_anonArrays) < Word
  /\ \A k \in 1 .. Len(ds.m_anonArrays) : PlainArray(ds.m_anonArrays[k])

\* DataSet::m_parse reads what DataSet::build wrote.
LEMMA DataSetRead ==
  ASSUME NEW w \in Seq(Byte), NEW i \in Nat, NEW ds, PlainDataSet(ds),
         At(w, i, DataSetBytes(ds)), NEW h, h = HeaderAt(w, i)
  PROVE  /\ h.type = DATA_SET /\ h.cmd = ds.header.m_cmd
         /\ ReadArrays(w, h.next, h.size) =
              [m_anonArrays |-> ArraysSeen(ds.m_anonArrays), next |-> i + Len(DataSetBytes(ds))]
<1>1. PICK arrs \in Seq(BuiltArrays), g \in Headers : arrs = ds.m_anonArrays /\ g = ds.header
  BY DEF PlainDataSet, BuiltDataSets
<1>2. ProperHeader(g) /\ TypeOf(g) = DATA_SET /\ g.m_contentSize = Len(arrs) /\ Len(arrs) < Word
        /\ \A k \in 1 .. Len(arrs) : PlainArray(arrs[k])
  BY <1>1 DEF PlainDataSet
<1>3. Prefixed(g.m_cmd)
  BY <1>2 DEF TypeOf, Prefixed, PrefixedTypes, DATA_SET
<1>4. PICK b \in Seq(Byte), c \in Seq(Byte), m \in Nat :
        b = HeaderBytes(g) /\ c = ArraysBytes(arrs) /\ m = Len(b)
  <2>1. HeaderBytes(g) \in Seq(Byte)
    BY <1>2, HeaderBytesTyped DEF ProperHeader
  <2>2. ArraysBytes(arrs) \in Seq(Byte)
    BY <1>1, DataSetBytesTyped DEF PlainDataSet
  <2>. QED  BY <2>1, <2>2
<1>5. At(w, i, b) /\ At(w, i + m, c) /\ Len(DataSetBytes(ds)) = m + Len(c) /\ Len(c) \in Nat
  <2>1. DataSetBytes(ds) = b \o c /\ Len(DataSetBytes(ds)) = Len(b) + Len(c)
    BY <1>1, <1>4, DataSetBytesTyped DEF PlainDataSet
  <2>2. At(w, i, b \o c)
    BY <2>1
  <2>3. At(w, i, b) /\ At(w, i + Len(b), c)
    BY <2>2, AtConcat
  <2>. QED  BY <1>4, <2>1, <2>3
<1>6. h = [cmd |-> g.m_cmd, type |-> DATA_SET, size |-> Len(arrs), next |-> i + m]
  BY <1>2, <1>3, <1>4, <1>5, HeaderRead
<1>7. i + m \in Nat
  OBVIOUS
<1>8. ReadArrays(w, i + m, Len(arrs)) =
        [m_anonArrays |-> ArraysSeen(arrs), next |-> (i + m) + Len(c)]
  BY <1>2, <1>4, <1>5, <1>7, ArraysRead
<1>9. (i + m) + Len(c) = i + Len(DataSetBytes(ds))
  BY <1>5
<1>10. h.next = i + m /\ h.size = Len(arrs) /\ h.type = DATA_SET /\ h.cmd = g.m_cmd
  BY <1>6
<1>. QED  BY <1>1, <1>8, <1>9, <1>10

\* Where the data sets occur.
LEMMA DataSetsAt ==
  ASSUME NEW w \in Seq(Byte), NEW i \in Nat, NEW dss \in Seq(BuiltDataSets),
         At(w, i, DataSetsBytes(dss))
  PROVE  \E off \in [0 .. Len(dss) -> Nat] :
           /\ off[0] = i /\ off[Len(dss)] = i + Len(DataSetsBytes(dss))
           /\ \A k \in 1 .. Len(dss) : /\ off[k] = off[k - 1] + Len(DataSetBytes(dss[k]))
                                       /\ off[k] >= off[k - 1] + 2
                                       /\ off[k] <= Len(w)
                                       /\ At(w, off[k - 1], DataSetBytes(dss[k]))
<1>1. PICK n \in Nat : n = Len(dss)
  OBVIOUS
<1>2. PICK s \in Seq(Seq(Byte)) : s = DataSetParts(dss)
  BY DataSetPartsTyped
<1>3. /\ Len(s) = n /\ DataSetsBytes(dss) = FlattenSeq(s)
      /\ \A k \in 1 .. n : s[k] = DataSetBytes(dss[k])
  BY <1>1, <1>2, DataSetPartsTyped DEF DataSetsBytes
<1>4. PICK off \in [0 .. n -> Nat] :
           /\ off[0] = i /\ off[n] = i + Len(DataSetsBytes(dss))
           /\ \A k \in 1 .. n : off[k] = off[k - 1] + Len(s[k]) /\ At(w, off[k - 1], s[k])
  <2>1. At(w, i, FlattenSeq(s))
    BY <1>3
  <2>2. \E off \in [0 .. Len(s) -> Nat] :
           /\ off[0] = i /\ off[Len(s)] = i + Len(FlattenSeq(s))
           /\ \A k \in 1 .. Len(s) : /\ off[k] = off[k - 1] + Len(s[k])
                                     /\ At(w, off[k - 1], s[k])
    BY <2>1, AtFlatten
  <2>. QED  BY <1>3, <2>2
<1>5. ASSUME NEW k \in 1 .. n
      PROVE  off[k] >= off[k - 1] + 2 /\ off[k] <= Len(w)
  <2>1. dss[k] \in BuiltDataSets
    BY <1>1
  <2>2. PICK m \in Nat : m = Len(s[k]) /\ m >= 2
    BY <1>3, <2>1, DataSetBytesTyped
  <2>3. off[k - 1] \in Nat /\ off[k] = off[k - 1] + m
    BY <1>4, <2>2
  <2>4. off[k - 1] + m <= Len(w)
    BY <1>4, <2>2 DEF At
  <2>. QED  BY <2>2, <2>3, <2>4
<1>. QED  BY <1>1, <1>3, <1>4, <1>5

DataSetsSeen(dss) == [k \in DOMAIN dss |-> DataSetSeen(dss[k])]

LEMMA DataSetsSeenFacts ==
  ASSUME NEW dss \in Seq(BuiltDataSets)
  PROVE  LET x == DataSetsSeen(dss)
         IN  /\ Prefix(x, 0) = <<>> /\ Prefix(x, Len(dss)) = x
             /\ \A k \in 1 .. Len(dss) :
                  Append(Prefix(x, k - 1), DataSetSeen(dss[k])) = Prefix(x, k)
<1>1. PICK x : x = DataSetsSeen(dss)
  OBVIOUS
<1>2. PICK n \in Nat : n = Len(dss) /\ DOMAIN dss = 1 .. n
  OBVIOUS
<1> DEFINE X == {DataSetSeen(dss[k]) : k \in 1 .. n}
<1>3. x = [k \in 1 .. n |-> DataSetSeen(dss[k])]
  BY <1>1, <1>2 DEF DataSetsSeen
<1>4. \A k \in 1 .. n : DataSetSeen(dss[k]) \in X
  OBVIOUS
<1> HIDE DEF X
<1>5. x \in Seq(X) /\ Len(x) = n /\ \A k \in 1 .. n : x[k] = DataSetSeen(dss[k])
  BY <1>3, <1>4
<1>6. /\ Prefix(x, 0) = <<>> /\ Prefix(x, n) = x
      /\ \A k \in 1 .. n : Append(Prefix(x, k - 1), x[k]) = Prefix(x, k)
  BY <1>5, PrefixFacts
<1>. QED  BY <1>1, <1>2, <1>5, <1>6

-----------------------------------------------------------------------------
(* Packets *)

\* build() has been called, and the reader takes the entry for one.
GoodEntry(e) == PlainEntry(e) /\ isValid(EntrySeen(e))

\* The state of Packet::m_parse between two turns, with no invalid entry met.
TurnState(es, ds, o) == [m_entries |-> es, m_dataSets |-> ds, next |-> o, returned |-> FALSE]

\* A turn of Packet::m_parse takes the entry in front of it.
LEMMA EntryTurn ==
  ASSUME NEW w \in Seq(Byte), NEW i \in Nat, NEW e, GoodEntry(e), At(w, i, EntryBytes(e)),
         NEW es, NEW ds
  PROVE  PacketTurn(w, TurnState(es, ds, i)) =
           TurnState(Append(es, EntrySeen(e)), ds, i + Len(EntryBytes(e)))
<1>1. PICK h : h = HeaderAt(w, i)
  OBVIOUS
<1>2. PICK x : x = EntrySeen(e)
  OBVIOUS
<1>3. PICK o : o = i + Len(EntryBytes(e))
  OBVIOUS
<1>4. h.type = TypeOf(e.header) /\ EntryAt(w, h) = x /\ h.next + Len(e.m_data) = o
  BY <1>1, <1>2, <1>3, EntryRead DEF GoodEntry, PlainEntry
<1>5. x.m_data = e.m_data /\ isValid(x)
  BY <1>2 DEF EntrySeen, GoodEntry
<1>6. h.type # NoType /\ h.type # DATA_SET
  BY <1>4, CodesTyped DEF GoodEntry, PlainEntry, CorrectEntry, ProperHeader
<1>7. i \notin {Lost, Len(w)}
  <2>1. Len(EntryBytes(e)) >= 2
    BY EntryBytesTyped DEF GoodEntry, PlainEntry, CorrectEntry
  <2>2. i + Len(EntryBytes(e)) <= Len(w)
    BY DEF At
  <2>3. Len(EntryBytes(e)) \in Nat /\ Len(w) \in Nat
    BY EntryBytesTyped DEF GoodEntry, PlainEntry, CorrectEntry
  <2>. QED  BY <2>1, <2>2, <2>3 DEF Lost
<1>8. PICK t : t = [m_entries |-> es, m_dataSets |-> ds, next |-> i, returned |-> FALSE]
  OBVIOUS
<1>9. PacketTurn(w, t) = [t EXCEPT !.next = h.next + Len(x.m_data),
                                   !.m_entries = Append(@, x), !.returned = FALSE]
  <2>1. t.next = i /\ ~t.returned /\ t.m_entries = es
    BY <1>8
  <2>. QED  BY <1>1, <1>4, <1>5, <1>6, <1>7, <2>1 DEF PacketTurn, Stopped, WithEntry
<1>10. PacketTurn(w, t) = [m_entries |-> Append(es, x), m_dataSets |-> ds, next |-> o,
                          returned |-> FALSE]
  BY <1>4, <1>5, <1>8, <1>9
<1>. QED  BY <1>2, <1>3, <1>8, <1>10 DEF TurnState

\* A turn of Packet::m_parse takes the data set in front of it.
LEMMA DataSetTurn ==
  ASSUME NEW w \in Seq(Byte), NEW i \in Nat, NEW d, PlainDataSet(d), At(w, i, DataSetBytes(d)),
         NEW es, NEW ds
  PROVE  PacketTurn(w, TurnState(es, ds, i)) =
           TurnState(es, Append(ds, DataSetSeen(d)), i + Len(DataSetBytes(d)))
<1>1. PICK h : h = HeaderAt(w, i)
  OBVIOUS
<1>2. PICK x : x = DataSetSeen(d)
  OBVIOUS
<1>3. PICK o : o = i + Len(DataSetBytes(d))
  OBVIOUS
<1>4. PICK a, r : a = ArraysSeen(d.m_anonArrays) /\ r = ReadArrays(w, h.next, h.size)
  OBVIOUS
<1>5. h.type = DATA_SET /\ h.cmd = d.header.m_cmd /\ r = [m_anonArrays |-> a, next |-> o]
  BY <1>1, <1>3, <1>4, DataSetRead
<1>6. x = [cmd |-> d.header.m_cmd, m_anonArrays |-> a]
  BY <1>2, <1>4 DEF DataSetSeen, ArraysSeen
<1>7. h.type # NoType
  BY <1>5 DEF NoType, DATA_SET
<1>8. i \notin {Lost, Len(w)}
  <2>1. Len(DataSetBytes(d)) >= 2
    BY DataSetBytesTyped DEF PlainDataSet
  <2>2. i + Len(DataSetBytes(d)) <= Len(w)
    BY DEF At
  <2>3. Len(DataSetBytes(d)) \in Nat /\ Len(w) \in Nat
    BY DataSetBytesTyped DEF PlainDataSet
  <2>. QED  BY <2>1, <2>2, <2>3 DEF Lost
<1>9. PICK t : t = [m_entries |-> es, m_dataSets |-> ds, next |-> i, returned |-> FALSE]
  OBVIOUS
<1>10. PacketTurn(w, t) = [t EXCEPT !.next = o, !.m_dataSets = Append(@, x)]
  <2>1. t.next = i /\ ~t.returned /\ t.m_dataSets = ds
    BY <1>9
  <2>2. r.next = o /\ r.m_anonArrays = a
    BY <1>5
  <2>. QED  BY <1>1, <1>4, <1>5, <1>6, <1>7, <1>8, <2>1, <2>2 DEF PacketTurn, Stopped, WithDataSet
<1>11. PacketTurn(w, t) = [m_entries |-> es, m_dataSets |-> Append(ds, x), next |-> o,
                          returned |-> FALSE]
  BY <1>9, <1>10
<1>. QED  BY <1>2, <1>3, <1>9, <1>11 DEF TurnState

\* f has the states of the loop in Packet::m_parse.
PacketTurns(w, i, n, f) ==
  f = [k \in 0 .. n |-> IF k = 0 THEN [m_entries |-> <<>>, m_dataSets |-> <<>>, next |-> i,
                                       returned |-> FALSE]
                        ELSE PacketTurn(w, f[k - 1])]

\* A function with these states is the one the loop computes.
LEMMA TurnsLoop ==
  ASSUME NEW w, NEW i, NEW n \in Nat, NEW m \in Nat,
         m = (IF n > TurnsIn(w, i) THEN TurnsIn(w, i) ELSE n), NEW f, PacketTurns(w, i, m, f)
  PROVE  ReadTurns(w, i, n) = f[m]
<1> DEFINE F == CHOOSE read :
             read = [k \in 0 .. m |-> IF k = 0 THEN [m_entries |-> <<>>, m_dataSets |-> <<>>,
                                                     next |-> i, returned |-> FALSE]
                                      ELSE PacketTurn(w, read[k - 1])]
           last == IF n <= TurnsIn(w, i) THEN n
                   ELSE CHOOSE k \in 0 .. m : k = m \/ Stopped(w, F[k])
<1>1. F = [k \in 0 .. m |-> IF k = 0 THEN [m_entries |-> <<>>, m_dataSets |-> <<>>,
                                           next |-> i, returned |-> FALSE]
                            ELSE PacketTurn(w, F[k - 1])]
  BY Zenon DEF PacketTurns
<1>2. ReadTurns(w, i, n) = F[last]
  BY DEF ReadTurns
<1> HIDE DEF F
<1>3. last \in 0 .. m /\ (last = m \/ Stopped(w, F[last]))
  <2>1. CASE n <= TurnsIn(w, i)
    BY <2>1
  <2>2. CASE ~(n <= TurnsIn(w, i))
    <3>1. last = CHOOSE k \in 0 .. m : k = m \/ Stopped(w, F[k])
      BY <2>2
    <3>2. \E k \in 0 .. m : k = m \/ Stopped(w, F[k])
      OBVIOUS
    <3>. QED  BY <3>1, <3>2
  <2>. QED  BY <2>1, <2>2
<1> HIDE DEF last
<1> DEFINE S == {k \in Nat : k <= m => F[k] = f[k]}
<1> USE DEF PacketTurns
<1>4. 0 \in S
  BY <1>1
<1>5. ASSUME NEW k \in Nat, k \in S PROVE k + 1 \in S
  <2> SUFFICES ASSUME k + 1 <= m PROVE F[k + 1] = f[k + 1]
    OBVIOUS
  <2>1. k + 1 \in 0 .. m /\ k + 1 # 0 /\ (k + 1) - 1 = k
    OBVIOUS
  <2>2. F[k] = f[k]
    BY <1>5
  <2>3. F[k + 1] = PacketTurn(w, F[(k + 1) - 1])
    BY <1>1, <2>1, Zenon
  <2>4. f[k + 1] = PacketTurn(w, f[(k + 1) - 1])
    BY <2>1, Zenon
  <2>. QED  BY <2>1, <2>2, <2>3, <2>4, Zenon
<1>6. \A k \in Nat : k \in S
  <2> HIDE DEF S
  <2>. QED  BY <1>4, <1>5, SetInduction
<1> DEFINE T == {k \in Nat : last + k <= m => F[last + k] = F[last]}
<1>7. 0 \in T
  BY <1>3
<1>8. ASSUME NEW k \in Nat, k \in T PROVE k + 1 \in T
  <2> SUFFICES ASSUME last + (k + 1) <= m PROVE F[last + (k + 1)] = F[last]
    OBVIOUS
  <2>1. PICK j \in 0 .. m : j = last + (k + 1) /\ j # 0 /\ j - 1 = last + k /\ last + k <= m /\ last # m
    BY <1>3
  <2>2. F[j - 1] = F[last]
    BY <1>8, <2>1
  <2>3. F[j] = PacketTurn(w, F[j - 1])
    BY <1>1, <2>1, Zenon
  <2>4. PICK s : s = F[last]
    OBVIOUS
  <2>5. PacketTurn(w, s) = s
    BY <1>3, <2>1, <2>4 DEF PacketTurn
  <2>. QED  BY <2>1, <2>2, <2>3, <2>4, <2>5
<1>9. \A k \in Nat : k \in T
  <2> HIDE DEF T
  <2>. QED  BY <1>7, <1>8, SetInduction
<1>10. PICK d \in Nat : d = m - last /\ last + d = m
  BY <1>3
<1>11. F[m] = F[last]
  <2>1. d \in T
    BY <1>9
  <2>. QED  BY <1>10, <2>1
<1>12. F[m] = f[m]
  <2>1. m \in S
    BY <1>6
  <2>. QED  BY <2>1
<1>. QED  BY <1>2, <1>11, <1>12

\* Packet::m_parse reads what Packet::build wrote behind the header, if it takes
\* as many turns as there are, or finds the end of the buffer before.
LEMMA TurnsRead ==
  ASSUME NEW w \in Seq(Byte), NEW i \in Nat, NEW es \in BuiltArrays,
         NEW dss \in Seq(BuiltDataSets),
         \A k \in 1 .. Len(es) : GoodEntry(es[k]),
         \A k \in 1 .. Len(dss) : PlainDataSet(dss[k]),
         At(w, i, EntriesBytes(es)), At(w, i + Len(EntriesBytes(es)), DataSetsBytes(dss)),
         NEW o \in Nat, o = i + Len(EntriesBytes(es)) + Len(DataSetsBytes(dss)),
         NEW n \in Nat, n = Len(es) + Len(dss) \/ (n > Len(es) + Len(dss) /\ o = Len(w))
  PROVE  ReadTurns(w, i, n) = TurnState(EntriesSeen(es), DataSetsSeen(dss), o)
<1>1. PICK ne \in Nat, nd \in Nat, lw \in Nat : ne = Len(es) /\ nd = Len(dss) /\ lw = Len(w)
  BY DEF BuiltArrays
<1>2. PICK le \in Nat, ld \in Nat : le = Len(EntriesBytes(es)) /\ ld = Len(DataSetsBytes(dss))
  <2>1. EntriesBytes(es) \in Seq(Byte)
    BY EntriesBytesTyped
  <2>2. DataSetsBytes(dss) \in Seq(Byte)
    BY DataSetPartsTyped, FlattenFacts DEF DataSetsBytes
  <2>. QED  BY <2>1, <2>2
<1>3. PICK offE \in [0 .. ne -> Nat] :
        /\ offE[0] = i /\ offE[ne] = i + le
        /\ \A k \in 1 .. ne : /\ offE[k] = offE[k - 1] + Len(EntryBytes(es[k]))
                              /\ offE[k] >= offE[k - 1] + 2
                              /\ offE[k] <= lw
                              /\ At(w, offE[k - 1], EntryBytes(es[k]))
  <2>1. \E off \in [0 .. Len(es) -> Nat] :
           /\ off[0] = i /\ off[Len(es)] = i + Len(EntriesBytes(es))
           /\ \A k \in 1 .. Len(es) : /\ off[k] = off[k - 1] + Len(EntryBytes(es[k]))
                                      /\ off[k] >= off[k - 1] + 2
                                      /\ off[k] <= Len(w)
                                      /\ At(w, off[k - 1], EntryBytes(es[k]))
    BY EntriesAt
  <2>. QED  BY ONLY <1>1, <1>2, <2>1, Zenon
<1>4. PICK offD \in [0 .. nd -> Nat] :
        /\ offD[0] = i + le /\ offD[nd] = (i + le) + ld
        /\ \A k \in 1 .. nd : /\ offD[k] = offD[k - 1] + Len(DataSetBytes(dss[k]))
                              /\ offD[k] >= offD[k - 1] + 2
                              /\ offD[k] <= lw
                              /\ At(w, offD[k - 1], DataSetBytes(dss[k]))
  <2>1. i + le \in Nat
    OBVIOUS
  <2>2. At(w, i + le, DataSetsBytes(dss))
    BY <1>2
  <2>3. \E off \in [0 .. Len(dss) -> Nat] :
           /\ off[0] = i + le /\ off[Len(dss)] = (i + le) + Len(DataSetsBytes(dss))
           /\ \A k \in 1 .. Len(dss) : /\ off[k] = off[k - 1] + Len(DataSetBytes(dss[k]))
                                       /\ off[k] >= off[k - 1] + 2
                                       /\ off[k] <= Len(w)
                                       /\ At(w, off[k - 1], DataSetBytes(dss[k]))
    BY <2>1, <2>2, DataSetsAt
  <2>. QED  BY ONLY <1>1, <1>2, <2>3, Zenon
<1>5. o = offD[nd] /\ (i + le) + ld = o
  BY <1>2, <1>4
<1>6. PICK x, y : x = EntriesSeen(es) /\ y = DataSetsSeen(dss)
  OBVIOUS
<1>7. /\ Prefix(x, 0) = <<>> /\ Prefix(x, ne) = x
      /\ \A k \in 1 .. ne : Append(Prefix(x, k - 1), EntrySeen(es[k])) = Prefix(x, k)
  BY <1>1, <1>6, EntriesSeenFacts, Zenon
<1>8. /\ Prefix(y, 0) = <<>> /\ Prefix(y, nd) = y
      /\ \A k \in 1 .. nd : Append(Prefix(y, k - 1), DataSetSeen(dss[k])) = Prefix(y, k)
  BY <1>1, <1>6, DataSetsSeenFacts, Zenon
<1>8a. PICK turns \in Nat : turns = TurnsIn(w, i) /\ 2 * turns >= lw - i
  <2>1. i <= lw
    BY <1>1, <1>2 DEF At
  <2>2. PICK d \in Nat : d = lw - i
    BY <2>1
  <2>3. d \div 2 \in Nat /\ 2 * (d \div 2 + 1) >= d
    OBVIOUS
  <2>. QED  BY <1>1, <2>2, <2>3 DEF TurnsIn
<1>9. PICK m \in Nat : m = (IF n > turns THEN turns ELSE n)
  OBVIOUS
<1>10. ne + nd <= m /\ (m # ne + nd => o = Len(w))
  <2>1. ne + nd <= turns
    <3>1. offE[ne] >= offE[0] + 2 * ne
      <4>1. \A k \in 1 .. ne : offE[k] >= offE[k - 1] + 2
        BY <1>3
      <4>2. ne \in 0 .. ne
        OBVIOUS
      <4>. QED  BY <4>1, <4>2, TwoBytesEach
    <3>2. offD[nd] >= offD[0] + 2 * nd
      <4>1. \A k \in 1 .. nd : offD[k] >= offD[k - 1] + 2
        BY <1>4
      <4>2. nd \in 0 .. nd
        OBVIOUS
      <4>. QED  BY <4>1, <4>2, TwoBytesEach
    <3>3. o >= i + (2 * ne + 2 * nd)
      BY <1>3, <1>4, <1>5, <3>1, <3>2
    <3>4. o <= lw
      <4>1. At(w, i + le, DataSetsBytes(dss))
        BY <1>2
      <4>. QED  BY <1>1, <1>2, <1>5, <4>1 DEF At
    <3>5. 2 * (ne + nd) <= lw - i
      BY <3>3, <3>4
    <3>. QED  BY <1>8a, <3>5
  <2>2. CASE n > turns
    BY <1>1, <1>9, <2>1, <2>2
  <2>3. CASE ~(n > turns)
    BY <1>1, <1>9, <2>1, <2>3
  <2>. QED  BY <2>2, <2>3
<1> DEFINE State(k) == IF k <= ne THEN TurnState(Prefix(x, k), <<>>, offE[k])
                       ELSE IF k <= ne + nd THEN TurnState(x, Prefix(y, k - ne), offD[k - ne])
                       ELSE TurnState(x, y, o)
<1>11. PICK f : f = [k \in 0 .. m |-> State(k)]
  OBVIOUS
<1>12. State(0) = TurnState(<<>>, <<>>, i)
  BY <1>3, <1>7
<1>13. State(ne) = TurnState(x, <<>>, i + le)
  BY <1>3, <1>7
<1>14. State(ne + nd) = TurnState(x, y, o)
  <2>1. CASE nd = 0
    BY <1>4, <1>5, <1>8, <1>13, <2>1
  <2>2. CASE nd > 0
    <3>1. (ne + nd) - ne = nd /\ ~(ne + nd <= ne) /\ ne + nd <= ne + nd
      BY <2>2
    <3>. QED  BY <1>5, <1>8, <3>1
  <2>. QED  BY <2>1, <2>2
<1>15. ASSUME NEW k \in 1 .. ne PROVE State(k) = PacketTurn(w, State(k - 1))
  <2>1. k <= ne /\ k - 1 <= ne /\ k - 1 \in 0 .. ne /\ k \in 0 .. ne
    OBVIOUS
  <2>2. PICK j \in Nat : j = offE[k - 1]
    BY <2>1
  <2>3. PICK p, t : p = Prefix(x, k - 1) /\ t = TurnState(p, <<>>, j)
    OBVIOUS
  <2>4. State(k - 1) = t
    BY <2>1, <2>2, <2>3
  <2>5. PICK e : e = es[k] /\ GoodEntry(e) /\ At(w, j, EntryBytes(e))
    BY <1>1, <1>3, <2>2
  <2>6. PacketTurn(w, t) = TurnState(Append(p, EntrySeen(e)), <<>>, j + Len(EntryBytes(e)))
    BY <2>3, <2>5, EntryTurn
  <2>7. j + Len(EntryBytes(e)) = offE[k] /\ Append(p, EntrySeen(e)) = Prefix(x, k)
    BY <1>3, <1>7, <2>2, <2>3, <2>5
  <2>. QED  BY <2>1, <2>4, <2>6, <2>7
<1>16. ASSUME NEW k \in 1 .. nd
       PROVE  State(ne + (k - 1)) = TurnState(x, Prefix(y, k - 1), offD[k - 1])
  <2>1. CASE k = 1
    BY <1>4, <1>8, <1>13, <2>1
  <2>2. CASE k > 1
    <3>1. (ne + (k - 1)) - ne = k - 1 /\ ~(ne + (k - 1) <= ne) /\ ne + (k - 1) <= ne + nd
      BY <2>2
    <3>. QED  BY <3>1
  <2>. QED  BY <2>1, <2>2
<1>17. ASSUME NEW k \in 1 .. nd
       PROVE  State(ne + k) = TurnState(x, Prefix(y, k), offD[k])
  <2>1. (ne + k) - ne = k /\ ~(ne + k <= ne) /\ ne + k <= ne + nd
    OBVIOUS
  <2>. QED  BY <2>1
<1> HIDE DEF State
<1>18. ASSUME NEW k \in 1 .. nd PROVE State(ne + k) = PacketTurn(w, State(ne + (k - 1)))
  <2>1. k - 1 \in 0 .. nd /\ k \in 0 .. nd
    OBVIOUS
  <2>2. PICK j \in Nat : j = offD[k - 1]
    BY <2>1
  <2>3. PICK p, t : p = Prefix(y, k - 1) /\ t = TurnState(x, p, j)
    OBVIOUS
  <2>4. State(ne + (k - 1)) = t
    BY <1>16, <2>2, <2>3
  <2>5. PICK d : d = dss[k] /\ PlainDataSet(d) /\ At(w, j, DataSetBytes(d))
    BY <1>1, <1>4, <2>2
  <2>6. PacketTurn(w, t) = TurnState(x, Append(p, DataSetSeen(d)), j + Len(DataSetBytes(d)))
    BY <2>3, <2>5, DataSetTurn
  <2>7. j + Len(DataSetBytes(d)) = offD[k] /\ Append(p, DataSetSeen(d)) = Prefix(y, k)
    BY <1>4, <1>8, <2>2, <2>3, <2>5
  <2>. QED  BY <1>17, <2>4, <2>6, <2>7
<1>19. ASSUME NEW k \in Nat, k >= ne + nd PROVE State(k) = TurnState(x, y, o)
  <2>1. CASE k = ne + nd
    BY <1>14, <2>1
  <2>2. CASE k > ne + nd
    BY <2>2 DEF State
  <2>. QED  BY <1>19, <2>1, <2>2
<1>20. ASSUME NEW k \in 1 .. m PROVE State(k) = PacketTurn(w, State(k - 1))
  <2>1. CASE k <= ne
    BY <1>15, <2>1
  <2>2. CASE k > ne /\ k <= ne + nd
    <3>1. PICK q \in 1 .. nd : k = ne + q
      <4>1. k - ne \in 1 .. nd /\ k = ne + (k - ne)
        BY <2>2
      <4>. QED  BY <4>1
    <3>2. k - 1 = ne + (q - 1)
      BY <3>1
    <3>. QED  BY <1>18, <3>1, <3>2
  <2>3. CASE k > ne + nd
    <3>1. State(k) = TurnState(x, y, o) /\ State(k - 1) = TurnState(x, y, o)
      <4>1. k \in Nat /\ k - 1 \in Nat /\ k >= ne + nd /\ k - 1 >= ne + nd
        BY <2>3
      <4>. QED  BY <1>19, <4>1
    <3>2. o = Len(w)
      BY <1>10, <2>3
    <3>3. PICK t : t = TurnState(x, y, o)
      OBVIOUS
    <3>4. t.next = Len(w)
      BY <3>2, <3>3 DEF TurnState
    <3>5. PacketTurn(w, t) = t
      BY <3>4 DEF PacketTurn, Stopped
    <3>. QED  BY <3>1, <3>3, <3>5
  <2>. QED  BY <2>1, <2>2, <2>3
<1>21. PacketTurns(w, i, m, f)
  <2>1. \A k \in 0 .. m : f[k] = IF k = 0 THEN [m_entries |-> <<>>, m_dataSets |-> <<>>,
                                                next |-> i, returned |-> FALSE]
                                ELSE PacketTurn(w, f[k - 1])
    <3>1. f[0] = [m_entries |-> <<>>, m_dataSets |-> <<>>, next |-> i, returned |-> FALSE]
      BY <1>11, <1>12 DEF TurnState
    <3>2. ASSUME NEW k \in 1 .. m PROVE f[k] = PacketTurn(w, f[k - 1])
      <4>1. f[k] = State(k) /\ f[k - 1] = State(k - 1)
        BY <1>11
      <4>. QED  BY <1>20, <4>1
    <3>3. \A k \in 0 .. m : k = 0 \/ k \in 1 .. m
      OBVIOUS
    <3>. QED  BY <3>1, <3>2, <3>3, Zenon
  <2>2. f = [k \in 0 .. m |-> f[k]]
    BY <1>11
  <2>. QED  BY <2>1, <2>2 DEF PacketTurns
<1>22. ReadTurns(w, i, n) = f[m]
  <2>1. m = (IF n > TurnsIn(w, i) THEN TurnsIn(w, i) ELSE n)
    BY <1>8a, <1>9
  <2>. QED  BY <1>21, <2>1, TurnsLoop
<1>23. f[m] = TurnState(x, y, o)
  <2>1. f[m] = State(m)
    BY <1>11
  <2>. QED  BY <1>10, <1>19, <2>1
<1>. QED  BY <1>6, <1>22, <1>23

\* build() has been called, and the reader of the frame is one for the packet.
GoodPacket(p, last) ==
  /\ p \in BuiltPackets
  /\ p.header.m_contentSize = Turns(p)
  /\ ~Prefixed(p.header.m_cmd) => p.header.m_sizeWidth = 0
  /\ ReadableCount(p, last)
  /\ \A k \in 1 .. Len(p.m_entries) : GoodEntry(p.m_entries[k])
  /\ \A k \in 1 .. Len(p.m_dataSets) : PlainDataSet(p.m_dataSets[k])

\* The header of a packet, and the number of turns the reader takes behind it.
LEMMA PacketHeaderRead ==
  ASSUME NEW w \in Seq(Byte), NEW i \in Nat, NEW p, NEW last, GoodPacket(p, last),
         At(w, i, HeaderBytes(p.header)), NEW o \in Nat, o = i + Len(PacketBytes(p)),
         last => o = Len(w), NEW h, h = HeaderAt(w, i)
  PROVE  /\ h.cmd = p.header.m_cmd /\ h.type = TypeOf(p.header)
         /\ h.next = i + Len(HeaderBytes(p.header))
         /\ h.size \in Nat
         /\ h.size = Turns(p) \/ (h.size > Turns(p) /\ o = Len(w))
<1>1. PICK g \in Headers : g = p.header
  BY DEF GoodPacket, BuiltPackets
<1>2. PICK n \in Nat : n = Turns(p)
  BY DEF GoodPacket, BuiltPackets, Turns
<1>3. g.m_contentSize = n /\ (~Prefixed(g.m_cmd) => g.m_sizeWidth = 0)
  BY <1>1, <1>2 DEF GoodPacket
<1>4. g.m_sizeWidth \in {0, 2} /\ g.m_cmd \in CMD_CODE
  BY DEF Headers
<1>5. CASE Prefixed(g.m_cmd) /\ g.m_sizeWidth = 2
  <2>1. n < Word
    BY <1>1, <1>2, <1>5 DEF GoodPacket, ReadableCount
  <2>2. ProperHeader(g)
    BY <1>5 DEF ProperHeader
  <2>3. h = [cmd |-> g.m_cmd, type |-> TypeOf(g), size |-> n, next |-> i + Len(HeaderBytes(g))]
    BY <1>1, <1>3, <1>5, <2>1, <2>2, HeaderRead
  <2>4. h.cmd = g.m_cmd /\ h.type = TypeOf(g) /\ h.size = n /\ h.next = i + Len(HeaderBytes(g))
    BY <2>3
  <2>. QED  BY <1>1, <1>2, <2>4
<1>6. CASE ~Prefixed(g.m_cmd)
  <2>1. ProperHeader(g)
    BY <1>3, <1>6 DEF ProperHeader
  <2>2. PICK s : s = g_type_sizes(TypeOf(g))
    OBVIOUS
  <2>3. h = [cmd |-> g.m_cmd, type |-> TypeOf(g), size |-> s, next |-> i + Len(HeaderBytes(g))]
    BY <1>1, <1>6, <2>1, <2>2, HeaderRead
  <2>4. h.cmd = g.m_cmd /\ h.type = TypeOf(g) /\ h.size = s /\ h.next = i + Len(HeaderBytes(g))
    BY <2>3
  <2>5. s \in Nat
    BY <2>2 DEF g_type_sizes
  <2>6. n = s \/ (n < s /\ last)
    BY <1>1, <1>2, <1>6, <2>2 DEF GoodPacket, ReadableCount, TypeOf
  <2>. QED  BY <1>1, <1>2, <2>4, <2>5, <2>6
<1>7. CASE Prefixed(g.m_cmd) /\ g.m_sizeWidth = 0
  <2>1. n = 0 /\ last
    BY <1>1, <1>2, <1>7 DEF GoodPacket, ReadableCount
  <2>2. Len(HeaderBytes(g)) = 2
    <3>1. Len(HeaderBytes(g)) = 2 + g.m_sizeWidth
      BY HeaderBytesTyped
    <3>. QED  BY <1>7, <3>1
  <2>3. g.m_cmd \in Nat /\ g.m_cmd < Word
    <3>1. Word \in Nat
      BY RadixAssumption DEF Word
    <3>2. g.m_cmd \in 0 .. Word - 1
      BY <1>4, CodesAssumption
    <3>. QED  BY <3>1, <3>2
  <2>4. HeaderBytes(g) = from_uint16(g.m_cmd)
    <3>1. from_uint16(g.m_cmd) \in Seq(Byte)
      BY <2>3, Word16Bytes
    <3>2. HeaderBytes(g) = from_uint16(g.m_cmd) \o <<>>
      BY <1>7 DEF HeaderBytes
    <3>. QED  BY <3>1, <3>2, ConcatEmptySeq
  <2>5. uint16At(w, i) = g.m_cmd /\ after16(w, i) = i + 2
    BY <1>1, <2>3, <2>4, Word16Read, FitsWord
  <2>6. i + 2 = Len(w)
    <3>1. Len(p.m_entries) = 0 /\ Len(p.m_dataSets) = 0
      <4>1. PICK a \in Nat, c \in Nat : a = Len(p.m_entries) /\ c = Len(p.m_dataSets)
        BY DEF GoodPacket, BuiltPackets
      <4>2. a + c = 0
        BY <1>2, <2>1, <4>1 DEF Turns
      <4>3. a = 0 /\ c = 0
        BY <4>2
      <4>. QED  BY <4>1, <4>3
    <3>2. p.m_entries = <<>> /\ p.m_dataSets = <<>>
      BY <3>1, EmptySeq DEF GoodPacket, BuiltPackets
    <3>3. EntriesBytes(<<>>) = <<>> /\ DataSetsBytes(<<>>) = <<>>
      <4>1. [k \in {} |-> EntryBytes(<<>>[k])] = <<>> /\ [k \in {} |-> DataSetBytes(<<>>[k])] = <<>>
        OBVIOUS
      <4>2. FlattenSeq(<<>>) = <<>>
        BY FlattenFacts
      <4>. QED  BY <4>1, <4>2 DEF EntriesBytes, DataSetsBytes, DataSetParts
    <3>4. Len(PacketBytes(p)) = 2
      <4>1. Len(PacketBytes(p)) = Len(HeaderBytes(p.header)) + Len(EntriesBytes(p.m_entries))
                                    + Len(DataSetsBytes(p.m_dataSets))
        BY PacketBytesTyped DEF GoodPacket
      <4>2. Len(EntriesBytes(p.m_entries)) = 0 /\ Len(DataSetsBytes(p.m_dataSets)) = 0
        <5>1. EntriesBytes(p.m_entries) = <<>> /\ DataSetsBytes(p.m_dataSets) = <<>>
          BY <3>2, <3>3
        <5>2. Len(<<>>) = 0
          OBVIOUS
        <5>. QED  BY <5>1, <5>2
      <4>3. Len(HeaderBytes(p.header)) = 2
        BY <1>1, <2>2
      <4>. QED  BY <4>1, <4>2, <4>3
    <3>. QED  BY <2>1, <3>4
  <2>7. uint16At(w, i + 2) = 0 /\ after16(w, i + 2) = i + 2
    BY <2>6 DEF uint16At, after16, isEnoughAt
  <2>8. TypeOf(g) \in PrefixedTypes
    BY <1>7 DEF Prefixed, TypeOf
  <2>9. h.cmd = g.m_cmd /\ h.type = TypeOf(g) /\ h.size = 0 /\ h.next = i + 2
    BY <1>4, <2>5, <2>7, <2>8 DEF HeaderAt, TypedHeader, TypeOf
  <2>. QED  BY <1>1, <1>2, <2>1, <2>2, <2>9
<1>. QED  BY <1>4, <1>5, <1>6, <1>7

\* The state of TcpPacket::m_parse between two packets.
FrameState(x, o) == [m_packets |-> x, next |-> o]

\* TcpPacket::m_parse takes one packet out of the bytes that Packet::build made.
LEMMA PacketRead ==
  ASSUME NEW w \in Seq(Byte), NEW i \in Nat, NEW p, NEW last, GoodPacket(p, last),
         At(w, i, PacketBytes(p)), last => i + Len(PacketBytes(p)) = Len(w), NEW ps
  PROVE  FrameTurn(w, FrameState(ps, i)) =
           FrameState(Append(ps, Seen(p)), i + Len(PacketBytes(p)))
<1>1. PICK g \in Headers, es \in BuiltArrays, dss \in Seq(BuiltDataSets) :
        g = p.header /\ es = p.m_entries /\ dss = p.m_dataSets
  BY DEF GoodPacket, BuiltPackets, BuiltArrays
<1>2. PICK b \in Seq(Byte), c \in Seq(Byte), d \in Seq(Byte) :
        b = HeaderBytes(g) /\ c = EntriesBytes(es) /\ d = DataSetsBytes(dss) /\ Len(b) >= 2
  BY <1>1, PacketBytesTyped DEF GoodPacket
<1>3. PICK m \in Nat, n \in Nat, q \in Nat, lw \in Nat :
        m = Len(b) /\ n = Len(c) /\ q = Len(d) /\ lw = Len(w)
  OBVIOUS
<1>4. Len(PacketBytes(p)) = m + n + q /\ m >= 2
  <2>1. Len(PacketBytes(p)) = Len(b) + Len(c) + Len(d)
    BY <1>1, <1>2, PacketBytesTyped DEF GoodPacket
  <2>. QED  BY <1>2, <1>3, <2>1
<1>5. At(w, i, b) /\ At(w, i + m, c) /\ At(w, (i + m) + n, d)
  <2>1. At(w, i, (b \o c) \o d)
    BY <1>1, <1>2, PacketBytesTyped DEF GoodPacket
  <2>2. b \o c \in Seq(Byte) /\ Len(b \o c) = m + n
    BY <1>3, ConcatProperties
  <2>3. At(w, i, b \o c) /\ At(w, i + Len(b \o c), d)
    BY <2>1, <2>2, AtConcat
  <2>4. At(w, i, b) /\ At(w, i + Len(b), c)
    BY <2>3, AtConcat
  <2>5. i + (m + n) = (i + m) + n
    OBVIOUS
  <2>. QED  BY <1>3, <2>2, <2>3, <2>4, <2>5
<1>6. PICK o \in Nat : o = i + (m + n + q) /\ o = ((i + m) + n) + q /\ o <= lw /\ i + 2 <= o
  <2>1. ((i + m) + n) + q <= lw
    BY <1>3, <1>5 DEF At
  <2>. QED  BY <1>4, <2>1
<1>7. PICK h : h = HeaderAt(w, i)
  OBVIOUS
<1>8. /\ h.cmd = g.m_cmd /\ h.type = TypeOf(g) /\ h.next = i + m /\ h.size \in Nat
      /\ h.size = Turns(p) \/ (h.size > Turns(p) /\ o = Len(w))
  <2>1. o = i + Len(PacketBytes(p)) /\ (last => o = Len(w)) /\ At(w, i, HeaderBytes(p.header))
    BY <1>1, <1>2, <1>4, <1>5, <1>6
  <2>2. /\ h.cmd = p.header.m_cmd /\ h.type = TypeOf(p.header)
        /\ h.next = i + Len(HeaderBytes(p.header))
        /\ h.size \in Nat
        /\ h.size = Turns(p) \/ (h.size > Turns(p) /\ o = Len(w))
    BY <1>7, <2>1, PacketHeaderRead
  <2>3. p.header = g /\ Len(HeaderBytes(p.header)) = m
    BY <1>1, <1>2, <1>3
  <2>. QED  BY <2>2, <2>3
<1>9. PICK k \in Nat : k = h.size
  BY <1>8
<1>10. k = Len(es) + Len(dss) \/ (k > Len(es) + Len(dss) /\ o = Len(w))
  BY <1>1, <1>8, <1>9 DEF Turns
<1>11. ReadTurns(w, i + m, k) = TurnState(EntriesSeen(es), DataSetsSeen(dss), o)
  <2>1. /\ \A j \in 1 .. Len(es) : GoodEntry(es[j])
        /\ \A j \in 1 .. Len(dss) : PlainDataSet(dss[j])
    BY <1>1 DEF GoodPacket
  <2>2. /\ At(w, i + m, EntriesBytes(es))
        /\ At(w, (i + m) + Len(EntriesBytes(es)), DataSetsBytes(dss))
        /\ o = (i + m) + Len(EntriesBytes(es)) + Len(DataSetsBytes(dss))
        /\ i + m \in Nat
    BY <1>2, <1>3, <1>5, <1>6
  <2>. QED  BY <1>10, <2>1, <2>2, TurnsRead
<1>12. PICK r : r = ReadTurns(w, i + m, k)
  OBVIOUS
<1>13. r.m_entries = EntriesSeen(es) /\ r.m_dataSets = DataSetsSeen(dss) /\ r.next = o
  BY <1>11, <1>12 DEF TurnState
<1>14. PICK x : x = Seen(p)
  OBVIOUS
<1>15. x = [cmd |-> h.cmd, m_entries |-> r.m_entries, m_dataSets |-> r.m_dataSets]
  BY <1>1, <1>8, <1>13, <1>14 DEF Seen, DataSetsSeen
<1>16. h.type # NoType
  BY <1>8, CodesTyped
<1>17. i \notin {Lost, Len(w)} /\ i + 1 # Len(w)
  BY <1>3, <1>6 DEF Lost
<1>18. PICK t : t = [m_packets |-> ps, next |-> i]
  OBVIOUS
<1>19. FrameTurn(w, t) = [m_packets |-> Append(ps, x), next |-> o]
  <2>1. t.next = i /\ t.m_packets = ps
    BY <1>18
  <2>2. r = ReadTurns(w, h.next, h.size)
    BY <1>8, <1>9, <1>12
  <2>. QED  BY <1>7, <1>13, <1>15, <1>16, <1>17, <2>1, <2>2 DEF FrameTurn, WithPacket
<1>20. o = i + Len(PacketBytes(p))
  BY <1>4, <1>6
<1>. QED  BY <1>14, <1>18, <1>19, <1>20 DEF FrameState

-----------------------------------------------------------------------------
(* Frames *)

PacketsSeen(ps) == [k \in DOMAIN ps |-> Seen(ps[k])]

\* Where the packets occur.
LEMMA PacketsAt ==
  ASSUME NEW w \in Seq(Byte), NEW i \in Nat, NEW ps \in Seq(BuiltPackets),
         At(w, i, PacketsBytes(ps))
  PROVE  \E off \in [0 .. Len(ps) -> Nat] :
           /\ off[0] = i /\ off[Len(ps)] = i + Len(PacketsBytes(ps))
           /\ \A k \in 1 .. Len(ps) : /\ off[k] = off[k - 1] + Len(PacketBytes(ps[k]))
                                      /\ off[k] >= off[k - 1] + 2
                                      /\ off[k] <= Len(w)
                                      /\ At(w, off[k - 1], PacketBytes(ps[k]))
<1>1. PICK n \in Nat : n = Len(ps)
  OBVIOUS
<1>2. PICK s \in Seq(Seq(Byte)) : s = PacketParts(ps)
  BY PacketPartsTyped
<1>3. /\ Len(s) = n /\ PacketsBytes(ps) = FlattenSeq(s)
      /\ \A k \in 1 .. n : s[k] = PacketBytes(ps[k])
  BY <1>1, <1>2, PacketPartsTyped DEF PacketsBytes
<1>4. PICK off \in [0 .. n -> Nat] :
           /\ off[0] = i /\ off[n] = i + Len(PacketsBytes(ps))
           /\ \A k \in 1 .. n : off[k] = off[k - 1] + Len(s[k]) /\ At(w, off[k - 1], s[k])
  <2>1. At(w, i, FlattenSeq(s))
    BY <1>3
  <2>2. \E off \in [0 .. Len(s) -> Nat] :
           /\ off[0] = i /\ off[Len(s)] = i + Len(FlattenSeq(s))
           /\ \A k \in 1 .. Len(s) : /\ off[k] = off[k - 1] + Len(s[k])
                                     /\ At(w, off[k - 1], s[k])
    BY <2>1, AtFlatten
  <2>. QED  BY <1>3, <2>2
<1>5. ASSUME NEW k \in 1 .. n
      PROVE  off[k] >= off[k - 1] + 2 /\ off[k] <= Len(w)
  <2>1. ps[k] \in BuiltPackets
    BY <1>1
  <2>2. PICK m \in Nat : m = Len(s[k]) /\ m >= 2
    BY <1>3, <2>1, PacketBytesTyped
  <2>3. off[k - 1] \in Nat /\ off[k] = off[k - 1] + m
    BY <1>4, <2>2
  <2>4. off[k - 1] + m <= Len(w)
    BY <1>4, <2>2 DEF At
  <2>. QED  BY <2>2, <2>3, <2>4
<1>. QED  BY <1>1, <1>3, <1>4, <1>5

LEMMA PacketsSeenFacts ==
  ASSUME NEW ps \in Seq(BuiltPackets)
  PROVE  LET x == PacketsSeen(ps)
         IN  /\ Prefix(x, 0) = <<>> /\ Prefix(x, Len(ps)) = x
             /\ \A k \in 1 .. Len(ps) : Append(Prefix(x, k - 1), Seen(ps[k])) = Prefix(x, k)
<1>1. PICK x : x = PacketsSeen(ps)
  OBVIOUS
<1>2. PICK n \in Nat : n = Len(ps) /\ DOMAIN ps = 1 .. n
  OBVIOUS
<1> DEFINE X == {Seen(ps[k]) : k \in 1 .. n}
<1>3. x = [k \in 1 .. n |-> Seen(ps[k])]
  BY <1>1, <1>2 DEF PacketsSeen
<1>4. \A k \in 1 .. n : Seen(ps[k]) \in X
  OBVIOUS
<1> HIDE DEF X
<1>5. x \in Seq(X) /\ Len(x) = n /\ \A k \in 1 .. n : x[k] = Seen(ps[k])
  BY <1>3, <1>4
<1>6. /\ Prefix(x, 0) = <<>> /\ Prefix(x, n) = x
      /\ \A k \in 1 .. n : Append(Prefix(x, k - 1), x[k]) = Prefix(x, k)
  BY <1>5, PrefixFacts
<1>. QED  BY <1>1, <1>2, <1>5, <1>6

\* f has the states of the loop in TcpPacket::m_parse.
FrameTurns(w, i, n, f) ==
  f = [k \in 0 .. n |-> IF k = 0 THEN [m_packets |-> <<>>, next |-> i]
                        ELSE FrameTurn(w, f[k - 1])]

\* The loop is left.
FrameDone(w, s) == s.next \in {Lost, Len(w)}

\* A function with these states is the one the loop computes, and the loop is
\* left in one of those that leave it.
LEMMA FrameLoop ==
  ASSUME NEW w \in Seq(Byte), NEW i, NEW n \in Nat, n = TurnsIn(w, i),
         NEW f, FrameTurns(w, i, n, f),
         NEW k \in 0 .. n, k = CHOOSE j \in 0 .. n : FrameDone(w, f[j])
  PROVE  ReadPackets(w, i) = IF f[k].next = Lost THEN [status |-> "lost", m_packets |-> <<>>]
                             ELSE [status |-> "parsed", m_packets |-> f[k].m_packets]
<1> DEFINE F == CHOOSE read :
             read = [j \in 0 .. n |-> IF j = 0 THEN [m_packets |-> <<>>, next |-> i]
                                      ELSE FrameTurn(w, read[j - 1])]
<1>1. F = [j \in 0 .. n |-> IF j = 0 THEN [m_packets |-> <<>>, next |-> i]
                            ELSE FrameTurn(w, F[j - 1])]
  BY Zenon DEF FrameTurns
<1>2. ReadPackets(w, i) =
        LET s == F[CHOOSE j \in 0 .. n : F[j].next \in {Lost, Len(w)}]
        IN  IF s.next = Lost THEN [status |-> "lost", m_packets |-> <<>>]
            ELSE [status |-> "parsed", m_packets |-> s.m_packets]
  BY Zenon DEF ReadPackets, AllRead
<1> HIDE DEF F
<1> DEFINE S == {j \in Nat : j <= n => F[j] = f[j]}
<1>3. 0 \in S
  BY <1>1 DEF FrameTurns
<1>4. ASSUME NEW j \in Nat, j \in S PROVE j + 1 \in S
  <2> SUFFICES ASSUME j + 1 <= n PROVE F[j + 1] = f[j + 1]
    OBVIOUS
  <2>1. j + 1 \in 0 .. n /\ j + 1 # 0 /\ (j + 1) - 1 = j
    OBVIOUS
  <2>2. F[j] = f[j]
    BY <1>4
  <2>3. F[j + 1] = FrameTurn(w, F[(j + 1) - 1])
    BY <1>1, <2>1, Zenon
  <2>4. f[j + 1] = FrameTurn(w, f[(j + 1) - 1])
    BY <2>1, Zenon DEF FrameTurns
  <2>. QED  BY <2>1, <2>2, <2>3, <2>4, Zenon
<1>5. Nat \subseteq S
  <2> HIDE DEF S
  <2>. QED  BY <1>3, <1>4, SetInduction
<1>6. \A j \in 0 .. n : F[j] = f[j]
  BY <1>5
<1>7. F = f
  <2>1. F = [j \in 0 .. n |-> F[j]]
    BY <1>1
  <2>2. f = [j \in 0 .. n |-> f[j]]
    BY DEF FrameTurns
  <2>3. [j \in 0 .. n |-> F[j]] = [j \in 0 .. n |-> f[j]]
    BY <1>6, Zenon
  <2>. QED  BY <2>1, <2>2, <2>3, Zenon
<1>. QED  BY <1>2, <1>7, Zenon DEF FrameDone

\* TcpPacket::m_parse reads what TcpPacket::build wrote behind the size.
LEMMA PacketsRead ==
  ASSUME NEW w \in Seq(Byte), NEW i \in Nat, NEW ps \in Seq(BuiltPackets),
         \A k \in 1 .. Len(ps) : GoodPacket(ps[k], k = Len(ps)),
         At(w, i, PacketsBytes(ps)), i + Len(PacketsBytes(ps)) = Len(w)
  PROVE  ReadPackets(w, i) = [status |-> "parsed", m_packets |-> PacketsSeen(ps)]
<1>1. PICK n \in Nat, lw \in Nat : n = Len(ps) /\ lw = Len(w)
  OBVIOUS
<1>2. PICK off \in [0 .. n -> Nat] :
        /\ off[0] = i /\ off[n] = lw
        /\ \A k \in 1 .. n : /\ off[k] = off[k - 1] + Len(PacketBytes(ps[k]))
                             /\ off[k] >= off[k - 1] + 2
                             /\ off[k] <= lw
                             /\ At(w, off[k - 1], PacketBytes(ps[k]))
  <2>1. \E off \in [0 .. Len(ps) -> Nat] :
           /\ off[0] = i /\ off[Len(ps)] = i + Len(PacketsBytes(ps))
           /\ \A k \in 1 .. Len(ps) : /\ off[k] = off[k - 1] + Len(PacketBytes(ps[k]))
                                      /\ off[k] >= off[k - 1] + 2
                                      /\ off[k] <= Len(w)
                                      /\ At(w, off[k - 1], PacketBytes(ps[k]))
    BY PacketsAt
  <2>. QED  BY ONLY <1>1, <2>1, i + Len(PacketsBytes(ps)) = Len(w), Zenon
<1>3. PICK x : x = PacketsSeen(ps)
  OBVIOUS
<1>4. /\ Prefix(x, 0) = <<>> /\ Prefix(x, n) = x
      /\ \A k \in 1 .. n : Append(Prefix(x, k - 1), Seen(ps[k])) = Prefix(x, k)
  BY <1>1, <1>3, PacketsSeenFacts, Zenon
<1>5. PICK m \in Nat : m = TurnsIn(w, i) /\ 2 * m >= lw - i
  <2>1. i <= lw
    BY <1>1, i + Len(PacketsBytes(ps)) = Len(w), PacketPartsTyped
  <2>2. PICK d \in Nat : d = lw - i
    BY <2>1
  <2>3. d \div 2 \in Nat /\ 2 * (d \div 2 + 1) >= d
    OBVIOUS
  <2>. QED  BY <1>1, <2>2, <2>3 DEF TurnsIn
<1>6. \A k \in 0 .. n : off[k] >= i + 2 * k /\ lw >= off[k] + 2 * (n - k)
  <2>1. \A k \in 1 .. n : off[k] >= off[k - 1] + 2
    BY <1>2
  <2>2. \A k \in 0 .. n : off[k] >= off[0] + 2 * k /\ off[n] >= off[k] + 2 * (n - k)
    BY <2>1, TwoBytesEach
  <2>. QED  BY <1>2, <2>2
<1>7. n <= m
  <2>1. lw >= off[0] + 2 * (n - 0)
    BY <1>6
  <2>2. 2 * n <= lw - i
    BY <1>2, <2>1
  <2>. QED  BY <1>5, <2>2
<1> DEFINE State(k) == IF k <= n THEN FrameState(Prefix(x, k), off[k]) ELSE FrameState(x, lw)
<1>8. PICK f : f = [k \in 0 .. m |-> State(k)]
  OBVIOUS
<1>9. ASSUME NEW k \in 1 .. m PROVE State(k) = FrameTurn(w, State(k - 1))
  <2>1. CASE k <= n
    <3>1. k - 1 \in 0 .. n /\ k \in 0 .. n /\ k \in 1 .. n /\ k - 1 <= n
      BY <2>1
    <3>2. PICK j \in Nat : j = off[k - 1]
      BY <1>2, <3>1
    <3>3. PICK p : p = ps[k]
      OBVIOUS
    <3>4. PICK o : o = j + Len(PacketBytes(p))
      OBVIOUS
    <3>5. o = off[k] /\ At(w, j, PacketBytes(p))
      BY <1>2, <3>1, <3>2, <3>3, <3>4
    <3>6. PICK last : last = (k = Len(ps))
      OBVIOUS
    <3>7. GoodPacket(p, last) /\ (last => o = Len(w))
      BY <1>1, <1>2, <3>1, <3>3, <3>5, <3>6
    <3>8. PICK q : q = Prefix(x, k - 1)
      OBVIOUS
    <3>9. FrameTurn(w, FrameState(q, j)) = FrameState(Append(q, Seen(p)), o)
      <4>1. GoodPacket(p, last) /\ At(w, j, PacketBytes(p))
        BY <3>5, <3>7
      <4>2. last => j + Len(PacketBytes(p)) = Len(w)
        BY <3>4, <3>7
      <4>. QED  BY <3>4, <4>1, <4>2, PacketRead
    <3>10. Append(q, Seen(p)) = Prefix(x, k)
      BY <1>4, <3>1, <3>3, <3>8
    <3>11. State(k - 1) = FrameState(q, j)
      BY <3>1, <3>2, <3>8
    <3>12. State(k) = FrameState(Prefix(x, k), o)
      BY <2>1, <3>5
    <3>. QED  BY <3>9, <3>10, <3>11, <3>12
  <2>2. CASE k > n
    <3>1. State(k) = FrameState(x, lw) /\ State(k - 1) = FrameState(x, lw)
      <4>1. CASE k - 1 = n
        BY <1>2, <1>4, <2>2, <4>1
      <4>2. CASE k - 1 > n
        BY <2>2, <4>2
      <4>. QED  BY <2>2, <4>1, <4>2
    <3>2. PICK t : t = FrameState(x, lw)
      OBVIOUS
    <3>3. t.next = Len(w)
      BY <1>1, <3>2 DEF FrameState
    <3>4. FrameTurn(w, t) = t
      BY <3>3 DEF FrameTurn
    <3>. QED  BY <3>1, <3>2, <3>4
  <2>. QED  BY <2>1, <2>2
<1>10. State(0) = FrameState(<<>>, i)
  BY <1>2, <1>4
<1>11. ASSUME NEW k \in 0 .. m PROVE FrameDone(w, State(k)) <=> k >= n
  <2>1. CASE k < n
    <3>1. k \in 0 .. n /\ State(k) = FrameState(Prefix(x, k), off[k])
      BY <2>1
    <3>2. off[k] \in Nat /\ lw >= off[k] + 2 * (n - k)
      BY <1>2, <1>6, <3>1
    <3>3. off[k] \notin {Lost, lw}
      BY <2>1, <3>2 DEF Lost
    <3>4. State(k).next = off[k]
      BY <3>1 DEF FrameState
    <3>. QED  BY <1>1, <2>1, <3>3, <3>4 DEF FrameDone
  <2>2. CASE k >= n
    <3>1. State(k) = FrameState(x, lw) \/ State(k) = FrameState(Prefix(x, n), off[n])
      BY <2>2
    <3>2. State(k) = FrameState(x, lw)
      BY <1>2, <1>4, <3>1
    <3>. QED  BY <1>1, <2>2, <3>2 DEF FrameDone, FrameState
  <2>. QED  BY <2>1, <2>2
<1>12. ASSUME NEW k \in 0 .. m, k >= n PROVE State(k) = FrameState(x, lw)
  <2>1. State(k) = FrameState(x, lw) \/ State(k) = FrameState(Prefix(x, n), off[n])
    BY <1>12
  <2>. QED  BY <1>2, <1>4, <2>1
<1> HIDE DEF State
<1>13. FrameTurns(w, i, m, f)
  <2>1. f[0] = [m_packets |-> <<>>, next |-> i]
    BY <1>8, <1>10 DEF FrameState
  <2>2. ASSUME NEW k \in 1 .. m PROVE f[k] = FrameTurn(w, f[k - 1])
    <3>1. f[k] = State(k) /\ f[k - 1] = State(k - 1)
      BY <1>8
    <3>. QED  BY <1>9, <3>1
  <2>3. \A k \in 0 .. m : k = 0 \/ k \in 1 .. m
    OBVIOUS
  <2>4. \A k \in 0 .. m : f[k] = IF k = 0 THEN [m_packets |-> <<>>, next |-> i]
                                ELSE FrameTurn(w, f[k - 1])
    BY <2>1, <2>2, <2>3, Zenon
  <2>5. f = [k \in 0 .. m |-> f[k]]
    BY <1>8
  <2>. QED  BY <2>4, <2>5 DEF FrameTurns
<1>14. PICK k : k = CHOOSE j \in 0 .. m : FrameDone(w, f[j])
  OBVIOUS
<1>15. k \in 0 .. m /\ FrameDone(w, f[k])
  <2>1. n \in 0 .. m /\ FrameDone(w, f[n])
    <3>1. n \in 0 .. m /\ n >= n
      BY <1>7
    <3>. QED  BY <1>8, <1>11, <3>1
  <2>. QED  BY <1>14, <2>1, Zenon
<1>16. f[k] = FrameState(x, lw)
  <2>1. k >= n
    BY <1>8, <1>11, <1>15
  <2>. QED  BY <1>8, <1>12, <1>15, <2>1
<1>17. f[k].next = lw /\ f[k].m_packets = x
  BY <1>16 DEF FrameState
<1>18. ReadPackets(w, i) = IF f[k].next = Lost THEN [status |-> "lost", m_packets |-> <<>>]
                           ELSE [status |-> "parsed", m_packets |-> f[k].m_packets]
  BY <1>5, <1>13, <1>14, <1>15, FrameLoop
<1>19. lw # Lost
  BY DEF Lost
<1>. QED  BY <1>3, <1>17, <1>18, <1>19

\* The constructors of TcpPacket read what TcpPacket::build wrote.
LEMMA FrameRead ==
  ASSUME NEW ps \in Seq(BuiltPackets), NEW w, w = FrameBytes(ps),
         \A k \in 1 .. Len(ps) : GoodPacket(ps[k], k = Len(ps)),
         (Len(w) - 2) % Word # 0
  PROVE  Read(w) = [status |-> "parsed", m_packets |-> PacketsSeen(ps)]
<1>1. PICK c \in Seq(Byte), n \in Nat : c = PacketsBytes(ps) /\ n = Len(c)
  BY PacketPartsTyped
<1>2. PICK b \in Seq(Byte) : b = from_uint16(n) /\ Len(b) = 2
  BY Word16Bytes
<1>3. w = b \o c /\ w \in Seq(Byte) /\ Len(w) = 2 + n
  BY <1>1, <1>2, FrameBytesTyped
<1>4. At(w, 0, b) /\ At(w, 2, c)
  <2>1. At(w, 0, b \o c)
    BY <1>3 DEF At
  <2>2. At(w, 0, b) /\ At(w, 0 + Len(b), c)
    BY <1>3, <2>1, AtConcat
  <2>. QED  BY <1>2, <2>2
<1>5. uint16At(w, 0) = n % Word /\ after16(w, 0) = 2
  <2>1. At(w, 0, from_uint16(n))
    BY <1>2, <1>4
  <2>2. uint16At(w, 0) = n % Word /\ after16(w, 0) = 0 + 2
    BY <1>3, <2>1, Word16Read
  <2>. QED  BY <2>2
<1>6. n % Word # 0
  <2>1. (Len(w) - 2) = n
    BY <1>3
  <2>. QED  BY <2>1
<1>7. n % Word \in Nat /\ n % Word <= n
  BY TwoDigits, RadixAssumption DEF Word
<1>8. Read(w) = ReadPackets(w, 2)
  <2>1. ~(n % Word > Len(w) - 2)
    BY <1>3, <1>7
  <2>. QED  BY <1>5, <1>6, <2>1 DEF Read
<1>9. ReadPackets(w, 2) = [status |-> "parsed", m_packets |-> PacketsSeen(ps)]
  <2>1. At(w, 2, PacketsBytes(ps)) /\ 2 + Len(PacketsBytes(ps)) = Len(w) /\ 2 \in Nat
    BY <1>1, <1>3, <1>4
  <2>. QED  BY <1>3, <2>1, PacketsRead
<1>. QED  BY <1>8, <1>9

\* The size in front of a frame is that of the bytes behind it: what is cut
\* short has less, and if even the size is cut, it is 0.
LEMMA PartRead ==
  ASSUME NEW ps \in Seq(BuiltPackets), NEW w, w = FrameBytes(ps), Len(w) - 2 < Word,
         NEW n \in 0 .. Len(w) - 1
  PROVE  Read(SubSeq(w, 1, n)) = [status |-> "refused", m_packets |-> <<>>]
<1>1. PICK c \in Seq(Byte), m \in Nat : c = PacketsBytes(ps) /\ m = Len(c)
  BY PacketPartsTyped
<1>2. PICK b \in Seq(Byte) : b = from_uint16(m) /\ Len(b) = 2
  BY Word16Bytes
<1>3. w = b \o c /\ w \in Seq(Byte) /\ Len(w) = 2 + m /\ m < Word /\ n < 2 + m
  BY <1>1, <1>2, FrameBytesTyped
<1>4. PICK v : v = SubSeq(w, 1, n)
  OBVIOUS
<1>5. v \in Seq(Byte) /\ Len(v) = n /\ \A k \in 1 .. n : v[k] = w[k]
  <2>1. 1 \in Nat /\ n \in Nat /\ n <= Len(w) /\ Len(w) \in Nat
    BY <1>3
  <2>2. \A k \in 1 .. n : w[k] \in Byte
    BY <1>3, <2>1
  <2>3. v \in Seq(Byte) /\ Len(v) = n
    BY <1>4, <2>1, <2>2, SubSeqProperties
  <2>4. \A k \in 1 .. n : v[k] = w[k]
    BY <1>3, <1>4, <2>1
  <2>. QED  BY <2>3, <2>4
<1>6. CASE n < 2
  <2>1. uint16At(v, 0) = 0
    BY <1>5, <1>6 DEF uint16At, isEnoughAt
  <2>. QED  BY <1>4, <2>1 DEF Read
<1>7. CASE n >= 2
  <2>1. At(v, 0, b)
    <3>1. b[1] = w[1] /\ b[2] = w[2]
      <4>1. At(w, 0, b \o c)
        BY <1>3 DEF At
      <4>2. At(w, 0, b)
        BY <1>3, <4>1, AtConcat
      <4>. QED  BY <1>2, <4>2 DEF At
    <3>2. \A k \in 1 .. 2 : v[0 + k] = b[k]
      <4>1. v[0 + 1] = b[1] /\ v[0 + 2] = b[2]
        BY <1>5, <1>7, <3>1
      <4>. QED  BY <4>1
    <3>. QED  BY <1>2, <1>5, <1>7, <3>2 DEF At
  <2>2. uint16At(v, 0) = m /\ after16(v, 0) = 2
    <3>1. uint16At(v, 0) = m % Word /\ after16(v, 0) = 0 + 2
      BY <1>2, <1>5, <2>1, Word16Read
    <3>2. m % Word = m
      BY <1>3, FitsWord
    <3>. QED  BY <3>1, <3>2
  <2>3. m > n - 2 /\ Len(v) = n
    BY <1>3, <1>5
  <2>. QED  BY <1>4, <2>2, <2>3 DEF Read
<1>. QED  BY <1>6, <1>7

-----------------------------------------------------------------------------
(* What is readable is read back *)

\* An array, a data set and a packet that build() leaves alone, of which the
\* conditions of ReadableFrame hold, have the form the reader expects.
LEMMA ArrayIsPlain ==
  ASSUME NEW a \in Seq(ShapedEntries), SanitizedEntries(a) = a, ReadableArray(a)
  PROVE  PlainArray(a)
<1>1. a \in BuiltArrays /\ Len(a) < Word
  BY ShapedTyped DEF ReadableArray
<1>2. \A k \in 1 .. Len(a) : CorrectEntry(a[k])
  BY EntriesAreCorrect
<1>3. \A k \in 1 .. Len(a) : /\ TypeOf(a[k].header) # DATA_SET
                             /\ SizeFits(a[k].header, Len(a[k].m_data))
  BY DEF ReadableArray, TypeOf
<1>. QED  BY <1>1, <1>2, <1>3 DEF PlainArray, PlainEntry

LEMMA DataSetIsPlain ==
  ASSUME NEW ds \in ShapedDataSets, SanitizedDataSet(ds) = ds, ReadableDataSet(ds)
  PROVE  PlainDataSet(ds)
<1>1. PICK A : A = Seq(ShapedEntries)
  OBVIOUS
<1>2. PICK h \in Headers, d \in Seq(A) : h = ds.header /\ d = ds.m_anonArrays
  BY <1>1 DEF ShapedDataSets
<1>3. ProperHeader(h)
  BY <1>2 DEF ShapedDataSets
<1>4. TypeOf(h) = DATA_SET /\ Len(d) < Word
        /\ \A k \in 1 .. Len(d) : ReadableArray(d[k])
  BY <1>2 DEF ReadableDataSet, TypeOf
<1>5. h.m_sizeWidth # 0
  BY <1>3, <1>4 DEF ProperHeader, TypeOf, Prefixed, PrefixedTypes, DATA_SET
<1>6. SanitizedDataSet(ds) = [header |-> setSize(h, Len(d)), m_anonArrays |-> SanitizedArrays(d)]
  BY <1>2, <1>5 DEF SanitizedDataSet, sanitizePayloadSizeByType
<1>7. setSize(h, Len(d)) = h /\ SanitizedArrays(d) = d
  <2>1. SanitizedDataSet(ds).header = setSize(h, Len(d))
        /\ SanitizedDataSet(ds).m_anonArrays = SanitizedArrays(d)
    BY <1>6
  <2>. QED  BY <1>2, <2>1
<1>8. h.m_contentSize = Len(d)
  <2>1. Len(d) \in Nat
    OBVIOUS
  <2>2. setSize(h, Len(d)).m_contentSize = Len(d)
    BY <2>1, HeaderKept
  <2>. QED  BY <1>7, <2>2
<1>9. ASSUME NEW k \in 1 .. Len(d) PROVE PlainArray(d[k])
  <2>1. d[k] \in A
    OBVIOUS
  <2>2. SanitizedArrays(d)[k] = SanitizedEntries(d[k])
    BY DEF SanitizedArrays
  <2>3. SanitizedEntries(d[k]) = d[k]
    BY <1>7, <2>2
  <2>. QED  BY <1>1, <1>4, <2>1, <2>3, ArrayIsPlain
<1>10. ds \in BuiltDataSets
  BY ShapedTyped
<1>. QED  BY <1>2, <1>3, <1>4, <1>8, <1>9, <1>10 DEF PlainDataSet

LEMMA PacketIsGood ==
  ASSUME NEW p \in ShapedPackets, SanitizedPacket(p) = p, NEW last, ReadableCount(p, last),
         \A i \in DOMAIN p.m_entries : ReadableEntry(p.m_entries[i]),
         \A i \in DOMAIN p.m_dataSets : ReadableDataSet(p.m_dataSets[i])
  PROVE  GoodPacket(p, last)
<1>1. PICK h \in Headers, es \in Seq(ShapedEntries), dss \in Seq(ShapedDataSets) :
        h = p.header /\ es = p.m_entries /\ dss = p.m_dataSets
  BY DEF ShapedPackets
<1>2. PICK n \in Nat : n = Turns(p)
  <2>1. PICK a \in Nat, b \in Nat : a = Len(es) /\ b = Len(dss)
    OBVIOUS
  <2>2. Turns(p) = a + b
    BY <1>1, <2>1 DEF Turns
  <2>. QED  BY <2>2
<1>3. setSize(h, n) = h /\ SanitizedEntries(es) = es /\ SanitizedDataSets(dss) = dss
  <2>1. SanitizedPacket(p) = [header |-> setSize(h, n), m_entries |-> SanitizedEntries(es),
                              m_dataSets |-> SanitizedDataSets(dss)]
    BY <1>1, <1>2 DEF SanitizedPacket
  <2>2. /\ SanitizedPacket(p).header = setSize(h, n)
        /\ SanitizedPacket(p).m_entries = SanitizedEntries(es)
        /\ SanitizedPacket(p).m_dataSets = SanitizedDataSets(dss)
    BY <2>1
  <2>. QED  BY <1>1, <2>2
<1>4. h.m_contentSize = n
  <2>1. setSize(h, n).m_contentSize = n
    BY HeaderKept
  <2>. QED  BY <1>3, <2>1
<1>5. ASSUME NEW k \in 1 .. Len(es) PROVE GoodEntry(es[k])
  <2>1. CorrectEntry(es[k])
    BY <1>3, EntriesAreCorrect
  <2>2. ReadableEntry(es[k])
    BY <1>1
  <2>. QED  BY <2>1, <2>2 DEF GoodEntry, PlainEntry, ReadableEntry, TypeOf, EntrySeen, isValid
<1>6. ASSUME NEW k \in 1 .. Len(dss) PROVE PlainDataSet(dss[k])
  <2>1. dss[k] \in ShapedDataSets /\ ReadableDataSet(dss[k])
    BY <1>1
  <2>2. SanitizedDataSets(dss)[k] = SanitizedDataSet(dss[k])
    BY DEF SanitizedDataSets
  <2>3. SanitizedDataSet(dss[k]) = dss[k]
    BY <1>3, <2>2
  <2>. QED  BY <2>1, <2>3, DataSetIsPlain
<1>7. p \in BuiltPackets /\ (~Prefixed(h.m_cmd) => h.m_sizeWidth = 0)
  <2>1. ProperHeader(h) \/ Nameless(h)
    BY <1>1 DEF ShapedPackets
  <2>2. ~Prefixed(h.m_cmd) => h.m_sizeWidth = 0
    BY <2>1 DEF ProperHeader, Nameless
  <2>. QED  BY <2>2, ShapedTyped
<1>. QED  BY <1>1, <1>2, <1>4, <1>5, <1>6, <1>7 DEF GoodPacket

\* What one side builds out of packets whose counts and sizes fit their fields,
\* whose entries have a payload and stand under a code of their kind
\* (TcpPacket.cpp:55-67), the constructors of the other (TcpPacket.cpp:24-39)
\* parse into the same packets: nothing is lost, added or moved.
THEOREM RoundTrip == Spec => []ReadBackIfReadable
<1>1. Inv /\ ShapedInv => ReadBackIfReadable
  <2> SUFFICES ASSUME Inv, ShapedInv, wire # <<>>, ReadableFrame PROVE ReadBack
    BY DEF ReadBackIfReadable
  <2>1. m_packets \in Seq(BuiltPackets) /\ m_packets \in Seq(ShapedPackets)
    BY DEF Inv, ObjectsOK, ShapedInv
  <2>2. wire = FrameBytes(m_packets) /\ m_packets = SanitizedPackets(m_packets)
    BY DEF Inv, BuiltFromCorrected
  <2>3. ASSUME NEW k \in 1 .. Len(m_packets)
        PROVE  GoodPacket(m_packets[k], k = Len(m_packets))
    <3>1. m_packets[k] \in ShapedPackets
      BY <2>1
    <3>2. SanitizedPackets(m_packets)[k] = SanitizedPacket(m_packets[k])
      BY <2>1 DEF SanitizedPackets
    <3>3. SanitizedPacket(m_packets[k]) = m_packets[k]
      BY <2>2, <3>2
    <3>4. /\ ReadableCount(m_packets[k], k = Len(m_packets))
          /\ \A i \in DOMAIN m_packets[k].m_entries : ReadableEntry(m_packets[k].m_entries[i])
          /\ \A i \in DOMAIN m_packets[k].m_dataSets :
               ReadableDataSet(m_packets[k].m_dataSets[i])
      BY <2>1 DEF ReadableFrame, Readable
    <3>. QED  BY <3>1, <3>3, <3>4, PacketIsGood
  <2>4. (Len(wire) - 2) % Word # 0
    BY DEF ReadableFrame
  <2>5. Read(wire) = [status |-> "parsed", m_packets |-> PacketsSeen(m_packets)]
    BY <2>1, <2>2, <2>3, <2>4, FrameRead
  <2>. QED  BY <2>5 DEF ReadBack, PacketsSeen
<1>. QED  BY <1>1, Invariance, HeadersStayProper, PTL

\* A part of a frame within 16 bits, read before the rest has arrived, gives no
\* packets, wherever it is cut (TcpPacket.cpp:24-30 against 55-67).
THEOREM PartRefused == Spec => []NothingFromPart
<1>1. Inv => NothingFromPart
  <2>1. Inv => m_packets \in Seq(BuiltPackets)
    BY DEF Inv, ObjectsOK
  <2>2. Inv /\ wire # <<>> => wire = FrameBytes(m_packets)
    BY DEF Inv, BuiltFromCorrected
  <2>. QED  BY <2>1, <2>2, PartRead DEF NothingFromPart
<1>. QED  BY <1>1, Invariance, PTL

-----------------------------------------------------------------------------
(* What is read back is in the frame, or was all zeros *)

\* The bytes b occur in w behind the first i, but for zeros.
Shows(w, i, b) == \A k \in 1 .. Len(b) : b[k] # 0 => i + k <= Len(w) /\ w[i + k] = b[k]

Nothing(b) == \A k \in 1 .. Len(b) : b[k] = 0

\* A reader that started behind the first i bytes took b for what is up to e.
\* At the end of w, or one byte before, it reads nothing but zeros.
Took(w, i, e, b) ==
  /\ e \in i .. Len(w)
  /\ e = i + Len(b) \/ e + 1 >= Len(w)
  /\ Shows(w, i, b)
  /\ i + 1 >= Len(w) => Nothing(b)

\* Zeros occur everywhere.
LEMMA NothingShows ==
  ASSUME NEW w \in Seq(Byte), NEW b \in Seq(Byte), Nothing(b), NEW i
  PROVE  Shows(w, i, b)
BY DEF Nothing, Shows

\* What occurs one behind the other, but for zeros.
LEMMA ShowsConcat ==
  ASSUME NEW w \in Seq(Byte), NEW i \in Nat, NEW b \in Seq(Byte), NEW c \in Seq(Byte),
         Shows(w, i, b), Shows(w, i + Len(b), c) \/ Nothing(c)
  PROVE  Shows(w, i, b \o c)
<1>1. PICK m \in Nat, n \in Nat : m = Len(b) /\ n = Len(c)
  OBVIOUS
<1>2. PICK d : m = Len(b) /\ n = Len(c) /\ d = b \o c
  BY <1>1
<1>3. /\ Len(d) = m + n
      /\ \A k \in 1 .. m : d[k] = b[k]
      /\ \A k \in 1 .. n : d[m + k] = c[k]
  BY <1>2
<1>4. ASSUME NEW k \in 1 .. m + n, d[k] # 0 PROVE i + k <= Len(w) /\ w[i + k] = d[k]
  <2>1. CASE k <= m
    BY <1>2, <1>3, <1>4, <2>1 DEF Shows
  <2>2. CASE k > m
    <3>1. PICK j \in 1 .. n : k = m + j
      <4>1. k - m \in 1 .. n /\ k = m + (k - m)
        BY <2>2
      <4>. QED  BY <4>1
    <3>2. c[j] # 0 /\ d[k] = c[j] /\ (i + m) + j = i + k
      BY <1>3, <1>4, <3>1
    <3>3. ~Nothing(c)
      BY <1>2, <3>2 DEF Nothing
    <3>4. (i + m) + j <= Len(w) /\ w[(i + m) + j] = c[j]
      BY <1>2, <3>2, <3>3 DEF Shows
    <3>. QED  BY <3>2, <3>4
  <2>. QED  BY <2>1, <2>2
<1>. QED  BY <1>2, <1>3, <1>4 DEF Shows

\* Zeros behind zeros are zeros.
LEMMA NothingConcat ==
  ASSUME NEW b \in Seq(Byte), NEW c \in Seq(Byte), Nothing(b), Nothing(c)
  PROVE  Nothing(b \o c)
<1>1. PICK m \in Nat, n \in Nat : m = Len(b) /\ n = Len(c)
  OBVIOUS
<1>2. PICK d : m = Len(b) /\ n = Len(c) /\ d = b \o c
  BY <1>1
<1>3. /\ Len(d) = m + n
      /\ \A k \in 1 .. m : d[k] = b[k]
      /\ \A k \in 1 .. n : d[m + k] = c[k]
  BY <1>2
<1>4. ASSUME NEW k \in 1 .. m + n PROVE d[k] = 0
  <2>1. CASE k <= m
    BY <1>2, <1>3, <2>1 DEF Nothing
  <2>2. CASE k > m
    <3>1. k - m \in 1 .. n /\ k = m + (k - m)
      BY <2>2
    <3>2. d[m + (k - m)] = c[k - m] /\ c[k - m] = 0
      BY <1>2, <1>3, <3>1 DEF Nothing
    <3>. QED  BY <3>1, <3>2
  <2>. QED  BY <2>1, <2>2
<1>. QED  BY <1>2, <1>3, <1>4 DEF Nothing

\* One reader goes on where another stopped.
LEMMA TookConcat ==
  ASSUME NEW w \in Seq(Byte), NEW i \in Nat, NEW m, NEW e, NEW b \in Seq(Byte), NEW c \in Seq(Byte),
         Took(w, i, m, b), Took(w, m, e, c)
  PROVE  Took(w, i, e, b \o c)
<1>1. PICK lb \in Nat, lc \in Nat, lw \in Nat : lb = Len(b) /\ lc = Len(c) /\ lw = Len(w)
  OBVIOUS
<1>2. b \o c \in Seq(Byte) /\ Len(b \o c) = lb + lc
  BY <1>1, ConcatProperties
<1>3. m \in i .. lw /\ (m = i + lb \/ m + 1 >= lw) /\ Shows(w, i, b)
        /\ (i + 1 >= lw => Nothing(b))
  BY <1>1 DEF Took
<1>4. e \in m .. lw /\ (e = m + lc \/ e + 1 >= lw) /\ Shows(w, m, c)
        /\ (m + 1 >= lw => Nothing(c))
  BY <1>1 DEF Took
<1>5. e \in i .. lw
  BY <1>3, <1>4
<1>6. e = i + (lb + lc) \/ e + 1 >= lw
  BY <1>3, <1>4
<1>7. Shows(w, i, b \o c)
  <2>1. m = i + lb => Shows(w, i + lb, c)
    BY <1>4
  <2>2. Shows(w, i + lb, c) \/ Nothing(c)
    BY <1>3, <1>4, <2>1
  <2>. QED  BY <1>1, <1>3, <2>2, ShowsConcat
<1>8. i + 1 >= lw => Nothing(b \o c)
  <2>1. i + 1 >= lw => m + 1 >= lw
    BY <1>3
  <2>. QED  BY <1>3, <1>4, <2>1, NothingConcat
<1>. QED  BY <1>1, <1>2, <1>5, <1>6, <1>7, <1>8 DEF Took

\* A chain of readers.
LEMMA TookFlatten ==
  ASSUME NEW w \in Seq(Byte), NEW n \in Nat, NEW pos \in [0 .. n -> 0 .. Len(w)],
         NEW s \in Seq(Seq(Byte)), Len(s) = n,
         \A k \in 1 .. n : Took(w, pos[k - 1], pos[k], s[k])
  PROVE  Took(w, pos[0], pos[n], FlattenSeq(s))
<1>1. PICK Q : Q = Seq(Byte)
  OBVIOUS
<1>2. s \in Seq(Q)
  BY <1>1
<1>3. /\ Prefix(s, 0) = <<>> /\ Prefix(s, n) = s
      /\ \A k \in 1 .. n : Append(Prefix(s, k - 1), s[k]) = Prefix(s, k)
  BY <1>2, PrefixFacts
<1>4. \A k \in 0 .. n : Prefix(s, k) \in Seq(Q)
  <2> SUFFICES ASSUME NEW k \in 0 .. n PROVE Prefix(s, k) \in Seq(Q)
    OBVIOUS
  <2>1. \A j \in 1 .. k : s[j] \in Q
    BY <1>2
  <2>2. [j \in 1 .. k |-> s[j]] \in Seq(Q)
    BY <2>1
  <2>. QED  BY <2>2 DEF Prefix
<1>5. /\ FlattenSeq(<<>>) = <<>>
      /\ \A u \in Seq(Q) : FlattenSeq(u) \in Q
      /\ \A u \in Seq(Q), t \in Q : FlattenSeq(Append(u, t)) = FlattenSeq(u) \o t
  BY <1>1, FlattenFacts
<1> DEFINE S == {k \in Nat : k <= n => Took(w, pos[0], pos[k], FlattenSeq(Prefix(s, k)))}
<1>6. 0 \in S
  <2>1. pos[0] \in 0 .. Len(w) /\ Len(w) \in Nat
    OBVIOUS
  <2>2. PICK b : b = FlattenSeq(Prefix(s, 0)) /\ b = <<>>
    BY <1>3, <1>5
  <2>3. Len(b) = 0 /\ Shows(w, pos[0], b) /\ Nothing(b)
    BY <2>2 DEF Shows, Nothing
  <2>4. Took(w, pos[0], pos[0], b)
    BY <2>1, <2>3 DEF Took
  <2>. QED  BY <2>2, <2>4
<1>7. ASSUME NEW k \in Nat, k \in S PROVE k + 1 \in S
  <2> SUFFICES ASSUME k + 1 <= n PROVE Took(w, pos[0], pos[k + 1], FlattenSeq(Prefix(s, k + 1)))
    OBVIOUS
  <2>1. k + 1 \in 1 .. n /\ (k + 1) - 1 = k /\ k \in 0 .. n /\ k <= n
    OBVIOUS
  <2>2. PICK u \in Seq(Q), t \in Q : u = Prefix(s, k) /\ t = s[k + 1]
    <3>1. s[k + 1] \in Q
      BY <1>2, <2>1
    <3>. QED  BY <1>4, <2>1, <3>1
  <2>3. Took(w, pos[0], pos[k], FlattenSeq(u))
    BY <1>7, <2>1, <2>2
  <2>4. Took(w, pos[k], pos[k + 1], t)
    BY <2>1, <2>2
  <2>5. FlattenSeq(Prefix(s, k + 1)) = FlattenSeq(u) \o t
    <3>1. Prefix(s, k + 1) = Append(u, t)
      BY <1>3, <2>1, <2>2
    <3>. QED  BY <1>5, <3>1
  <2>6. FlattenSeq(u) \in Seq(Byte) /\ t \in Seq(Byte) /\ pos[0] \in Nat
    BY <1>1, <1>5
  <2>. QED  BY <2>3, <2>4, <2>5, <2>6, TookConcat
<1>8. n \in S
  <2> HIDE DEF S
  <2>. QED  BY <1>6, <1>7, SetInduction
<1>. QED  BY <1>3, <1>8

-----------------------------------------------------------------------------
(* What a header and an entry are read from *)

\* A 16-bit read stays in the frame, yields a 16-bit number, and 0 if there is
\* none.
LEMMA Word16Range ==
  ASSUME NEW w \in Seq(Byte), NEW i \in 0 .. Len(w)
  PROVE  /\ uint16At(w, i) \in 0 .. Word - 1 /\ Word \in Nat
         /\ after16(w, i) \in i .. Len(w)
         /\ i + 2 <= Len(w) => after16(w, i) = i + 2
         /\ i + 2 > Len(w) => uint16At(w, i) = 0 /\ after16(w, i) = i
<1>1. PICK n \in Nat : n = Len(w)
  OBVIOUS
<1>2. Word \in Nat /\ Word > 0
  <2>1. Radix * Radix > 0 /\ Radix * Radix \in Nat
    BY RadixAssumption
  <2>. QED  BY <2>1 DEF Word
<1>3. CASE i + 2 <= n
  <2>1. PICK x \in 0 .. Radix - 1, y \in 0 .. Radix - 1 : x = w[i + 1] /\ y = w[i + 2]
    <3>1. w[i + 1] \in Byte /\ w[i + 2] \in Byte
      BY <1>1, <1>3
    <3>. QED  BY <3>1 DEF Byte
  <2>2. x + Radix * y \in 0 .. Radix * Radix - 1
    <3>1. Radix * y \in Nat /\ Radix * y <= Radix * (Radix - 1)
            /\ Radix * (Radix - 1) = Radix * Radix - Radix
      BY RadixAssumption
    <3>2. Radix \in Nat /\ Radix * Radix \in Nat
      BY RadixAssumption
    <3>. QED  BY <3>1, <3>2
  <2>3. uint16At(w, i) = x + Radix * y /\ after16(w, i) = i + 2
    BY <1>1, <1>3, <2>1 DEF uint16At, after16, isEnoughAt
  <2>. QED  BY <1>1, <1>2, <1>3, <2>2, <2>3 DEF Word
<1>4. CASE i + 2 > n
  <2>1. uint16At(w, i) = 0 /\ after16(w, i) = i
    BY <1>1, <1>4 DEF uint16At, after16, isEnoughAt
  <2>. QED  BY <1>1, <1>2, <1>4, <2>1
<1>. QED  BY <1>1, <1>3, <1>4

\* What is read are the two bytes that would be written for it; a zero may be
\* written for whatever is read.
LEMMA TookWord ==
  ASSUME NEW w \in Seq(Byte), NEW i \in 0 .. Len(w), NEW c, c = uint16At(w, i) \/ c = 0
  PROVE  Took(w, i, after16(w, i), from_uint16(c))
<1>1. PICK n \in Nat : n = Len(w)
  OBVIOUS
<1>2. Radix \in Nat \ {0}
  BY RadixAssumption
<1>3. ASSUME c = 0 PROVE Nothing(from_uint16(c)) /\ Len(from_uint16(c)) = 2
  <2>1. 0 % Radix = 0 /\ (0 \div Radix) % Radix = 0
    BY <1>2
  <2>. QED  BY <1>3, <2>1 DEF Nothing, from_uint16
<1>4. CASE i + 2 <= n /\ c # 0
  <2>1. PICK x \in 0 .. Radix - 1, y \in 0 .. Radix - 1 : x = w[i + 1] /\ y = w[i + 2]
    <3>1. w[i + 1] \in Byte /\ w[i + 2] \in Byte
      BY <1>1, <1>4
    <3>. QED  BY <3>1 DEF Byte
  <2>2. c = Radix * y + x
    <3>1. c = x + Radix * y /\ Radix * y \in Nat
      BY <1>1, <1>2, <1>4, <2>1 DEF uint16At, isEnoughAt
    <3>. QED  BY <3>1
  <2>3. c % Radix = x
    BY <1>2, <2>2, Remainder
  <2>4. c \div Radix = y
    <3>1. Radix * y \in Nat /\ c \in Nat
      BY <1>2, <2>2
    <3>2. PICK q \in Nat : q = c \div Radix /\ c = Radix * q + (c % Radix)
      BY <1>2, <3>1, DivMod
    <3>3. Radix * q = Radix * y
      <4>1. Radix * q \in Nat
        BY <1>2
      <4>. QED  BY <2>2, <2>3, <3>1, <3>2, <4>1
    <3>4. q = y
      <4>1. \A u, v \in Nat : u < v => Radix * u < Radix * v
        <5> SUFFICES ASSUME NEW u \in Nat, NEW v \in Nat, u < v PROVE Radix * u < Radix * v
          OBVIOUS
        <5>1. PICK d \in Nat \ {0} : v = u + d
          <6>1. v - u \in Nat \ {0} /\ v = u + (v - u)
            OBVIOUS
          <6>. QED  BY <6>1
        <5>2. PICK a \in Nat, b \in Nat \ {0} : a = Radix * u /\ b = Radix * d
          BY <1>2
        <5>3. Radix * (u + d) = Radix * u + Radix * d
          BY <1>2
        <5>4. Radix * v = a + b
          BY <5>1, <5>2, <5>3
        <5>. QED  BY <5>2, <5>4
      <4>. QED  BY <1>2, <3>2, <3>3, <4>1
    <3>. QED  BY <3>2, <3>4
  <2>5. y % Radix = y
    <3>1. Radix * 0 + y = y
      BY <1>2
    <3>2. (Radix * 0 + y) % Radix = y
      BY <1>2, Remainder
    <3>. QED  BY <3>1, <3>2
  <2>6. from_uint16(c) = <<x, y>>
    BY <2>3, <2>4, <2>5 DEF from_uint16
  <2>7. after16(w, i) = i + 2
    BY <1>1, <1>4 DEF after16, isEnoughAt
  <2>8. Shows(w, i, <<x, y>>)
    BY <1>1, <1>4, <2>1 DEF Shows
  <2>. QED  BY <1>1, <1>4, <2>6, <2>7, <2>8 DEF Took
<1>5. CASE c = 0
  <2>1. PICK b : b = from_uint16(c) /\ Nothing(b) /\ Len(b) = 2
    BY <1>3, <1>5
  <2>2. Shows(w, i, b)
    BY <2>1 DEF Shows, Nothing
  <2>3. after16(w, i) = (IF i + 2 <= n THEN i + 2 ELSE i)
    BY <1>1 DEF after16, isEnoughAt
  <2>. QED  BY <1>1, <2>1, <2>2, <2>3 DEF Took
<1>6. i + 2 > n => c = 0
  BY <1>1, Word16Range
<1>. QED  BY <1>1, <1>4, <1>5, <1>6

-----------------------------------------------------------------------------
(* Loops: there is a function that describes one, and what it collects grows *)

\* f has the states of a loop of n turns.
LoopStates(V, v, step, n, f) ==
  /\ f \in [0 .. n -> V] /\ f[0] = v
  /\ \A k \in 1 .. n : f[k] = step[f[k - 1]]

IsLoop(V, v, step, n) == v \in V /\ step \in [V -> V] /\ n \in Nat

\* The states of a loop exist, and are members of V.
LEMMA LoopDefined ==
  ASSUME NEW V, NEW v, NEW step, NEW n, IsLoop(V, v, step, n)
  PROVE  \E f : LoopStates(V, v, step, n, f)
<1> USE DEF IsLoop, LoopStates
<1> DEFINE Turned(f, m) == f \in [0 .. m -> V] /\ f[0] = v /\ \A k \in 1 .. m : f[k] = step[f[k - 1]]
           S == {m \in Nat : \E f : Turned(f, m)}
<1>1. 0 \in S
  <2>1. PICK f : f = [k \in 0 .. 0 |-> v]
    OBVIOUS
  <2>2. Turned(f, 0)
    BY <2>1
  <2> HIDE DEF Turned
  <2>. QED  BY <2>2
<1>2. ASSUME NEW m \in Nat, m \in S PROVE m + 1 \in S
  <2>1. PICK f : Turned(f, m)
    BY <1>2
  <2>2. PICK g : g = [k \in 0 .. m + 1 |-> IF k <= m THEN f[k] ELSE step[f[m]]]
    OBVIOUS
  <2>3. g \in [0 .. m + 1 -> V] /\ g[0] = v
    BY <2>1, <2>2
  <2>4. ASSUME NEW k \in 1 .. m + 1 PROVE g[k] = step[g[k - 1]]
    <3>1. k - 1 \in 0 .. m /\ g[k - 1] = f[k - 1]
      BY <2>2
    <3>2. CASE k <= m
      BY <2>1, <2>2, <3>1, <3>2
    <3>3. CASE k = m + 1
      <4>1. k - 1 = m /\ g[k] = step[f[m]]
        BY <2>2, <3>3
      <4>. QED  BY <3>1, <4>1
    <3>. QED  BY <3>2, <3>3
  <2>5. Turned(g, m + 1)
    BY <2>3, <2>4
  <2> HIDE DEF Turned
  <2>. QED  BY <2>5
<1>3. n \in S
  <2> HIDE DEF S
  <2>. QED  BY <1>1, <1>2, SetInduction
<1>. QED  BY <1>3

\* What is so behind a loop and, if behind a turn, then before it, always was.
LEMMA Backwards ==
  ASSUME NEW n \in Nat, NEW S, n \in S, \A k \in 1 .. n : k \in S => k - 1 \in S
  PROVE  \A k \in 0 .. n : k \in S
<1> DEFINE T == {m \in Nat : m <= n => n - m \in S}
<1>1. 0 \in T
  OBVIOUS
<1>2. ASSUME NEW m \in Nat, m \in T PROVE m + 1 \in T
  <2> SUFFICES ASSUME m + 1 <= n PROVE n - (m + 1) \in S
    OBVIOUS
  <2>1. n - m \in 1 .. n /\ n - m \in S /\ (n - m) - 1 = n - (m + 1)
    BY <1>2
  <2>. QED  BY <2>1
<1>3. Nat \subseteq T
  <2> HIDE DEF T
  <2>. QED  BY <1>1, <1>2, SetInduction
<1>4. ASSUME NEW k \in 0 .. n PROVE k \in S
  <2>1. n - k \in Nat /\ n - k <= n /\ n - (n - k) = k
    OBVIOUS
  <2>2. n - k \in T
    <3> HIDE DEF T
    <3>. QED  BY <1>3, <2>1
  <2>. QED  BY <2>1, <2>2
<1>. QED  BY <1>4

\* Places that no turn moves back.
LEMMA Climbs ==
  ASSUME NEW n \in Nat, NEW pos \in [0 .. n -> Nat], \A k \in 1 .. n : pos[k - 1] <= pos[k]
  PROVE  \A j, k \in 0 .. n : j <= k => pos[j] <= pos[k]
<1> SUFFICES ASSUME NEW j \in 0 .. n PROVE \A k \in 0 .. n : j <= k => pos[j] <= pos[k]
  OBVIOUS
<1> DEFINE S == {m \in Nat : j + m <= n => pos[j] <= pos[j + m]}
<1>1. 0 \in S
  OBVIOUS
<1>2. ASSUME NEW m \in Nat, m \in S PROVE m + 1 \in S
  <2> SUFFICES ASSUME j + (m + 1) <= n PROVE pos[j] <= pos[j + (m + 1)]
    OBVIOUS
  <2>1. j + (m + 1) \in 1 .. n /\ (j + (m + 1)) - 1 = j + m /\ j + m \in 0 .. n
    OBVIOUS
  <2>2. pos[j] <= pos[j + m] /\ pos[j + m] <= pos[j + (m + 1)]
    BY <1>2, <2>1
  <2>3. pos[j] \in Nat /\ pos[j + m] \in Nat /\ pos[j + (m + 1)] \in Nat
    BY <2>1
  <2>. QED  BY <2>2, <2>3
<1>3. Nat \subseteq S
  <2> HIDE DEF S
  <2>. QED  BY <1>1, <1>2, SetInduction
<1>4. ASSUME NEW k \in 0 .. n, j <= k PROVE pos[j] <= pos[k]
  <2>1. k - j \in Nat /\ j + (k - j) = k
    BY <1>4
  <2>2. k - j \in S
    <3> HIDE DEF S
    <3>. QED  BY <1>3, <2>1
  <2>. QED  BY <2>1, <2>2
<1>. QED  BY <1>4

\* A sequence that turns only append to: what was in it stays where it was.
Growing(Q, n, g) ==
  /\ n \in Nat /\ g \in [0 .. n -> Seq(Q)]
  /\ \A k \in 1 .. n : g[k] = g[k - 1] \/ \E y \in Q : g[k] = Append(g[k - 1], y)

\* What a loop collects is never taken away or changed.
LEMMA Grows ==
  ASSUME NEW Q, NEW n, NEW g, Growing(Q, n, g)
  PROVE  \A k \in 0 .. n : /\ Len(g[k]) \in 0 .. Len(g[n])
                           /\ \A j \in 1 .. Len(g[k]) : g[n][j] = g[k][j]
<1> USE DEF Growing
<1> DEFINE T == {k \in Nat : k <= n => /\ Len(g[k]) \in 0 .. Len(g[n])
                                       /\ \A j \in 1 .. Len(g[k]) : g[n][j] = g[k][j]}
<1>1. n \in T
  <2>1. n \in 0 .. n
    OBVIOUS
  <2>2. Len(g[n]) \in Nat
    BY <2>1
  <2>. QED  BY <2>2
<1>2. ASSUME NEW k \in 1 .. n, k \in T PROVE k - 1 \in T
  <2>1. k \in 0 .. n /\ k - 1 \in 0 .. n /\ k - 1 \in Nat /\ n \in 0 .. n
    OBVIOUS
  <2>2. PICK a \in Seq(Q), b \in Seq(Q), c \in Seq(Q) : a = g[k - 1] /\ b = g[k] /\ c = g[n]
    BY <2>1
  <2>3. Len(b) \in 0 .. Len(c) /\ \A j \in 1 .. Len(b) : c[j] = b[j]
    BY <1>2, <2>2
  <2>4. Len(a) <= Len(b) /\ \A j \in 1 .. Len(a) : b[j] = a[j]
    <3>1. b = a \/ \E y \in Q : b = Append(a, y)
      BY <2>2
    <3>2. CASE b = a
      BY <3>2
    <3>3. ASSUME NEW y \in Q, b = Append(a, y) PROVE Len(a) <= Len(b) /\ \A j \in 1 .. Len(a) : b[j] = a[j]
      <4>1. Len(b) = Len(a) + 1 /\ \A j \in 1 .. Len(a) : b[j] = a[j]
        BY <3>3, SeqFacts
      <4>2. Len(a) \in Nat
        OBVIOUS
      <4>. QED  BY <4>1, <4>2
    <3>. QED  BY <3>1, <3>2, <3>3
  <2>5. PICK la \in Nat, lb \in Nat, lc \in Nat : la = Len(a) /\ lb = Len(b) /\ lc = Len(c)
    OBVIOUS
  <2>6. la \in 0 .. lc /\ \A j \in 1 .. la : c[j] = a[j]
    <3>1. la <= lb /\ lb <= lc
      BY <2>3, <2>4, <2>5
    <3>2. \A j \in 1 .. la : j \in 1 .. lb
      BY <3>1
    <3>. QED  BY <2>3, <2>4, <2>5, <3>1, <3>2
  <2>. QED  BY <2>1, <2>2, <2>5, <2>6
<1>3. \A k \in 0 .. n : k \in T
  <2> HIDE DEF T
  <2>. QED  BY <1>1, <1>2, Backwards
<1>. QED  BY <1>3

\* A loop that appends y[k] in its turn k collects y.
Collecting(Q, n, g, y) ==
  /\ n \in Nat /\ y \in [1 .. n -> Q] /\ g \in [0 .. n -> Seq(Q)] /\ g[0] = <<>>
  /\ \A k \in 1 .. n : g[k] = Append(g[k - 1], y[k])

\* A loop that appends one object a turn has collected those of all turns, in order.
LEMMA Collects ==
  ASSUME NEW Q, NEW n, NEW g, NEW y, Collecting(Q, n, g, y)
  PROVE  Len(g[n]) = n /\ \A k \in 1 .. n : g[n][k] = y[k]
<1> USE DEF Collecting
<1> DEFINE S == {k \in Nat : k <= n => Len(g[k]) = k /\ \A j \in 1 .. k : g[k][j] = y[j]}
<1>1. 0 \in S
  OBVIOUS
<1>2. ASSUME NEW k \in Nat, k \in S PROVE k + 1 \in S
  <2> SUFFICES ASSUME k + 1 <= n
               PROVE  Len(g[k + 1]) = k + 1 /\ \A j \in 1 .. k + 1 : g[k + 1][j] = y[j]
    OBVIOUS
  <2>1. k + 1 \in 1 .. n /\ (k + 1) - 1 = k /\ k \in 0 .. n
    OBVIOUS
  <2>2. PICK a \in Seq(Q), b \in Q : a = g[k] /\ b = y[k + 1] /\ g[k + 1] = Append(a, b)
    BY <2>1
  <2>3. PICK c : c = g[k + 1] /\ c = Append(a, b)
    BY <2>2
  <2>4. Len(a) = k /\ \A j \in 1 .. k : a[j] = y[j]
    BY <1>2, <2>1, <2>2
  <2>5. Len(c) = k + 1 /\ c[k + 1] = b /\ \A j \in 1 .. k : c[j] = a[j]
    <3>1. /\ Len(c) = Len(a) + 1 /\ c[Len(a) + 1] = b
          /\ \A j \in 1 .. Len(a) : c[j] = a[j]
      BY <2>3, AppendProperties
    <3>. QED  BY <2>4, <3>1
  <2>6. \A j \in 1 .. k + 1 : c[j] = y[j]
    <3> SUFFICES ASSUME NEW j \in 1 .. k + 1 PROVE c[j] = y[j]
      OBVIOUS
    <3>1. j \in 1 .. k \/ j = k + 1
      OBVIOUS
    <3>. QED  BY <2>2, <2>4, <2>5, <3>1
  <2>. QED  BY <2>3, <2>5, <2>6
<1>3. n \in S
  <2> HIDE DEF S
  <2>. QED  BY <1>1, <1>2, SetInduction
<1>. QED  BY <1>3

-----------------------------------------------------------------------------
(* Headers and entries, of any bytes *)

\* EntryHeader(it, end), and where it leaves the iterator.
LEMMA HeaderRange ==
  ASSUME NEW w \in Seq(Byte), NEW i \in 0 .. Len(w), NEW h, h = HeaderAt(w, i)
  PROVE  /\ h.cmd \in 0 .. Word - 1 /\ h.size \in Nat /\ h.next \in i .. Len(w)
         /\ h.cmd = uint16At(w, i)
         /\ h.type = IF h.cmd \in CMD_CODE THEN g_cmd_code_types_flags[h.cmd] ELSE BeyondTable[h.cmd]
         /\ h.type \in PrefixedTypes =>
              /\ h.size = uint16At(w, after16(w, i)) /\ h.size < Word
              /\ h.next = after16(w, after16(w, i))
         /\ h.type \notin PrefixedTypes => h.size = g_type_sizes(h.type) /\ h.next = after16(w, i)
<1>1. PICK lw \in Nat : lw = Len(w)
  OBVIOUS
<1>2. PICK j \in i .. lw : j = after16(w, i)
  BY <1>1, Word16Range
<1>3. PICK c \in 0 .. Word - 1 : c = uint16At(w, i)
  BY Word16Range
<1>4. PICK t : t = IF c \in CMD_CODE THEN g_cmd_code_types_flags[c] ELSE BeyondTable[c]
  OBVIOUS
<1>5. h = TypedHeader(w, c, t, j)
  BY <1>2, <1>3, <1>4 DEF HeaderAt
<1>6. h.cmd = c /\ h.type = t
  BY <1>5 DEF TypedHeader
<1>7. j \in 0 .. Len(w)
  BY <1>1, <1>2
<1>8. CASE t \in PrefixedTypes
  <2>1. h.size = uint16At(w, j) /\ h.next = after16(w, j)
    BY <1>5, <1>8 DEF TypedHeader
  <2>2. uint16At(w, j) \in 0 .. Word - 1 /\ Word \in Nat /\ after16(w, j) \in j .. Len(w)
    BY <1>7, Word16Range
  <2>. QED  BY <1>1, <1>2, <1>3, <1>4, <1>6, <1>8, <2>1, <2>2
<1>9. CASE t \notin PrefixedTypes
  <2>1. h.size = g_type_sizes(t) /\ h.next = j
    BY <1>5, <1>9 DEF TypedHeader
  <2>2. g_type_sizes(t) \in Nat
    BY DEF g_type_sizes
  <2>. QED  BY <1>1, <1>2, <1>3, <1>4, <1>6, <1>9, <2>1, <2>2
<1>. QED  BY <1>8, <1>9

\* What a reader makes of the bytes of an entry.
ReadEntry == [cmd : Nat, m_data : Seq(Byte)]

\* DataEntry::m_parse, and where it leaves the iterator.
LEMMA EntryRange ==
  ASSUME NEW w \in Seq(Byte), NEW i \in 0 .. Len(w), NEW h, h = HeaderAt(w, i),
         NEW e, e = EntryAt(w, h)
  PROVE  /\ e \in ReadEntry /\ e.cmd = h.cmd
         /\ h.next + Len(e.m_data) \in h.next .. Len(w)
         /\ \/ e.m_data = <<>>
            \/ /\ h.next + h.size <= Len(w) /\ Len(e.m_data) = h.size
               /\ \A k \in 1 .. h.size : e.m_data[k] = w[h.next + k]
         /\ h.next + h.size <= Len(w) => Len(e.m_data) = h.size
<1>1. PICK lw \in Nat : lw = Len(w)
  OBVIOUS
<1>2. PICK c \in Nat, z \in Nat, j \in 0 .. lw : c = h.cmd /\ z = h.size /\ j = h.next
  <2>1. h.cmd \in 0 .. Word - 1 /\ h.size \in Nat /\ h.next \in i .. Len(w)
    BY HeaderRange
  <2>. QED  BY <1>1, <2>1
<1>3. PICK d : d = e.m_data
  OBVIOUS
<1>4. e = [cmd |-> c, m_data |-> d] /\ d = IF j + z <= lw THEN SubSeq(w, j + 1, j + z) ELSE <<>>
  BY <1>1, <1>2, <1>3 DEF EntryAt, isEnoughAt
<1>5. CASE j + z <= lw
  <2>1. d = SubSeq(w, j + 1, j + z)
    BY <1>4, <1>5
  <2>2. d \in Seq(Byte) /\ Len(d) = z /\ \A k \in 1 .. z : d[k] = w[j + k]
    <3>1. \A k \in j + 1 .. j + z : w[k] \in Byte
      BY <1>1, <1>5
    <3>2. Len(d) = z /\ d \in Seq(Byte)
      BY <2>1, <3>1, SubSeqProperties
    <3>3. \A k \in 1 .. z : d[k] = w[j + k]
      BY <1>1, <1>5, <2>1
    <3>. QED  BY <3>2, <3>3
  <2>3. e \in ReadEntry /\ e.cmd = h.cmd
    BY <1>2, <1>4, <2>2 DEF ReadEntry
  <2>4. Len(e.m_data) = h.size /\ \A k \in 1 .. h.size : e.m_data[k] = w[h.next + k]
    BY <1>2, <1>3, <2>2
  <2>. QED  BY <1>1, <1>2, <1>5, <2>3, <2>4
<1>6. CASE ~(j + z <= lw)
  <2>1. d = <<>> /\ d \in Seq(Byte) /\ Len(d) = 0
    BY <1>4, <1>6
  <2>. QED  BY <1>1, <1>2, <1>3, <1>4, <1>6, <2>1 DEF ReadEntry
<1>. QED  BY <1>5, <1>6

\* Where a loop reads next, if it does.
Places(w) == 0 .. Len(w) \cup {Lost}

\* f[k] is where the entries' loop reads after k turns.
EntriesPlaces(w, i, n, s, pos) ==
  /\ pos \in [0 .. n -> 0 .. Len(w)]
  /\ pos[0] = i /\ pos[n] = s.next /\ Len(s.m_entries) = n
  /\ \A k \in 1 .. n :
       LET h == HeaderAt(w, pos[k - 1])
       IN  /\ s.m_entries[k] = EntryAt(w, h)
           /\ pos[k] = h.next + Len(s.m_entries[k].m_data)
           /\ h.type # NoType
           /\ ~(h.type = DATA_SET /\ h.next + h.size <= Len(w))

\* The loop of AnonymousArray's constructor, whatever it reads.
LEMMA EntriesTrace ==
  ASSUME NEW w \in Seq(Byte), NEW i \in 0 .. Len(w), NEW n \in Nat,
         NEW s, s = ReadEntries(w, i, n)
  PROVE  /\ s.m_entries \in Seq(ReadEntry) /\ s.next \in Places(w)
         /\ s.next # Lost => \E pos : EntriesPlaces(w, i, n, s, pos)
<1> DEFINE V == [m_entries : Seq(ReadEntry), next : Places(w)]
<1>1. PICK v : v = [m_entries |-> <<>>, next |-> i]
  OBVIOUS
<1>2. v \in V
  BY <1>1 DEF Places
<1>3. ASSUME NEW t \in V, t.next # Lost, NEW h, h = HeaderAt(w, t.next), NEW e, e = EntryAt(w, h)
      PROVE  /\ EntriesTurn(w, t) = WithArrayEntry(w, t, h)
             /\ t.next \in 0 .. Len(w) /\ t.m_entries \in Seq(ReadEntry) /\ e \in ReadEntry
             /\ h.next + Len(e.m_data) \in 0 .. Len(w)
  <2>1. t.next \in 0 .. Len(w) /\ t.m_entries \in Seq(ReadEntry)
    BY <1>3 DEF Places
  <2>2. h.next \in t.next .. Len(w)
    BY <1>3, <2>1, HeaderRange
  <2>3. e \in ReadEntry /\ h.next + Len(e.m_data) \in h.next .. Len(w)
    BY <1>3, <2>1, EntryRange
  <2>. QED  BY <1>3, <2>1, <2>2, <2>3 DEF EntriesTurn
<1>4. ASSUME NEW t \in V PROVE EntriesTurn(w, t) \in V
  <2>1. CASE t.next = Lost
    BY <2>1 DEF EntriesTurn
  <2>2. CASE t.next # Lost
    <3>1. PICK h : h = HeaderAt(w, t.next)
      OBVIOUS
    <3>2. PICK e : e = EntryAt(w, h)
      OBVIOUS
    <3>3. /\ EntriesTurn(w, t) = WithArrayEntry(w, t, h)
          /\ t.m_entries \in Seq(ReadEntry) /\ e \in ReadEntry
          /\ h.next + Len(e.m_data) \in 0 .. Len(w)
      BY <1>3, <2>2, <3>1, <3>2
    <3>4. [t EXCEPT !.next = Lost] \in V
      BY DEF Places
    <3>5. [m_entries |-> Append(t.m_entries, e), next |-> h.next + Len(e.m_data)] \in V
      BY <3>3, SeqFacts DEF Places
    <3>. HIDE DEF V
    <3>. QED  BY <3>2, <3>3, <3>4, <3>5 DEF WithArrayEntry
  <2>. QED  BY <2>1, <2>2
<1>5. PICK f \in [0 .. n -> V] : f[0] = v /\ \A k \in 1 .. n : f[k] = EntriesTurn(w, f[k - 1])
  <2>1. PICK step : step = [t \in V |-> EntriesTurn(w, t)]
    OBVIOUS
  <2>2. step \in [V -> V]
    BY <1>4, <2>1
  <2> HIDE DEF V
  <2>3. PICK f \in [0 .. n -> V] : f[0] = v /\ \A k \in 1 .. n : f[k] = step[f[k - 1]]
    <3>1. IsLoop(V, v, step, n)
      BY <1>2, <2>2 DEF IsLoop
    <3>2. PICK f : LoopStates(V, v, step, n, f)
      BY <3>1, LoopDefined
    <3>. QED  BY <3>2 DEF LoopStates
  <2>4. \A t \in V : step[t] = EntriesTurn(w, t)
    BY <2>1
  <2>5. \A k \in 1 .. n : f[k - 1] \in V
    OBVIOUS
  <2>. QED  BY <2>3, <2>4, <2>5
<1>6. s = f[n]
  <2> HIDE DEF V
  <2>1. \A k \in 0 .. n : f[k] = IF k = 0 THEN [m_entries |-> <<>>, next |-> i]
                                ELSE EntriesTurn(w, f[k - 1])
    BY <1>1, <1>5
  <2>2. f = [k \in 0 .. n |-> f[k]]
    BY <1>5
  <2>3. EntriesTurns(w, i, n, f)
    BY <2>1, <2>2 DEF EntriesTurns
  <2>. QED  BY <2>3, EntriesLoop
<1>7. s \in V
  BY <1>5, <1>6
<1>8. ASSUME s.next # Lost PROVE \E pos : EntriesPlaces(w, i, n, s, pos)
  <2>1. \A k \in 0 .. n : f[k].next # Lost
    <3> DEFINE S == {k \in 0 .. n : f[k].next # Lost}
    <3>1. n \in S
      BY <1>6, <1>8
    <3>2. ASSUME NEW k \in 1 .. n, k \in S PROVE k - 1 \in S
      <4>1. f[k] = EntriesTurn(w, f[k - 1]) /\ k - 1 \in 0 .. n
        BY <1>5
      <4>2. f[k - 1].next = Lost => f[k] = f[k - 1]
        BY <4>1 DEF EntriesTurn
      <4>. QED  BY <3>2, <4>1, <4>2
    <3>3. \A k \in 0 .. n : k \in S
      <4> HIDE DEF S
      <4>. QED  BY <3>1, <3>2, Backwards
    <3>. QED  BY <3>3
  <2>2. ASSUME NEW k \in 1 .. n, NEW h, h = HeaderAt(w, f[k - 1].next), NEW e, e = EntryAt(w, h)
        PROVE  /\ f[k].m_entries = Append(f[k - 1].m_entries, e) /\ e \in ReadEntry
               /\ f[k].next = h.next + Len(e.m_data)
               /\ h.type # NoType
               /\ ~(h.type = DATA_SET /\ h.next + h.size <= Len(w))
    <3>1. k \in 0 .. n /\ k - 1 \in 0 .. n
      OBVIOUS
    <3>2. PICK t \in V : t = f[k - 1] /\ t.next # Lost
      BY <1>5, <2>1, <3>1
    <3>3. EntriesTurn(w, t) = WithArrayEntry(w, t, h) /\ e \in ReadEntry
      BY <1>3, <2>2, <3>2
    <3>4. f[k] = WithArrayEntry(w, t, h) /\ f[k].next # Lost
      BY <1>5, <2>1, <3>1, <3>2, <3>3
    <3>5. ~(h.type = NoType \/ (h.type = DATA_SET /\ isEnoughAt(w, h.next, h.size)))
      <4>1. [t EXCEPT !.next = Lost].next = Lost
        BY <3>2
      <4>. QED  BY <3>4, <4>1 DEF WithArrayEntry
    <3>6. f[k] = [m_entries |-> Append(t.m_entries, e), next |-> h.next + Len(e.m_data)]
      BY <2>2, <3>4, <3>5 DEF WithArrayEntry
    <3>. QED  BY <3>2, <3>3, <3>5, <3>6 DEF isEnoughAt
  <2>3. PICK g : g = [k \in 0 .. n |-> f[k].m_entries]
    OBVIOUS
  <2>4. g \in [0 .. n -> Seq(ReadEntry)]
    BY <1>5, <2>3
  <2>5. PICK y : y = [k \in 1 .. n |-> EntryAt(w, HeaderAt(w, f[k - 1].next))]
    OBVIOUS
  <2>6. Collecting(ReadEntry, n, g, y)
    <3>1. \A k \in 1 .. n : /\ f[k].m_entries = Append(f[k - 1].m_entries, y[k])
                            /\ y[k] \in ReadEntry
      BY <2>2, <2>5
    <3>2. \A k \in 1 .. n : k \in 0 .. n /\ k - 1 \in 0 .. n
      OBVIOUS
    <3>3. \A k \in 1 .. n : g[k] = Append(g[k - 1], y[k])
      BY <2>3, <3>1, <3>2
    <3>4. g[0] = <<>>
      BY <1>1, <1>5, <2>3
    <3>. QED  BY <2>4, <2>5, <3>1, <3>3, <3>4 DEF Collecting
  <2>7. Len(s.m_entries) = n /\ \A k \in 1 .. n : s.m_entries[k] = y[k]
    <3>1. g[n] = s.m_entries
      BY <1>6, <2>3
    <3>. QED  BY <2>6, <3>1, Collects
  <2>8. PICK pos : pos = [k \in 0 .. n |-> f[k].next]
    OBVIOUS
  <2>9. pos \in [0 .. n -> 0 .. Len(w)] /\ pos[0] = i /\ pos[n] = s.next
    <3>1. \A k \in 0 .. n : f[k].next \in 0 .. Len(w)
      BY <1>5, <2>1 DEF Places
    <3>. QED  BY <1>1, <1>5, <1>6, <2>8, <3>1
  <2>10. ASSUME NEW k \in 1 .. n, NEW h, h = HeaderAt(w, pos[k - 1])
         PROVE  /\ s.m_entries[k] = EntryAt(w, h)
                /\ pos[k] = h.next + Len(s.m_entries[k].m_data)
                /\ h.type # NoType
                /\ ~(h.type = DATA_SET /\ h.next + h.size <= Len(w))
    <3>1. h = HeaderAt(w, f[k - 1].next) /\ pos[k] = f[k].next
      BY <2>8, <2>10
    <3>2. PICK e : e = EntryAt(w, h)
      OBVIOUS
    <3>3. s.m_entries[k] = e
      BY <2>5, <2>7, <3>1, <3>2
    <3>. QED  BY <2>2, <3>1, <3>2, <3>3
  <2>11. EntriesPlaces(w, i, n, s, pos)
    BY <2>7, <2>9, <2>10 DEF EntriesPlaces
  <2>. QED  BY <2>11
<1>. QED  BY <1>7, <1>8

\* AnonymousArray's constructor, whatever it reads.
LEMMA ArrayRange ==
  ASSUME NEW w \in Seq(Byte), NEW i \in 0 .. Len(w), NEW r, r = ReadArray(w, i)
  PROVE  /\ r.m_entries \in Seq(ReadEntry) /\ r.next \in Places(w)
         /\ \E n \in Nat : /\ n = uint16At(w, i) \/ n = 0
                           /\ after16(w, i) \in 0 .. Len(w)
                           /\ r = ReadEntries(w, after16(w, i), n)
<1>1. PICK j \in 0 .. Len(w) : j = after16(w, i)
  <2>1. after16(w, i) \in i .. Len(w)
    BY Word16Range
  <2>. QED  BY <2>1
<1>2. PICK c \in Nat : c = uint16At(w, i)
  <2>1. uint16At(w, i) \in 0 .. Word - 1
    BY Word16Range
  <2>. QED  BY <2>1
<1>3. PICK n \in Nat : n = IF c > Len(w) - j THEN 0 ELSE c
  OBVIOUS
<1>4. r = ReadEntries(w, j, n)
  BY <1>1, <1>2, <1>3 DEF ReadArray
<1>5. r.m_entries \in Seq(ReadEntry) /\ r.next \in Places(w)
  BY <1>4, EntriesTrace
<1>. QED  BY <1>1, <1>2, <1>3, <1>4, <1>5

\* pos[k] is where the arrays' loop reads after k turns.
ArraysPlaces(w, i, n, s, pos) ==
  /\ pos \in [0 .. n -> 0 .. Len(w)]
  /\ pos[0] = i /\ pos[n] = s.next /\ Len(s.m_anonArrays) = n
  /\ \A k \in 1 .. n : /\ s.m_anonArrays[k] = ReadArray(w, pos[k - 1]).m_entries
                       /\ pos[k] = ReadArray(w, pos[k - 1]).next

\* The loop of DataSet::m_parse, whatever it reads.
LEMMA ArraysTrace ==
  ASSUME NEW w \in Seq(Byte), NEW i \in 0 .. Len(w), NEW n \in Nat,
         NEW s, s = ReadArrays(w, i, n)
  PROVE  /\ s.m_anonArrays \in Seq(Seq(ReadEntry)) /\ s.next \in Places(w)
         /\ s.next # Lost => \E pos : ArraysPlaces(w, i, n, s, pos)
<1>1. PICK A : A = Seq(ReadEntry)
  OBVIOUS
<1> DEFINE V == ArraysStates(A, w)
<1> USE DEF ArraysStates
<1>2. PICK v : v = [m_anonArrays |-> <<>>, next |-> i]
  OBVIOUS
<1>3. v \in V
  BY <1>2 DEF Places
<1>4. ASSUME NEW t \in V, t.next # Lost, NEW r, r = ReadArray(w, t.next)
      PROVE  /\ ArraysTurn(w, t) = [m_anonArrays |-> Append(t.m_anonArrays, r.m_entries),
                                    next |-> r.next]
             /\ t.m_anonArrays \in Seq(A) /\ r.m_entries \in A /\ r.next \in Places(w)
  <2>1. t.next \in 0 .. Len(w) /\ t.m_anonArrays \in Seq(A)
    BY <1>4 DEF Places
  <2>2. r.m_entries \in A /\ r.next \in Places(w)
    BY <1>1, <1>4, <2>1, ArrayRange
  <2>. QED  BY <1>4, <2>1, <2>2 DEF ArraysTurn, WithArray
<1>5. ASSUME NEW t \in V PROVE ArraysTurn(w, t) \in V
  <2>1. CASE t.next = Lost
    BY <2>1 DEF ArraysTurn
  <2>2. CASE t.next # Lost
    <3>1. PICK r : r = ReadArray(w, t.next)
      OBVIOUS
    <3>2. /\ ArraysTurn(w, t) = [m_anonArrays |-> Append(t.m_anonArrays, r.m_entries),
                                 next |-> r.next]
          /\ t.m_anonArrays \in Seq(A) /\ r.m_entries \in A /\ r.next \in Places(w)
      BY <1>4, <2>2, <3>1
    <3>. QED  BY <3>2, AppendProperties DEF Places
  <2>. QED  BY <2>1, <2>2
<1>6. PICK f \in [0 .. n -> V] : f[0] = v /\ \A k \in 1 .. n : f[k] = ArraysTurn(w, f[k - 1])
  <2>1. PICK step : step = [t \in V |-> ArraysTurn(w, t)]
    OBVIOUS
  <2>2. step \in [V -> V]
    BY <1>5, <2>1
  <2> HIDE DEF V
  <2>3. PICK f \in [0 .. n -> V] : f[0] = v /\ \A k \in 1 .. n : f[k] = step[f[k - 1]]
    <3>1. IsLoop(V, v, step, n)
      BY <1>3, <2>2 DEF IsLoop
    <3>2. PICK f : LoopStates(V, v, step, n, f)
      BY <3>1, LoopDefined
    <3>. QED  BY <3>2 DEF LoopStates
  <2>4. \A t \in V : step[t] = ArraysTurn(w, t)
    BY <2>1
  <2>5. \A k \in 1 .. n : f[k - 1] \in V
    OBVIOUS
  <2>. QED  BY <2>3, <2>4, <2>5
<1>7. s = f[n]
  <2> HIDE DEF V
  <2>1. \A k \in 0 .. n : f[k] = IF k = 0 THEN [m_anonArrays |-> <<>>, next |-> i]
                                ELSE ArraysTurn(w, f[k - 1])
    BY <1>2, <1>6
  <2>2. f = [k \in 0 .. n |-> f[k]]
    BY <1>6
  <2>3. ArraysTurns(w, i, n, f)
    BY <2>1, <2>2 DEF ArraysTurns
  <2>4. <<>> \in A
    BY <1>1
  <2>5. f \in [0 .. n -> ArraysStates(A, w)]
    BY <1>6 DEF V
  <2>. QED  BY <2>3, <2>4, <2>5, ArraysLoop
<1>8. s.m_anonArrays \in Seq(A) /\ s.next \in Places(w)
  BY <1>6, <1>7 DEF Places
<1>9. ASSUME s.next # Lost PROVE \E pos : ArraysPlaces(w, i, n, s, pos)
  <2>1. \A k \in 0 .. n : f[k].next # Lost
    <3> DEFINE S == {k \in 0 .. n : f[k].next # Lost}
    <3>1. n \in S
      BY <1>7, <1>9
    <3>2. ASSUME NEW k \in 1 .. n, k \in S PROVE k - 1 \in S
      <4>1. f[k] = ArraysTurn(w, f[k - 1]) /\ k - 1 \in 0 .. n
        BY <1>6
      <4>2. f[k - 1].next = Lost => f[k] = f[k - 1]
        BY <4>1 DEF ArraysTurn
      <4>. QED  BY <3>2, <4>1, <4>2
    <3>3. \A k \in 0 .. n : k \in S
      <4> HIDE DEF S
      <4>. QED  BY <3>1, <3>2, Backwards
    <3>. QED  BY <3>3
  <2>2. ASSUME NEW k \in 1 .. n, NEW r, r = ReadArray(w, f[k - 1].next)
        PROVE  /\ f[k].m_anonArrays = Append(f[k - 1].m_anonArrays, r.m_entries)
               /\ r.m_entries \in A /\ f[k].next = r.next
    <3>1. k \in 0 .. n /\ k - 1 \in 0 .. n
      OBVIOUS
    <3>2. PICK t \in V : t = f[k - 1] /\ t.next # Lost
      BY <1>6, <2>1, <3>1
    <3>3. /\ ArraysTurn(w, t) = [m_anonArrays |-> Append(t.m_anonArrays, r.m_entries),
                                 next |-> r.next]
          /\ r.m_entries \in A
      BY <1>4, <2>2, <3>2
    <3>4. f[k] = ArraysTurn(w, t)
      BY <1>6, <3>2
    <3>. QED  BY <3>2, <3>3, <3>4
  <2>3. PICK g : g = [k \in 0 .. n |-> f[k].m_anonArrays]
    OBVIOUS
  <2>4. g \in [0 .. n -> Seq(A)]
    BY <1>6, <2>3
  <2>5. PICK y : y = [k \in 1 .. n |-> ReadArray(w, f[k - 1].next).m_entries]
    OBVIOUS
  <2>6. Collecting(A, n, g, y)
    <3>1. \A k \in 1 .. n : /\ f[k].m_anonArrays = Append(f[k - 1].m_anonArrays, y[k])
                            /\ y[k] \in A
      BY <2>2, <2>5
    <3>2. \A k \in 1 .. n : k \in 0 .. n /\ k - 1 \in 0 .. n
      OBVIOUS
    <3>3. \A k \in 1 .. n : g[k] = Append(g[k - 1], y[k])
      BY <2>3, <3>1, <3>2
    <3>4. g[0] = <<>>
      BY <1>2, <1>6, <2>3
    <3>. QED  BY <2>4, <2>5, <3>1, <3>3, <3>4 DEF Collecting
  <2>7. Len(s.m_anonArrays) = n /\ \A k \in 1 .. n : s.m_anonArrays[k] = y[k]
    <3>1. g[n] = s.m_anonArrays
      BY <1>7, <2>3
    <3>. QED  BY <2>6, <3>1, Collects
  <2>8. PICK pos : pos = [k \in 0 .. n |-> f[k].next]
    OBVIOUS
  <2>9. pos \in [0 .. n -> 0 .. Len(w)] /\ pos[0] = i /\ pos[n] = s.next
    <3>1. \A k \in 0 .. n : f[k].next \in 0 .. Len(w)
      BY <1>6, <2>1 DEF Places
    <3>. QED  BY <1>2, <1>6, <1>7, <2>8, <3>1
  <2>10. ASSUME NEW k \in 1 .. n
         PROVE  /\ s.m_anonArrays[k] = ReadArray(w, pos[k - 1]).m_entries
                /\ pos[k] = ReadArray(w, pos[k - 1]).next
    <3>1. pos[k - 1] = f[k - 1].next /\ pos[k] = f[k].next
      BY <2>8
    <3>2. PICK r : r = ReadArray(w, pos[k - 1])
      OBVIOUS
    <3>3. f[k].next = r.next
      BY <2>2, <3>1, <3>2
    <3>4. s.m_anonArrays[k] = r.m_entries
      BY <2>5, <2>7, <3>1, <3>2
    <3>. QED  BY <3>1, <3>2, <3>3, <3>4
  <2>11. ArraysPlaces(w, i, n, s, pos)
    BY <2>7, <2>9, <2>10 DEF ArraysPlaces
  <2>. QED  BY <2>11
<1>. QED  BY <1>1, <1>8, <1>9

\* What a reader makes of the bytes of a data set.
ReadDataSet == [cmd : Nat, m_anonArrays : Seq(Seq(ReadEntry))]

TurnStates(w) ==
  [m_entries : Seq(ReadEntry), m_dataSets : Seq(ReadDataSet), next : Places(w), returned : BOOLEAN]

\* No turn is made.
Skips(w, t, u) == (t.returned \/ t.next = Len(w)) /\ u = t

\* A turn that reads an entry, and one that reads a data set.
TakesEntry(w, t, u, h, e) ==
  /\ ~t.returned /\ t.next \in 0 .. Len(w) - 1
  /\ h = HeaderAt(w, t.next) /\ h.type # NoType /\ h.type # DATA_SET
  /\ e = EntryAt(w, h) /\ e \in ReadEntry
  /\ u.next = h.next + Len(e.m_data) /\ u.returned = ~isValid(e)
  /\ u.m_entries = (IF isValid(e) THEN Append(t.m_entries, e) ELSE t.m_entries)
  /\ u.m_dataSets = t.m_dataSets

TakesDataSet(w, t, u, h, ds) ==
  /\ ~t.returned /\ t.next \in 0 .. Len(w) - 1
  /\ h = HeaderAt(w, t.next) /\ h.type = DATA_SET
  /\ ds = ReadArrays(w, h.next, h.size) /\ ds.m_anonArrays \in Seq(Seq(ReadEntry))
  /\ u.next = ds.next /\ ~u.returned
  /\ u.m_entries = t.m_entries
  /\ u.m_dataSets = Append(t.m_dataSets, [cmd |-> h.cmd, m_anonArrays |-> ds.m_anonArrays])

\* A turn of the loop in Packet::m_parse is one of these, or the last.
LEMMA TurnKinds ==
  ASSUME NEW w \in Seq(Byte), NEW t \in TurnStates(w), NEW u, u = PacketTurn(w, t)
  PROVE  /\ u \in TurnStates(w)
         /\ t.next = Lost => u.next = Lost
         /\ u.next # Lost => \/ Skips(w, t, u)
                             \/ \E h, e : TakesEntry(w, t, u, h, e)
                             \/ \E h, ds : TakesDataSet(w, t, u, h, ds)
<1>1. /\ t.m_entries \in Seq(ReadEntry) /\ t.m_dataSets \in Seq(ReadDataSet)
      /\ t.next \in Places(w) /\ t.returned \in BOOLEAN
  BY DEF TurnStates
<1>2. CASE t.returned \/ t.next \in {Lost, Len(w)}
  BY <1>2 DEF PacketTurn, Stopped, Skips
<1>3. CASE ~t.returned /\ t.next \notin {Lost, Len(w)}
  <2>1. t.next \in 0 .. Len(w) - 1 /\ t.next \in 0 .. Len(w)
    BY <1>1, <1>3 DEF Places
  <2>2. PICK h : h = HeaderAt(w, t.next)
    OBVIOUS
  <2>3. h.cmd \in Nat /\ h.size \in Nat /\ h.next \in 0 .. Len(w)
    <3>1. h.cmd \in 0 .. Word - 1 /\ h.size \in Nat /\ h.next \in t.next .. Len(w)
      BY <2>1, <2>2, HeaderRange
    <3>. QED  BY <2>1, <3>1
  <2>4. CASE h.type = NoType
    <3>1. u = [t EXCEPT !.next = Lost]
      BY <1>3, <2>2, <2>4 DEF PacketTurn, Stopped
    <3>2. u \in TurnStates(w) /\ u.next = Lost
      BY <3>1 DEF TurnStates, Places
    <3>. QED  BY <1>3, <3>2
  <2>5. CASE h.type # NoType /\ h.type = DATA_SET
    <3>1. PICK ds : ds = ReadArrays(w, h.next, h.size)
      OBVIOUS
    <3>2. ds.m_anonArrays \in Seq(Seq(ReadEntry)) /\ ds.next \in Places(w)
      BY <2>3, <3>1, ArraysTrace
    <3>3. PICK d \in ReadDataSet : d = [cmd |-> h.cmd, m_anonArrays |-> ds.m_anonArrays]
      BY <2>3, <3>2 DEF ReadDataSet
    <3>4. u = [t EXCEPT !.next = ds.next, !.m_dataSets = Append(@, d)]
      BY <1>3, <2>2, <2>5, <3>1, <3>3 DEF PacketTurn, Stopped, WithDataSet
    <3>5. Append(t.m_dataSets, d) \in Seq(ReadDataSet)
      BY <1>1, AppendProperties
    <3>6. /\ u \in TurnStates(w) /\ u.next = ds.next /\ u.returned = t.returned
          /\ u.m_entries = t.m_entries /\ u.m_dataSets = Append(t.m_dataSets, d)
      BY <3>2, <3>4, <3>5 DEF TurnStates
    <3>7. TakesDataSet(w, t, u, h, ds)
      BY <1>3, <2>1, <2>2, <2>5, <3>1, <3>2, <3>3, <3>6 DEF TakesDataSet
    <3>. QED  BY <1>3, <3>6, <3>7
  <2>6. CASE h.type # NoType /\ h.type # DATA_SET
    <3>1. PICK e : e = EntryAt(w, h)
      OBVIOUS
    <3>2. e \in ReadEntry /\ h.next + Len(e.m_data) \in Places(w)
      <4>1. e \in ReadEntry /\ h.next + Len(e.m_data) \in h.next .. Len(w)
        BY <2>1, <2>2, <3>1, EntryRange
      <4>. QED  BY <2>3, <4>1 DEF Places
    <3>3. u = [t EXCEPT !.next = h.next + Len(e.m_data),
                 !.m_entries = IF isValid(e) THEN Append(@, e) ELSE @,
                 !.returned = ~isValid(e)]
      BY <1>3, <2>2, <2>6, <3>1 DEF PacketTurn, Stopped, WithEntry
    <3>4. Append(t.m_entries, e) \in Seq(ReadEntry) /\ isValid(e) \in BOOLEAN
      BY <1>1, <3>2, AppendProperties DEF isValid
    <3>5. /\ u \in TurnStates(w) /\ u.next = h.next + Len(e.m_data) /\ u.returned = ~isValid(e)
          /\ u.m_entries = (IF isValid(e) THEN Append(t.m_entries, e) ELSE t.m_entries)
          /\ u.m_dataSets = t.m_dataSets
      BY <3>2, <3>3, <3>4 DEF TurnStates
    <3>6. TakesEntry(w, t, u, h, e)
      BY <1>3, <2>1, <2>2, <2>6, <3>1, <3>2, <3>5 DEF TakesEntry
    <3>. QED  BY <1>3, <3>5, <3>6
  <2>. QED  BY <2>4, <2>5, <2>6
<1>. QED  BY <1>2, <1>3

\* f has the states of the loop in Packet::m_parse, of m turns.
TurnsMade(w, i, n, s, m, f) ==
  /\ m \in Nat /\ m = (IF n > TurnsIn(w, i) THEN TurnsIn(w, i) ELSE n)
  /\ f \in [0 .. m -> TurnStates(w)] /\ f[m] = s
  /\ f[0].m_entries = <<>> /\ f[0].m_dataSets = <<>> /\ f[0].next = i /\ ~f[0].returned
  /\ \A k \in 0 .. m : f[k].next \in 0 .. Len(w)
  /\ \A k \in 1 .. m : \/ Skips(w, f[k - 1], f[k])
                       \/ \E h, e : TakesEntry(w, f[k - 1], f[k], h, e)
                       \/ \E h, ds : TakesDataSet(w, f[k - 1], f[k], h, ds)

LEMMA TurnsInFacts ==
  ASSUME NEW w \in Seq(Byte), NEW i \in 0 .. Len(w)
  PROVE  TurnsIn(w, i) \in Nat /\ 2 * TurnsIn(w, i) > Len(w) - i
<1>1. PICK d \in Nat : d = Len(w) - i
  OBVIOUS
<1>2. d = 2 * (d \div 2) + (d % 2) /\ d \div 2 \in Nat /\ d % 2 \in 0 .. 1
  BY DivMod
<1>. QED  BY <1>1, <1>2 DEF TurnsIn

\* The loop of Packet::m_parse, whatever it reads.
LEMMA TurnsTrace ==
  ASSUME NEW w \in Seq(Byte), NEW i \in 0 .. Len(w), NEW n \in Nat,
         NEW s, s = ReadTurns(w, i, n)
  PROVE  /\ s \in TurnStates(w)
         /\ s.next # Lost => \E m, f : TurnsMade(w, i, n, s, m, f)
<1> DEFINE V == TurnStates(w)
<1>1. PICK v : v = [m_entries |-> <<>>, m_dataSets |-> <<>>, next |-> i, returned |-> FALSE]
  OBVIOUS
<1>2. v \in V
  BY <1>1 DEF TurnStates, Places
<1>3. PICK m \in Nat : m = (IF n > TurnsIn(w, i) THEN TurnsIn(w, i) ELSE n)
  BY TurnsInFacts
<1>4. \A t \in V : PacketTurn(w, t) \in V
  BY TurnKinds
<1> HIDE DEF V
<1>5. PICK f \in [0 .. m -> V] : f[0] = v /\ \A k \in 1 .. m : f[k] = PacketTurn(w, f[k - 1])
  <2>1. PICK step : step = [t \in V |-> PacketTurn(w, t)]
    OBVIOUS
  <2>2. step \in [V -> V]
    BY <1>4, <2>1
  <2>3. PICK f \in [0 .. m -> V] : f[0] = v /\ \A k \in 1 .. m : f[k] = step[f[k - 1]]
    <3>1. IsLoop(V, v, step, m)
      BY <1>2, <2>2 DEF IsLoop
    <3>2. PICK f : LoopStates(V, v, step, m, f)
      BY <3>1, LoopDefined
    <3>. QED  BY <3>2 DEF LoopStates
  <2>4. \A t \in V : step[t] = PacketTurn(w, t)
    BY <2>1
  <2>5. \A k \in 1 .. m : f[k - 1] \in V
    OBVIOUS
  <2>. QED  BY <2>3, <2>4, <2>5
<1>6. s = f[m]
  <2>1. \A k \in 0 .. m :
          f[k] = IF k = 0 THEN [m_entries |-> <<>>, m_dataSets |-> <<>>, next |-> i, returned |-> FALSE]
                 ELSE PacketTurn(w, f[k - 1])
    BY <1>1, <1>5
  <2>2. f = [k \in 0 .. m |-> f[k]]
    BY <1>5
  <2>3. PacketTurns(w, i, m, f)
    BY <2>1, <2>2 DEF PacketTurns
  <2>. QED  BY <1>3, <2>3, TurnsLoop
<1>7. s \in V
  BY <1>5, <1>6
<1>8. ASSUME s.next # Lost PROVE TurnsMade(w, i, n, s, m, f)
  <2>1. \A k \in 0 .. m : f[k].next # Lost
    <3> DEFINE S == {k \in 0 .. m : f[k].next # Lost}
    <3>1. m \in S
      BY <1>6, <1>8
    <3>2. ASSUME NEW k \in 1 .. m, k \in S PROVE k - 1 \in S
      <4>1. f[k] = PacketTurn(w, f[k - 1]) /\ k - 1 \in 0 .. m /\ f[k - 1] \in V
        BY <1>5
      <4>2. f[k - 1].next = Lost => f[k].next = Lost
        BY <4>1, TurnKinds DEF V
      <4>. QED  BY <3>2, <4>1, <4>2
    <3>3. \A k \in 0 .. m : k \in S
      <4> HIDE DEF S
      <4>. QED  BY <3>1, <3>2, Backwards
    <3>. QED  BY <3>3
  <2>2. \A k \in 0 .. m : f[k].next \in 0 .. Len(w)
    BY <1>5, <2>1 DEF V, TurnStates, Places
  <2>3. ASSUME NEW k \in 1 .. m
        PROVE  \/ Skips(w, f[k - 1], f[k])
               \/ \E h, e : TakesEntry(w, f[k - 1], f[k], h, e)
               \/ \E h, ds : TakesDataSet(w, f[k - 1], f[k], h, ds)
    <3>1. f[k] = PacketTurn(w, f[k - 1]) /\ f[k - 1] \in V /\ f[k].next # Lost
      BY <1>5, <2>1
    <3>. QED  BY <3>1, TurnKinds DEF V
  <2>4. f[0].m_entries = <<>> /\ f[0].m_dataSets = <<>> /\ f[0].next = i /\ ~f[0].returned
    BY <1>1, <1>5
  <2>. QED  BY <1>3, <1>5, <1>6, <2>2, <2>3, <2>4 DEF TurnsMade, V
<1>. QED  BY <1>7, <1>8 DEF V

-----------------------------------------------------------------------------
(* No loop moves back *)

\* Between two turns nothing moves back, so it does not on the whole.
LEMMA Forward ==
  ASSUME NEW m \in Nat, NEW n \in Nat, NEW pos \in [0 .. n -> 0 .. m],
         \A k \in 1 .. n : pos[k - 1] <= pos[k]
  PROVE  pos[0] <= pos[n]
<1>1. pos \in [0 .. n -> Nat]
  OBVIOUS
<1>2. \A j, k \in 0 .. n : j <= k => pos[j] <= pos[k]
  BY <1>1, Climbs
<1>. QED  BY <1>2

\* A reader stops at or behind the place where it began.
LEMMA EntriesForward ==
  ASSUME NEW w \in Seq(Byte), NEW i \in 0 .. Len(w), NEW n \in Nat,
         NEW s, s = ReadEntries(w, i, n), s.next # Lost
  PROVE  s.next \in i .. Len(w)
<1>1. PICK pos : EntriesPlaces(w, i, n, s, pos)
  BY EntriesTrace
<1>2. PICK lw \in Nat : lw = Len(w)
  OBVIOUS
<1>3. pos \in [0 .. n -> 0 .. lw] /\ pos[0] = i /\ pos[n] = s.next
  BY <1>1, <1>2 DEF EntriesPlaces
<1>4. ASSUME NEW k \in 1 .. n PROVE pos[k - 1] <= pos[k]
  <2>1. k - 1 \in 0 .. n /\ k \in 0 .. n
    OBVIOUS
  <2>2. PICK p \in 0 .. lw, q \in 0 .. lw : p = pos[k - 1] /\ q = pos[k]
    BY <1>3, <2>1
  <2>3. PICK h : h = HeaderAt(w, p)
    OBVIOUS
  <2>4. PICK e : e = EntryAt(w, h)
    OBVIOUS
  <2>5. q = h.next + Len(e.m_data)
    BY <1>1, <2>2, <2>3, <2>4 DEF EntriesPlaces
  <2>6. h.next \in p .. lw /\ q \in h.next .. lw
    BY <1>2, <2>3, <2>4, <2>5, HeaderRange, EntryRange
  <2>. QED  BY <2>2, <2>6
<1>5. pos[0] <= pos[n]
  BY <1>2, <1>3, <1>4, Forward
<1>6. n \in 0 .. n
  OBVIOUS
<1>7. pos[n] \in 0 .. lw
  BY <1>3, <1>6
<1>. QED  BY <1>2, <1>3, <1>5, <1>7

LEMMA ArrayForward ==
  ASSUME NEW w \in Seq(Byte), NEW i \in 0 .. Len(w), NEW r, r = ReadArray(w, i), r.next # Lost
  PROVE  r.next \in i .. Len(w)
<1>1. PICK n \in Nat : after16(w, i) \in 0 .. Len(w) /\ r = ReadEntries(w, after16(w, i), n)
  BY ArrayRange
<1>2. PICK j \in 0 .. Len(w) : j = after16(w, i)
  BY <1>1
<1>3. j \in i .. Len(w)
  BY <1>2, Word16Range
<1>4. r.next \in j .. Len(w)
  BY <1>1, <1>2, EntriesForward
<1>. QED  BY <1>3, <1>4

LEMMA ArraysForward ==
  ASSUME NEW w \in Seq(Byte), NEW i \in 0 .. Len(w), NEW n \in Nat,
         NEW s, s = ReadArrays(w, i, n), s.next # Lost
  PROVE  s.next \in i .. Len(w)
<1>1. PICK pos : ArraysPlaces(w, i, n, s, pos)
  BY ArraysTrace
<1>2. PICK lw \in Nat : lw = Len(w)
  OBVIOUS
<1>3. pos \in [0 .. n -> 0 .. lw] /\ pos[0] = i /\ pos[n] = s.next
  BY <1>1, <1>2 DEF ArraysPlaces
<1>4. ASSUME NEW k \in 1 .. n PROVE pos[k - 1] <= pos[k]
  <2>1. k - 1 \in 0 .. n /\ k \in 0 .. n
    OBVIOUS
  <2>2. PICK p \in 0 .. lw, q \in 0 .. lw : p = pos[k - 1] /\ q = pos[k]
    BY <1>3, <2>1
  <2>3. PICK r : r = ReadArray(w, p)
    OBVIOUS
  <2>4. q = r.next
    BY <1>1, <2>2, <2>3 DEF ArraysPlaces
  <2>5. r.next # Lost
    BY <2>2, <2>4 DEF Lost
  <2>6. q \in p .. lw
    BY <1>2, <2>3, <2>4, <2>5, ArrayForward
  <2>. QED  BY <2>2, <2>6
<1>5. pos[0] <= pos[n]
  BY <1>2, <1>3, <1>4, Forward
<1>6. n \in 0 .. n
  OBVIOUS
<1>7. pos[n] \in 0 .. lw
  BY <1>3, <1>6
<1>. QED  BY <1>2, <1>3, <1>5, <1>7

LEMMA TurnsForward ==
  ASSUME NEW w \in Seq(Byte), NEW i \in 0 .. Len(w), NEW n \in Nat,
         NEW s, s = ReadTurns(w, i, n), s.next # Lost
  PROVE  s.next \in i .. Len(w)
<1>1. PICK m, f : TurnsMade(w, i, n, s, m, f)
  BY TurnsTrace
<1>2. PICK lw \in Nat : lw = Len(w)
  OBVIOUS
<1>3. m \in Nat /\ f[m] = s /\ f[0].next = i /\ \A k \in 0 .. m : f[k].next \in 0 .. lw
  BY <1>1, <1>2 DEF TurnsMade
<1>4. PICK pos : pos = [k \in 0 .. m |-> f[k].next]
  OBVIOUS
<1>5. pos \in [0 .. m -> 0 .. lw]
  BY <1>3, <1>4
<1>6. ASSUME NEW k \in 1 .. m PROVE pos[k - 1] <= pos[k]
  <2>1. k - 1 \in 0 .. m /\ k \in 0 .. m
    BY <1>3
  <2>2. PICK p \in 0 .. lw, q \in 0 .. lw :
          p = f[k - 1].next /\ q = f[k].next /\ p = pos[k - 1] /\ q = pos[k]
    BY <1>3, <1>4, <2>1
  <2>3. PICK t, u : t = f[k - 1] /\ u = f[k]
    OBVIOUS
  <2>4. CASE Skips(w, t, u)
    <3>1. u = t
      BY <2>4 DEF Skips
    <3>2. p = q
      BY <2>2, <2>3, <3>1
    <3>. QED  BY <2>2, <3>2
  <2>5. ASSUME NEW h, NEW e, TakesEntry(w, t, u, h, e) PROVE p <= q
    <3>1. h = HeaderAt(w, p) /\ e = EntryAt(w, h) /\ q = h.next + Len(e.m_data)
      BY <2>2, <2>3, <2>5 DEF TakesEntry
    <3>2. h.next \in p .. lw /\ q \in h.next .. lw
      BY <1>2, <3>1, HeaderRange, EntryRange
    <3>. QED  BY <3>2
  <2>6. ASSUME NEW h, NEW ds, TakesDataSet(w, t, u, h, ds) PROVE p <= q
    <3>1. h = HeaderAt(w, p) /\ ds = ReadArrays(w, h.next, h.size) /\ q = ds.next
      BY <2>2, <2>3, <2>6 DEF TakesDataSet
    <3>2. h.next \in p .. lw /\ h.size \in Nat
      BY <1>2, <3>1, HeaderRange
    <3>3. ds.next # Lost
      BY <3>1 DEF Lost
    <3>4. h.next \in 0 .. lw
      BY <3>2
    <3>5. q \in h.next .. lw
      BY <1>2, <3>1, <3>2, <3>3, <3>4, ArraysForward
    <3>. QED  BY <3>2, <3>5
  <2>7. \/ Skips(w, t, u)
        \/ \E h, e : TakesEntry(w, t, u, h, e)
        \/ \E h, ds : TakesDataSet(w, t, u, h, ds)
    BY <1>1, <2>3 DEF TurnsMade
  <2>8. p <= q
    BY <2>4, <2>5, <2>6, <2>7, <2>2
  <2>. QED  BY <2>2, <2>8
<1>7. pos[0] <= pos[m]
  BY <1>2, <1>3, <1>5, <1>6, Forward
<1>8. 0 \in 0 .. m /\ m \in 0 .. m
  BY <1>3
<1>9. pos[0] = i /\ pos[m] = s.next /\ pos[m] \in 0 .. lw
  BY <1>3, <1>4, <1>5, <1>8
<1>. QED  BY <1>2, <1>7, <1>9

-----------------------------------------------------------------------------
(* The loop of TcpPacket::m_parse *)

ReadPacket == [cmd : Nat, m_entries : Seq(ReadEntry), m_dataSets : Seq(ReadDataSet)]

FrameStates(w) == [m_packets : Seq(ReadPacket), next : Places(w)]

\* R[k] is where the loop reads after k packets.
FramePlaces(w, i, ps, R) ==
  /\ R \in [0 .. Len(ps) -> 0 .. Len(w)]
  /\ R[0] = i /\ R[Len(ps)] = Len(w)
  /\ \A k \in 1 .. Len(ps) :
       LET h == HeaderAt(w, R[k - 1])
           s == ReadTurns(w, h.next, h.size)
       IN  /\ R[k - 1] + 1 < Len(w) /\ R[k] >= R[k - 1] + 2
           /\ h.type # NoType /\ s.next = R[k]
           /\ ps[k] = [cmd |-> h.cmd, m_entries |-> s.m_entries, m_dataSets |-> s.m_dataSets]

\* A turn, if the loop is not left, reads a packet or loses its place.
LEMMA FrameTurnKinds ==
  ASSUME NEW w \in Seq(Byte), NEW t \in FrameStates(w), ~FrameDone(w, t),
         NEW u, u = FrameTurn(w, t), NEW h, h = HeaderAt(w, t.next),
         NEW s, s = ReadTurns(w, h.next, h.size),
         NEW p, p = [cmd |-> h.cmd, m_entries |-> s.m_entries, m_dataSets |-> s.m_dataSets]
  PROVE  /\ u \in FrameStates(w)
         /\ u.next # Lost =>
              /\ t.next + 1 < Len(w) /\ h.type # NoType
              /\ p \in ReadPacket /\ u.m_packets = Append(t.m_packets, p)
              /\ u.next = s.next /\ u.next \in t.next + 2 .. Len(w)
<1>1. PICK lw \in Nat : lw = Len(w)
  OBVIOUS
<1>2. PICK i \in 0 .. lw : i = t.next /\ i # lw
  BY <1>1 DEF FrameDone, FrameStates, Places
<1>3. t.next \notin {Lost, Len(w)}
  BY DEF FrameDone
<1>4. CASE i + 1 = lw \/ h.type = NoType
  <2>1. u = [t EXCEPT !.next = Lost]
    BY <1>1, <1>2, <1>3, <1>4 DEF FrameTurn
  <2>2. u \in FrameStates(w) /\ u.next = Lost
    BY <2>1 DEF FrameStates, Places
  <2>. QED  BY <2>2
<1>5. CASE ~(i + 1 = lw \/ h.type = NoType)
  <2>1. u = WithPacket(t, h, s)
    BY <1>1, <1>2, <1>3, <1>5 DEF FrameTurn
  <2>2. u = [m_packets |-> Append(t.m_packets, p), next |-> s.next]
    BY <2>1 DEF WithPacket
  <2>3. i + 2 <= lw
    BY <1>2, <1>5
  <2>4. h.cmd \in Nat /\ h.size \in Nat /\ h.next \in i + 2 .. lw
    <3>1. PICK j : j = after16(w, i)
      OBVIOUS
    <3>2. j = i + 2 /\ j \in 0 .. lw
      BY <1>1, <2>3, <3>1, Word16Range
    <3>3. /\ h.cmd \in 0 .. Word - 1 /\ h.size \in Nat
          /\ h.type \in PrefixedTypes => h.next = after16(w, j)
          /\ h.type \notin PrefixedTypes => h.next = j
      BY <1>1, <1>2, <3>1, HeaderRange
    <3>4. after16(w, j) \in j .. lw
      BY <1>1, <3>2, Word16Range
    <3>5. Word \in Nat
      BY <1>1, <1>2, Word16Range
    <3>. QED  BY <3>2, <3>3, <3>4, <3>5
  <2>5. PICK j \in 0 .. Len(w) : j = h.next
    BY <1>1, <2>4
  <2>6. s \in TurnStates(w)
    BY <2>4, <2>5, TurnsTrace
  <2>7. p \in ReadPacket /\ s.next \in Places(w)
    BY <2>4, <2>6 DEF ReadPacket, TurnStates
  <2>8. u \in FrameStates(w)
    <3>1. t.m_packets \in Seq(ReadPacket)
      BY DEF FrameStates
    <3>2. Append(t.m_packets, p) \in Seq(ReadPacket)
      BY <2>7, <3>1, AppendProperties
    <3>. QED  BY <2>2, <2>7, <3>2 DEF FrameStates
  <2>9. s.next # Lost => s.next \in i + 2 .. lw
    <3>1. s.next # Lost => s.next \in j .. Len(w)
      BY <2>4, <2>5, TurnsForward
    <3>. QED  BY <1>1, <2>4, <2>5, <3>1
  <2>10. u.m_packets = Append(t.m_packets, p) /\ u.next = s.next
    BY <2>2
  <2>. QED  BY <1>1, <1>2, <1>5, <2>3, <2>7, <2>8, <2>9, <2>10
<1>. QED  BY <1>4, <1>5

\* The loop, whatever it reads, if no exception leaves it.
LEMMA FrameTrace ==
  ASSUME NEW w \in Seq(Byte), NEW i \in 0 .. Len(w), NEW ps,
         ReadPackets(w, i) = [status |-> "parsed", m_packets |-> ps]
  PROVE  ps \in Seq(ReadPacket) /\ \E R : FramePlaces(w, i, ps, R)
<1> DEFINE V == FrameStates(w)
<1>1. PICK lw \in Nat : lw = Len(w)
  OBVIOUS
<1>2. PICK v : v = [m_packets |-> <<>>, next |-> i]
  OBVIOUS
<1>3. v \in V
  BY <1>2 DEF FrameStates, Places
<1>4. PICK n \in Nat : n = TurnsIn(w, i) /\ 2 * n > lw - i
  BY <1>1, TurnsInFacts
<1>5. ASSUME NEW t \in V PROVE FrameTurn(w, t) \in V /\ (FrameDone(w, t) => FrameTurn(w, t) = t)
  <2>1. FrameDone(w, t) => FrameTurn(w, t) = t
    BY DEF FrameDone, FrameTurn
  <2>2. ~FrameDone(w, t) => FrameTurn(w, t) \in V
    BY FrameTurnKinds
  <2>. QED  BY <2>1, <2>2
<1> HIDE DEF V
<1>6. PICK f \in [0 .. n -> V] : f[0] = v /\ \A k \in 1 .. n : f[k] = FrameTurn(w, f[k - 1])
  <2>1. PICK step : step = [t \in V |-> FrameTurn(w, t)]
    OBVIOUS
  <2>2. step \in [V -> V]
    BY <1>5, <2>1
  <2>3. PICK f \in [0 .. n -> V] : f[0] = v /\ \A k \in 1 .. n : f[k] = step[f[k - 1]]
    <3>1. IsLoop(V, v, step, n)
      BY <1>3, <2>2 DEF IsLoop
    <3>2. PICK f : LoopStates(V, v, step, n, f)
      BY <3>1, LoopDefined
    <3>. QED  BY <3>2 DEF LoopStates
  <2>4. \A t \in V : step[t] = FrameTurn(w, t)
    BY <2>1
  <2>5. \A k \in 1 .. n : f[k - 1] \in V
    OBVIOUS
  <2>. QED  BY <2>3, <2>4, <2>5
<1>7. \A k \in 0 .. n : f[k].next \in 0 .. lw \cup {Lost}
  BY <1>1, <1>6 DEF V, FrameStates, Places
<1>8. ASSUME NEW k \in 1 .. n, ~FrameDone(w, f[k - 1]), f[k].next # Lost,
             NEW h, h = HeaderAt(w, f[k - 1].next), NEW s, s = ReadTurns(w, h.next, h.size),
             NEW p, p = [cmd |-> h.cmd, m_entries |-> s.m_entries, m_dataSets |-> s.m_dataSets]
      PROVE  /\ f[k - 1].next + 1 < lw /\ h.type # NoType
             /\ p \in ReadPacket /\ f[k].m_packets = Append(f[k - 1].m_packets, p)
             /\ f[k].next = s.next /\ f[k].next \in f[k - 1].next + 2 .. lw
  <2>1. k - 1 \in 0 .. n
    OBVIOUS
  <2>2. PICK t \in V : t = f[k - 1]
    BY <1>6, <2>1
  <2>3. PICK u : u = f[k] /\ u = FrameTurn(w, t)
    BY <1>6, <2>2
  <2>4. ~FrameDone(w, t) /\ h = HeaderAt(w, t.next) /\ u.next # Lost
    BY <1>8, <2>2, <2>3
  <2>5. /\ t.next + 1 < Len(w) /\ h.type # NoType
        /\ p \in ReadPacket /\ u.m_packets = Append(t.m_packets, p)
        /\ u.next = s.next /\ u.next \in t.next + 2 .. Len(w)
    <3>1. t \in FrameStates(w)
      BY DEF V
    <3>2. /\ s = ReadTurns(w, h.next, h.size)
          /\ p = [cmd |-> h.cmd, m_entries |-> s.m_entries, m_dataSets |-> s.m_dataSets]
      BY <1>8
    <3>3. u = FrameTurn(w, t)
      BY <2>3
    <3>. QED  BY <2>4, <3>1, <3>2, <3>3, FrameTurnKinds
  <2>. QED  BY <1>1, <2>2, <2>5, <2>3
<1>9. \E k \in 0 .. n : FrameDone(w, f[k])
  <2> SUFFICES ASSUME \A k \in 0 .. n : ~FrameDone(w, f[k]) PROVE FALSE
    OBVIOUS
  <2>1. \A k \in 0 .. n : f[k].next # Lost /\ f[k].next \in 0 .. lw
    BY <1>7 DEF FrameDone
  <2> DEFINE S == {k \in Nat : k <= n => f[k].next >= i + 2 * k}
  <2>2. 0 \in S
    BY <1>2, <1>6
  <2>3. ASSUME NEW k \in Nat, k \in S PROVE k + 1 \in S
    <3> SUFFICES ASSUME k + 1 <= n PROVE f[k + 1].next >= i + 2 * (k + 1)
      OBVIOUS
    <3>1. k + 1 \in 1 .. n /\ (k + 1) - 1 = k /\ k \in 0 .. n /\ k + 1 \in 0 .. n
      OBVIOUS
    <3>2. PICK p \in 0 .. lw, q \in 0 .. lw : p = f[k].next /\ q = f[k + 1].next
      BY <2>1, <3>1
    <3>3. q \in p + 2 .. lw
      BY <1>8, <2>1, <3>1, <3>2
    <3>4. p >= i + 2 * k
      BY <2>3, <3>1, <3>2
    <3>. QED  BY <3>2, <3>3, <3>4
  <2>4. n \in S
    <3> HIDE DEF S
    <3>. QED  BY <2>2, <2>3, SetInduction
  <2>5. n \in 0 .. n /\ f[n].next >= i + 2 * n
    BY <2>4
  <2>6. PICK q \in 0 .. lw : q = f[n].next /\ q >= i + 2 * n
    BY <2>1, <2>5
  <2>. QED  BY <1>1, <1>4, <2>6
<1>10. PICK N \in 0 .. n : FrameDone(w, f[N]) /\ \A j \in 0 .. N - 1 : ~FrameDone(w, f[j])
  <2> DEFINE D == {k \in 0 .. n : FrameDone(w, f[k])}
  <2>1. D \in SUBSET Nat /\ D # {}
    BY <1>9
  <2>2. PICK N \in D : \A j \in D : N <= j
    <3> HIDE DEF D
    <3>. QED  BY <2>1, SmallestMember
  <2>3. \A j \in 0 .. N - 1 : j \in 0 .. n /\ ~(N <= j)
    BY <2>2
  <2>. QED  BY <2>2, <2>3
<1>11. \A k \in 0 .. n : k >= N => f[k] = f[N]
  <2> DEFINE S == {m \in Nat : N + m <= n => f[N + m] = f[N]}
  <2>1. 0 \in S
    OBVIOUS
  <2>2. ASSUME NEW m \in Nat, m \in S PROVE m + 1 \in S
    <3> SUFFICES ASSUME N + (m + 1) <= n PROVE f[N + (m + 1)] = f[N]
      OBVIOUS
    <3>1. N + (m + 1) \in 1 .. n /\ (N + (m + 1)) - 1 = N + m /\ N + m <= n
      OBVIOUS
    <3>2. f[N + (m + 1)] = FrameTurn(w, f[N + m]) /\ f[N + m] = f[N] /\ f[N] \in V
      BY <1>6, <2>2, <3>1
    <3>. QED  BY <1>5, <1>10, <3>2
  <2>3. Nat \subseteq S
    <3> HIDE DEF S
    <3>. QED  BY <2>1, <2>2, SetInduction
  <2>4. ASSUME NEW k \in 0 .. n, k >= N PROVE f[k] = f[N]
    <3>1. k - N \in Nat /\ N + (k - N) = k
      BY <2>4
    <3>2. k - N \in S
      <4> HIDE DEF S
      <4>. QED  BY <2>3, <3>1
    <3>. QED  BY <3>1, <3>2
  <2>. QED  BY <2>4
<1>12. f[N].next # Lost /\ ps = f[N].m_packets
  <2>1. PICK k : k = CHOOSE j \in 0 .. n : FrameDone(w, f[j])
    OBVIOUS
  <2>2. k \in 0 .. n /\ FrameDone(w, f[k])
    BY <1>9, <2>1
  <2>3. k >= N
    <3>1. ~(k \in 0 .. N - 1)
      BY <1>10, <2>2
    <3>. QED  BY <2>2, <3>1
  <2>4. f[k] = f[N]
    BY <1>11, <2>2, <2>3
  <2>5. FrameTurns(w, i, n, f)
    <3>1. \A j \in 0 .. n : f[j] = IF j = 0 THEN [m_packets |-> <<>>, next |-> i]
                                  ELSE FrameTurn(w, f[j - 1])
      BY <1>2, <1>6
    <3>2. f = [j \in 0 .. n |-> f[j]]
      BY <1>6
    <3>. QED  BY <3>1, <3>2 DEF FrameTurns
  <2>6. ReadPackets(w, i) = IF f[k].next = Lost THEN [status |-> "lost", m_packets |-> <<>>]
                            ELSE [status |-> "parsed", m_packets |-> f[k].m_packets]
    BY <1>4, <2>1, <2>2, <2>5, FrameLoop
  <2>7. f[k].next # Lost
    <3>1. [status |-> "lost", m_packets |-> <<>>].status = "lost"
            /\ [status |-> "parsed", m_packets |-> ps].status = "parsed"
      OBVIOUS
    <3>2. "lost" # "parsed"
      OBVIOUS
    <3>. QED  BY <2>6, <3>1, <3>2
  <2>8. [status |-> "parsed", m_packets |-> f[k].m_packets] = [status |-> "parsed", m_packets |-> ps]
    BY <2>6, <2>7
  <2>9. f[k].m_packets = ps
    BY <2>8
  <2>. QED  BY <2>4, <2>7, <2>9
<1>13. f[N].next = lw
  BY <1>1, <1>10, <1>12 DEF FrameDone
<1>14. \A k \in 0 .. N : f[k].next # Lost
  BY <1>10, <1>12 DEF FrameDone
<1>15. PICK y : y = [k \in 1 .. N |-> LET h == HeaderAt(w, f[k - 1].next)
                                          s == ReadTurns(w, h.next, h.size)
                                      IN  [cmd |-> h.cmd, m_entries |-> s.m_entries,
                                           m_dataSets |-> s.m_dataSets]]
  OBVIOUS
<1>16. ASSUME NEW k \in 1 .. N, NEW h, h = HeaderAt(w, f[k - 1].next),
              NEW s, s = ReadTurns(w, h.next, h.size)
       PROVE  /\ y[k] = [cmd |-> h.cmd, m_entries |-> s.m_entries, m_dataSets |-> s.m_dataSets]
              /\ f[k - 1].next + 1 < lw /\ h.type # NoType
              /\ y[k] \in ReadPacket /\ f[k].m_packets = Append(f[k - 1].m_packets, y[k])
              /\ f[k].next = s.next /\ f[k].next \in f[k - 1].next + 2 .. lw
  <2>1. y[k] = [cmd |-> h.cmd, m_entries |-> s.m_entries, m_dataSets |-> s.m_dataSets]
    BY <1>15, <1>16
  <2>2. k \in 1 .. n /\ k - 1 \in 0 .. N - 1 /\ k \in 0 .. N
    OBVIOUS
  <2>3. ~FrameDone(w, f[k - 1]) /\ f[k].next # Lost
    BY <1>10, <1>14, <2>2
  <2>. QED  BY <1>8, <1>16, <2>1, <2>2, <2>3
<1>17. PICK g : g = [k \in 0 .. N |-> f[k].m_packets]
  OBVIOUS
<1>18. g \in [0 .. N -> Seq(ReadPacket)]
  <2>1. \A k \in 0 .. N : f[k] \in V
    BY <1>6
  <2>. QED  BY <1>17, <2>1 DEF V, FrameStates
<1>19. Collecting(ReadPacket, N, g, y)
  <2>1. \A k \in 1 .. N : y[k] \in ReadPacket /\ f[k].m_packets = Append(f[k - 1].m_packets, y[k])
    BY <1>16
  <2>2. \A k \in 1 .. N : k \in 0 .. N /\ k - 1 \in 0 .. N
    OBVIOUS
  <2>3. \A k \in 1 .. N : g[k] = Append(g[k - 1], y[k])
    BY <1>17, <2>1, <2>2
  <2>4. g[0] = <<>> /\ N \in Nat
    BY <1>2, <1>6, <1>17
  <2>5. y \in [1 .. N -> ReadPacket]
    BY <1>15, <2>1
  <2>. QED  BY <1>18, <2>3, <2>4, <2>5 DEF Collecting
<1>20. ps \in Seq(ReadPacket) /\ Len(ps) = N /\ \A k \in 1 .. N : ps[k] = y[k]
  <2>1. g[N] = ps /\ N \in 0 .. N
    BY <1>12, <1>17
  <2>2. Len(g[N]) = N /\ \A k \in 1 .. N : g[N][k] = y[k]
    BY <1>19, Collects
  <2>3. g[N] \in Seq(ReadPacket)
    BY <1>18, <2>1
  <2>. QED  BY <2>1, <2>2, <2>3
<1>21. PICK R : R = [k \in 0 .. N |-> f[k].next]
  OBVIOUS
<1>22. R \in [0 .. N -> 0 .. lw] /\ R[0] = i /\ R[N] = lw
  <2>1. \A k \in 0 .. N : f[k].next \in 0 .. lw
    BY <1>7, <1>14
  <2>. QED  BY <1>2, <1>6, <1>13, <1>21, <2>1
<1>23. ASSUME NEW k \in 1 .. N, NEW h, h = HeaderAt(w, R[k - 1]),
              NEW s, s = ReadTurns(w, h.next, h.size)
       PROVE  /\ R[k - 1] + 1 < lw /\ R[k] >= R[k - 1] + 2
              /\ h.type # NoType /\ s.next = R[k]
              /\ ps[k] = [cmd |-> h.cmd, m_entries |-> s.m_entries, m_dataSets |-> s.m_dataSets]
  <2>1. k - 1 \in 0 .. N /\ k \in 0 .. N
    OBVIOUS
  <2>2. PICK a \in 0 .. lw, b \in 0 .. lw : a = f[k - 1].next /\ b = f[k].next /\ R[k - 1] = a /\ R[k] = b
    BY <1>21, <1>22, <2>1
  <2>3. h = HeaderAt(w, f[k - 1].next)
    BY <1>23, <2>2
  <2>4. /\ y[k] = [cmd |-> h.cmd, m_entries |-> s.m_entries, m_dataSets |-> s.m_dataSets]
        /\ a + 1 < lw /\ h.type # NoType /\ b = s.next /\ b \in a + 2 .. lw
    BY <1>16, <1>23, <2>2, <2>3
  <2>. QED  BY <1>20, <2>2, <2>4
<1>24. FramePlaces(w, i, ps, R)
  BY <1>1, <1>20, <1>22, <1>23 DEF FramePlaces
<1>. QED  BY <1>20, <1>24

-----------------------------------------------------------------------------
(* Objects that are read are taken from the frame *)

\* The header of an object whose header is read, its size as read or zero.
LEMMA HeaderTaken ==
  ASSUME NEW w \in Seq(Byte), NEW i \in 0 .. Len(w), NEW h, h = HeaderAt(w, i),
         NEW g, ProperHeader(g), g.m_cmd = h.cmd,
         Prefixed(g.m_cmd) => g.m_contentSize \in {0, h.size}
  PROVE  /\ HeaderBytes(g) \in Seq(Byte)
         /\ Took(w, i, h.next, HeaderBytes(g))
         /\ h.type = TypeOf(g) /\ (h.type \in PrefixedTypes <=> Prefixed(g.m_cmd))
         /\ g.m_cmd # UNKNOWN => i + 2 <= Len(w)
         /\ ~Prefixed(g.m_cmd) => h.next = i + 2 /\ Len(HeaderBytes(g)) = 2
         /\ Prefixed(g.m_cmd) /\ h.size # 0 =>
              i + 4 <= Len(w) /\ h.next = i + 4 /\ Len(HeaderBytes(g)) = 4
<1>1. PICK lw \in Nat : lw = Len(w)
  OBVIOUS
<1>2. g \in Headers /\ g.m_cmd \in CMD_CODE /\ g.m_sizeWidth = IF Prefixed(g.m_cmd) THEN 2 ELSE 0
  BY DEF ProperHeader, Headers
<1>3. PICK c : c = g.m_cmd
  OBVIOUS
<1>4. h.type = TypeOf(g) /\ (h.type \in PrefixedTypes <=> Prefixed(c)) /\ c = uint16At(w, i)
  <2>1. h.type = (IF h.cmd \in CMD_CODE THEN g_cmd_code_types_flags[h.cmd] ELSE BeyondTable[h.cmd])
          /\ h.cmd = uint16At(w, i)
    BY HeaderRange
  <2>. QED  BY <1>2, <1>3, <2>1 DEF TypeOf, Prefixed
<1>5. PICK j \in i .. lw : j = after16(w, i) /\ (i + 2 <= lw => j = i + 2)
                             /\ (i + 2 > lw => c = 0 /\ j = i)
  BY <1>1, <1>4, Word16Range
<1>6. c # UNKNOWN => i + 2 <= lw
  BY <1>1, <1>5 DEF UNKNOWN
<1>7. HeaderBytes(g) \in Seq(Byte) /\ Len(HeaderBytes(g)) = 2 + g.m_sizeWidth
  BY <1>2, HeaderBytesTyped
<1>8. PICK b \in Seq(Byte) : b = from_uint16(c) /\ Took(w, i, j, b)
  <2>1. c \in Nat
    BY <1>2, <1>3, TableAssumption
  <2>2. from_uint16(c) \in Seq(Byte)
    BY <2>1, Word16Bytes
  <2>. QED  BY <1>4, <1>5, <2>2, TookWord
<1>9. CASE Prefixed(c)
  <2>1. /\ h.size = uint16At(w, j) /\ h.size < Word
        /\ h.next = after16(w, j)
    BY <1>4, <1>5, <1>9, HeaderRange
  <2>2. PICK z \in Nat : z = g.m_contentSize
    BY <1>2 DEF Headers
  <2>3. z = h.size \/ z = 0
    BY <1>3, <1>9, <2>2
  <2>4. PICK d \in Seq(Byte) : d = from_uint16(z)
    BY <2>2, Word16Bytes
  <2>5. j \in 0 .. Len(w)
    BY <1>1
  <2>6. Took(w, j, h.next, d)
    BY <2>1, <2>3, <2>4, <2>5, TookWord
  <2>7. HeaderBytes(g) = b \o d
    BY <1>2, <1>3, <1>8, <1>9, <2>2, <2>4 DEF HeaderBytes
  <2>8. i \in Nat
    OBVIOUS
  <2>9. Took(w, i, h.next, b \o d)
    BY <1>8, <2>4, <2>6, <2>8, TookConcat
  <2>10. h.size # 0 => i + 4 <= lw /\ h.next = i + 4
    <3> SUFFICES ASSUME h.size # 0 PROVE i + 4 <= lw /\ h.next = i + 4
      OBVIOUS
    <3>1. j + 2 <= lw /\ h.next = j + 2
      <4>1. /\ j + 2 <= Len(w) => after16(w, j) = j + 2
            /\ j + 2 > Len(w) => uint16At(w, j) = 0
        BY <2>5, Word16Range
      <4>2. j + 2 <= Len(w) \/ j + 2 > Len(w)
        BY <1>1
      <4>. QED  BY <1>1, <2>1, <4>1, <4>2
    <3>2. j = i + 2
      BY <1>5, <3>1
    <3>. QED  BY <3>1, <3>2
  <2>11. h.size # 0 => Len(HeaderBytes(g)) = 4
    BY <1>2, <1>3, <1>7, <1>9
  <2>12. Took(w, i, h.next, HeaderBytes(g))
    BY <2>7, <2>9
  <2>13. c # UNKNOWN => i + 2 <= Len(w)
    BY <1>1, <1>6
  <2>14. h.size # 0 => i + 4 <= Len(w) /\ h.next = i + 4
    BY <1>1, <2>10
  <2>. QED  BY <1>3, <1>4, <1>7, <1>9, <2>11, <2>12, <2>13, <2>14
<1>10. CASE ~Prefixed(c)
  <2>1. h.next = j
    BY <1>4, <1>5, <1>10, HeaderRange
  <2>2. HeaderBytes(g) = b
    <3>1. HeaderBytes(g) = from_uint16(c) \o <<>>
      BY <1>2, <1>3, <1>10 DEF HeaderBytes
    <3>. QED  BY <1>8, <3>1
  <2>3. c # UNKNOWN
    BY <1>10, TableAssumption DEF Prefixed, PrefixedTypes
  <2>4. j = i + 2
    BY <1>5, <1>6, <2>3
  <2>5. Len(HeaderBytes(g)) = 2 /\ h.next = i + 2
    BY <1>2, <1>3, <1>7, <1>10, <2>1, <2>4
  <2>6. Took(w, i, h.next, HeaderBytes(g))
    BY <1>8, <2>1, <2>2
  <2>7. c # UNKNOWN => i + 2 <= Len(w)
    BY <1>1, <1>6
  <2>. QED  BY <1>3, <1>4, <1>7, <1>10, <2>5, <2>6, <2>7
<1>. QED  BY <1>9, <1>10

\* An entry that is read.
LEMMA EntryTaken ==
  ASSUME NEW w \in Seq(Byte), NEW i \in 0 .. Len(w), NEW h, h = HeaderAt(w, i),
         NEW e, CorrectEntry(e), EntryAt(w, h) = EntrySeen(e)
  PROVE  /\ EntryBytes(e) \in Seq(Byte)
         /\ Took(w, i, h.next + Len(e.m_data), EntryBytes(e))
         /\ h.type = TypeOf(e.header)
         /\ SizeFits(e.header, Len(e.m_data))
         /\ isValid(EntrySeen(e)) => h.next + Len(e.m_data) = i + Len(EntryBytes(e))
<1>1. PICK lw \in Nat : lw = Len(w)
  OBVIOUS
<1>2. PICK g \in Headers, d \in Seq(Byte), n \in Nat : g = e.header /\ d = e.m_data /\ n = Len(d)
  <2>1. e.header \in Headers /\ e.m_data \in Seq(Byte) /\ Len(e.m_data) \in Nat
    BY DEF CorrectEntry, BuiltEntries
  <2>. QED  BY <2>1
<1>3. ProperHeader(g) /\ g.m_contentSize = n /\ EntryBytes(e) = HeaderBytes(g) \o d
  BY <1>2 DEF CorrectEntry, EntryBytes
<1>4. EntryAt(w, h).cmd = g.m_cmd /\ EntryAt(w, h).m_data = d
  BY <1>2 DEF EntrySeen
<1>5. /\ g.m_cmd = h.cmd
      /\ d # <<>> => /\ n = h.size /\ h.next + n <= lw
                     /\ \A k \in 1 .. n : d[k] = w[h.next + k]
  BY <1>1, <1>2, <1>4, EntryRange
<1>6. n = 0 <=> d = <<>>
  BY <1>2
<1>7. PICK hb : hb = HeaderBytes(g)
  OBVIOUS
<1>8. /\ hb \in Seq(Byte) /\ Took(w, i, h.next, hb)
      /\ h.type = TypeOf(g) /\ (h.type \in PrefixedTypes <=> Prefixed(g.m_cmd))
      /\ g.m_cmd # UNKNOWN => i + 2 <= Len(w)
      /\ ~Prefixed(g.m_cmd) => h.next = i + 2 /\ Len(hb) = 2
      /\ Prefixed(g.m_cmd) /\ h.size # 0 =>
           i + 4 <= Len(w) /\ h.next = i + 4 /\ Len(hb) = 4
  <2>1. Prefixed(g.m_cmd) => g.m_contentSize \in {0, h.size}
    BY <1>3, <1>5, <1>6
  <2>. QED  BY <1>3, <1>5, <1>7, <2>1, HeaderTaken
<1>9. /\ h.size \in Nat /\ (h.type \in PrefixedTypes => h.size < Word) /\ h.next \in i .. lw
      /\ Word \in Nat /\ Word > 0
  <2>1. Radix * Radix > 0 /\ Radix * Radix \in Nat
    BY RadixAssumption
  <2>. QED  BY <1>1, <2>1, HeaderRange DEF Word
<1>10. SizeFits(g, n)
  <2>1. CASE d = <<>>
    BY <1>6, <1>9, <2>1 DEF SizeFits
  <2>2. CASE d # <<>>
    BY <1>3, <1>5, <1>8, <1>9, <2>2 DEF SizeFits, ProperHeader
  <2>. QED  BY <2>1, <2>2
<1>11. PICK b : b = EntryBytes(e) /\ b = hb \o d
  BY <1>3, <1>7
<1>12. b \in Seq(Byte) /\ Len(b) = Len(hb) + n
  BY <1>2, <1>8, <1>11, ConcatProperties
<1>13. CASE d = <<>>
  <2>1. b = hb /\ n = 0
    BY <1>6, <1>8, <1>11, <1>13
  <2>2. h.next + n = h.next
    BY <1>9, <2>1
  <2>3. ~isValid(EntrySeen(e))
    BY <1>2, <1>13 DEF isValid, EntrySeen
  <2>. QED  BY <1>2, <1>8, <1>10, <1>11, <1>12, <2>1, <2>2, <2>3
<1>14. CASE d # <<>>
  <2>1. n = h.size /\ n # 0 /\ h.next + n <= lw /\ \A k \in 1 .. n : d[k] = w[h.next + k]
    BY <1>5, <1>6, <1>14
  <2>2. h.next = i + Len(hb) /\ Len(hb) >= 2
    <3>1. CASE Prefixed(g.m_cmd)
      <4>1. h.next = i + 4 /\ Len(hb) = 4
        BY <1>8, <2>1, <3>1
      <4>. QED  BY <4>1
    <3>2. CASE ~Prefixed(g.m_cmd)
      <4>1. h.next = i + 2 /\ Len(hb) = 2
        BY <1>8, <3>2
      <4>. QED  BY <4>1
    <3>. QED  BY <3>1, <3>2
  <2>3. Shows(w, h.next, d)
    <3>1. \A k \in 1 .. n : h.next + k <= lw
      BY <1>9, <2>1
    <3>. QED  BY <1>1, <1>2, <2>1, <3>1 DEF Shows
  <2>4. Shows(w, i, b)
    <3>1. Shows(w, i, hb) /\ i \in Nat
      BY <1>8 DEF Took
    <3>. QED  BY <1>2, <1>8, <1>11, <2>2, <2>3, <3>1, ShowsConcat
  <2>5. h.next + n = i + Len(b) /\ h.next + n \in i .. lw
    <3>1. Len(hb) \in Nat
      BY <1>8
    <3>. QED  BY <1>9, <1>12, <2>1, <2>2, <3>1
  <2>6. ~(i + 1 >= lw)
    <3>1. Len(hb) \in Nat /\ i \in Nat
      BY <1>8
    <3>. QED  BY <1>9, <2>2, <3>1
  <2>7. Took(w, i, h.next + n, b)
    BY <1>1, <2>4, <2>5, <2>6 DEF Took
  <2>. QED  BY <1>2, <1>8, <1>10, <1>11, <1>12, <2>5, <2>7
<1>. QED  BY <1>13, <1>14

-----------------------------------------------------------------------------
\* build() has corrected the entries of an array, and what is in a data set.
CorrectArray(a) == a \in BuiltArrays /\ \A k \in 1 .. Len(a) : CorrectEntry(a[k])

CorrectDataSet(ds) ==
  /\ ds \in BuiltDataSets /\ ProperHeader(ds.header)
  /\ Prefixed(ds.header.m_cmd) => ds.header.m_contentSize = Len(ds.m_anonArrays)
  /\ \A k \in 1 .. Len(ds.m_anonArrays) : CorrectArray(ds.m_anonArrays[k])

\* The number of entries and their sizes fit 16 bits.
FittingArray(a) ==
  Len(a) < Word /\ \A k \in 1 .. Len(a) : SizeFits(a[k].header, Len(a[k].m_data))

\* An array that is read.
LEMMA ArrayTaken ==
  ASSUME NEW w \in Seq(Byte), NEW i \in 0 .. Len(w), NEW r, r = ReadArray(w, i),
         r.next # Lost, NEW a, CorrectArray(a), r.m_entries = EntriesSeen(a)
  PROVE  Took(w, i, r.next, ArrayBytes(a)) /\ FittingArray(a)
<1>1. PICK n \in Nat : /\ n = uint16At(w, i) \/ n = 0
                       /\ after16(w, i) \in 0 .. Len(w)
                       /\ r = ReadEntries(w, after16(w, i), n)
  BY ArrayRange
<1>2. PICK j \in 0 .. Len(w) : j = after16(w, i)
  BY <1>1
<1>3. PICK pos : EntriesPlaces(w, j, n, r, pos)
  BY <1>1, <1>2, EntriesTrace
<1>4. pos \in [0 .. n -> 0 .. Len(w)] /\ pos[0] = j /\ pos[n] = r.next /\ Len(r.m_entries) = n
  BY <1>3 DEF EntriesPlaces
<1>5. Len(a) = n /\ \A k \in 1 .. n : r.m_entries[k] = EntrySeen(a[k])
  <2>1. a \in Seq(BuiltEntries)
    BY DEF CorrectArray, BuiltArrays
  <2>2. PICK l \in Nat : l = Len(a) /\ DOMAIN a = 1 .. l
    BY <2>1
  <2>3. r.m_entries = [k \in 1 .. l |-> EntrySeen(a[k])]
    BY <2>2 DEF EntriesSeen, EntrySeen
  <2>4. Len(r.m_entries) = l
    BY <2>3
  <2>. QED  BY <1>4, <2>2, <2>3, <2>4
<1>6. ASSUME NEW k \in 1 .. n
      PROVE  /\ Took(w, pos[k - 1], pos[k], EntryBytes(a[k]))
             /\ SizeFits(a[k].header, Len(a[k].m_data))
  <2>1. pos[k - 1] \in 0 .. Len(w)
    BY <1>4
  <2>2. PICK h : h = HeaderAt(w, pos[k - 1])
    OBVIOUS
  <2>3. r.m_entries[k] = EntryAt(w, h) /\ pos[k] = h.next + Len(r.m_entries[k].m_data)
    BY <1>3, <2>2 DEF EntriesPlaces
  <2>4. EntryAt(w, h) = EntrySeen(a[k]) /\ pos[k] = h.next + Len(a[k].m_data)
    <3>1. r.m_entries[k] = EntrySeen(a[k])
      BY <1>5
    <3>2. r.m_entries[k].m_data = a[k].m_data
      BY <3>1 DEF EntrySeen
    <3>. QED  BY <2>3, <3>1, <3>2
  <2>5. CorrectEntry(a[k])
    BY <1>5 DEF CorrectArray
  <2>. QED  BY <2>1, <2>2, <2>4, <2>5, EntryTaken
<1>7. PICK s \in Seq(Seq(Byte)) : s = EntryParts(a) /\ Len(s) = n
                                   /\ \A k \in 1 .. n : s[k] = EntryBytes(a[k])
  BY <1>5, EntryPartsTyped DEF CorrectArray
<1>8. Took(w, pos[0], pos[n], FlattenSeq(s))
  BY <1>4, <1>6, <1>7, TookFlatten
<1>9. PICK c : c = EntriesBytes(a)
  OBVIOUS
<1>10. c \in Seq(Byte) /\ c = FlattenSeq(s)
  BY <1>7, <1>9, EntriesBytesTyped DEF EntriesBytes, EntryParts, CorrectArray
<1>11. PICK b \in Seq(Byte) : b = from_uint16(n) /\ Took(w, i, j, b)
  <2>1. from_uint16(n) \in Seq(Byte)
    BY Word16Bytes
  <2>. QED  BY <1>1, <1>2, <2>1, TookWord
<1>12. Took(w, j, r.next, c)
  BY <1>4, <1>8, <1>10
<1>13. Took(w, i, r.next, b \o c)
  <2>1. i \in Nat
    OBVIOUS
  <2>. QED  BY <1>10, <1>11, <1>12, <2>1, TookConcat
<1>14. ArrayBytes(a) = b \o c
  BY <1>5, <1>9, <1>11 DEF ArrayBytes
<1>15. n < Word
  <2>1. uint16At(w, i) \in 0 .. Word - 1 /\ Word \in Nat
    BY Word16Range
  <2>. QED  BY <1>1, <2>1
<1>. QED  BY <1>5, <1>6, <1>13, <1>14, <1>15 DEF FittingArray

\* A data set that is read.
LEMMA DataSetTaken ==
  ASSUME NEW w \in Seq(Byte), NEW i \in 0 .. Len(w), NEW h, h = HeaderAt(w, i),
         h.type = DATA_SET, NEW s, s = ReadArrays(w, h.next, h.size), s.next # Lost,
         NEW ds, CorrectDataSet(ds), h.cmd = ds.header.m_cmd,
         s.m_anonArrays = ArraysSeen(ds.m_anonArrays)
  PROVE  /\ DataSetBytes(ds) \in Seq(Byte)
         /\ Took(w, i, s.next, DataSetBytes(ds))
         /\ TypeOf(ds.header) = DATA_SET
         /\ Len(ds.m_anonArrays) = h.size /\ h.size < Word
         /\ \A k \in 1 .. Len(ds.m_anonArrays) : FittingArray(ds.m_anonArrays[k])
<1>1. h.size \in Nat /\ h.next \in i .. Len(w) /\ h.size < Word
  BY HeaderRange DEF PrefixedTypes
<1>2. PICK j \in 0 .. Len(w), n \in Nat : j = h.next /\ n = h.size
  BY <1>1
<1>3. PICK pos : ArraysPlaces(w, j, n, s, pos)
  BY <1>2, ArraysTrace
<1>4. pos \in [0 .. n -> 0 .. Len(w)] /\ pos[0] = j /\ pos[n] = s.next /\ Len(s.m_anonArrays) = n
  BY <1>3 DEF ArraysPlaces
<1>5. PICK arrs \in Seq(BuiltArrays) : arrs = ds.m_anonArrays
  BY DEF CorrectDataSet, BuiltDataSets
<1>6. Len(arrs) = n /\ \A k \in 1 .. n : s.m_anonArrays[k] = EntriesSeen(arrs[k])
  <2>1. PICK l \in Nat : l = Len(arrs) /\ DOMAIN arrs = 1 .. l
    OBVIOUS
  <2>2. s.m_anonArrays = [k \in 1 .. l |-> EntriesSeen(arrs[k])]
    BY <1>5, <2>1 DEF ArraysSeen
  <2>3. Len(s.m_anonArrays) = l
    BY <2>2
  <2>. QED  BY <1>4, <2>1, <2>2, <2>3
<1>7. ASSUME NEW k \in 1 .. n
      PROVE  Took(w, pos[k - 1], pos[k], ArrayBytes(arrs[k])) /\ FittingArray(arrs[k])
  <2>1. pos[k - 1] \in 0 .. Len(w) /\ pos[k] \in 0 .. Len(w)
    BY <1>4
  <2>2. PICK r : r = ReadArray(w, pos[k - 1])
    OBVIOUS
  <2>3. s.m_anonArrays[k] = r.m_entries /\ pos[k] = r.next
    BY <1>3, <2>2 DEF ArraysPlaces
  <2>4. r.m_entries = EntriesSeen(arrs[k]) /\ r.next # Lost
    BY <1>6, <2>1, <2>3 DEF Lost
  <2>5. CorrectArray(arrs[k])
    BY <1>5, <1>6 DEF CorrectDataSet
  <2>. QED  BY <2>1, <2>2, <2>3, <2>4, <2>5, ArrayTaken
<1>8. PICK q \in Seq(Seq(Byte)) : q = ArrayParts(arrs) /\ Len(q) = n
                                   /\ \A k \in 1 .. n : q[k] = ArrayBytes(arrs[k])
  BY <1>6, ArrayPartsTyped
<1>9. Took(w, pos[0], pos[n], FlattenSeq(q))
  BY <1>4, <1>7, <1>8, TookFlatten
<1>10. PICK c \in Seq(Byte) : c = ArraysBytes(arrs) /\ c = FlattenSeq(q)
  <2>1. ArraysBytes(arrs) \in Seq(Byte)
    BY <1>5, DataSetBytesTyped DEF CorrectDataSet
  <2>. QED  BY <1>8, <2>1 DEF ArraysBytes
<1>11. Took(w, j, s.next, c)
  BY <1>4, <1>9, <1>10
<1>12. PICK b : b = HeaderBytes(ds.header)
  OBVIOUS
<1>13. b \in Seq(Byte) /\ Took(w, i, j, b) /\ TypeOf(ds.header) = DATA_SET
  <2>1. ProperHeader(ds.header)
    BY DEF CorrectDataSet
  <2>2. Prefixed(ds.header.m_cmd) => ds.header.m_contentSize \in {0, h.size}
    BY <1>2, <1>5, <1>6 DEF CorrectDataSet
  <2>. QED  BY <1>2, <1>12, <2>1, <2>2, HeaderTaken
<1>14. Took(w, i, s.next, b \o c)
  <2>1. i \in Nat
    OBVIOUS
  <2>. QED  BY <1>10, <1>11, <1>13, <2>1, TookConcat
<1>15. DataSetBytes(ds) = b \o c /\ DataSetBytes(ds) \in Seq(Byte)
  BY <1>5, <1>10, <1>12, DataSetBytesTyped DEF CorrectDataSet
<1>. QED  BY <1>1, <1>2, <1>5, <1>6, <1>7, <1>13, <1>14, <1>15

-----------------------------------------------------------------------------
(* The turns of Packet::m_parse, of which a packet is known to come *)

\* The entry read behind the first o bytes is not valid.
InvalidAt(w, o, next) ==
  LET h == HeaderAt(w, o)
      e == EntryAt(w, h)
  IN  h.type \notin {NoType, DATA_SET} /\ ~isValid(e) /\ next = h.next + Len(e.m_data)

\* The data set read behind the first o bytes is ds.
DataSetReadAt(w, o, ds) ==
  LET h == HeaderAt(w, o)
      s == ReadArrays(w, h.next, h.size)
  IN  /\ h.type = DATA_SET /\ h.cmd = ds.header.m_cmd
      /\ s.next # Lost /\ s.m_anonArrays = ArraysSeen(ds.m_anonArrays)

\* What an entry or a data set must be for a reader to make it.
FittingEntry(e) ==
  isValid(EntrySeen(e)) /\ TypeOf(e.header) # DATA_SET /\ SizeFits(e.header, Len(e.m_data))

FittingDataSet(ds) ==
  /\ TypeOf(ds.header) = DATA_SET /\ Len(ds.m_anonArrays) < Word
  /\ \A k \in 1 .. Len(ds.m_anonArrays) : FittingArray(ds.m_anonArrays[k])

\* Corrected entries and data sets: E[a] is where the bytes of the first a
\* entries end, and D[b] is how many bytes the first b data sets have.
Parcel(i, es, dss, E, D) ==
  /\ es \in BuiltArrays /\ \A k \in 1 .. Len(es) : CorrectEntry(es[k])
  /\ dss \in Seq(BuiltDataSets) /\ \A k \in 1 .. Len(dss) : CorrectDataSet(dss[k])
  /\ E \in [0 .. Len(es) -> Nat] /\ E[0] = i
  /\ \A k \in 1 .. Len(es) : E[k] = E[k - 1] + Len(EntryBytes(es[k]))
  /\ D \in [0 .. Len(dss) -> Nat] /\ D[0] = 0
  /\ \A k \in 1 .. Len(dss) : D[k] = D[k - 1] + Len(DataSetBytes(dss[k]))

\* What the reader has by now is the beginning of es and of dss.
Begun(es, dss, t) ==
  /\ Len(t.m_entries) \in 0 .. Len(es) /\ Len(t.m_dataSets) \in 0 .. Len(dss)
  /\ \A k \in 1 .. Len(t.m_entries) : t.m_entries[k] = EntrySeen(es[k])
  /\ \A k \in 1 .. Len(t.m_dataSets) : t.m_dataSets[k] = DataSetSeen(dss[k])

\* Where the reader then is, x being where the bytes of what it has would end,
\* and y where those of the last data set would begin: there; behind an invalid
\* entry; or at the end of the frame, which cuts that data set.
Ends(w, x, y, dss, b, t) ==
  \/ ~t.returned /\ t.next = x
  \/ x < Len(w) /\ InvalidAt(w, x, t.next) /\ t.returned
  \/ t.next + 1 >= Len(w) /\ b >= 1 /\ Shows(w, y, DataSetBytes(dss[b]))

\* Behind how many entries the first data set has been read; if those were all,
\* each data set has been read where its bytes would begin.
DataSetsFrom(w, E, D, ne, a, dss, b) ==
  b = 0 \/ \E c \in 0 .. a : /\ HeaderAt(w, E[c]).type = DATA_SET
                             /\ c = ne => \A k \in 1 .. b : DataSetReadAt(w, E[ne] + D[k - 1], dss[k])

\* The state of the loop after k turns.
Taken(w, es, dss, E, D, k, t) ==
  LET a == Len(t.m_entries)
      b == Len(t.m_dataSets)
  IN  /\ Ends(w, E[a] + D[b], E[a] + D[b - 1], dss, b, t)
      /\ DataSetsFrom(w, E, D, Len(es), a, dss, b)
      /\ \A j \in 1 .. a : FittingEntry(es[j])
      /\ \A j \in 1 .. b : FittingDataSet(dss[j])
      /\ a + b <= k /\ (~t.returned /\ t.next # Len(w) => a + b = k)

\* In front of the last byte there is an invalid entry.
LEMMA LastByte ==
  ASSUME NEW w \in Seq(Byte), NEW i \in 0 .. Len(w), i + 1 >= Len(w), NEW h, h = HeaderAt(w, i)
  PROVE  /\ h.cmd = UNKNOWN /\ h.type \notin {NoType, DATA_SET}
         /\ ~isValid(EntryAt(w, h))
<1>1. uint16At(w, i) = 0
  <2>1. i + 2 > Len(w)
    OBVIOUS
  <2>. QED  BY <2>1, Word16Range
<1>2. h.cmd = UNKNOWN /\ h.type = g_cmd_code_types_flags[UNKNOWN]
  BY <1>1, HeaderRange, TableAssumption DEF UNKNOWN
<1>3. EntryAt(w, h).cmd = h.cmd
  BY EntryRange
<1>. QED  BY <1>2, <1>3, TableAssumption DEF isValid, NoType, DATA_SET

\* A turn that reads an entry.
LEMMA EntryTurnTaken ==
  ASSUME NEW w \in Seq(Byte), NEW i, NEW es, NEW dss, NEW E, NEW D, Parcel(i, es, dss, E, D),
         NEW k \in Nat, NEW t \in TurnStates(w), Begun(es, dss, t), Taken(w, es, dss, E, D, k, t),
         NEW u \in TurnStates(w), Begun(es, dss, u), NEW h, NEW e, TakesEntry(w, t, u, h, e)
  PROVE  Taken(w, es, dss, E, D, k + 1, u)
<1>1. PICK lw \in Nat : lw = Len(w)
  OBVIOUS
<1>2. PICK ne \in Nat, nd \in Nat : ne = Len(es) /\ nd = Len(dss)
  BY DEF Parcel, BuiltArrays
<1>3. PICK a \in 0 .. ne, b \in 0 .. nd : a = Len(t.m_entries) /\ b = Len(t.m_dataSets)
  BY <1>2 DEF Begun
<1>4. a \in Nat /\ b \in Nat
  BY <1>3
<1>5. PICK j \in 0 .. lw - 1 : j = t.next
  BY <1>1 DEF TakesEntry
<1>6. /\ h = HeaderAt(w, j) /\ h.type # NoType /\ h.type # DATA_SET
      /\ e = EntryAt(w, h) /\ e \in ReadEntry
      /\ u.next = h.next + Len(e.m_data) /\ u.returned = ~isValid(e)
      /\ u.m_entries = (IF isValid(e) THEN Append(t.m_entries, e) ELSE t.m_entries)
      /\ u.m_dataSets = t.m_dataSets /\ ~t.returned
  BY <1>5 DEF TakesEntry
<1>7. PICK x, y : x = E[a] + D[b] /\ y = E[a] + D[b - 1]
  OBVIOUS
<1>8. /\ j = x \/ (j + 1 >= lw /\ b >= 1 /\ Shows(w, y, DataSetBytes(dss[b])))
      /\ DataSetsFrom(w, E, D, ne, a, dss, b)
      /\ \A c \in 1 .. a : FittingEntry(es[c])
      /\ \A c \in 1 .. b : FittingDataSet(dss[c])
      /\ a + b = k
  <2>1. Ends(w, x, y, dss, b, t) /\ DataSetsFrom(w, E, D, ne, a, dss, b)
          /\ (\A c \in 1 .. a : FittingEntry(es[c]))
          /\ (\A c \in 1 .. b : FittingDataSet(dss[c]))
          /\ (~t.returned /\ t.next # Len(w) => a + b = k)
    BY <1>2, <1>3, <1>7 DEF Taken
  <2>2. t.next # Len(w)
    BY <1>1, <1>5
  <2>. QED  BY <1>1, <1>5, <1>6, <2>1, <2>2 DEF Ends
<1>9. u.next \in j .. lw
  <2>1. h.next \in j .. lw /\ u.next \in h.next .. lw
    BY <1>1, <1>5, <1>6, HeaderRange, EntryRange
  <2>. QED  BY <2>1
<1>10. CASE ~isValid(e)
  <2>1. u.m_entries = t.m_entries /\ u.m_dataSets = t.m_dataSets /\ u.returned
    BY <1>6, <1>10
  <2>2. Ends(w, x, y, dss, b, u)
    <3>1. CASE j = x
      <4>1. InvalidAt(w, x, u.next)
        BY <1>6, <1>10, <3>1 DEF InvalidAt
      <4>. QED  BY <1>1, <2>1, <3>1, <4>1 DEF Ends
    <3>2. CASE j + 1 >= lw /\ b >= 1 /\ Shows(w, y, DataSetBytes(dss[b]))
      <4>1. u.next + 1 >= lw
        BY <1>9, <3>2
      <4>. QED  BY <1>1, <3>2, <4>1 DEF Ends
    <3>. QED  BY <1>8, <3>1, <3>2
  <2>3. a + b <= k + 1
    <3>1. a + b = k
      BY <1>8
    <3>. QED  BY <1>4, <3>1
  <2>. QED  BY <1>2, <1>3, <1>7, <1>8, <2>1, <2>2, <2>3 DEF Taken
<1>11. CASE isValid(e)
  <2>1. j = x
    <3>1. ~(j + 1 >= lw)
      BY <1>1, <1>5, <1>6, <1>11, LastByte
    <3>. QED  BY <1>8, <3>1
  <2>2. PICK v \in Seq(ReadEntry) : v = t.m_entries /\ Len(v) = a
    BY <1>3 DEF TurnStates
  <2>3. PICK z : z = u.m_entries /\ z = Append(v, e)
    BY <1>6, <1>11, <2>2
  <2>4. Len(z) = a + 1 /\ z[a + 1] = e
    BY <1>6, <2>2, <2>3, AppendProperties
  <2>5. a + 1 \in 1 .. ne /\ e = EntrySeen(es[a + 1]) /\ (a + 1) - 1 = a
    <3>1. Len(z) \in 0 .. ne /\ \A c \in 1 .. Len(z) : z[c] = EntrySeen(es[c])
      BY <1>2, <2>3 DEF Begun
    <3>. QED  BY <1>3, <2>4, <3>1
  <2>6. PICK q : q = es[a + 1]
    OBVIOUS
  <2>7. CorrectEntry(q)
    BY <1>2, <2>5, <2>6 DEF Parcel
  <2>8. /\ h.type = TypeOf(q.header)
        /\ SizeFits(q.header, Len(q.m_data))
        /\ h.next + Len(q.m_data) = j + Len(EntryBytes(q))
    <3>1. j \in 0 .. Len(w) /\ EntryAt(w, h) = EntrySeen(q) /\ isValid(EntrySeen(q))
      BY <1>1, <1>6, <1>11, <2>5, <2>6
    <3>. QED  BY <1>6, <2>7, <3>1, EntryTaken
  <2>9. FittingEntry(q)
    BY <1>6, <1>11, <2>5, <2>6, <2>8 DEF FittingEntry
  <2>10. u.next = E[a + 1] + D[b]
    <3>1. e.m_data = q.m_data
      BY <2>5, <2>6 DEF EntrySeen
    <3>2. u.next = x + Len(EntryBytes(q))
      BY <1>6, <2>1, <2>8, <3>1
    <3>3. E[a + 1] = E[a] + Len(EntryBytes(q))
      BY <1>2, <2>5, <2>6 DEF Parcel
    <3>4. E[a] \in Nat /\ D[b] \in Nat
      BY <1>2, <1>3 DEF Parcel
    <3>5. Len(EntryBytes(q)) \in Nat
      BY <2>7, EntryBytesTyped DEF CorrectEntry
    <3>. QED  BY <1>7, <3>2, <3>3, <3>4, <3>5
  <2>11. Len(u.m_entries) = a + 1 /\ u.m_dataSets = t.m_dataSets /\ ~u.returned
    BY <1>6, <1>11, <2>3, <2>4
  <2>12. Ends(w, E[a + 1] + D[b], E[a + 1] + D[b - 1], dss, b, u)
    BY <2>10, <2>11 DEF Ends
  <2>13. DataSetsFrom(w, E, D, ne, a + 1, dss, b)
    <3>1. \A c \in 0 .. a : c \in 0 .. a + 1
      BY <1>3
    <3>. QED  BY <1>8, <3>1 DEF DataSetsFrom
  <2>14. \A c \in 1 .. a + 1 : FittingEntry(es[c])
    <3>1. \A c \in 1 .. a + 1 : c \in 1 .. a \/ c = a + 1
      BY <1>3
    <3>. QED  BY <1>8, <2>6, <2>9, <3>1
  <2>15. (a + 1) + b = k + 1
    <3>1. a + b = k
      BY <1>8
    <3>. QED  BY <1>4, <3>1
  <2>16. (a + 1) + b <= k + 1
    BY <1>4, <2>15
  <2>17. Len(u.m_entries) = a + 1 /\ Len(u.m_dataSets) = b /\ ne = Len(es)
    BY <1>2, <1>3, <2>11
  <2>18. \A c \in 1 .. b : FittingDataSet(dss[c])
    BY <1>8
  <2>. QED  BY <2>12, <2>13, <2>14, <2>15, <2>16, <2>17, <2>18 DEF Taken
<1>. QED  BY <1>10, <1>11

\* A turn that reads a data set.
LEMMA DataSetTurnTaken ==
  ASSUME NEW w \in Seq(Byte), NEW i, NEW es, NEW dss, NEW E, NEW D, Parcel(i, es, dss, E, D),
         NEW k \in Nat, NEW t \in TurnStates(w), Begun(es, dss, t), Taken(w, es, dss, E, D, k, t),
         NEW u \in TurnStates(w), u.next # Lost, Begun(es, dss, u),
         NEW h, NEW s, TakesDataSet(w, t, u, h, s)
  PROVE  Taken(w, es, dss, E, D, k + 1, u)
<1>1. PICK lw \in Nat : lw = Len(w)
  OBVIOUS
<1>2. PICK ne \in Nat, nd \in Nat : ne = Len(es) /\ nd = Len(dss)
  BY DEF Parcel, BuiltArrays
<1>3. PICK a \in 0 .. ne, b \in 0 .. nd : a = Len(t.m_entries) /\ b = Len(t.m_dataSets)
  BY <1>2 DEF Begun
<1>4. a \in Nat /\ b \in Nat
  BY <1>3
<1>5. PICK j \in 0 .. lw - 1 : j = t.next
  BY <1>1 DEF TakesDataSet
<1>6. PICK v : v = [cmd |-> h.cmd, m_anonArrays |-> s.m_anonArrays]
  OBVIOUS
<1>7. /\ h = HeaderAt(w, j) /\ h.type = DATA_SET
      /\ s = ReadArrays(w, h.next, h.size) /\ s.m_anonArrays \in Seq(Seq(ReadEntry))
      /\ u.next = s.next /\ ~u.returned /\ ~t.returned
      /\ u.m_entries = t.m_entries
      /\ u.m_dataSets = Append(t.m_dataSets, v)
  BY <1>5, <1>6 DEF TakesDataSet
<1>8. PICK x, y : x = E[a] + D[b] /\ y = E[a] + D[b - 1]
  OBVIOUS
<1>9. /\ j = x
      /\ DataSetsFrom(w, E, D, ne, a, dss, b)
      /\ \A c \in 1 .. a : FittingEntry(es[c])
      /\ \A c \in 1 .. b : FittingDataSet(dss[c])
      /\ a + b = k
  <2>1. Ends(w, x, y, dss, b, t) /\ DataSetsFrom(w, E, D, ne, a, dss, b)
          /\ (\A c \in 1 .. a : FittingEntry(es[c]))
          /\ (\A c \in 1 .. b : FittingDataSet(dss[c]))
          /\ (~t.returned /\ t.next # Len(w) => a + b = k)
    BY <1>2, <1>3, <1>8 DEF Taken
  <2>2. t.next # Len(w)
    BY <1>1, <1>5
  <2>3. ~(j + 1 >= lw)
    BY <1>1, <1>5, <1>7, LastByte
  <2>. QED  BY <1>1, <1>5, <1>7, <2>1, <2>2, <2>3 DEF Ends
<1>10. PICK g \in Seq(ReadDataSet) : g = t.m_dataSets /\ Len(g) = b
  BY <1>3 DEF TurnStates
<1>11. PICK z : z = u.m_dataSets /\ z = Append(g, v)
  BY <1>7, <1>10
<1>12. Len(z) = b + 1 /\ z[b + 1] = v
  <2>1. h.cmd \in Nat
    <3>1. j \in 0 .. Len(w)
      BY <1>1
    <3>2. h.cmd \in 0 .. Word - 1 /\ Word \in Nat
      BY <1>7, <3>1, HeaderRange, Word16Range
    <3>. QED  BY <3>2
  <2>2. v \in ReadDataSet
    BY <1>6, <1>7, <2>1 DEF ReadDataSet
  <2>. QED  BY <1>10, <1>11, <2>2, AppendProperties
<1>13. b + 1 \in 1 .. nd /\ v = DataSetSeen(dss[b + 1]) /\ (b + 1) - 1 = b
  <2>1. Len(z) \in 0 .. nd /\ \A c \in 1 .. Len(z) : z[c] = DataSetSeen(dss[c])
    BY <1>2, <1>11 DEF Begun
  <2>. QED  BY <1>3, <1>12, <2>1
<1>14. PICK ds : ds = dss[b + 1]
  OBVIOUS
<1>15. CorrectDataSet(ds)
  BY <1>2, <1>13, <1>14 DEF Parcel
<1>16. h.cmd = ds.header.m_cmd /\ s.m_anonArrays = ArraysSeen(ds.m_anonArrays)
  <2>1. DataSetSeen(ds).cmd = ds.header.m_cmd
          /\ DataSetSeen(ds).m_anonArrays = ArraysSeen(ds.m_anonArrays)
    BY DEF DataSetSeen, ArraysSeen
  <2>2. v.cmd = h.cmd /\ v.m_anonArrays = s.m_anonArrays
    BY <1>6
  <2>. QED  BY <1>13, <1>14, <2>1, <2>2
<1>17. /\ DataSetBytes(ds) \in Seq(Byte)
       /\ Took(w, j, s.next, DataSetBytes(ds))
       /\ TypeOf(ds.header) = DATA_SET
       /\ Len(ds.m_anonArrays) = h.size /\ h.size < Word
       /\ \A c \in 1 .. Len(ds.m_anonArrays) : FittingArray(ds.m_anonArrays[c])
  <2>1. s.next # Lost
    BY <1>7
  <2>2. j \in 0 .. Len(w)
    BY <1>1
  <2>. QED  BY <1>7, <1>15, <1>16, <2>1, <2>2, DataSetTaken
<1>18. FittingDataSet(ds)
  BY <1>17 DEF FittingDataSet
<1>19. PICK l \in Nat : l = Len(DataSetBytes(ds))
  BY <1>17
<1>20. E[a] \in Nat /\ D[b] \in Nat /\ D[b + 1] = D[b] + l
  BY <1>2, <1>3, <1>13, <1>14, <1>19 DEF Parcel
<1>21. Ends(w, E[a] + D[b + 1], x, dss, b + 1, u)
  <2>1. s.next = j + l \/ s.next + 1 >= lw
    BY <1>1, <1>17, <1>19 DEF Took
  <2>2. Shows(w, x, DataSetBytes(ds))
    BY <1>9, <1>17 DEF Took
  <2>3. CASE s.next = j + l
    <3>1. u.next = E[a] + D[b + 1]
      <4>1. PICK p \in Nat, q \in Nat : p = E[a] /\ q = D[b]
        BY <1>20
      <4>2. D[b + 1] = q + l
        BY <1>20, <4>1
      <4>3. x = p + q
        BY <1>8, <4>1
      <4>4. u.next = x + l
        BY <1>7, <1>9, <2>3
      <4>. QED  BY <4>1, <4>2, <4>3, <4>4
    <3>. QED  BY <1>7, <3>1 DEF Ends
  <2>4. CASE s.next + 1 >= lw
    <3>1. u.next + 1 >= Len(w) /\ b + 1 >= 1
      BY <1>1, <1>3, <1>7, <2>4
    <3>. QED  BY <1>14, <2>2, <3>1 DEF Ends
  <2>. QED  BY <2>1, <2>3, <2>4
<1>22. DataSetsFrom(w, E, D, ne, a, dss, b + 1)
  <2>1. DataSetReadAt(w, x, ds)
    BY <1>7, <1>9, <1>16 DEF DataSetReadAt
  <2>2. CASE b = 0
    <3>1. x = E[a]
      <4>1. D[0] = 0
        BY <1>2 DEF Parcel
      <4>. QED  BY <1>8, <1>20, <2>2, <4>1
    <3>2. HeaderAt(w, E[a]).type = DATA_SET
      BY <1>7, <1>9, <3>1
    <3>3. a = ne => \A c \in 1 .. b + 1 : DataSetReadAt(w, E[ne] + D[c - 1], dss[c])
      <4> SUFFICES ASSUME a = ne, NEW c \in 1 .. b + 1
                   PROVE  DataSetReadAt(w, E[ne] + D[c - 1], dss[c])
        OBVIOUS
      <4>1. c = b + 1 /\ c - 1 = b
        BY <2>2
      <4>. QED  BY <1>8, <1>14, <2>1, <4>1
    <3>4. a \in 0 .. a
      BY <1>3
    <3>. QED  BY <3>2, <3>3, <3>4 DEF DataSetsFrom
  <2>3. CASE b # 0
    <3>1. PICK c0 \in 0 .. a :
            /\ HeaderAt(w, E[c0]).type = DATA_SET
            /\ c0 = ne => \A c \in 1 .. b : DataSetReadAt(w, E[ne] + D[c - 1], dss[c])
      BY <1>9, <2>3 DEF DataSetsFrom
    <3>2. c0 = ne => \A c \in 1 .. b + 1 : DataSetReadAt(w, E[ne] + D[c - 1], dss[c])
      <4> SUFFICES ASSUME c0 = ne, NEW c \in 1 .. b + 1
                   PROVE  DataSetReadAt(w, E[ne] + D[c - 1], dss[c])
        OBVIOUS
      <4>1. a = ne
        BY <1>3
      <4>2. CASE c = b + 1
        <5>1. c - 1 = b
          BY <1>3, <4>2
        <5>. QED  BY <1>8, <1>14, <2>1, <4>1, <4>2, <5>1
      <4>3. CASE c # b + 1
        <5>1. c \in 1 .. b
          BY <1>3, <4>3
        <5>. QED  BY <3>1, <5>1
      <4>. QED  BY <4>2, <4>3
    <3>. QED  BY <3>1, <3>2 DEF DataSetsFrom
  <2>. QED  BY <2>2, <2>3
<1>23. \A c \in 1 .. b + 1 : FittingDataSet(dss[c])
  <2>1. \A c \in 1 .. b + 1 : c \in 1 .. b \/ c = b + 1
    BY <1>3
  <2>. QED  BY <1>9, <1>14, <1>18, <2>1
<1>24. a + (b + 1) = k + 1
  <2>1. a + b = k
    BY <1>9
  <2>. QED  BY <1>4, <2>1
<1>25. Len(u.m_dataSets) = b + 1 /\ Len(u.m_entries) = a
  BY <1>3, <1>7, <1>11, <1>12
<1>26. Ends(w, E[a] + D[b + 1], E[a] + D[(b + 1) - 1], dss, b + 1, u)
  BY <1>8, <1>13, <1>21
<1>. QED  BY <1>2, <1>9, <1>22, <1>23, <1>24, <1>25, <1>26 DEF Taken

\* A turn keeps to that, whatever it reads.
LEMMA TurnTaken ==
  ASSUME NEW w \in Seq(Byte), NEW i, NEW es, NEW dss, NEW E, NEW D, Parcel(i, es, dss, E, D),
         NEW k \in Nat, NEW t \in TurnStates(w), Begun(es, dss, t), Taken(w, es, dss, E, D, k, t),
         NEW u \in TurnStates(w), u.next # Lost, Begun(es, dss, u),
         \/ Skips(w, t, u)
         \/ \E h, e : TakesEntry(w, t, u, h, e)
         \/ \E h, s : TakesDataSet(w, t, u, h, s)
  PROVE  Taken(w, es, dss, E, D, k + 1, u)
<1>1. CASE Skips(w, t, u)
  <2>1. u = t /\ (t.returned \/ t.next = Len(w))
    BY <1>1 DEF Skips
  <2>2. PICK a \in Nat, b \in Nat : a = Len(t.m_entries) /\ b = Len(t.m_dataSets)
    BY DEF TurnStates
  <2>3. a + b <= k
    BY <2>2 DEF Taken
  <2>4. a + b <= k + 1
    BY <2>3
  <2>. QED  BY <2>1, <2>2, <2>4 DEF Taken
<1>2. ASSUME NEW h, NEW e, TakesEntry(w, t, u, h, e) PROVE Taken(w, es, dss, E, D, k + 1, u)
  BY <1>2, EntryTurnTaken
<1>3. ASSUME NEW h, NEW s, TakesDataSet(w, t, u, h, s) PROVE Taken(w, es, dss, E, D, k + 1, u)
  BY <1>3, DataSetTurnTaken
<1>. QED  BY <1>1, <1>2, <1>3

\* What the reader has after each turn is the beginning of what it has at last.
LEMMA TurnsBegun ==
  ASSUME NEW w \in Seq(Byte), NEW i, NEW n, NEW s, NEW m, NEW f, TurnsMade(w, i, n, s, m, f),
         NEW es \in BuiltArrays, s.m_entries = EntriesSeen(es),
         NEW dss \in Seq(BuiltDataSets), s.m_dataSets = DataSetsSeen(dss)
  PROVE  \A k \in 0 .. m : Begun(es, dss, f[k])
<1>1. m \in Nat /\ f \in [0 .. m -> TurnStates(w)] /\ f[m] = s
  BY DEF TurnsMade
<1>2. \A k \in 0 .. m : f[k].m_entries \in Seq(ReadEntry) /\ f[k].m_dataSets \in Seq(ReadDataSet)
  BY <1>1 DEF TurnStates
<1>3. PICK x : x = [k \in 0 .. m |-> f[k].m_entries]
  OBVIOUS
<1>4. PICK y : y = [k \in 0 .. m |-> f[k].m_dataSets]
  OBVIOUS
<1>5. ASSUME NEW k \in 1 .. m
      PROVE  /\ x[k] = x[k - 1] \/ \E e \in ReadEntry : x[k] = Append(x[k - 1], e)
             /\ y[k] = y[k - 1] \/ \E d \in ReadDataSet : y[k] = Append(y[k - 1], d)
  <2>1. k \in 0 .. m /\ k - 1 \in 0 .. m
    BY <1>1
  <2>2. PICK t, u : t = f[k - 1] /\ u = f[k]
    OBVIOUS
  <2>3. /\ x[k - 1] = t.m_entries /\ x[k] = u.m_entries
        /\ y[k - 1] = t.m_dataSets /\ y[k] = u.m_dataSets
    BY <1>3, <1>4, <2>1, <2>2
  <2>4. CASE Skips(w, t, u)
    BY <2>3, <2>4 DEF Skips
  <2>5. ASSUME NEW h, NEW e, TakesEntry(w, t, u, h, e)
        PROVE  /\ x[k] = x[k - 1] \/ \E z \in ReadEntry : x[k] = Append(x[k - 1], z)
               /\ y[k] = y[k - 1]
    BY <2>3, <2>5 DEF TakesEntry
  <2>6. ASSUME NEW h, NEW d, TakesDataSet(w, t, u, h, d)
        PROVE  /\ x[k] = x[k - 1]
               /\ \E z \in ReadDataSet : y[k] = Append(y[k - 1], z)
    <3>1. t.next \in 0 .. Len(w) /\ h = HeaderAt(w, t.next)
      BY <2>6 DEF TakesDataSet
    <3>2. h.cmd \in 0 .. Word - 1 /\ Word \in Nat
      BY <3>1, HeaderRange, Word16Range
    <3>3. PICK z : z = [cmd |-> h.cmd, m_anonArrays |-> d.m_anonArrays]
      OBVIOUS
    <3>4. z \in ReadDataSet
      BY <2>6, <3>2, <3>3 DEF TakesDataSet, ReadDataSet
    <3>5. u.m_entries = t.m_entries /\ u.m_dataSets = Append(t.m_dataSets, z)
      BY <2>6, <3>3 DEF TakesDataSet
    <3>. QED  BY <2>3, <3>4, <3>5
  <2>7. \/ Skips(w, t, u)
        \/ \E h, e : TakesEntry(w, t, u, h, e)
        \/ \E h, d : TakesDataSet(w, t, u, h, d)
    BY <2>2 DEF TurnsMade
  <2>. QED  BY <2>4, <2>5, <2>6, <2>7
<1>6. Growing(ReadEntry, m, x)
  <2>1. x \in [0 .. m -> Seq(ReadEntry)]
    BY <1>2, <1>3
  <2>. QED  BY <1>1, <1>5, <2>1 DEF Growing
<1>7. Growing(ReadDataSet, m, y)
  <2>1. y \in [0 .. m -> Seq(ReadDataSet)]
    BY <1>2, <1>4
  <2>. QED  BY <1>1, <1>5, <2>1 DEF Growing
<1>8. Len(s.m_entries) = Len(es) /\ \A k \in 1 .. Len(es) : s.m_entries[k] = EntrySeen(es[k])
  <2>1. PICK l \in Nat : l = Len(es) /\ DOMAIN es = 1 .. l
    BY DEF BuiltArrays
  <2>2. s.m_entries = [k \in 1 .. l |-> EntrySeen(es[k])]
    BY <2>1 DEF EntriesSeen, EntrySeen
  <2>. QED  BY <2>1, <2>2
<1>9. Len(s.m_dataSets) = Len(dss) /\ \A k \in 1 .. Len(dss) : s.m_dataSets[k] = DataSetSeen(dss[k])
  <2>1. PICK l \in Nat : l = Len(dss) /\ DOMAIN dss = 1 .. l
    OBVIOUS
  <2>2. s.m_dataSets = [k \in 1 .. l |-> DataSetSeen(dss[k])]
    BY <2>1 DEF DataSetsSeen
  <2>. QED  BY <2>1, <2>2
<1>10. x[m] = s.m_entries /\ y[m] = s.m_dataSets
  BY <1>1, <1>3, <1>4
<1>11. ASSUME NEW k \in 0 .. m PROVE Begun(es, dss, f[k])
  <2>1. x[k] = f[k].m_entries /\ y[k] = f[k].m_dataSets
    BY <1>3, <1>4
  <2>2. PICK a, b : a = f[k].m_entries /\ b = f[k].m_dataSets
    OBVIOUS
  <2>3. Len(a) \in 0 .. Len(es) /\ \A j \in 1 .. Len(a) : s.m_entries[j] = a[j]
    BY <1>6, <1>8, <1>10, <2>1, <2>2, Grows
  <2>4. Len(b) \in 0 .. Len(dss) /\ \A j \in 1 .. Len(b) : s.m_dataSets[j] = b[j]
    BY <1>7, <1>9, <1>10, <2>1, <2>2, Grows
  <2>5. PICK la \in Nat, lb \in Nat, ne \in Nat, nd \in Nat :
          la = Len(a) /\ lb = Len(b) /\ ne = Len(es) /\ nd = Len(dss)
    <3>1. Len(a) \in Nat /\ Len(b) \in Nat
      BY <1>2, <2>2
    <3>. QED  BY <3>1 DEF BuiltArrays
  <2>6. \A j \in 1 .. la : a[j] = EntrySeen(es[j])
    <3>1. \A j \in 1 .. la : j \in 1 .. ne
      BY <2>3, <2>5
    <3>. QED  BY <1>8, <2>3, <2>5, <3>1
  <2>7. \A j \in 1 .. lb : b[j] = DataSetSeen(dss[j])
    <3>1. \A j \in 1 .. lb : j \in 1 .. nd
      BY <2>4, <2>5
    <3>. QED  BY <1>9, <2>4, <2>5, <3>1
  <2>. QED  BY <2>2, <2>3, <2>4, <2>5, <2>6, <2>7 DEF Begun
<1>. QED  BY <1>11

\* All turns.
LEMMA TurnsTaken ==
  ASSUME NEW w \in Seq(Byte), NEW i \in 0 .. Len(w), NEW n \in Nat,
         NEW s, s = ReadTurns(w, i, n), s.next # Lost,
         NEW es, NEW dss, NEW E, NEW D, Parcel(i, es, dss, E, D),
         s.m_entries = EntriesSeen(es), s.m_dataSets = DataSetsSeen(dss)
  PROVE  /\ Begun(es, dss, s) /\ s.next \in 0 .. Len(w) /\ s.returned \in BOOLEAN
         /\ \E m \in Nat : /\ m = (IF n > TurnsIn(w, i) THEN TurnsIn(w, i) ELSE n)
                           /\ Taken(w, es, dss, E, D, m, s)
<1>1. PICK m, f : TurnsMade(w, i, n, s, m, f)
  BY TurnsTrace
<1>2. /\ m \in Nat /\ m = (IF n > TurnsIn(w, i) THEN TurnsIn(w, i) ELSE n)
      /\ f \in [0 .. m -> TurnStates(w)] /\ f[m] = s
      /\ f[0].m_entries = <<>> /\ f[0].m_dataSets = <<>> /\ f[0].next = i /\ ~f[0].returned
      /\ \A k \in 0 .. m : f[k].next \in 0 .. Len(w)
  BY <1>1 DEF TurnsMade
<1>3. \A k \in 0 .. m : Begun(es, dss, f[k])
  BY <1>1, TurnsBegun DEF Parcel
<1> DEFINE S == {k \in Nat : k <= m => Taken(w, es, dss, E, D, k, f[k])}
<1>4. 0 \in S
  <2>1. PICK t : t = f[0] /\ Len(t.m_entries) = 0 /\ Len(t.m_dataSets) = 0
    BY <1>2
  <2>2. E[0] + D[0] = i
    <3>1. E[0] = i /\ D[0] = 0
      BY DEF Parcel
    <3>. QED  BY <3>1
  <2>3. Ends(w, E[0] + D[0], E[0] + D[0 - 1], dss, 0, t)
    BY <1>2, <2>1, <2>2 DEF Ends
  <2>4. DataSetsFrom(w, E, D, Len(es), 0, dss, 0)
    BY DEF DataSetsFrom
  <2>5. Taken(w, es, dss, E, D, 0, t)
    BY <2>1, <2>3, <2>4 DEF Taken
  <2>. QED  BY <2>1, <2>5
<1>5. ASSUME NEW k \in Nat, k \in S PROVE k + 1 \in S
  <2> SUFFICES ASSUME k + 1 <= m PROVE Taken(w, es, dss, E, D, k + 1, f[k + 1])
    OBVIOUS
  <2>1. k + 1 \in 1 .. m /\ (k + 1) - 1 = k /\ k \in 0 .. m /\ k + 1 \in 0 .. m /\ k <= m
    BY <1>2
  <2>2. PICK t \in TurnStates(w), u \in TurnStates(w) : t = f[k] /\ u = f[k + 1]
    BY <1>2, <2>1
  <2>3. Taken(w, es, dss, E, D, k, t) /\ Begun(es, dss, t) /\ Begun(es, dss, u)
    BY <1>3, <1>5, <2>1, <2>2
  <2>4. u.next # Lost
    BY <1>2, <2>1, <2>2 DEF Lost
  <2>5. \/ Skips(w, t, u)
        \/ \E h, e : TakesEntry(w, t, u, h, e)
        \/ \E h, ds : TakesDataSet(w, t, u, h, ds)
    <3>1. \A j \in 1 .. m : \/ Skips(w, f[j - 1], f[j])
                            \/ \E h, e : TakesEntry(w, f[j - 1], f[j], h, e)
                            \/ \E h, ds : TakesDataSet(w, f[j - 1], f[j], h, ds)
      BY <1>1 DEF TurnsMade
    <3>. QED  BY <2>1, <2>2, <3>1
  <2>6. Taken(w, es, dss, E, D, k + 1, u)
    BY <2>3, <2>4, <2>5, TurnTaken
  <2>. QED  BY <2>2, <2>6
<1>6. m \in S
  <2> HIDE DEF S
  <2>. QED  BY <1>2, <1>4, <1>5, SetInduction
<1>7. m \in 0 .. m
  BY <1>2
<1>8. s.returned \in BOOLEAN
  BY <1>2, <1>7 DEF TurnStates
<1>. QED  BY <1>2, <1>3, <1>6, <1>7, <1>8

-----------------------------------------------------------------------------
(* The packets that are read, and what may be behind them *)

\* Where parts of two bytes or more end.
LEMMA PartsLayout ==
  ASSUME NEW s \in Seq(Seq(Byte)), \A k \in 1 .. Len(s) : Len(s[k]) >= 2
  PROVE  \E off \in [0 .. Len(s) -> Nat] :
           /\ off[0] = 0 /\ off[Len(s)] = Len(FlattenSeq(s))
           /\ Len(FlattenSeq(s)) >= 2 * Len(s)
           /\ \A k \in 1 .. Len(s) : off[k] = off[k - 1] + Len(s[k])
<1>1. PICK n \in Nat : n = Len(s)
  OBVIOUS
<1>2. PICK off \in [0 .. n -> Nat] :
        /\ off[0] = 0 /\ off[n] = Len(FlattenSeq(s))
        /\ \A k \in 1 .. n : off[k] = off[k - 1] + Len(s[k])
  BY <1>1, FlattenLayout
<1>3. ASSUME NEW k \in 1 .. n PROVE off[k] >= off[k - 1] + 2
  <2>1. Len(s[k]) \in Nat /\ Len(s[k]) >= 2
    BY <1>1
  <2>2. k - 1 \in 0 .. n
    BY <1>1
  <2>3. off[k - 1] \in Nat /\ off[k] = off[k - 1] + Len(s[k])
    BY <1>2, <2>2
  <2>. QED  BY <2>1, <2>3
<1>4. off[n] >= off[0] + 2 * n
  <2>1. n \in 0 .. n
    BY <1>1
  <2>. QED  BY <1>2, <1>3, <2>1, TwoBytesEach
<1>5. Len(FlattenSeq(s)) >= 2 * n
  <2>1. off[0] = 0
    BY <1>2
  <2>2. off[n] >= 2 * n
    BY <1>4, <2>1
  <2>. QED  BY <1>2, <2>2
<1>. QED  BY <1>1, <1>2, <1>5

\* The entries and data sets of every packet of a frame are such a parcel.
LEMMA ParcelExists ==
  ASSUME NEW i \in Nat, NEW es \in BuiltArrays, \A k \in 1 .. Len(es) : CorrectEntry(es[k]),
         NEW dss \in Seq(BuiltDataSets), \A k \in 1 .. Len(dss) : CorrectDataSet(dss[k])
  PROVE  \E E, D :
           /\ Parcel(i, es, dss, E, D)
           /\ E[Len(es)] = i + Len(EntriesBytes(es)) /\ D[Len(dss)] = Len(DataSetsBytes(dss))
           /\ Len(EntriesBytes(es)) >= 2 * Len(es) /\ Len(DataSetsBytes(dss)) >= 2 * Len(dss)
<1>1. PICK ne \in Nat, nd \in Nat : ne = Len(es) /\ nd = Len(dss)
  BY DEF BuiltArrays
<1>2. PICK s \in Seq(Seq(Byte)) : /\ Len(s) = ne /\ FlattenSeq(s) = EntriesBytes(es)
                                  /\ \A k \in 1 .. ne : s[k] = EntryBytes(es[k])
  BY <1>1, EntryPartsTyped DEF EntriesBytes, EntryParts
<1>3. PICK t \in Seq(Seq(Byte)) : /\ Len(t) = nd /\ FlattenSeq(t) = DataSetsBytes(dss)
                                  /\ \A k \in 1 .. nd : t[k] = DataSetBytes(dss[k])
  BY <1>1, DataSetPartsTyped DEF DataSetsBytes
<1>4. \A k \in 1 .. ne : Len(EntryBytes(es[k])) \in Nat /\ Len(EntryBytes(es[k])) >= 2
  <2>1. \A k \in 1 .. ne : es[k] \in BuiltEntries
    BY <1>1 DEF BuiltArrays
  <2>. QED  BY <2>1, EntryBytesTyped
<1>5. \A k \in 1 .. nd : Len(DataSetBytes(dss[k])) >= 2
  <2>1. \A k \in 1 .. nd : dss[k] \in BuiltDataSets
    BY <1>1
  <2>. QED  BY <2>1, DataSetBytesTyped
<1>6. PICK off \in [0 .. ne -> Nat] :
        /\ off[0] = 0 /\ off[ne] = Len(EntriesBytes(es))
        /\ Len(EntriesBytes(es)) >= 2 * ne
        /\ \A k \in 1 .. ne : off[k] = off[k - 1] + Len(EntryBytes(es[k]))
  <2>1. \A k \in 1 .. Len(s) : Len(s[k]) >= 2
    BY <1>2, <1>4
  <2>2. PICK o \in [0 .. ne -> Nat] :
        /\ o[0] = 0 /\ o[ne] = Len(FlattenSeq(s)) /\ Len(FlattenSeq(s)) >= 2 * ne
        /\ \A k \in 1 .. ne : o[k] = o[k - 1] + Len(s[k])
    BY <1>2, <2>1, PartsLayout
  <2>. QED  BY <1>2, <2>2
<1>7. PICK D \in [0 .. nd -> Nat] :
        /\ D[0] = 0 /\ D[nd] = Len(DataSetsBytes(dss))
        /\ Len(DataSetsBytes(dss)) >= 2 * nd
        /\ \A k \in 1 .. nd : D[k] = D[k - 1] + Len(DataSetBytes(dss[k]))
  <2>1. \A k \in 1 .. Len(t) : Len(t[k]) >= 2
    BY <1>3, <1>5
  <2>2. PICK o \in [0 .. nd -> Nat] :
        /\ o[0] = 0 /\ o[nd] = Len(FlattenSeq(t)) /\ Len(FlattenSeq(t)) >= 2 * nd
        /\ \A k \in 1 .. nd : o[k] = o[k - 1] + Len(t[k])
    BY <1>3, <2>1, PartsLayout
  <2>. QED  BY <1>3, <2>2
<1>8. PICK E : E = [k \in 0 .. ne |-> i + off[k]]
  OBVIOUS
<1>9. /\ E \in [0 .. ne -> Nat] /\ E[0] = i /\ E[ne] = i + Len(EntriesBytes(es))
      /\ \A k \in 1 .. ne : E[k] = E[k - 1] + Len(EntryBytes(es[k]))
  <2>1. \A k \in 0 .. ne : E[k] = i + off[k] /\ off[k] \in Nat
    BY <1>6, <1>8
  <2>2. 0 \in 0 .. ne /\ ne \in 0 .. ne
    BY <1>1
  <2>3. ASSUME NEW k \in 1 .. ne PROVE E[k] = E[k - 1] + Len(EntryBytes(es[k]))
    <3>1. k \in 0 .. ne /\ k - 1 \in 0 .. ne
      BY <1>1
    <3>2. off[k] = off[k - 1] + Len(EntryBytes(es[k])) /\ Len(EntryBytes(es[k])) \in Nat
      BY <1>4, <1>6
    <3>. QED  BY <2>1, <3>1, <3>2
  <2>4. E \in [0 .. ne -> Nat]
    BY <1>8, <2>1
  <2>5. E[0] = i
    BY <1>6, <2>1, <2>2
  <2>. QED  BY <1>6, <2>1, <2>2, <2>3, <2>4, <2>5
<1>10. Parcel(i, es, dss, E, D)
  BY <1>1, <1>7, <1>9 DEF Parcel
<1>. QED  BY <1>1, <1>6, <1>7, <1>9, <1>10

\* An entry that is not valid takes its header, unless that is cut.
LEMMA InvalidNext ==
  ASSUME NEW w \in Seq(Byte), NEW i \in 0 .. Len(w), NEW next, InvalidAt(w, i, next)
  PROVE  /\ next \in i .. Len(w)
         /\ i + 2 <= Len(w) => next >= i + 2
         /\ i + 1 >= Len(w) => next = i
<1>1. PICK h, e : h = HeaderAt(w, i) /\ e = EntryAt(w, h)
  OBVIOUS
<1>2. PICK lw \in Nat : lw = Len(w)
  OBVIOUS
<1>3. PICK n \in Nat : n = Len(e.m_data) /\ next = h.next + n
  <2>1. e \in ReadEntry
    BY <1>1, EntryRange
  <2>2. Len(e.m_data) \in Nat
    BY <2>1 DEF ReadEntry
  <2>. QED  BY <1>1, <2>2 DEF InvalidAt
<1>4. h.next \in i .. lw /\ next \in h.next .. lw
  BY <1>1, <1>2, <1>3, HeaderRange, EntryRange
<1>5. PICK j \in i .. lw : /\ j = after16(w, i)
                           /\ i + 2 <= lw => j = i + 2
                           /\ i + 2 > lw => j = i /\ uint16At(w, i) = 0
  BY <1>2, Word16Range
<1>6. h.next >= j
  <2>1. j \in 0 .. Len(w)
    BY <1>2, <1>5
  <2>2. after16(w, j) \in j .. lw
    BY <1>2, <2>1, Word16Range
  <2>3. h.next = j \/ h.next = after16(w, j)
    BY <1>1, <1>5, HeaderRange
  <2>. QED  BY <1>5, <2>2, <2>3
<1>7. ASSUME i + 1 >= lw PROVE next = i
  <2>1. j = i /\ uint16At(w, i) = 0
    BY <1>2, <1>5, <1>7
  <2>2. h.cmd = UNKNOWN
    BY <1>1, <2>1, HeaderRange DEF UNKNOWN
  <2>3. h.type \in PrefixedTypes
    BY <1>1, <2>2, HeaderRange, TableAssumption DEF PrefixedTypes
  <2>4. h.size = 0 /\ h.next = i
    <3>1. after16(w, i) = i
      BY <1>5, <2>1
    <3>2. h.size = uint16At(w, after16(w, i)) /\ h.next = after16(w, after16(w, i))
      BY <1>1, <2>3, HeaderRange
    <3>. QED  BY <2>1, <3>1, <3>2
  <2>5. n = 0
    <3>1. e.m_data = <<>> \/ Len(e.m_data) = h.size
      BY <1>1, EntryRange
    <3>2. Len(<<>>) = 0
      OBVIOUS
    <3>. QED  BY <1>3, <2>4, <3>1, <3>2
  <2>. QED  BY <1>3, <2>4, <2>5
<1>8. i \in Nat
  OBVIOUS
<1>9. next \in i .. lw
  BY <1>4, <1>8
<1>10. ASSUME i + 2 <= lw PROVE next >= i + 2
  <2>1. j = i + 2
    BY <1>5, <1>10
  <2>. QED  BY <1>4, <1>6, <1>8, <2>1
<1>. QED  BY <1>2, <1>7, <1>9, <1>10

\* A packet that build() has corrected, and one that a reader can make.
CorrectPacket(p) ==
  /\ p \in BuiltPackets /\ ProperHeader(p.header)
  /\ \A k \in 1 .. Len(p.m_entries) : CorrectEntry(p.m_entries[k])
  /\ \A k \in 1 .. Len(p.m_dataSets) : CorrectDataSet(p.m_dataSets[k])

FittingPacket(p) ==
  /\ \A k \in 1 .. Len(p.m_entries) : FittingEntry(p.m_entries[k])
  /\ \A k \in 1 .. Len(p.m_dataSets) : FittingDataSet(p.m_dataSets[k])

\* The packet read behind the first i bytes is p, and its end is at next.
PacketReadAt(w, i, p, next) ==
  LET h == HeaderAt(w, i)
      s == ReadTurns(w, h.next, h.size)
  IN  /\ h.cmd = p.header.m_cmd /\ next = s.next /\ s.next # Lost
      /\ s.m_entries = EntriesSeen(p.m_entries) /\ s.m_dataSets = DataSetsSeen(p.m_dataSets)

\* The bytes of the last data set would end at q, and what w has of them it shows.
LastDataSetShows(w, q, p) ==
  /\ p.m_dataSets # <<>>
  /\ \E y \in Nat : LET b == DataSetBytes(p.m_dataSets[Len(p.m_dataSets)])
                    IN  y + Len(b) = q /\ Shows(w, y, b)

\* Where the reader is behind a packet that it read behind the first i bytes and
\* whose bytes would end at q: there; behind an invalid entry; or at the end of
\* the frame, which cuts the last data set or the header of an empty packet.
PacketEnds(w, i, p, q, next) ==
  \/ next = q
  \/ q < Len(w) /\ InvalidAt(w, q, next)
  \/ next + 1 >= Len(w) /\ LastDataSetShows(w, q, p)
  \/ Prefixed(p.header.m_cmd) /\ i + 4 > Len(w) /\ next = i + 2 /\ Turns(p) = 0

\* The turns of which the reader took a packet whose bytes would end at q.
PacketCounts(w, p, q, next) ==
  /\ Prefixed(p.header.m_cmd) => Turns(p) < Word
  /\ ~Prefixed(p.header.m_cmd) =>
       LET size == g_type_sizes(TypeOf(p.header))
       IN  Turns(p) <= size /\ (next = q /\ q + 1 < Len(w) => Turns(p) = size)

\* The header in front of a packet that is read.
LEMMA PacketHeaderTaken ==
  ASSUME NEW w \in Seq(Byte), NEW i \in 0 .. Len(w), i + 2 <= Len(w),
         NEW h, h = HeaderAt(w, i), NEW g, ProperHeader(g), h.cmd = g.m_cmd
  PROVE  /\ h.next \in 0 .. Len(w) /\ h.size \in Nat
         /\ Prefixed(g.m_cmd) => h.size < Word /\ Len(HeaderBytes(g)) = 4
         /\ Prefixed(g.m_cmd) /\ i + 4 > Len(w) => h.size = 0 /\ h.next = i + 2
         /\ ~Prefixed(g.m_cmd) => h.size = g_type_sizes(TypeOf(g)) /\ Len(HeaderBytes(g)) = 2
         /\ ~Prefixed(g.m_cmd) \/ i + 4 <= Len(w) => h.next = i + Len(HeaderBytes(g))
<1>1. PICK lw \in Nat : lw = Len(w)
  OBVIOUS
<1>2. g \in Headers /\ g.m_cmd \in CMD_CODE /\ g.m_sizeWidth = IF Prefixed(g.m_cmd) THEN 2 ELSE 0
  BY DEF ProperHeader, Headers
<1>3. h.type = TypeOf(g) /\ (h.type \in PrefixedTypes <=> Prefixed(g.m_cmd))
  <2>1. h.type = (IF h.cmd \in CMD_CODE THEN g_cmd_code_types_flags[h.cmd] ELSE BeyondTable[h.cmd])
    BY HeaderRange
  <2>. QED  BY <1>2, <2>1 DEF TypeOf, Prefixed
<1>4. after16(w, i) = i + 2
  BY Word16Range
<1>5. Len(HeaderBytes(g)) = 2 + g.m_sizeWidth
  BY <1>2, HeaderBytesTyped
<1>6. h.next \in i .. lw /\ h.size \in Nat
  BY <1>1, HeaderRange
<1>7. CASE Prefixed(g.m_cmd)
  <2>1. h.size = uint16At(w, i + 2) /\ h.size < Word /\ h.next = after16(w, i + 2)
    BY <1>3, <1>4, <1>7, HeaderRange
  <2>2. i + 2 \in 0 .. Len(w)
    OBVIOUS
  <2>3. /\ i + 4 <= lw => after16(w, i + 2) = i + 4
        /\ i + 4 > lw => uint16At(w, i + 2) = 0 /\ after16(w, i + 2) = i + 2
    BY <1>1, <2>2, Word16Range
  <2>4. Len(HeaderBytes(g)) = 4
    BY <1>2, <1>5, <1>7
  <2>. QED  BY <1>1, <1>6, <1>7, <2>1, <2>3, <2>4
<1>8. CASE ~Prefixed(g.m_cmd)
  <2>1. h.size = g_type_sizes(h.type) /\ h.next = i + 2
    BY <1>3, <1>4, <1>8, HeaderRange
  <2>2. Len(HeaderBytes(g)) = 2
    BY <1>2, <1>5, <1>8
  <2>. QED  BY <1>1, <1>3, <1>6, <1>8, <2>1, <2>2
<1>. QED  BY <1>7, <1>8

\* A packet that is read.
LEMMA PacketTaken ==
  ASSUME NEW w \in Seq(Byte), NEW i \in 0 .. Len(w), i + 2 <= Len(w),
         NEW p, CorrectPacket(p), NEW next, PacketReadAt(w, i, p, next),
         NEW q, q = i + Len(PacketBytes(p))
  PROVE  PacketEnds(w, i, p, q, next) /\ FittingPacket(p) /\ PacketCounts(w, p, q, next)
<1>1. PICK lw \in Nat : lw = Len(w)
  OBVIOUS
<1>2. PICK es \in BuiltArrays, dss \in Seq(BuiltDataSets) : es = p.m_entries /\ dss = p.m_dataSets
  BY DEF CorrectPacket, BuiltPackets, BuiltArrays
<1>3. PICK ne \in Nat, nd \in Nat : ne = Len(es) /\ nd = Len(dss)
  BY DEF BuiltArrays
<1>4. Turns(p) = ne + nd
  BY <1>2, <1>3 DEF Turns
<1>5. PICK g : g = p.header /\ ProperHeader(g)
  BY DEF CorrectPacket
<1>6. PICK h, s : h = HeaderAt(w, i) /\ s = ReadTurns(w, h.next, h.size)
  OBVIOUS
<1>7. /\ h.cmd = g.m_cmd /\ next = s.next /\ s.next # Lost
      /\ s.m_entries = EntriesSeen(es) /\ s.m_dataSets = DataSetsSeen(dss)
  BY <1>2, <1>5, <1>6 DEF PacketReadAt
<1>8. PICK j \in 0 .. lw, n \in Nat : j = h.next /\ n = h.size
  BY <1>1, <1>5, <1>6, <1>7, PacketHeaderTaken
<1>9. /\ Prefixed(g.m_cmd) => n < Word /\ Len(HeaderBytes(g)) = 4
      /\ Prefixed(g.m_cmd) /\ i + 4 > lw => n = 0 /\ j = i + 2
      /\ ~Prefixed(g.m_cmd) => n = g_type_sizes(TypeOf(g)) /\ Len(HeaderBytes(g)) = 2
      /\ ~Prefixed(g.m_cmd) \/ i + 4 <= lw => j = i + Len(HeaderBytes(g))
  BY <1>1, <1>5, <1>6, <1>7, <1>8, PacketHeaderTaken
<1>10. PICK E, D :
         /\ Parcel(j, es, dss, E, D)
         /\ E[ne] = j + Len(EntriesBytes(es)) /\ D[nd] = Len(DataSetsBytes(dss))
         /\ Len(EntriesBytes(es)) >= 2 * ne /\ Len(DataSetsBytes(dss)) >= 2 * nd
  <2>1. \A k \in 1 .. Len(es) : CorrectEntry(es[k])
    BY <1>2 DEF CorrectPacket
  <2>2. \A k \in 1 .. Len(dss) : CorrectDataSet(dss[k])
    BY <1>2 DEF CorrectPacket
  <2>3. j \in Nat
    BY <1>8
  <2>. QED  BY <1>3, <2>1, <2>2, <2>3, ParcelExists
<1>11. PICK le \in Nat, ld \in Nat : le = Len(EntriesBytes(es)) /\ ld = Len(DataSetsBytes(dss))
  <2>1. EntriesBytes(es) \in Seq(Byte) /\ DataSetsBytes(dss) \in Seq(Byte)
    BY <1>2, PacketBytesTyped DEF CorrectPacket
  <2>. QED  BY <2>1
<1>12. PICK x \in Nat : x = E[ne] + D[nd] /\ x = j + le + ld /\ le >= 2 * ne /\ ld >= 2 * nd
  <2>1. E[ne] = j + le /\ D[nd] = ld
    BY <1>10, <1>11
  <2>2. j \in Nat
    BY <1>8
  <2>. QED  BY <1>10, <1>11, <2>1, <2>2
<1>13. PICK m \in Nat : /\ m = (IF n > TurnsIn(w, j) THEN TurnsIn(w, j) ELSE n)
                        /\ Taken(w, es, dss, E, D, m, s)
  <2>1. j \in 0 .. Len(w) /\ s = ReadTurns(w, j, n)
    BY <1>1, <1>6, <1>8
  <2>. QED  BY <1>7, <1>10, <2>1, TurnsTaken
<1>14. next \in 0 .. lw
  <2>1. j \in 0 .. Len(w) /\ s = ReadTurns(w, j, n)
    BY <1>1, <1>6, <1>8
  <2>. QED  BY <1>1, <1>7, <1>10, <2>1, TurnsTaken
<1>15. Len(s.m_entries) = ne /\ Len(s.m_dataSets) = nd
  <2>1. DOMAIN es = 1 .. ne /\ DOMAIN dss = 1 .. nd
    BY <1>3 DEF BuiltArrays
  <2>2. /\ s.m_entries = [k \in 1 .. ne |-> EntrySeen(es[k])]
        /\ s.m_dataSets = [k \in 1 .. nd |-> DataSetSeen(dss[k])]
    BY <1>7, <2>1 DEF EntriesSeen, EntrySeen, DataSetsSeen
  <2>. QED  BY <2>2
<1>16. /\ Ends(w, x, E[ne] + D[nd - 1], dss, nd, s)
       /\ \A k \in 1 .. ne : FittingEntry(es[k])
       /\ \A k \in 1 .. nd : FittingDataSet(dss[k])
       /\ ne + nd <= m /\ (~s.returned /\ s.next # lw => ne + nd = m)
  BY <1>1, <1>12, <1>13, <1>15 DEF Taken
<1>17. m <= n
  <2>1. TurnsIn(w, j) \in Nat
    BY <1>1, <1>8, TurnsInFacts
  <2>. QED  BY <1>13, <2>1
<1>18. PICK hl \in Nat : hl = Len(HeaderBytes(g)) /\ q = i + hl + le + ld
  <2>1. Len(PacketBytes(p)) = Len(HeaderBytes(g)) + le + ld /\ HeaderBytes(g) \in Seq(Byte)
    BY <1>2, <1>5, <1>11, PacketBytesTyped DEF CorrectPacket
  <2>2. PICK l \in Nat : l = Len(HeaderBytes(g))
    BY <2>1
  <2>3. i \in Nat
    OBVIOUS
  <2>4. q = i + (l + le + ld)
    BY <2>1, <2>2
  <2>5. q = i + l + le + ld
    BY <2>3, <2>4
  <2>. QED  BY <2>2, <2>5
<1>19. FittingPacket(p)
  BY <1>2, <1>3, <1>16 DEF FittingPacket
<1>20. CASE Prefixed(g.m_cmd) /\ i + 4 > lw
  <2>1. n = 0 /\ j = i + 2
    BY <1>9, <1>20
  <2>2. ne = 0 /\ nd = 0
    BY <1>16, <1>17, <2>1
  <2>3. x = j
    <3>1. E[0] = j /\ D[0] = 0
      BY <1>10 DEF Parcel
    <3>. QED  BY <1>8, <1>12, <2>2, <3>1
  <2>4. next = i + 2
    <3>1. (~s.returned /\ s.next = x) \/ (x < Len(w) /\ InvalidAt(w, x, s.next))
      BY <1>16, <2>2 DEF Ends
    <3>2. CASE s.next = x
      BY <1>7, <2>1, <2>3, <3>2
    <3>3. CASE x < Len(w) /\ InvalidAt(w, x, s.next)
      <4>1. x \in 0 .. Len(w) /\ x + 1 >= Len(w)
        BY <1>1, <1>20, <2>1, <2>3, <3>3
      <4>2. s.next = x
        BY <3>3, <4>1, InvalidNext
      <4>. QED  BY <1>7, <2>1, <2>3, <4>2
    <3>. QED  BY <3>1, <3>2, <3>3
  <2>5. Turns(p) = 0 /\ 0 < Word
    <3>1. n < Word
      BY <1>9, <1>20
    <3>. QED  BY <1>4, <2>1, <2>2, <3>1
  <2>. QED  BY <1>1, <1>5, <1>19, <1>20, <2>4, <2>5 DEF PacketEnds, PacketCounts
<1>21. CASE ~(Prefixed(g.m_cmd) /\ i + 4 > lw)
  <2>1. j = i + hl
    <3>1. ~Prefixed(g.m_cmd) \/ i + 4 <= lw
      BY <1>1, <1>21
    <3>. QED  BY <1>9, <1>18, <3>1
  <2>2. x = q
    <3>1. i \in Nat
      OBVIOUS
    <3>. QED  BY <1>12, <1>18, <2>1, <3>1
  <2>3. PacketEnds(w, i, p, q, next)
    <3>1. \/ ~s.returned /\ s.next = x
          \/ x < Len(w) /\ InvalidAt(w, x, s.next)
          \/ /\ s.next + 1 >= Len(w) /\ nd >= 1
             /\ Shows(w, E[ne] + D[nd - 1], DataSetBytes(dss[nd]))
      BY <1>16 DEF Ends
    <3>2. CASE s.next = x
      BY <1>7, <2>2, <3>2 DEF PacketEnds
    <3>3. CASE x < Len(w) /\ InvalidAt(w, x, s.next)
      BY <1>7, <2>2, <3>3 DEF PacketEnds
    <3>4. CASE s.next + 1 >= Len(w) /\ nd >= 1
                 /\ Shows(w, E[ne] + D[nd - 1], DataSetBytes(dss[nd]))
      <4>1. PICK b : b = DataSetBytes(dss[nd])
        OBVIOUS
      <4>2. E[ne] \in Nat /\ D[nd - 1] \in Nat /\ D[nd] = D[nd - 1] + Len(b)
        <5>1. nd \in 1 .. nd /\ nd - 1 \in 0 .. nd /\ ne \in 0 .. ne
          BY <3>4
        <5>2. E \in [0 .. ne -> Nat] /\ D \in [0 .. nd -> Nat]
                /\ \A k \in 1 .. nd : D[k] = D[k - 1] + Len(DataSetBytes(dss[k]))
          BY <1>3, <1>10 DEF Parcel
        <5>. QED  BY <4>1, <5>1, <5>2
      <4>3. Len(b) \in Nat
        <5>1. dss[nd] \in BuiltDataSets
          BY <1>3, <3>4
        <5>. QED  BY <4>1, <5>1, DataSetBytesTyped
      <4>4. PICK y \in Nat : y = E[ne] + D[nd - 1]
        BY <4>2
      <4>5. y + Len(b) = q
        BY <1>12, <2>2, <4>2, <4>3, <4>4
      <4>6. dss # <<>>
        BY <1>3, <3>4
      <4>7. LastDataSetShows(w, q, p)
        BY <1>2, <1>3, <3>4, <4>1, <4>4, <4>5, <4>6 DEF LastDataSetShows
      <4>. QED  BY <1>7, <3>4, <4>7 DEF PacketEnds
    <3>. QED  BY <3>1, <3>2, <3>3, <3>4
  <2>4. PacketCounts(w, p, q, next)
    <3>1. CASE Prefixed(g.m_cmd)
      <4>1. n < Word
        BY <1>9, <3>1
      <4>2. Word \in Nat
        BY RadixAssumption DEF Word
      <4>3. ne + nd < Word
        BY <1>16, <1>17, <4>1, <4>2
      <4>. QED  BY <1>4, <1>5, <3>1, <4>3 DEF PacketCounts
    <3>2. CASE ~Prefixed(g.m_cmd)
      <4>1. n = g_type_sizes(TypeOf(g))
        BY <1>9, <3>2
      <4>2. ne + nd <= n
        BY <1>16, <1>17
      <4>3. ASSUME next = q, q + 1 < lw PROVE ne + nd = n
        <5>1. ~s.returned
          <6>1. ~InvalidAt(w, x, s.next)
            <7>1. x \in 0 .. Len(w) /\ x + 2 <= Len(w)
              BY <1>1, <2>2, <4>3
            <7>2. s.next = x
              BY <1>7, <2>2, <4>3
            <7>. QED  BY <7>1, <7>2, InvalidNext
          <6>2. ~(s.next + 1 >= Len(w))
            BY <1>1, <1>7, <1>14, <4>3
          <6>. QED  BY <1>16, <6>1, <6>2 DEF Ends
        <5>2. s.next # lw
          BY <1>7, <1>14, <4>3
        <5>3. ne + nd = m
          BY <1>16, <5>1, <5>2
        <5>4. PICK t \in Nat : t = TurnsIn(w, j) /\ 2 * t > lw - j
          BY <1>1, <1>8, TurnsInFacts
        <5>5. m # t
          <6>1. x < lw /\ x = j + le + ld
            BY <1>12, <2>2, <4>3
          <6>2. j \in Nat /\ le >= 2 * ne /\ ld >= 2 * nd
            BY <1>8, <1>12
          <6>3. lw - j > 2 * ne + 2 * nd \/ lw - j > le + ld
            BY <1>1, <6>1, <6>2
          <6>. QED  BY <1>1, <5>3, <5>4, <6>2, <6>3
        <5>. QED  BY <1>13, <5>3, <5>4, <5>5
      <4>. QED  BY <1>1, <1>4, <1>5, <3>2, <4>1, <4>2, <4>3 DEF PacketCounts
    <3>. QED  BY <3>1, <3>2
  <2>. QED  BY <1>19, <2>3, <2>4
<1>. QED  BY <1>20, <1>21

-----------------------------------------------------------------------------
(* What the frame holds where a reader does not look for it *)

\* Bytes at the end of w that are not all zero are not shown further on too.
LEMMA ShownOnce ==
  ASSUME NEW w \in Seq(Byte), NEW b \in Seq(Byte), ~Nothing(b),
         NEW i \in Nat, At(w, i, b), i + Len(b) = Len(w), NEW y \in Nat, y > i
  PROVE  ~Shows(w, y, b)
<1> SUFFICES ASSUME Shows(w, y, b) PROVE FALSE
  OBVIOUS
<1>1. PICK lw \in Nat, lb \in Nat : lw = Len(w) /\ lb = Len(b)
  OBVIOUS
<1> DEFINE T == {m \in Nat : m < lb /\ b[lb - m] # 0}
<1>2. T # {}
  <2>1. PICK k \in 1 .. lb : b[k] # 0
    BY <1>1 DEF Nothing
  <2>2. lb - k \in Nat /\ lb - k < lb /\ lb - (lb - k) = k
    BY <1>1
  <2>3. lb - k \in T
    BY <2>1, <2>2
  <2>. QED  BY <2>3
<1>3. PICK m \in T : \A n \in T : m <= n
  <2>1. T \in SUBSET Nat
    OBVIOUS
  <2> HIDE DEF T
  <2>. QED  BY <1>2, <2>1, SmallestMember
<1>4. PICK k \in 1 .. lb : k = lb - m /\ b[k] # 0
  BY <1>1
<1>5. PICK d \in Nat \ {0} : y = i + d
  <2>1. y - i \in Nat \ {0} /\ y = i + (y - i)
    OBVIOUS
  <2>. QED  BY <2>1
<1>6. y + k <= lw /\ w[y + k] = b[k]
  BY <1>1, <1>4 DEF Shows
<1>7. d + k \in 1 .. lb
  BY <1>1, <1>4, <1>5, <1>6
<1>8. i + (d + k) = y + k
  BY <1>4, <1>5
<1>9. b[d + k] # 0
  <2>1. w[i + (d + k)] = b[d + k]
    BY <1>1, <1>7 DEF At
  <2>. QED  BY <1>4, <1>6, <1>8, <2>1
<1>10. lb - (d + k) \in Nat /\ lb - (d + k) < lb /\ lb - (lb - (d + k)) = d + k
  BY <1>1, <1>4, <1>5, <1>7
<1>11. lb - (d + k) \in T
  BY <1>9, <1>10
<1>12. m <= lb - (d + k) /\ m \in Nat
  BY <1>3, <1>11
<1>. QED  BY <1>1, <1>4, <1>5, <1>12

\* A data set has a command.
LEMMA DataSetNotNothing ==
  ASSUME NEW ds \in BuiltDataSets, TypeOf(ds.header) = DATA_SET
  PROVE  ~Nothing(DataSetBytes(ds))
<1>1. PICK g \in Headers : g = ds.header
  BY DEF BuiltDataSets
<1>2. PICK c \in Nat : c = g.m_cmd /\ c # 0 /\ c < Word
  <2>1. g.m_cmd \in CMD_CODE
    BY DEF Headers
  <2>2. g.m_cmd # 0
    BY <1>1, TableAssumption DEF TypeOf, DATA_SET, UNKNOWN
  <2>3. Word \in Nat
    BY RadixAssumption DEF Word
  <2>4. g.m_cmd \in 0 .. Word - 1
    BY <2>1, CodesAssumption
  <2>. QED  BY <2>2, <2>3, <2>4
<1>3. PICK b : b = from_uint16(c)
  OBVIOUS
<1>4. b[1] # 0 \/ b[2] # 0
  <2>1. b[1] = c % Radix /\ b[2] = (c \div Radix) % Radix
    BY <1>3 DEF from_uint16
  <2>2. Radix \in Nat \ {0}
    BY RadixAssumption
  <2>3. (c % Radix) + Radix * ((c \div Radix) % Radix) = c
    <3>1. (c % Radix) + Radix * ((c \div Radix) % Radix) = c % (Radix * Radix)
            /\ (c < Radix * Radix => c % (Radix * Radix) = c)
      BY <2>2, TwoDigits
    <3>. QED  BY <1>2, <3>1 DEF Word
  <2>4. PICK x, z : x = c % Radix /\ z = (c \div Radix) % Radix
    OBVIOUS
  <2>5. x = 0 /\ z = 0 => c = 0
    BY <2>2, <2>3, <2>4
  <2>. QED  BY <1>2, <2>1, <2>4, <2>5
<1>5. b \in Seq(Byte) /\ Len(b) = 2
  BY <1>3, Word16Bytes
<1>6. PICK r \in Seq(Byte) : HeaderBytes(g) = b \o r
  <2>1. g.m_contentSize \in Nat
    BY DEF Headers
  <2>2. from_uint16(g.m_contentSize) \in Seq(Byte) /\ <<>> \in Seq(Byte)
    BY <2>1, Word16Bytes
  <2>. QED  BY <1>2, <1>3, <2>2 DEF HeaderBytes
<1>7. PICK t \in Seq(Byte) : DataSetBytes(ds) = (b \o r) \o t
  BY <1>1, <1>6, DataSetBytesTyped
<1>8. \A k \in 1 .. 2 : ((b \o r) \o t)[k] = b[k] /\ k \in 1 .. Len((b \o r) \o t)
  <2>1. PICK lr \in Nat, lt \in Nat : lr = Len(r) /\ lt = Len(t)
    OBVIOUS
  <2>2. PICK d : d = b \o r
    OBVIOUS
  <2>3. /\ d \in Seq(Byte) /\ Len(d) = Len(b) + Len(r)
        /\ \A k \in 1 .. Len(b) + Len(r) : d[k] = IF k <= Len(b) THEN b[k] ELSE r[k - Len(b)]
    BY <1>5, <2>2, ConcatProperties
  <2>4. PICK z : z = d \o t
    OBVIOUS
  <2>5. Len(z) = Len(d) + Len(t)
          /\ \A k \in 1 .. Len(d) + Len(t) : z[k] = IF k <= Len(d) THEN d[k] ELSE t[k - Len(d)]
    BY <2>3, <2>4, ConcatProperties
  <2>6. \A k \in 1 .. 2 : k \in 1 .. Len(z) /\ z[k] = d[k] /\ d[k] = b[k]
    BY <1>5, <2>1, <2>3, <2>5
  <2>. QED  BY <2>2, <2>4, <2>6
<1>. QED  BY <1>4, <1>7, <1>8 DEF Nothing

\* A header that occurs in a frame is read there.
LEMMA CommandAt ==
  ASSUME NEW w \in Seq(Byte), NEW i \in Nat, NEW g, ProperHeader(g), At(w, i, HeaderBytes(g)),
         NEW h, h = HeaderAt(w, i)
  PROVE  /\ i + 2 <= Len(w) /\ uint16At(w, i) = g.m_cmd
         /\ h.cmd = g.m_cmd /\ h.type = TypeOf(g) /\ h.next = i + Len(HeaderBytes(g))
         /\ Len(HeaderBytes(g)) = IF Prefixed(g.m_cmd) THEN 4 ELSE 2
         /\ ~Prefixed(g.m_cmd) => h.size = g_type_sizes(TypeOf(g))
<1>1. g \in Headers /\ g.m_cmd \in CMD_CODE /\ g.m_contentSize \in Nat
  BY DEF ProperHeader, Headers
<1>2. PICK c \in Nat : c = g.m_cmd /\ c < Word
  <2>1. Word \in Nat
    BY RadixAssumption DEF Word
  <2>2. g.m_cmd \in 0 .. Word - 1
    BY <1>1, CodesAssumption
  <2>. QED  BY <2>1, <2>2
<1>3. PICK b \in Seq(Byte), r \in Seq(Byte) :
        b = from_uint16(c) /\ HeaderBytes(g) = b \o r
  <2>1. from_uint16(g.m_contentSize) \in Seq(Byte) /\ <<>> \in Seq(Byte)
          /\ from_uint16(c) \in Seq(Byte)
    BY <1>1, Word16Bytes
  <2>. QED  BY <1>2, <2>1 DEF HeaderBytes
<1>4. At(w, i, b)
  BY <1>3, AtConcat
<1>5. uint16At(w, i) = c
  BY <1>2, <1>3, <1>4, Word16Read, FitsWord
<1>6. i + 2 <= Len(w)
  <2>1. Len(b) = 2
    BY <1>3, Word16Bytes
  <2>. QED  BY <1>4, <2>1 DEF At
<1>7. i \in 0 .. Len(w)
  BY <1>6
<1>8. h.cmd = g.m_cmd
        /\ h.type = IF h.cmd \in CMD_CODE THEN g_cmd_code_types_flags[h.cmd] ELSE BeyondTable[h.cmd]
  BY <1>2, <1>5, <1>7, HeaderRange
<1>9. h.type = TypeOf(g)
  BY <1>1, <1>8 DEF TypeOf
<1>10. Len(HeaderBytes(g)) = IF Prefixed(g.m_cmd) THEN 4 ELSE 2
  BY <1>6, <1>7, <1>8, PacketHeaderTaken
<1>11. ~Prefixed(g.m_cmd) \/ i + 4 <= Len(w)
  BY <1>10 DEF At
<1>12. h.next = i + Len(HeaderBytes(g))
         /\ (~Prefixed(g.m_cmd) => h.size = g_type_sizes(TypeOf(g)))
  BY <1>6, <1>7, <1>8, <1>11, PacketHeaderTaken
<1>. QED  BY <1>2, <1>5, <1>6, <1>8, <1>9, <1>10, <1>12

\* The parts of a packet that occurs in a frame.
LEMMA PacketPartsAt ==
  ASSUME NEW w \in Seq(Byte), NEW i \in Nat, NEW p \in BuiltPackets, At(w, i, PacketBytes(p)),
         NEW j, j = i + Len(HeaderBytes(p.header))
  PROVE  /\ At(w, i, HeaderBytes(p.header)) /\ j \in Nat
         /\ At(w, j, EntriesBytes(p.m_entries))
         /\ j + Len(EntriesBytes(p.m_entries)) \in Nat
         /\ At(w, j + Len(EntriesBytes(p.m_entries)), DataSetsBytes(p.m_dataSets))
         /\ i + Len(PacketBytes(p)) =
              (j + Len(EntriesBytes(p.m_entries))) + Len(DataSetsBytes(p.m_dataSets))
<1>1. PICK a \in Seq(Byte), b \in Seq(Byte), c \in Seq(Byte) :
        /\ a = HeaderBytes(p.header) /\ b = EntriesBytes(p.m_entries)
        /\ c = DataSetsBytes(p.m_dataSets)
        /\ PacketBytes(p) = (a \o b) \o c
  BY PacketBytesTyped
<1>2. PICK la \in Nat, lb \in Nat, lc \in Nat :
        la = Len(a) /\ lb = Len(b) /\ lc = Len(c)
  OBVIOUS
<1>3. a \o b \in Seq(Byte) /\ Len(a \o b) = la + lb
  BY <1>2
<1>4. At(w, i, a \o b) /\ At(w, i + Len(a \o b), c)
  <2>1. PICK d \in Seq(Byte) : d = a \o b
    BY <1>3
  <2>2. At(w, i, d \o c)
    BY <1>1, <2>1
  <2>3. At(w, i, d) /\ At(w, i + Len(d), c)
    BY <2>2, AtConcat
  <2>. QED  BY <2>1, <2>3
<1>5. At(w, i, a) /\ At(w, i + Len(a), b)
  BY <1>4, AtConcat
<1>6. j \in Nat /\ i + Len(a \o b) = j + lb
  BY <1>1, <1>2, <1>3
<1>7. i + Len(PacketBytes(p)) = (j + lb) + lc
  <2>1. Len((a \o b) \o c) = la + lb + lc
    BY <1>2, <1>3
  <2>. QED  BY <1>1, <1>2, <2>1
<1>8. At(w, j + lb, c)
  BY <1>4, <1>6
<1>. QED  BY <1>1, <1>2, <1>5, <1>6, <1>7, <1>8

\* If the command of a packet occurs in a frame a second time, right behind its
\* header, and has no size, the packet has an entry of that command or is empty.
LEMMA CommandTwice ==
  ASSUME NEW w \in Seq(Byte), NEW i \in Nat, NEW p, CorrectPacket(p), FittingPacket(p),
         At(w, i, PacketBytes(p)), ~Prefixed(p.header.m_cmd),
         uint16At(w, i + 2) = p.header.m_cmd
  PROVE  \/ i + 4 + g_type_sizes(TypeOf(p.header)) <= Len(w)
         \/ Len(PacketBytes(p)) = 2
<1>1. p \in BuiltPackets /\ ProperHeader(p.header)
  BY DEF CorrectPacket
<1>2. PICK c : c = p.header.m_cmd
  OBVIOUS
<1>3. PICK es \in BuiltArrays, dss \in Seq(BuiltDataSets) : es = p.m_entries /\ dss = p.m_dataSets
  BY <1>1 DEF BuiltPackets, BuiltArrays
<1>4. /\ At(w, i, HeaderBytes(p.header))
      /\ At(w, i + Len(HeaderBytes(p.header)), EntriesBytes(es))
      /\ At(w, (i + Len(HeaderBytes(p.header))) + Len(EntriesBytes(es)), DataSetsBytes(dss))
  BY <1>1, <1>3, PacketPartsAt
<1>5. Len(HeaderBytes(p.header)) = 2
  BY <1>1, <1>4, CommandAt
<1>6. PICK j \in Nat : j = i + 2
  OBVIOUS
<1>7. uint16At(w, j) = c
  BY <1>2, <1>6
<1>8. At(w, j, EntriesBytes(es)) /\ At(w, j + Len(EntriesBytes(es)), DataSetsBytes(dss))
  BY <1>4, <1>5, <1>6
<1>9. PICK ne \in Nat, nd \in Nat : ne = Len(es) /\ nd = Len(dss)
  BY DEF BuiltArrays
<1>10. CASE ne # 0
  <2>1. 1 \in 1 .. ne /\ 1 - 1 = 0
    BY <1>9, <1>10
  <2>2. PICK off : off[0] = j /\ \A k \in 1 .. ne : At(w, off[k - 1], EntryBytes(es[k]))
    <3>1. PICK o \in [0 .. Len(es) -> Nat] :
            /\ o[0] = j /\ o[Len(es)] = j + Len(EntriesBytes(es))
            /\ \A k \in 1 .. Len(es) : /\ o[k] = o[k - 1] + Len(EntryBytes(es[k]))
                                       /\ o[k] >= o[k - 1] + 2
                                       /\ o[k] <= Len(w)
                                       /\ At(w, o[k - 1], EntryBytes(es[k]))
      BY <1>8, EntriesAt
    <3>. QED  BY <1>9, <3>1
  <2>3. PICK e : e = es[1] /\ At(w, j, EntryBytes(e)) /\ CorrectEntry(e)
    <3>1. At(w, off[1 - 1], EntryBytes(es[1]))
      BY <2>1, <2>2
    <3>2. CorrectEntry(es[1])
      BY <1>3, <1>9, <2>1 DEF CorrectPacket
    <3>. QED  BY <2>1, <2>2, <3>1, <3>2
  <2>4. PICK g \in Headers, d \in Seq(Byte) : g = e.header /\ d = e.m_data
    BY <2>3 DEF CorrectEntry, BuiltEntries
  <2>5. PICK a \in Seq(Byte) : a = HeaderBytes(g) /\ EntryBytes(e) = a \o d
    BY <2>4, HeaderBytesTyped DEF EntryBytes
  <2>6. At(w, j, a) /\ At(w, j + Len(a), d)
    BY <2>3, <2>5, AtConcat
  <2>7. ProperHeader(g)
    BY <2>3, <2>4 DEF CorrectEntry
  <2>8. g.m_cmd = c /\ Len(a) = IF Prefixed(g.m_cmd) THEN 4 ELSE 2
    BY <1>7, <2>5, <2>6, <2>7, CommandAt
  <2>9. ~Prefixed(g.m_cmd) /\ TypeOf(g) = TypeOf(p.header)
    BY <1>2, <2>8 DEF TypeOf
  <2>10. Len(d) = g_type_sizes(TypeOf(p.header))
    BY <2>3, <2>4, <2>9 DEF CorrectEntry
  <2>11. j + 2 + Len(d) <= Len(w)
    BY <2>6, <2>8, <2>9 DEF At
  <2>12. PICK n \in Nat : n = Len(d)
    OBVIOUS
  <2>. QED  BY <1>6, <2>10, <2>11, <2>12
<1>11. CASE ne = 0 /\ nd # 0
  <2>1. 1 \in 1 .. nd /\ 1 - 1 = 0
    BY <1>9, <1>11
  <2>2. EntriesBytes(es) = <<>>
    <3>1. es = <<>>
      BY <1>9, <1>11, EmptySeq DEF BuiltArrays
    <3>2. [k \in {} |-> EntryBytes(<<>>[k])] = <<>>
      OBVIOUS
    <3>3. FlattenSeq(<<>>) = <<>>
      BY FlattenFacts
    <3>. QED  BY <3>1, <3>2, <3>3 DEF EntriesBytes
  <2>3. At(w, j, DataSetsBytes(dss))
    <3>1. j + Len(<<>>) = j
      BY <1>6
    <3>. QED  BY <1>8, <2>2, <3>1
  <2>4. PICK off : off[0] = j /\ \A k \in 1 .. nd : At(w, off[k - 1], DataSetBytes(dss[k]))
    <3>1. \E o \in [0 .. nd -> Nat] :
            o[0] = j /\ \A k \in 1 .. nd : At(w, o[k - 1], DataSetBytes(dss[k]))
      BY <1>9, <2>3, DataSetsAt
    <3>. QED  BY <3>1
  <2>5. PICK d \in BuiltDataSets : d = dss[1] /\ At(w, j, DataSetBytes(d)) /\ CorrectDataSet(d)
                                     /\ TypeOf(d.header) = DATA_SET
    <3>1. At(w, off[1 - 1], DataSetBytes(dss[1]))
      BY <2>1, <2>4
    <3>2. CorrectDataSet(dss[1]) /\ FittingDataSet(dss[1])
      BY <1>3, <1>9, <2>1 DEF CorrectPacket, FittingPacket
    <3>3. dss[1] \in BuiltDataSets /\ TypeOf(dss[1].header) = DATA_SET
      BY <3>2 DEF CorrectDataSet, FittingDataSet
    <3>. QED  BY <2>1, <2>4, <3>1, <3>2, <3>3
  <2>6. PICK g \in Headers : g = d.header /\ ProperHeader(g)
    BY <2>5 DEF CorrectDataSet, BuiltDataSets
  <2>7. At(w, j, HeaderBytes(g))
    <3>1. ArraysBytes(d.m_anonArrays) \in Seq(Byte) /\ HeaderBytes(g) \in Seq(Byte)
            /\ DataSetBytes(d) = HeaderBytes(g) \o ArraysBytes(d.m_anonArrays)
      BY <2>6, DataSetBytesTyped, HeaderBytesTyped
    <3>. QED  BY <2>5, <3>1, AtConcat
  <2>8. g.m_cmd = c
    BY <1>7, <2>6, <2>7, CommandAt
  <2>9. TypeOf(g) \in PrefixedTypes
    BY <2>5, <2>6 DEF PrefixedTypes
  <2>. QED  BY <1>2, <2>8, <2>9 DEF TypeOf, Prefixed
<1>12. CASE ne = 0 /\ nd = 0
  <2>1. es = <<>> /\ dss = <<>>
    BY <1>9, <1>12, EmptySeq DEF BuiltArrays
  <2>2. EntriesBytes(<<>>) = <<>> /\ DataSetsBytes(<<>>) = <<>>
    <3>1. [k \in {} |-> EntryBytes(<<>>[k])] = <<>> /\ [k \in {} |-> DataSetBytes(<<>>[k])] = <<>>
      OBVIOUS
    <3>2. FlattenSeq(<<>>) = <<>>
      BY FlattenFacts
    <3>. QED  BY <3>1, <3>2 DEF EntriesBytes, DataSetsBytes, DataSetParts
  <2>3. Len(EntriesBytes(es)) = 0 /\ Len(DataSetsBytes(dss)) = 0
    <3>1. Len(<<>>) = 0
      OBVIOUS
    <3>. QED  BY <2>1, <2>2, <3>1
  <2>4. Len(PacketBytes(p)) = Len(HeaderBytes(p.header)) + Len(EntriesBytes(es))
                                + Len(DataSetsBytes(dss))
    BY <1>1, <1>3, PacketBytesTyped
  <2>. QED  BY <1>5, <2>3, <2>4
<1>. QED  BY <1>9, <1>10, <1>11, <1>12

\* The packets ps occur in w, behind its size, up to its end; and a reader has
\* read them, too.  Q says where they end, R where the reader was behind each.
BothWays(w, ps, Q, R) ==
  /\ ps \in Seq(BuiltPackets) /\ \A k \in 1 .. Len(ps) : CorrectPacket(ps[k])
  /\ Q \in [0 .. Len(ps) -> Nat] /\ Q[0] = 2 /\ Q[Len(ps)] = Len(w)
  /\ R \in [0 .. Len(ps) -> 0 .. Len(w)] /\ R[0] = 2 /\ R[Len(ps)] = Len(w)
  /\ \A k \in 1 .. Len(ps) : /\ Q[k] = Q[k - 1] + Len(PacketBytes(ps[k]))
                             /\ At(w, Q[k - 1], PacketBytes(ps[k]))
                             /\ R[k - 1] + 2 <= Len(w)
                             /\ PacketReadAt(w, R[k - 1], ps[k], R[k])

\* What is known of the packet k.
LEMMA BothRead ==
  ASSUME NEW w \in Seq(Byte), NEW ps, NEW Q, NEW R, BothWays(w, ps, Q, R),
         NEW k \in 1 .. Len(ps), NEW p, p = ps[k]
  PROVE  /\ p \in BuiltPackets /\ CorrectPacket(p)
         /\ Len(PacketBytes(p)) \in Nat /\ Len(PacketBytes(p)) >= 2
         /\ k - 1 \in 0 .. Len(ps) /\ k \in 0 .. Len(ps)
         /\ Q[k - 1] \in Nat /\ Q[k] = Q[k - 1] + Len(PacketBytes(p))
         /\ At(w, Q[k - 1], PacketBytes(p)) /\ Q[k] <= Len(w)
         /\ R[k - 1] \in 0 .. Len(w) /\ R[k] \in 0 .. Len(w) /\ R[k - 1] + 2 <= Len(w)
         /\ PacketReadAt(w, R[k - 1], p, R[k])
         /\ FittingPacket(p)
         /\ PacketEnds(w, R[k - 1], p, R[k - 1] + Len(PacketBytes(p)), R[k])
         /\ PacketCounts(w, p, R[k - 1] + Len(PacketBytes(p)), R[k])
<1>1. PICK n \in Nat : n = Len(ps)
  BY DEF BothWays
<1>2. k - 1 \in 0 .. n /\ k \in 0 .. n /\ k \in 1 .. n
  BY <1>1
<1>3. /\ p \in BuiltPackets /\ CorrectPacket(p)
      /\ Q[k - 1] \in Nat /\ Q[k] = Q[k - 1] + Len(PacketBytes(p))
      /\ At(w, Q[k - 1], PacketBytes(p))
      /\ R[k - 1] \in 0 .. Len(w) /\ R[k] \in 0 .. Len(w) /\ R[k - 1] + 2 <= Len(w)
      /\ PacketReadAt(w, R[k - 1], p, R[k])
  <2>1. ps \in Seq(BuiltPackets) /\ CorrectPacket(p)
    BY <1>1, <1>2 DEF BothWays
  <2>2. p \in BuiltPackets
    BY <1>1, <1>2, <2>1
  <2>3. /\ Q[k] = Q[k - 1] + Len(PacketBytes(p)) /\ At(w, Q[k - 1], PacketBytes(p))
        /\ R[k - 1] + 2 <= Len(w) /\ PacketReadAt(w, R[k - 1], p, R[k])
    BY <1>1, <1>2 DEF BothWays
  <2>4. Q \in [0 .. n -> Nat] /\ R \in [0 .. n -> 0 .. Len(w)]
    BY <1>1 DEF BothWays
  <2>5. Q[k - 1] \in Nat /\ R[k - 1] \in 0 .. Len(w) /\ R[k] \in 0 .. Len(w)
    BY <1>2, <2>4
  <2>. QED  BY <2>1, <2>2, <2>3, <2>5
<1>4. Len(PacketBytes(p)) \in Nat /\ Len(PacketBytes(p)) >= 2
  BY <1>3, PacketBytesTyped
<1>5. Q[k] <= Len(w)
  BY <1>3 DEF At
<1>6. FittingPacket(p) /\ PacketEnds(w, R[k - 1], p, R[k - 1] + Len(PacketBytes(p)), R[k])
        /\ PacketCounts(w, p, R[k - 1] + Len(PacketBytes(p)), R[k])
  BY <1>3, PacketTaken
<1>. QED  BY <1>1, <1>2, <1>3, <1>4, <1>5, <1>6

\* With a packet behind it, a reader that is c bytes too far on stays so, or
\* takes what is there for an invalid entry, too.
LEMMA Drift ==
  ASSUME NEW w \in Seq(Byte), NEW ps, NEW Q, NEW R, BothWays(w, ps, Q, R),
         NEW k \in 1 .. Len(ps) - 1, NEW c \in Nat, R[k - 1] = Q[k - 1] + c
  PROVE  \/ R[k] = Q[k] + c
         \/ R[k] >= Q[k] + c + 2 /\ InvalidAt(w, Q[k] + c, R[k])
<1>1. PICK n \in Nat, lw \in Nat : n = Len(ps) /\ lw = Len(w)
  BY DEF BothWays
<1>2. k \in 1 .. n /\ k + 1 \in 1 .. n /\ (k + 1) - 1 = k
  BY <1>1
<1>3. PICK p : p = ps[k]
  OBVIOUS
<1>4. PICK l \in Nat : l = Len(PacketBytes(p))
  BY <1>1, <1>2, <1>3, BothRead
<1>5. PICK q0 \in Nat, q1 \in Nat, r0 \in 0 .. lw, r1 \in 0 .. lw :
        q0 = Q[k - 1] /\ q1 = Q[k] /\ r0 = R[k - 1] /\ r1 = R[k]
  <2>1. k \in 1 .. Len(ps)
    BY <1>1, <1>2
  <2>2. Q[k - 1] \in Nat /\ Q[k] = Q[k - 1] + l
    BY <1>3, <1>4, <2>1, BothRead
  <2>3. R[k - 1] \in 0 .. lw /\ R[k] \in 0 .. lw
    BY <1>1, <2>1, BothRead
  <2>4. Q[k] \in Nat
    BY <1>4, <2>2
  <2>. QED  BY <2>2, <2>3, <2>4
<1>6. q1 = q0 + l /\ PacketEnds(w, r0, p, r0 + l, r1)
  <2>1. k \in 1 .. Len(ps)
    BY <1>1, <1>2
  <2>2. Q[k] = Q[k - 1] + l /\ PacketEnds(w, R[k - 1], p, R[k - 1] + l, R[k])
    BY <1>3, <1>4, <2>1, BothRead
  <2>. QED  BY <1>5, <2>2
<1>7. r1 + 2 <= lw
  <2>1. k + 1 \in 1 .. Len(ps)
    BY <1>1, <1>2
  <2>2. R[(k + 1) - 1] + 2 <= Len(w)
    BY <2>1, BothRead
  <2>. QED  BY <1>1, <1>2, <1>5, <2>2
<1>8. PICK q \in Nat : q = q1 + c /\ q = r0 + l
  <2>1. r0 = q0 + c /\ q1 = q0 + l
    BY <1>5, <1>6
  <2>2. q1 + c \in Nat /\ q1 + c = r0 + l
    BY <2>1
  <2>. QED  BY <2>2
<1>9. CASE r1 = q
  BY <1>5, <1>8, <1>9
<1>10. CASE q < lw /\ InvalidAt(w, q, r1)
  <2>1. q \in 0 .. Len(w)
    BY <1>1, <1>8, <1>10
  <2>2. /\ q + 2 <= lw => r1 >= q + 2
        /\ q + 1 >= lw => r1 = q
    BY <1>1, <1>10, <2>1, InvalidNext
  <2>3. r1 # q
    BY <1>7, <2>2
  <2>4. r1 >= q + 2
    BY <2>2, <2>3
  <2>. QED  BY <1>5, <1>8, <1>10, <2>4
<1>11. r1 = q \/ (q < lw /\ InvalidAt(w, q, r1))
  <2>1. ~(r1 + 1 >= lw)
    BY <1>7
  <2>2. ~(r0 + 4 > lw /\ r1 = r0 + 2)
    BY <1>7
  <2>. QED  BY <1>1, <1>6, <1>8, <2>1, <2>2 DEF PacketEnds
<1>. QED  BY <1>9, <1>10, <1>11

\* The last packet ends with the frame: only if its header is cut for it can a
\* reader be too far on.
LEMMA LastDrift ==
  ASSUME NEW w \in Seq(Byte), NEW ps, NEW Q, NEW R, BothWays(w, ps, Q, R),
         NEW n \in Nat \ {0}, n = Len(ps), NEW c \in Nat, R[n - 1] = Q[n - 1] + c
  PROVE  c = 0 \/ (c = 2 /\ Prefixed(ps[n].header.m_cmd))
<1> SUFFICES ASSUME c # 0 PROVE c = 2 /\ Prefixed(ps[n].header.m_cmd)
  OBVIOUS
<1>1. PICK lw \in Nat : lw = Len(w)
  OBVIOUS
<1>2. n \in 1 .. Len(ps)
  OBVIOUS
<1>3. PICK p \in BuiltPackets : p = ps[n]
  BY <1>2, BothRead
<1>4. PICK l \in Nat : l = Len(PacketBytes(p)) /\ l >= 2
  BY PacketBytesTyped
<1>5. PICK q0 \in Nat, r0 \in 0 .. lw : q0 = Q[n - 1] /\ r0 = R[n - 1] /\ r0 = q0 + c
  <2>1. Q[n - 1] \in Nat /\ R[n - 1] \in 0 .. lw
    BY <1>1, <1>2, BothRead
  <2>. QED  BY <2>1
<1>6. /\ lw = q0 + l /\ r0 + 2 <= lw
      /\ At(w, q0, PacketBytes(p)) /\ CorrectPacket(p) /\ FittingPacket(p)
      /\ PacketEnds(w, r0, p, r0 + l, lw)
  <2>1. Q[n] = Q[n - 1] + l /\ R[n - 1] + 2 <= Len(w)
        /\ At(w, Q[n - 1], PacketBytes(p)) /\ CorrectPacket(p) /\ FittingPacket(p)
        /\ PacketEnds(w, R[n - 1], p, R[n - 1] + l, R[n])
    <3>1. Q[n] = Q[n - 1] + Len(PacketBytes(ps[n])) /\ At(w, Q[n - 1], PacketBytes(ps[n]))
      BY <1>2 DEF BothWays
    <3>2. R[n - 1] + 2 <= Len(w) /\ PacketReadAt(w, R[n - 1], ps[n], R[n])
      BY <1>2 DEF BothWays
    <3>3. CorrectPacket(ps[n]) /\ R[n - 1] \in 0 .. Len(w)
      BY <1>1, <1>2, <1>5 DEF BothWays
    <3>4. PICK i \in 0 .. Len(w) : i = R[n - 1]
      BY <3>3
    <3>5. FittingPacket(p) /\ PacketEnds(w, i, p, i + Len(PacketBytes(p)), R[n])
      BY <1>3, <3>2, <3>3, <3>4, PacketTaken
    <3>. QED  BY <1>3, <1>4, <3>1, <3>2, <3>3, <3>4, <3>5
  <2>2. Q[n] = lw /\ R[n] = lw
    BY <1>1 DEF BothWays
  <2>. QED  BY <1>1, <1>5, <2>1, <2>2
<1>7. PICK q \in Nat : q = r0 + l /\ q = lw + c
  <2>1. lw = q0 + l /\ r0 = q0 + c
    BY <1>5, <1>6
  <2>2. r0 + l \in Nat /\ r0 + l = lw + c
    BY <2>1
  <2>. QED  BY <2>2
<1>8. ~LastDataSetShows(w, q, p)
  <2> SUFFICES ASSUME LastDataSetShows(w, q, p) PROVE FALSE
    OBVIOUS
  <2>1. PICK dss \in Seq(BuiltDataSets) : dss = p.m_dataSets
    BY <1>3 DEF BuiltPackets
  <2>2. PICK nd \in Nat : nd = Len(dss) /\ nd # 0
    <3>1. dss # <<>>
      BY <2>1 DEF LastDataSetShows
    <3>2. PICK m \in Nat : m = Len(dss)
      OBVIOUS
    <3>3. m # 0
      BY <3>1, <3>2, EmptySeq
    <3>. QED  BY <3>2, <3>3
  <2>3. PICK ds \in BuiltDataSets : ds = dss[nd] /\ TypeOf(ds.header) = DATA_SET
    <3>1. nd \in 1 .. Len(dss)
      BY <2>2
    <3>2. dss[nd] \in BuiltDataSets /\ FittingDataSet(dss[nd])
      BY <1>6, <2>1, <3>1 DEF FittingPacket
    <3>. QED  BY <3>2 DEF FittingDataSet
  <2>4. PICK b \in Seq(Byte) : b = DataSetBytes(ds) /\ ~Nothing(b)
    BY <2>3, DataSetBytesTyped, DataSetNotNothing
  <2>5. PICK y \in Nat : y + Len(b) = q /\ Shows(w, y, b)
    BY <2>1, <2>2, <2>3, <2>4 DEF LastDataSetShows
  <2>6. PICK i \in Nat : At(w, i, b) /\ i + Len(b) = lw
    <3>1. PICK j \in Nat : /\ At(w, j, DataSetsBytes(dss))
                           /\ j + Len(DataSetsBytes(dss)) = q0 + l
      <4>1. PICK z : z = q0 + Len(HeaderBytes(p.header))
        OBVIOUS
      <4>2. /\ z + Len(EntriesBytes(p.m_entries)) \in Nat
            /\ At(w, z + Len(EntriesBytes(p.m_entries)), DataSetsBytes(dss))
            /\ q0 + Len(PacketBytes(p)) =
                 (z + Len(EntriesBytes(p.m_entries))) + Len(DataSetsBytes(dss))
        BY <1>6, <2>1, <4>1, PacketPartsAt
      <4>. QED  BY <1>4, <4>2
    <3>2. PICK off \in [0 .. nd -> Nat] :
            /\ off[nd] = j + Len(DataSetsBytes(dss))
            /\ \A k \in 1 .. nd : /\ off[k] = off[k - 1] + Len(DataSetBytes(dss[k]))
                                  /\ At(w, off[k - 1], DataSetBytes(dss[k]))
      <4>1. PICK o \in [0 .. Len(dss) -> Nat] :
              /\ o[0] = j /\ o[Len(dss)] = j + Len(DataSetsBytes(dss))
              /\ \A k \in 1 .. Len(dss) : /\ o[k] = o[k - 1] + Len(DataSetBytes(dss[k]))
                                          /\ o[k] >= o[k - 1] + 2
                                          /\ o[k] <= Len(w)
                                          /\ At(w, o[k - 1], DataSetBytes(dss[k]))
        <5>1. At(w, j, DataSetsBytes(dss))
          BY <3>1
        <5>. QED  BY <5>1, DataSetsAt
      <4>. QED  BY <2>2, <4>1
    <3>3. nd \in 1 .. nd /\ nd - 1 \in 0 .. nd
      BY <2>2
    <3>4. off[nd - 1] \in Nat
      BY <3>2, <3>3
    <3>5. At(w, off[nd - 1], b) /\ off[nd] = off[nd - 1] + Len(b)
      BY <2>3, <2>4, <3>2, <3>3
    <3>6. off[nd] = lw
      BY <1>6, <3>1, <3>2
    <3>. QED  BY <3>4, <3>5, <3>6
  <2>7. PICK lb \in Nat : lb = Len(b)
    OBVIOUS
  <2>8. y > i
    BY <1>1, <1>7, <2>5, <2>6, <2>7
  <2>. QED  BY <1>1, <2>4, <2>5, <2>6, <2>8, ShownOnce
<1>9. lw # q /\ ~(q < lw)
  BY <1>1, <1>7
<1>10. Prefixed(p.header.m_cmd) /\ lw = r0 + 2 /\ Turns(p) = 0
  BY <1>1, <1>6, <1>7, <1>8, <1>9 DEF PacketEnds
<1>11. Len(HeaderBytes(p.header)) = 4
  <2>1. At(w, q0, HeaderBytes(p.header)) /\ ProperHeader(p.header)
    BY <1>6, PacketPartsAt DEF CorrectPacket
  <2>. QED  BY <1>10, <2>1, CommandAt
<1>12. l >= 4
  <2>1. Len(PacketBytes(p)) = Len(HeaderBytes(p.header)) + Len(EntriesBytes(p.m_entries))
                                + Len(DataSetsBytes(p.m_dataSets))
        /\ EntriesBytes(p.m_entries) \in Seq(Byte) /\ DataSetsBytes(p.m_dataSets) \in Seq(Byte)
    BY PacketBytesTyped
  <2>2. PICK x \in Nat, y \in Nat :
          x = Len(EntriesBytes(p.m_entries)) /\ y = Len(DataSetsBytes(p.m_dataSets))
    BY <2>1
  <2>. QED  BY <1>4, <1>11, <2>1, <2>2
<1>13. l = 4
  <2>1. PICK es \in BuiltArrays, dss \in Seq(BuiltDataSets) :
          es = p.m_entries /\ dss = p.m_dataSets
    BY <1>3 DEF BuiltPackets, BuiltArrays
  <2>2. Len(es) = 0 /\ Len(dss) = 0
    <3>1. PICK x \in Nat, y \in Nat : x = Len(es) /\ y = Len(dss)
      BY DEF BuiltArrays
    <3>2. x + y = 0
      BY <1>10, <2>1, <3>1 DEF Turns
    <3>. QED  BY <3>1, <3>2
  <2>3. EntriesBytes(es) = <<>> /\ DataSetsBytes(dss) = <<>>
    <3>1. es = <<>> /\ dss = <<>>
      BY <2>2, EmptySeq DEF BuiltArrays
    <3>2. [k \in {} |-> EntryBytes(<<>>[k])] = <<>> /\ [k \in {} |-> DataSetBytes(<<>>[k])] = <<>>
      OBVIOUS
    <3>3. FlattenSeq(<<>>) = <<>>
      BY FlattenFacts
    <3>. QED  BY <3>1, <3>2, <3>3 DEF EntriesBytes, DataSetsBytes, DataSetParts
  <2>4. Len(PacketBytes(p)) = Len(HeaderBytes(p.header)) + Len(EntriesBytes(es))
                                + Len(DataSetsBytes(dss))
    BY <2>1, PacketBytesTyped
  <2>5. Len(<<>>) = 0
    OBVIOUS
  <2>. QED  BY <1>4, <1>11, <2>3, <2>4, <2>5
<1>14. c = 2
  BY <1>1, <1>5, <1>6, <1>10, <1>13
<1>. QED  BY <1>3, <1>10, <1>14

\* If a reader took the header of a packet for an invalid entry, and has been two
\* bytes too far on since, all packets behind have the same command, and no size.
LEMMA DriftedBefore ==
  ASSUME NEW w \in Seq(Byte), NEW ps, NEW Q, NEW R, BothWays(w, ps, Q, R),
         NEW n \in Nat, n = Len(ps), NEW j \in 1 .. n - 1, InvalidAt(w, Q[j], Q[j] + 2),
         \A k \in j .. n - 1 : R[k] = Q[k] + 2
  PROVE  ~Prefixed(ps[n].header.m_cmd)
<1>1. PICK lw \in Nat : lw = Len(w)
  OBVIOUS
<1>2. ASSUME NEW k \in 1 .. n
      PROVE  /\ Q[k - 1] \in Nat /\ Q[k] \in Nat /\ Q[k - 1] <= Q[k]
             /\ ProperHeader(ps[k].header) /\ At(w, Q[k - 1], HeaderBytes(ps[k].header))
  <2>1. PICK p \in BuiltPackets : p = ps[k] /\ CorrectPacket(p) /\ At(w, Q[k - 1], PacketBytes(p))
                                    /\ Q[k - 1] \in Nat
    BY BothRead
  <2>2. PICK l \in Nat : l = Len(PacketBytes(p))
    BY PacketBytesTyped
  <2>3. Q[k] = Q[k - 1] + l
    BY <2>1, <2>2, BothRead
  <2>4. At(w, Q[k - 1], HeaderBytes(p.header))
    BY <2>1, PacketPartsAt
  <2>5. ProperHeader(p.header)
    BY <2>1 DEF CorrectPacket
  <2>. QED  BY <2>1, <2>2, <2>3, <2>4, <2>5
<1>3. PICK g : g = ps[j + 1].header
  OBVIOUS
<1>4. ProperHeader(g) /\ Q[j] \in Nat /\ At(w, Q[j], HeaderBytes(g))
  <2>1. j + 1 \in 1 .. n /\ (j + 1) - 1 = j
    OBVIOUS
  <2>. QED  BY <1>2, <1>3, <2>1
<1>5. PICK q \in Nat : q = Q[j]
  BY <1>4
<1>6. PICK h : h = HeaderAt(w, q)
  OBVIOUS
<1>7. q \in 0 .. Len(w)
  BY <1>4, <1>5, CommandAt
<1>8. PICK e : e = EntryAt(w, h)
  OBVIOUS
<1>9. PICK m \in Nat : m = Len(e.m_data) /\ q + 2 = h.next + m
  <2>1. e \in ReadEntry
    BY <1>6, <1>7, <1>8, EntryRange
  <2>2. Len(e.m_data) \in Nat
    BY <2>1 DEF ReadEntry
  <2>3. q + 2 = h.next + Len(e.m_data)
    BY <1>5, <1>6, <1>8 DEF InvalidAt
  <2>. QED  BY <2>2, <2>3
<1>10. h.next = q + Len(HeaderBytes(g)) /\ Len(HeaderBytes(g)) = IF Prefixed(g.m_cmd) THEN 4 ELSE 2
  BY <1>4, <1>5, <1>6, CommandAt
<1>11. ~Prefixed(g.m_cmd) /\ m = 0 /\ h.next = q + 2
  <2>1. PICK l \in Nat : l = Len(HeaderBytes(g)) /\ l = IF Prefixed(g.m_cmd) THEN 4 ELSE 2
    BY <1>10
  <2>2. q + 2 = q + l + m
    BY <1>9, <1>10, <2>1
  <2>3. l = 2 /\ m = 0
    BY <2>1, <2>2
  <2>. QED  BY <1>10, <2>1, <2>3
<1>12. PICK size \in Nat \ {0} : size = g_type_sizes(TypeOf(g))
  BY DEF g_type_sizes
<1>13. q + 2 + size > lw
  <2>1. h.size = size
    BY <1>4, <1>5, <1>6, <1>11, <1>12, CommandAt
  <2>2. h.next + h.size <= Len(w) => Len(e.m_data) = h.size
    BY <1>6, <1>7, <1>8, EntryRange
  <2>3. ~(h.next + size <= lw)
    BY <1>1, <1>9, <1>11, <2>1, <2>2
  <2>. QED  BY <1>1, <1>11, <1>12, <2>3
<1>14. \A k \in j .. n : q <= Q[k]
  <2>1. Q \in [0 .. n -> Nat]
    BY DEF BothWays
  <2>2. \A x, y \in 0 .. n : x <= y => Q[x] <= Q[y]
    BY <1>2, <2>1, Climbs
  <2>3. \A k \in j .. n : k \in 0 .. n /\ j \in 0 .. n /\ j <= k
    OBVIOUS
  <2>. QED  BY <1>5, <2>2, <2>3
<1> DEFINE S == {k \in Nat : k \in j .. n - 1 => ps[k + 1].header.m_cmd = g.m_cmd}
<1>15. 0 \in S
  OBVIOUS
<1>16. ASSUME NEW k \in Nat, k \in S PROVE k + 1 \in S
  <2> SUFFICES ASSUME k + 1 \in j .. n - 1 PROVE ps[(k + 1) + 1].header.m_cmd = g.m_cmd
    OBVIOUS
  <2>1. CASE k + 1 = j
    BY <1>3, <2>1
  <2>2. CASE k + 1 # j
    <3>1. k \in j .. n - 1 /\ k + 1 \in 1 .. n /\ (k + 1) - 1 = k
            /\ (k + 1) + 1 \in 1 .. n /\ ((k + 1) + 1) - 1 = k + 1
      BY <2>2
    <3>2. PICK p \in BuiltPackets : p = ps[k + 1] /\ CorrectPacket(p) /\ FittingPacket(p)
      BY <3>1, BothRead
    <3>3. p.header.m_cmd = g.m_cmd
      BY <1>16, <3>1, <3>2
    <3>4. PICK z \in Nat : z = Q[k] /\ z >= q
      BY <1>2, <1>14, <3>1
    <3>5. PICK i \in 1 .. Len(ps) : i = k + 1 /\ i - 1 = k /\ p = ps[i]
      BY <3>1, <3>2
    <3>6. At(w, z, PacketBytes(p)) /\ Q[k + 1] = z + Len(PacketBytes(p))
      <4>1. At(w, Q[i - 1], PacketBytes(p)) /\ Q[i] = Q[i - 1] + Len(PacketBytes(p))
        BY <3>5, BothRead
      <4>. QED  BY <3>4, <3>5, <4>1
    <3>7. uint16At(w, z + 2) = g.m_cmd
      <4>1. R[k] = z + 2
        BY <3>1, <3>4
      <4>2. R[k] \in 0 .. Len(w) /\ PacketReadAt(w, R[k], p, R[k + 1])
        <5>1. R[i - 1] \in 0 .. Len(w) /\ PacketReadAt(w, R[i - 1], p, R[i])
          BY <3>5, BothRead
        <5>. QED  BY <3>5, <5>1
      <4>3. HeaderAt(w, R[k]).cmd = p.header.m_cmd
        BY <4>2 DEF PacketReadAt
      <4>4. HeaderAt(w, R[k]).cmd = uint16At(w, R[k])
        BY <4>2, HeaderRange
      <4>. QED  BY <3>3, <4>1, <4>3, <4>4
    <3>8. TypeOf(p.header) = TypeOf(g)
      BY <3>3 DEF TypeOf
    <3>9. ~(z + 4 + size <= Len(w))
      <4>1. z >= q /\ q + 2 + size > lw
        BY <1>13, <3>4
      <4>2. z + 4 + size > lw
        BY <4>1
      <4>. QED  BY <1>1, <4>2
    <3>10. Len(PacketBytes(p)) = 2
      BY <1>11, <1>12, <3>2, <3>3, <3>6, <3>7, <3>8, <3>9, CommandTwice
    <3>11. Q[k + 1] = z + 2
      BY <3>6, <3>10
    <3>12. PICK r : r = ps[(k + 1) + 1].header
      OBVIOUS
    <3>13. ProperHeader(r) /\ At(w, z + 2, HeaderBytes(r)) /\ z + 2 \in Nat
      BY <1>2, <3>1, <3>11, <3>12
    <3>14. uint16At(w, z + 2) = r.m_cmd
      BY <3>13, CommandAt
    <3>. QED  BY <3>7, <3>12, <3>14
  <2>. QED  BY <2>1, <2>2
<1>17. Nat \subseteq S
  <2> HIDE DEF S
  <2>. QED  BY <1>15, <1>16, SetInduction
<1>18. n - 1 \in Nat /\ n - 1 \in j .. n - 1 /\ (n - 1) + 1 = n
  OBVIOUS
<1>19. ps[n].header.m_cmd = g.m_cmd
  BY <1>17, <1>18
<1>. QED  BY <1>11, <1>19

\* A reader that reads the packets reads each where it is.
LEMMA Aligned ==
  ASSUME NEW w \in Seq(Byte), NEW ps, NEW Q, NEW R, BothWays(w, ps, Q, R)
  PROVE  \A k \in 0 .. Len(ps) : R[k] = Q[k]
<1>1. PICK n \in Nat : n = Len(ps)
  BY DEF BothWays
<1>2. /\ Q \in [0 .. n -> Nat] /\ Q[0] = 2 /\ R \in [0 .. n -> 0 .. Len(w)] /\ R[0] = 2
      /\ R[n] = Q[n]
  BY <1>1 DEF BothWays
<1>3. \A k \in 0 .. n : Q[k] \in Nat /\ R[k] \in Nat
  BY <1>2
<1>4. CASE n = 0
  BY <1>1, <1>2, <1>4
<1>5. CASE n # 0
  <2>1. \A k \in 0 .. n - 1 : k \in 0 .. n
    BY <1>1
  <2>2. ASSUME NEW k \in 1 .. n - 1, NEW c \in Nat, R[k - 1] = Q[k - 1] + c
        PROVE  \/ R[k] = Q[k] + c
               \/ R[k] >= Q[k] + c + 2 /\ InvalidAt(w, Q[k] + c, R[k])
    BY <1>1, <2>2, Drift
  <2> DEFINE S == {k \in Nat : k <= n - 1 => R[k] >= Q[k]}
  <2>3. 0 \in S
    BY <1>2
  <2>4. ASSUME NEW k \in Nat, k \in S PROVE k + 1 \in S
    <3> SUFFICES ASSUME k + 1 <= n - 1 PROVE R[k + 1] >= Q[k + 1]
      OBVIOUS
    <3>1. k + 1 \in 1 .. n - 1 /\ (k + 1) - 1 = k /\ k <= n - 1 /\ k \in 0 .. n /\ k + 1 \in 0 .. n
      BY <1>1
    <3>2. R[k] - Q[k] \in Nat /\ R[k] = Q[k] + (R[k] - Q[k])
      BY <1>3, <2>4, <3>1
    <3>3. PICK c \in Nat : R[k] = Q[k] + c
      BY <3>2
    <3>4. R[k + 1] = Q[k + 1] + c \/ R[k + 1] >= Q[k + 1] + c + 2
      BY <2>2, <3>1, <3>3
    <3>. QED  BY <1>3, <3>1, <3>4
  <2>5. Nat \subseteq S
    <3> HIDE DEF S
    <3>. QED  BY <2>3, <2>4, SetInduction
  <2>6. PICK d : d = [k \in 0 .. n - 1 |-> R[k] - Q[k]]
    OBVIOUS
  <2>7. \A k \in 0 .. n - 1 : d[k] \in Nat /\ R[k] = Q[k] + d[k]
    <3>1. ASSUME NEW k \in 0 .. n - 1 PROVE d[k] \in Nat /\ R[k] = Q[k] + d[k]
      <4>1. k \in Nat /\ k <= n - 1 /\ k \in 0 .. n
        BY <1>1
      <4>2. R[k] >= Q[k]
        BY <2>5, <4>1
      <4>3. d[k] = R[k] - Q[k]
        BY <2>6
      <4>. QED  BY <1>3, <4>1, <4>2, <4>3
    <3>. QED  BY <3>1
  <2>8. ASSUME NEW k \in 1 .. n - 1
        PROVE  \/ d[k] = d[k - 1]
               \/ d[k] >= d[k - 1] + 2 /\ InvalidAt(w, Q[k] + d[k - 1], R[k])
    <3>1. k \in 0 .. n - 1 /\ k - 1 \in 0 .. n - 1 /\ k \in 0 .. n
      BY <1>1
    <3>2. PICK c \in Nat, f \in Nat : /\ c = d[k - 1] /\ R[k - 1] = Q[k - 1] + c
                                      /\ f = d[k] /\ R[k] = Q[k] + f
      BY <2>7, <3>1
    <3>3. R[k] = Q[k] + c \/ (R[k] >= Q[k] + c + 2 /\ InvalidAt(w, Q[k] + c, R[k]))
      BY <2>2, <3>2
    <3>4. Q[k] \in Nat
      BY <1>3, <3>1
    <3>. QED  BY <3>2, <3>3, <3>4
  <2>9. n - 1 \in Nat /\ d \in [0 .. n - 1 -> Nat]
    BY <1>1, <1>5, <2>6, <2>7
  <2>10. \A x, y \in 0 .. n - 1 : x <= y => d[x] <= d[y]
    <3>1. ASSUME NEW k \in 1 .. n - 1 PROVE d[k - 1] <= d[k]
      <4>1. k \in 0 .. n - 1 /\ k - 1 \in 0 .. n - 1
        BY <1>1
      <4>2. d[k] \in Nat /\ d[k - 1] \in Nat
        BY <2>7, <4>1
      <4>. QED  BY <2>8, <4>2
    <3>. QED  BY <2>9, <3>1, Climbs
  <2>11. n - 1 \in 0 .. n - 1 /\ n \in Nat \ {0}
    BY <1>1, <1>5
  <2>12. d[n - 1] = 0 \/ (d[n - 1] = 2 /\ Prefixed(ps[n].header.m_cmd))
    BY <1>1, <2>7, <2>11, LastDrift
  <2>13. d[n - 1] = 0
    <3> SUFFICES ASSUME d[n - 1] = 2, Prefixed(ps[n].header.m_cmd) PROVE FALSE
      BY <2>12
    <3> DEFINE T == {k \in Nat : k <= n - 1 /\ d[k] # 0}
    <3>1. n - 1 \in T
      BY <2>9
    <3>2. PICK j \in T : \A k \in T : j <= k
      <4>1. T \in SUBSET Nat /\ T # {}
        BY <3>1
      <4> HIDE DEF T
      <4>. QED  BY <4>1, SmallestMember
    <3>3. j \in Nat /\ j <= n - 1 /\ d[j] # 0
      BY <3>2
    <3>4. j # 0
      <4>1. d[0] = R[0] - Q[0]
        BY <2>6, <2>9
      <4>2. d[0] = 0
        BY <1>2, <4>1
      <4>. QED  BY <3>3, <4>2
    <3>5. j \in 1 .. n - 1 /\ j - 1 \in Nat /\ j - 1 <= n - 1 /\ j - 1 < j
            /\ j \in 0 .. n - 1 /\ j \in 0 .. n
      BY <1>1, <3>3, <3>4
    <3>6. d[j - 1] = 0
      <4>1. j - 1 \notin T
        BY <3>2, <3>5
      <4>. QED  BY <3>5, <4>1
    <3>7. d[j] >= 2 /\ InvalidAt(w, Q[j], R[j])
      <4>1. d[j] >= 0 + 2 /\ InvalidAt(w, Q[j] + 0, R[j])
        BY <2>8, <3>3, <3>5, <3>6
      <4>2. Q[j] + 0 = Q[j]
        BY <1>3, <3>5
      <4>. QED  BY <4>1, <4>2
    <3>8. ASSUME NEW k \in j .. n - 1 PROVE d[k] = 2 /\ R[k] = Q[k] + 2
      <4>1. k \in 0 .. n - 1 /\ j <= k /\ k <= n - 1
        BY <1>1, <3>5
      <4>2. d[k] \in Nat /\ R[k] = Q[k] + d[k]
        BY <2>7, <4>1
      <4>3. d[j] <= d[k] /\ d[k] <= d[n - 1] /\ d[j] \in Nat
        BY <2>7, <2>10, <2>11, <3>5, <4>1
      <4>4. d[k] = 2
        BY <3>7, <4>2, <4>3
      <4>. QED  BY <4>2, <4>4
    <3>9. InvalidAt(w, Q[j], Q[j] + 2)
      <4>1. j \in j .. n - 1
        BY <3>5
      <4>2. R[j] = Q[j] + 2
        BY <3>8, <4>1
      <4>. QED  BY <3>7, <4>2
    <3>10. \A k \in j .. n - 1 : R[k] = Q[k] + 2
      BY <3>8
    <3>. QED  BY <1>1, <3>5, <3>9, <3>10, DriftedBefore
  <2>14. ASSUME NEW k \in 0 .. n PROVE R[k] = Q[k]
    <3>1. CASE k = n
      BY <1>2, <3>1
    <3>2. CASE k # n
      <4>1. k \in 0 .. n - 1 /\ k <= n - 1
        BY <1>1, <3>2
      <4>2. d[k] \in Nat /\ R[k] = Q[k] + d[k] /\ d[k] <= 0
        BY <2>7, <2>10, <2>11, <2>13, <4>1
      <4>3. d[k] = 0
        BY <4>2
      <4>. QED  BY <1>3, <4>2, <4>3
    <3>. QED  BY <3>1, <3>2
  <2>. QED  BY <1>1, <2>14
<1>. QED  BY <1>4, <1>5

-----------------------------------------------------------------------------
(* What is read where it is, is readable *)

\* An array that a reader reads where it is has no entry under a code for data
\* sets: such an entry, all there, is refused (DataEntry.cpp:22-25).
LEMMA ArrayAligned ==
  ASSUME NEW w \in Seq(Byte), NEW i \in Nat, NEW a, CorrectArray(a), FittingArray(a),
         At(w, i, ArrayBytes(a)), NEW r, r = ReadArray(w, i), r.next # Lost,
         r.m_entries = EntriesSeen(a)
  PROVE  PlainArray(a)
<1>1. PICK lw \in Nat, n \in Nat : lw = Len(w) /\ n = Len(a) /\ n < Word
  BY DEF CorrectArray, BuiltArrays, FittingArray
<1>2. a \in BuiltArrays /\ \A k \in 1 .. n : CorrectEntry(a[k]) /\ SizeFits(a[k].header, Len(a[k].m_data))
  BY <1>1 DEF CorrectArray, FittingArray
<1>3. PICK b \in Seq(Byte), c \in Seq(Byte) :
        b = from_uint16(n) /\ c = EntriesBytes(a) /\ ArrayBytes(a) = b \o c /\ Len(b) = 2
  BY <1>1, <1>2, Word16Bytes, EntriesBytesTyped DEF ArrayBytes
<1>4. At(w, i, b) /\ At(w, i + 2, c)
  <2>1. At(w, i, b \o c)
    BY <1>3
  <2>2. At(w, i, b) /\ At(w, i + Len(b), c)
    BY <2>1, AtConcat
  <2>. QED  BY <1>3, <2>2
<1>5. after16(w, i) = i + 2
  BY <1>1, <1>3, <1>4, Word16Read
<1>6. PICK j \in 0 .. lw : j = i + 2
  <2>1. i + 2 <= lw
    BY <1>1, <1>3, <1>4 DEF At
  <2>. QED  BY <2>1
<1>7. PICK m \in Nat : r = ReadEntries(w, j, m)
  <2>1. i \in 0 .. Len(w)
    BY <1>1, <1>6
  <2>. QED  BY <1>5, <1>6, <2>1, ArrayRange
<1>8. PICK pos : EntriesPlaces(w, j, m, r, pos)
  <2>1. j \in 0 .. Len(w)
    BY <1>1, <1>6
  <2>. QED  BY <1>7, <2>1, EntriesTrace
<1>9. Len(r.m_entries) = n /\ \A k \in 1 .. n : r.m_entries[k] = EntrySeen(a[k])
  <2>1. DOMAIN a = 1 .. n
    BY <1>1, <1>2 DEF BuiltArrays
  <2>2. r.m_entries = [k \in 1 .. n |-> EntrySeen(a[k])]
    BY <2>1 DEF EntriesSeen, EntrySeen
  <2>. QED  BY <1>1, <2>2
<1>10. /\ m = n /\ pos \in [0 .. n -> 0 .. lw] /\ pos[0] = j
       /\ \A k \in 1 .. n : LET h == HeaderAt(w, pos[k - 1])
                            IN  /\ pos[k] = h.next + Len(r.m_entries[k].m_data)
                                /\ ~(h.type = DATA_SET /\ h.next + h.size <= lw)
  BY <1>1, <1>8, <1>9 DEF EntriesPlaces
<1>11. PICK off \in [0 .. Len(a) -> Nat] :
         /\ off[0] = j /\ off[Len(a)] = j + Len(EntriesBytes(a))
         /\ \A k \in 1 .. Len(a) : /\ off[k] = off[k - 1] + Len(EntryBytes(a[k]))
                                   /\ off[k] >= off[k - 1] + 2
                                   /\ off[k] <= Len(w)
                                   /\ At(w, off[k - 1], EntryBytes(a[k]))
  <2>1. j \in Nat /\ At(w, j, EntriesBytes(a))
    BY <1>3, <1>4, <1>6
  <2>. QED  BY <1>2, <2>1, EntriesAt
<1>12. ASSUME NEW k \in 1 .. n, pos[k - 1] = off[k - 1]
       PROVE  pos[k] = off[k] /\ TypeOf(a[k].header) # DATA_SET
  <2>1. PICK e : e = a[k] /\ CorrectEntry(e) /\ SizeFits(e.header, Len(e.m_data))
    BY <1>2
  <2>2. PICK o \in Nat : o = off[k - 1] /\ At(w, o, EntryBytes(e)) /\ off[k] = o + Len(EntryBytes(e))
                           /\ off[k] <= lw
    <3>1. k - 1 \in 0 .. n
      BY <1>1
    <3>2. off[k - 1] \in Nat
      BY <1>1, <1>11, <3>1
    <3>. QED  BY <1>1, <1>11, <2>1, <3>2
  <2>3. PICK h : h = HeaderAt(w, o)
    OBVIOUS
  <2>4. h.type = TypeOf(e.header) /\ h.next + Len(e.m_data) = o + Len(EntryBytes(e))
    <3>1. CorrectEntry(e) /\ SizeFits(e.header, Len(e.m_data)) /\ At(w, o, EntryBytes(e))
      BY <2>1, <2>2
    <3>. QED  BY <2>3, <3>1, EntryRead
  <2>5. r.m_entries[k].m_data = e.m_data
    BY <1>9, <2>1 DEF EntrySeen
  <2>6. pos[k] = h.next + Len(e.m_data) /\ ~(h.type = DATA_SET /\ h.next + h.size <= lw)
    BY <1>10, <1>12, <2>2, <2>3, <2>5
  <2>7. TypeOf(e.header) # DATA_SET
    <3> SUFFICES ASSUME TypeOf(e.header) = DATA_SET PROVE FALSE
      OBVIOUS
    <3>1. PICK g \in Headers, d \in Seq(Byte) : g = e.header /\ d = e.m_data
      BY <2>1 DEF CorrectEntry, BuiltEntries
    <3>2. Prefixed(g.m_cmd)
      BY <3>1 DEF TypeOf, Prefixed, PrefixedTypes
    <3>3. ProperHeader(g) /\ g.m_contentSize = Len(d) /\ Len(d) < Word
      <4>1. ProperHeader(g) /\ g.m_contentSize = Len(d)
        BY <2>1, <3>1 DEF CorrectEntry
      <4>2. g.m_sizeWidth # 0
        BY <3>2, <4>1 DEF ProperHeader
      <4>. QED  BY <2>1, <3>1, <4>1, <4>2 DEF SizeFits
    <3>4. At(w, o, HeaderBytes(g))
      <4>1. HeaderBytes(g) \in Seq(Byte) /\ EntryBytes(e) = HeaderBytes(g) \o d
        BY <3>1, HeaderBytesTyped DEF EntryBytes
      <4>. QED  BY <2>2, <3>1, <4>1, AtConcat
    <3>5. h = [cmd |-> g.m_cmd, type |-> TypeOf(g), size |-> g.m_contentSize,
               next |-> o + Len(HeaderBytes(g))]
      BY <2>3, <3>2, <3>3, <3>4, HeaderRead
    <3>6. h.size = Len(e.m_data)
      BY <3>1, <3>3, <3>5
    <3>7. h.type = DATA_SET
      BY <2>4
    <3>. QED  BY <2>2, <2>4, <2>6, <3>6, <3>7
  <2>. QED  BY <2>1, <2>2, <2>4, <2>6, <2>7
<1> DEFINE S == {k \in Nat : k <= n => pos[k] = off[k]}
<1>13. 0 \in S
  BY <1>10, <1>11
<1>14. ASSUME NEW k \in Nat, k \in S PROVE k + 1 \in S
  <2> SUFFICES ASSUME k + 1 <= n PROVE pos[k + 1] = off[k + 1]
    OBVIOUS
  <2>1. k + 1 \in 1 .. n /\ (k + 1) - 1 = k /\ k <= n
    BY <1>1
  <2>2. pos[k] = off[k]
    BY <1>14, <2>1
  <2>. QED  BY <1>12, <2>1, <2>2
<1>15. Nat \subseteq S
  <2> HIDE DEF S
  <2>. QED  BY <1>13, <1>14, SetInduction
<1>16. ASSUME NEW k \in 1 .. n PROVE PlainEntry(a[k])
  <2>1. k - 1 \in Nat /\ k - 1 <= n
    BY <1>1
  <2>2. pos[k - 1] = off[k - 1]
    BY <1>15, <2>1
  <2>3. TypeOf(a[k].header) # DATA_SET
    BY <1>12, <2>2
  <2>. QED  BY <1>2, <2>3 DEF PlainEntry
<1>. QED  BY <1>1, <1>2, <1>16 DEF PlainArray

\* A data set that a reader reads where it is.
LEMMA DataSetAligned ==
  ASSUME NEW w \in Seq(Byte), NEW i \in Nat, NEW ds, CorrectDataSet(ds), FittingDataSet(ds),
         At(w, i, DataSetBytes(ds)), DataSetReadAt(w, i, ds)
  PROVE  ReadableDataSet(ds)
<1>1. PICK g \in Headers, arrs \in Seq(BuiltArrays) : g = ds.header /\ arrs = ds.m_anonArrays
  BY DEF CorrectDataSet, BuiltDataSets
<1>2. PICK lw \in Nat, n \in Nat : lw = Len(w) /\ n = Len(arrs)
  OBVIOUS
<1>3. /\ ds \in BuiltDataSets /\ ProperHeader(g) /\ TypeOf(g) = DATA_SET /\ n < Word
      /\ \A k \in 1 .. n : CorrectArray(arrs[k]) /\ FittingArray(arrs[k])
  BY <1>1, <1>2 DEF CorrectDataSet, FittingDataSet
<1>4. PICK a \in Seq(Byte), b \in Seq(Byte) :
        a = HeaderBytes(g) /\ b = ArraysBytes(arrs) /\ DataSetBytes(ds) = a \o b
  BY <1>1, <1>3, HeaderBytesTyped, DataSetBytesTyped
<1>5. At(w, i, a) /\ At(w, i + Len(a), b)
  <2>1. At(w, i, a \o b)
    BY <1>4
  <2>. QED  BY <2>1, AtConcat
<1>6. PICK h : h = HeaderAt(w, i)
  OBVIOUS
<1>7. PICK j \in 0 .. lw : j = h.next /\ j = i + Len(a)
  <2>1. h.next = i + Len(a)
    BY <1>3, <1>4, <1>5, <1>6, CommandAt
  <2>2. i \in 0 .. Len(w)
    BY <1>3, <1>4, <1>5, CommandAt
  <2>3. h.next \in i .. lw
    BY <1>2, <1>6, <2>2, HeaderRange
  <2>. QED  BY <2>1, <2>3
<1>8. PICK m \in Nat : m = h.size
  <2>1. i \in 0 .. Len(w)
    BY <1>3, <1>4, <1>5, CommandAt
  <2>. QED  BY <1>6, <2>1, HeaderRange
<1>9. PICK s : s = ReadArrays(w, j, m) /\ s.next # Lost /\ s.m_anonArrays = ArraysSeen(arrs)
  BY <1>8, <1>1, <1>6, <1>7 DEF DataSetReadAt
<1>10. PICK pos : ArraysPlaces(w, j, m, s, pos)
  <2>1. j \in 0 .. Len(w)
    BY <1>2, <1>7
  <2>. QED  BY <1>9, <2>1, ArraysTrace
<1>11. Len(s.m_anonArrays) = n /\ \A k \in 1 .. n : s.m_anonArrays[k] = EntriesSeen(arrs[k])
  <2>1. DOMAIN arrs = 1 .. n
    BY <1>2
  <2>2. s.m_anonArrays = [k \in 1 .. n |-> EntriesSeen(arrs[k])]
    BY <1>9, <2>1 DEF ArraysSeen
  <2>. QED  BY <1>2, <2>2
<1>12. /\ m = n /\ pos \in [0 .. n -> 0 .. lw] /\ pos[0] = j
       /\ \A k \in 1 .. n : /\ s.m_anonArrays[k] = ReadArray(w, pos[k - 1]).m_entries
                            /\ pos[k] = ReadArray(w, pos[k - 1]).next
  BY <1>2, <1>10, <1>11 DEF ArraysPlaces
<1>13. PICK t \in Seq(Seq(Byte)) : /\ Len(t) = n /\ FlattenSeq(t) = b
                                   /\ \A k \in 1 .. n : t[k] = ArrayBytes(arrs[k])
  BY <1>2, <1>4, ArrayPartsTyped DEF ArraysBytes
<1>14. PICK off \in [0 .. n -> Nat] :
         /\ off[0] = j
         /\ \A k \in 1 .. n : /\ off[k] = off[k - 1] + Len(ArrayBytes(arrs[k]))
                              /\ At(w, off[k - 1], ArrayBytes(arrs[k]))
  <2>1. j \in Nat /\ At(w, j, FlattenSeq(t))
    BY <1>5, <1>7, <1>13
  <2>2. PICK o \in [0 .. Len(t) -> Nat] :
          /\ o[0] = j /\ o[Len(t)] = j + Len(FlattenSeq(t))
          /\ \A k \in 1 .. Len(t) : o[k] = o[k - 1] + Len(t[k]) /\ At(w, o[k - 1], t[k])
    BY <2>1, AtFlatten
  <2>. QED  BY <1>13, <2>2
<1>15. ASSUME NEW k \in 1 .. n, pos[k - 1] = off[k - 1]
       PROVE  pos[k] = off[k] /\ PlainArray(arrs[k])
  <2>1. k - 1 \in 0 .. n /\ k \in 0 .. n
    BY <1>2
  <2>2. PICK o \in Nat : o = off[k - 1]
    BY <1>14, <2>1
  <2>3. PICK c : c = arrs[k]
    OBVIOUS
  <2>4. PICK r : r = ReadArray(w, o)
    OBVIOUS
  <2>5. CorrectArray(c) /\ FittingArray(c) /\ At(w, o, ArrayBytes(c))
    BY <1>3, <1>14, <2>2, <2>3
  <2>6. r.m_entries = EntriesSeen(c) /\ pos[k] = r.next
    BY <1>11, <1>12, <1>15, <2>2, <2>4, <2>3
  <2>7. r.next # Lost
    <3>1. pos[k] \in 0 .. lw
      BY <1>12, <2>1
    <3>. QED  BY <2>6, <3>1 DEF Lost
  <2>8. PlainArray(c)
    BY <2>4, <2>5, <2>6, <2>7, ArrayAligned
  <2>9. r.next = o + Len(ArrayBytes(c))
    BY <2>4, <2>5, <2>8, ArrayRead
  <2>. QED  BY <1>14, <2>2, <2>6, <2>8, <2>9, <2>3
<1> DEFINE S == {k \in Nat : k <= n => pos[k] = off[k]}
<1>16. 0 \in S
  BY <1>12, <1>14
<1>17. ASSUME NEW k \in Nat, k \in S PROVE k + 1 \in S
  <2> SUFFICES ASSUME k + 1 <= n PROVE pos[k + 1] = off[k + 1]
    OBVIOUS
  <2>1. k + 1 \in 1 .. n /\ (k + 1) - 1 = k /\ k <= n
    BY <1>2
  <2>2. pos[k] = off[k]
    BY <1>17, <2>1
  <2>. QED  BY <1>15, <2>1, <2>2
<1>18. Nat \subseteq S
  <2> HIDE DEF S
  <2>. QED  BY <1>16, <1>17, SetInduction
<1>19. ASSUME NEW k \in 1 .. n PROVE ReadableArray(arrs[k])
  <2>1. k - 1 \in Nat /\ k - 1 <= n
    BY <1>2
  <2>2. pos[k - 1] = off[k - 1]
    BY <1>18, <2>1
  <2>3. PICK c : c = arrs[k] /\ PlainArray(c)
    BY <1>15, <2>2
  <2>4. DOMAIN c = 1 .. Len(c)
    BY <2>3 DEF PlainArray, BuiltArrays
  <2>5. Len(c) < Word /\ \A l \in 1 .. Len(c) : PlainEntry(c[l])
    BY <2>3 DEF PlainArray
  <2>. QED  BY <2>3, <2>4, <2>5 DEF PlainEntry, ReadableArray, TypeOf
<1>20. DOMAIN ds.m_anonArrays = 1 .. n
  BY <1>1, <1>2
<1>. QED  BY <1>1, <1>2, <1>3, <1>19, <1>20 DEF ReadableDataSet, TypeOf

\* A packet that a reader reads where it is.
LEMMA PacketAligned ==
  ASSUME NEW w \in Seq(Byte), NEW i \in Nat, NEW p, CorrectPacket(p), FittingPacket(p),
         At(w, i, PacketBytes(p)), NEW next, PacketReadAt(w, i, p, next)
  PROVE  /\ \A k \in DOMAIN p.m_entries : ReadableEntry(p.m_entries[k])
         /\ \A k \in DOMAIN p.m_dataSets : ReadableDataSet(p.m_dataSets[k])
<1>1. PICK es \in BuiltArrays, dss \in Seq(BuiltDataSets) : es = p.m_entries /\ dss = p.m_dataSets
  BY DEF CorrectPacket, BuiltPackets, BuiltArrays
<1>2. PICK ne \in Nat, nd \in Nat : /\ ne = Len(es) /\ nd = Len(dss)
                                    /\ DOMAIN es = 1 .. ne /\ DOMAIN dss = 1 .. nd
  BY DEF BuiltArrays
<1>3. PICK lw \in Nat : lw = Len(w)
  OBVIOUS
<1>4. /\ \A k \in 1 .. ne : CorrectEntry(es[k]) /\ FittingEntry(es[k])
      /\ \A k \in 1 .. nd : CorrectDataSet(dss[k]) /\ FittingDataSet(dss[k])
  BY <1>1, <1>2 DEF CorrectPacket, FittingPacket
<1>5. \A k \in 1 .. ne : ReadableEntry(es[k])
  BY <1>4 DEF FittingEntry, isValid, EntrySeen, ReadableEntry, TypeOf
<1>6. PICK g : g = p.header /\ ProperHeader(g) /\ p \in BuiltPackets
  BY DEF CorrectPacket
<1>7. PICK z : z = i + Len(HeaderBytes(g))
  OBVIOUS
<1>8. /\ At(w, i, HeaderBytes(g)) /\ z \in Nat
      /\ At(w, z, EntriesBytes(es))
      /\ z + Len(EntriesBytes(es)) \in Nat
      /\ At(w, z + Len(EntriesBytes(es)), DataSetsBytes(dss))
  BY <1>1, <1>6, <1>7, PacketPartsAt
<1>9. PICK h : h = HeaderAt(w, i)
  OBVIOUS
<1>10. h.next = z /\ i \in 0 .. Len(w)
  BY <1>6, <1>7, <1>8, <1>9, CommandAt
<1>11. z \in 0 .. Len(w) /\ h.size \in Nat
  <2>1. h.next \in i .. Len(w) /\ h.size \in Nat
    BY <1>9, <1>10, HeaderRange
  <2>. QED  BY <1>3, <1>8, <1>10, <2>1
<1>12. PICK s : /\ s = ReadTurns(w, z, h.size) /\ s.next # Lost
                /\ s.m_entries = EntriesSeen(es) /\ s.m_dataSets = DataSetsSeen(dss)
  BY <1>1, <1>9, <1>10 DEF PacketReadAt
<1>13. PICK E \in [0 .. Len(es) -> Nat] :
         /\ E[0] = z /\ E[Len(es)] = z + Len(EntriesBytes(es))
         /\ \A k \in 1 .. Len(es) : /\ E[k] = E[k - 1] + Len(EntryBytes(es[k]))
                                    /\ E[k] >= E[k - 1] + 2
                                    /\ E[k] <= Len(w)
                                    /\ At(w, E[k - 1], EntryBytes(es[k]))
  BY <1>8, EntriesAt
<1>14. PICK x \in Nat : x = z + Len(EntriesBytes(es)) /\ At(w, x, DataSetsBytes(dss))
  BY <1>8
<1>15. PICK off \in [0 .. Len(dss) -> Nat] :
         /\ off[0] = x /\ off[Len(dss)] = x + Len(DataSetsBytes(dss))
         /\ \A k \in 1 .. Len(dss) : /\ off[k] = off[k - 1] + Len(DataSetBytes(dss[k]))
                                     /\ off[k] >= off[k - 1] + 2
                                     /\ off[k] <= Len(w)
                                     /\ At(w, off[k - 1], DataSetBytes(dss[k]))
  BY <1>14, DataSetsAt
<1>16. \A k \in 1 .. nd : Len(DataSetBytes(dss[k])) \in Nat
  <2>1. \A k \in 1 .. nd : dss[k] \in BuiltDataSets
    BY <1>2
  <2>. QED  BY <2>1, DataSetBytesTyped
<1>17. \A k \in 0 .. nd : off[k] \in Nat /\ off[k] >= x
  <2>1. ASSUME NEW k \in 1 .. nd PROVE off[k - 1] <= off[k]
    <3>1. k - 1 \in 0 .. nd /\ k \in 0 .. nd
      BY <1>2
    <3>2. off[k - 1] \in Nat /\ off[k] \in Nat
      BY <1>2, <1>15, <3>1
    <3>3. off[k] >= off[k - 1] + 2
      BY <1>2, <1>15
    <3>. QED  BY <3>2, <3>3
  <2>2. off \in [0 .. nd -> Nat]
    BY <1>2, <1>15
  <2>3. \A j, k \in 0 .. nd : j <= k => off[j] <= off[k]
    BY <2>1, <2>2, Climbs
  <2>4. \A k \in 0 .. nd : 0 \in 0 .. nd /\ 0 <= k
    BY <1>2
  <2>. QED  BY <1>15, <2>2, <2>3, <2>4
<1>18. PICK D : D = [k \in 0 .. nd |-> off[k] - x]
  OBVIOUS
<1>19. \A k \in 0 .. nd : D[k] \in Nat /\ off[k] = x + D[k]
  BY <1>17, <1>18
<1>20. Parcel(z, es, dss, E, D)
  <2>1. E \in [0 .. Len(es) -> Nat] /\ E[0] = z
          /\ \A k \in 1 .. Len(es) : E[k] = E[k - 1] + Len(EntryBytes(es[k]))
    BY <1>13
  <2>2. D \in [0 .. Len(dss) -> Nat] /\ D[0] = 0
    <3>1. 0 \in 0 .. nd /\ D[0] \in Nat /\ off[0] = x /\ off[0] = x + D[0]
      BY <1>2, <1>15, <1>19
    <3>. QED  BY <1>2, <1>18, <1>19, <3>1
  <2>3. ASSUME NEW k \in 1 .. nd PROVE D[k] = D[k - 1] + Len(DataSetBytes(dss[k]))
    <3>1. k - 1 \in 0 .. nd /\ k \in 0 .. nd
      BY <1>2
    <3>2. PICK l \in Nat, c \in Nat, d \in Nat :
            l = Len(DataSetBytes(dss[k])) /\ c = D[k - 1] /\ d = D[k]
      BY <1>16, <1>19, <3>1
    <3>3. off[k] = off[k - 1] + l
      BY <1>2, <1>15, <3>2
    <3>4. off[k] = x + d /\ off[k - 1] = x + c
      BY <1>19, <3>1, <3>2
    <3>5. x + d = (x + c) + l
      BY <3>3, <3>4
    <3>6. d = c + l
      BY <3>5
    <3>. QED  BY <3>2, <3>6
  <2>. QED  BY <1>2, <1>4, <2>1, <2>2, <2>3 DEF Parcel
<1>21. PICK m \in Nat : Taken(w, es, dss, E, D, m, s)
  BY <1>11, <1>12, <1>20, TurnsTaken
<1>22. Len(s.m_entries) = ne /\ Len(s.m_dataSets) = nd
  <2>1. /\ s.m_entries = [k \in 1 .. ne |-> EntrySeen(es[k])]
        /\ s.m_dataSets = [k \in 1 .. nd |-> DataSetSeen(dss[k])]
    BY <1>2, <1>12 DEF EntriesSeen, EntrySeen, DataSetsSeen
  <2>. QED  BY <1>2, <2>1
<1>23. DataSetsFrom(w, E, D, ne, ne, dss, nd)
  BY <1>2, <1>21, <1>22 DEF Taken
<1>24. ASSUME NEW k \in 1 .. nd PROVE ReadableDataSet(dss[k])
  <2>1. nd # 0
    BY <1>2
  <2>2. PICK c \in 0 .. ne : /\ HeaderAt(w, E[c]).type = DATA_SET
                             /\ c = ne => \A l \in 1 .. nd : DataSetReadAt(w, E[ne] + D[l - 1], dss[l])
    BY <1>23, <2>1 DEF DataSetsFrom
  <2>3. c = ne
    <3> SUFFICES ASSUME c # ne PROVE FALSE
      OBVIOUS
    <3>1. c + 1 \in 1 .. ne /\ (c + 1) - 1 = c /\ c \in 0 .. ne
      BY <1>2
    <3>2. PICK e : e = es[c + 1] /\ CorrectEntry(e) /\ FittingEntry(e) /\ At(w, E[c], EntryBytes(e))
      BY <1>2, <1>4, <1>13, <3>1
    <3>3. PICK o \in Nat : o = E[c]
      BY <1>2, <1>13, <3>1
    <3>4. PICK f \in Headers, d \in Seq(Byte) : f = e.header /\ d = e.m_data
      BY <3>2 DEF CorrectEntry, BuiltEntries
    <3>5. At(w, o, HeaderBytes(f))
      <4>1. HeaderBytes(f) \in Seq(Byte) /\ EntryBytes(e) = HeaderBytes(f) \o d
        BY <3>4, HeaderBytesTyped DEF EntryBytes
      <4>. QED  BY <3>2, <3>3, <3>4, <4>1, AtConcat
    <3>6. ProperHeader(f) /\ TypeOf(f) # DATA_SET
      BY <3>2, <3>4 DEF CorrectEntry, FittingEntry
    <3>7. HeaderAt(w, o).type = TypeOf(f)
      BY <3>5, <3>6, CommandAt
    <3>. QED  BY <2>2, <3>3, <3>6, <3>7
  <2>4. k - 1 \in 0 .. nd
    BY <1>2
  <2>5. PICK o \in Nat : o = off[k - 1] /\ At(w, o, DataSetBytes(dss[k]))
    BY <1>2, <1>15, <1>17, <2>4
  <2>6. E[ne] + D[k - 1] = o
    <3>1. E[ne] = x
      BY <1>2, <1>13, <1>14
    <3>. QED  BY <1>19, <2>4, <2>5, <3>1
  <2>7. DataSetReadAt(w, o, dss[k])
    BY <2>2, <2>3, <2>6
  <2>. QED  BY <1>4, <2>5, <2>7, DataSetAligned
<1>. QED  BY <1>1, <1>2, <1>5, <1>24

-----------------------------------------------------------------------------
(* What is read back, is readable *)

\* Data sets and packets that build() leaves alone are correct.
LEMMA DataSetIsCorrect ==
  ASSUME NEW ds \in ShapedDataSets, SanitizedDataSet(ds) = ds
  PROVE  CorrectDataSet(ds)
<1>1. PICK A : A = Seq(ShapedEntries)
  OBVIOUS
<1>2. PICK h \in Headers, d \in Seq(A) : h = ds.header /\ d = ds.m_anonArrays
  BY <1>1 DEF ShapedDataSets
<1>3. ds \in BuiltDataSets /\ ProperHeader(h) /\ A \subseteq BuiltArrays /\ d \in Seq(BuiltArrays)
  <2>1. ds \in BuiltDataSets /\ ProperHeader(h)
    BY <1>2, ShapedTyped DEF ShapedDataSets
  <2>2. d \in Seq(BuiltArrays)
    BY <1>2, <2>1 DEF BuiltDataSets
  <2>. QED  BY <1>1, <2>1, <2>2, ShapedTyped
<1>4. PICK r : r = sanitizePayloadSizeByType(h, d, <<>>)
  OBVIOUS
<1>5. r.payload \in Seq(BuiltArrays)
  <2>1. <<>> \in BuiltArrays
    BY DEF BuiltArrays
  <2>. QED  BY <1>3, <1>4, <2>1, SanitizeFacts
<1>6. r.header = h /\ SanitizedArrays(r.payload) = d
  <2>1. /\ SanitizedDataSet(ds).header = r.header
        /\ SanitizedDataSet(ds).m_anonArrays = SanitizedArrays(r.payload)
    BY <1>2, <1>4 DEF SanitizedDataSet
  <2>. QED  BY <1>2, <2>1
<1>7. SanitizedArrays(d) = d
  BY <1>5, <1>6, ArraysCorrected
<1>8. ASSUME NEW k \in 1 .. Len(d) PROVE CorrectArray(d[k])
  <2>1. d[k] \in A /\ d[k] \in BuiltArrays
    BY <1>2, <1>3
  <2>2. SanitizedArrays(d)[k] = SanitizedEntries(d[k])
    BY <1>3 DEF SanitizedArrays
  <2>3. SanitizedEntries(d[k]) = d[k]
    BY <1>7, <2>2
  <2>. QED  BY <1>1, <2>1, <2>3, EntriesAreCorrect DEF CorrectArray
<1>9. ASSUME Prefixed(h.m_cmd) PROVE h.m_contentSize = Len(d)
  <2>1. h.m_sizeWidth # 0
    BY <1>3, <1>9 DEF ProperHeader
  <2>2. r.header = setSize(h, Len(d))
    BY <1>4, <2>1 DEF sanitizePayloadSizeByType
  <2>3. Len(d) \in Nat
    BY <1>2
  <2>4. setSize(h, Len(d)).m_contentSize = Len(d)
    BY <2>3, HeaderKept
  <2>. QED  BY <1>6, <2>2, <2>4
<1>. QED  BY <1>2, <1>3, <1>8, <1>9 DEF CorrectDataSet

LEMMA PacketIsCorrect ==
  ASSUME NEW p \in ShapedPackets, SanitizedPacket(p) = p,
         p.header # [DefaultHeader EXCEPT !.m_contentSize = Turns(p)]
  PROVE  CorrectPacket(p)
<1>1. PICK h \in Headers, es \in Seq(ShapedEntries), dss \in Seq(ShapedDataSets) :
        h = p.header /\ es = p.m_entries /\ dss = p.m_dataSets
  BY DEF ShapedPackets
<1>2. PICK n \in Nat : n = Turns(p)
  <2>1. PICK a \in Nat, b \in Nat : a = Len(es) /\ b = Len(dss)
    OBVIOUS
  <2>2. Turns(p) = a + b
    BY <1>1, <2>1 DEF Turns
  <2>. QED  BY <2>2
<1>3. setSize(h, n) = h /\ SanitizedEntries(es) = es /\ SanitizedDataSets(dss) = dss
  <2>1. SanitizedPacket(p) = [header |-> setSize(h, n), m_entries |-> SanitizedEntries(es),
                              m_dataSets |-> SanitizedDataSets(dss)]
    BY <1>1, <1>2 DEF SanitizedPacket
  <2>2. /\ SanitizedPacket(p).header = setSize(h, n)
        /\ SanitizedPacket(p).m_entries = SanitizedEntries(es)
        /\ SanitizedPacket(p).m_dataSets = SanitizedDataSets(dss)
    BY <2>1
  <2>. QED  BY <1>1, <2>2
<1>4. h.m_contentSize = n
  <2>1. setSize(h, n).m_contentSize = n
    BY HeaderKept
  <2>. QED  BY <1>3, <2>1
<1>5. ProperHeader(h)
  <2>1. ProperHeader(h) \/ Nameless(h)
    BY <1>1 DEF ShapedPackets
  <2>2. ASSUME Nameless(h) PROVE FALSE
    <3>1. h = [m_cmd |-> UNKNOWN, m_sizeWidth |-> 0, m_contentSize |-> n]
      BY <1>4, <2>2 DEF Nameless, Headers
    <3>2. h = [DefaultHeader EXCEPT !.m_contentSize = n]
      BY <3>1 DEF DefaultHeader
    <3>. QED  BY <1>1, <1>2, <3>2
  <2>. QED  BY <2>1, <2>2
<1>6. ASSUME NEW k \in 1 .. Len(dss) PROVE CorrectDataSet(dss[k])
  <2>1. dss[k] \in ShapedDataSets
    BY <1>1
  <2>2. SanitizedDataSets(dss)[k] = SanitizedDataSet(dss[k])
    BY DEF SanitizedDataSets
  <2>3. SanitizedDataSet(dss[k]) = dss[k]
    BY <1>3, <2>2
  <2>. QED  BY <2>1, <2>3, DataSetIsCorrect
<1>7. \A k \in 1 .. Len(es) : CorrectEntry(es[k])
  BY <1>1, <1>3, EntriesAreCorrect
<1>. QED  BY <1>1, <1>5, <1>6, <1>7, ShapedTyped DEF CorrectPacket

\* The packets of a frame, if a reader reads them back.
LEMMA FrameReadable ==
  ASSUME NEW ps \in Seq(BuiltPackets), \A k \in 1 .. Len(ps) : CorrectPacket(ps[k]),
         NEW w, w = FrameBytes(ps),
         Read(w) = [status |-> "parsed", m_packets |-> PacketsSeen(ps)]
  PROVE  Readable(ps) /\ (Len(w) - 2) % Word # 0
<1>1. PICK c \in Seq(Byte), n \in Nat : c = PacketsBytes(ps) /\ n = Len(c)
  BY PacketPartsTyped
<1>2. PICK b \in Seq(Byte) : b = from_uint16(n) /\ Len(b) = 2
  BY Word16Bytes
<1>3. w = b \o c /\ w \in Seq(Byte) /\ Len(w) = 2 + n
  BY <1>1, <1>2, FrameBytesTyped
<1>4. At(w, 0, b) /\ At(w, 2, c)
  <2>1. At(w, 0, b \o c)
    BY <1>3 DEF At
  <2>2. At(w, 0, b) /\ At(w, 0 + Len(b), c)
    BY <1>3, <2>1, AtConcat
  <2>. QED  BY <1>2, <2>2
<1>5. uint16At(w, 0) = n % Word /\ after16(w, 0) = 2
  <2>1. At(w, 0, from_uint16(n))
    BY <1>2, <1>4
  <2>2. uint16At(w, 0) = n % Word /\ after16(w, 0) = 0 + 2
    BY <1>3, <2>1, Word16Read
  <2>. QED  BY <2>2
<1>6. n % Word # 0 /\ ReadPackets(w, 2) = [status |-> "parsed", m_packets |-> PacketsSeen(ps)]
  <2>1. Read(w).status = "parsed"
    OBVIOUS
  <2>2. ~(n % Word = 0 \/ n % Word > Len(w) - 2)
    BY <1>5, <2>1 DEF Read
  <2>3. Read(w) = ReadPackets(w, 2)
    BY <1>5, <2>2 DEF Read
  <2>. QED  BY <2>2, <2>3
<1>7. PICK m \in Nat : m = Len(ps)
  OBVIOUS
<1>8. PICK x : x = PacketsSeen(ps) /\ Len(x) = m /\ \A k \in 1 .. m : x[k] = Seen(ps[k])
  <2>1. PacketsSeen(ps) = [k \in 1 .. m |-> Seen(ps[k])]
    BY <1>7 DEF PacketsSeen
  <2>. QED  BY <1>7, <2>1
<1>9. PICK R : FramePlaces(w, 2, x, R)
  <2>1. 2 \in 0 .. Len(w)
    BY <1>3
  <2>. QED  BY <1>3, <1>6, <1>8, <2>1, FrameTrace
<1>10. PICK Q \in [0 .. Len(ps) -> Nat] :
         /\ Q[0] = 2 /\ Q[Len(ps)] = 2 + Len(PacketsBytes(ps))
         /\ \A k \in 1 .. Len(ps) : /\ Q[k] = Q[k - 1] + Len(PacketBytes(ps[k]))
                                    /\ Q[k] >= Q[k - 1] + 2
                                    /\ Q[k] <= Len(w)
                                    /\ At(w, Q[k - 1], PacketBytes(ps[k]))
  <2>1. At(w, 2, PacketsBytes(ps)) /\ 2 \in Nat
    BY <1>1, <1>4
  <2>. QED  BY <1>3, <2>1, PacketsAt
<1>11. R \in [0 .. m -> 0 .. Len(w)] /\ R[0] = 2 /\ R[m] = Len(w)
  BY <1>8, <1>9 DEF FramePlaces
<1>12. ASSUME NEW k \in 1 .. m
       PROVE  R[k - 1] + 2 <= Len(w) /\ PacketReadAt(w, R[k - 1], ps[k], R[k])
  <2>1. PICK p : p = ps[k]
    OBVIOUS
  <2>2. PICK h, s : h = HeaderAt(w, R[k - 1]) /\ s = ReadTurns(w, h.next, h.size)
    OBVIOUS
  <2>3. /\ R[k - 1] + 1 < Len(w) /\ s.next = R[k]
        /\ x[k] = [cmd |-> h.cmd, m_entries |-> s.m_entries, m_dataSets |-> s.m_dataSets]
    BY <1>8, <1>9, <2>2 DEF FramePlaces
  <2>4. x[k] = [cmd |-> p.header.m_cmd, m_entries |-> EntriesSeen(p.m_entries),
                m_dataSets |-> DataSetsSeen(p.m_dataSets)]
    BY <1>8, <2>1 DEF Seen, DataSetsSeen
  <2>5. /\ x[k].cmd = h.cmd /\ x[k].m_entries = s.m_entries /\ x[k].m_dataSets = s.m_dataSets
    BY <2>3
  <2>6. /\ x[k].cmd = p.header.m_cmd /\ x[k].m_entries = EntriesSeen(p.m_entries)
        /\ x[k].m_dataSets = DataSetsSeen(p.m_dataSets)
    BY <2>4
  <2>7. k - 1 \in 0 .. m /\ k \in 0 .. m
    BY <1>7
  <2>8. R[k] \in 0 .. Len(w) /\ R[k - 1] \in 0 .. Len(w)
    BY <1>11, <2>7
  <2>9. R[k] # Lost
    BY <2>8 DEF Lost
  <2>10. R[k - 1] + 2 <= Len(w)
    BY <1>3, <2>3, <2>8
  <2>. QED  BY <2>1, <2>2, <2>3, <2>5, <2>6, <2>9, <2>10 DEF PacketReadAt
<1>13. BothWays(w, ps, Q, R)
  <2>1. Q[m] = Len(w)
    BY <1>1, <1>3, <1>7, <1>10
  <2>. QED  BY <1>7, <1>10, <1>11, <1>12, <2>1 DEF BothWays
<1>14. \A k \in 0 .. Len(ps) : Q[k] \in Nat /\ R[k] = Q[k]
  <2>1. w \in Seq(Byte)
    BY <1>3
  <2>2. \A k \in 0 .. Len(ps) : R[k] = Q[k]
    BY <1>13, <2>1, Aligned
  <2>3. Q \in [0 .. Len(ps) -> Nat]
    BY <1>10
  <2>. QED  BY <2>2, <2>3
<1>15. ASSUME NEW k \in 1 .. m
       PROVE  /\ ReadableCount(ps[k], k = m)
              /\ \A j \in DOMAIN ps[k].m_entries : ReadableEntry(ps[k].m_entries[j])
              /\ \A j \in DOMAIN ps[k].m_dataSets : ReadableDataSet(ps[k].m_dataSets[j])
  <2>1. k \in 1 .. Len(ps) /\ k - 1 \in 0 .. Len(ps) /\ k \in 0 .. Len(ps)
    BY <1>7
  <2>2. PICK p : p = ps[k]
    OBVIOUS
  <2>3. Q[k - 1] \in Nat /\ Q[k] \in Nat /\ R[k - 1] = Q[k - 1] /\ R[k] = Q[k]
    BY <1>14, <2>1
  <2>4. PICK i \in Nat : i = Q[k - 1]
    BY <2>3
  <2>5. /\ CorrectPacket(p) /\ FittingPacket(p) /\ At(w, i, PacketBytes(p))
        /\ PacketReadAt(w, i, p, R[k])
        /\ PacketCounts(w, p, i + Len(PacketBytes(p)), R[k])
    <3>1. /\ CorrectPacket(p) /\ FittingPacket(p) /\ At(w, Q[k - 1], PacketBytes(p))
          /\ PacketReadAt(w, R[k - 1], p, R[k])
          /\ PacketCounts(w, p, R[k - 1] + Len(PacketBytes(p)), R[k])
      BY <1>3, <1>13, <2>1, <2>2, BothRead
    <3>. QED  BY <2>4, <2>3, <3>1
  <2>6. /\ \A j \in DOMAIN p.m_entries : ReadableEntry(p.m_entries[j])
        /\ \A j \in DOMAIN p.m_dataSets : ReadableDataSet(p.m_dataSets[j])
    BY <1>3, <2>5, PacketAligned
  <2>7. PICK q : q = i + Len(PacketBytes(p)) /\ R[k] = q /\ q \in Nat
    <3>1. Q[k] = i + Len(PacketBytes(p))
      BY <1>10, <2>1, <2>2, <2>4
    <3>. QED  BY <2>3, <3>1
  <2>8. k # m => q + 1 < Len(w)
    <3> SUFFICES ASSUME k # m PROVE q + 1 < Len(w)
      OBVIOUS
    <3>1. k + 1 \in 1 .. m /\ (k + 1) - 1 = k
      BY <1>7
    <3>2. R[k] + 2 <= Len(w)
      BY <1>12, <3>1
    <3>. QED  BY <1>3, <2>7, <3>2
  <2>9. ReadableCount(p, k = m)
    <3>1. CASE Prefixed(p.header.m_cmd)
      <4>1. p.header.m_sizeWidth # 0
        BY <2>5, <3>1 DEF CorrectPacket, ProperHeader
      <4>2. Turns(p) < Word
        BY <2>5, <3>1 DEF PacketCounts
      <4>. QED  BY <3>1, <4>1, <4>2 DEF ReadableCount
    <3>2. CASE ~Prefixed(p.header.m_cmd)
      <4>1. PICK size : size = g_type_sizes(g_cmd_code_types_flags[p.header.m_cmd])
        OBVIOUS
      <4>2. PICK t \in Nat : t = Turns(p)
        <5>1. PICK a \in Nat, d \in Nat : a = Len(p.m_entries) /\ d = Len(p.m_dataSets)
          <6>1. p \in BuiltPackets
            BY <1>3, <1>13, <2>1, <2>2, BothRead
          <6>2. p.m_entries \in Seq(BuiltEntries) /\ Len(p.m_dataSets) \in Nat
            BY <6>1 DEF BuiltPackets
          <6>. QED  BY <6>2
        <5>2. Turns(p) = a + d
          BY <5>1 DEF Turns
        <5>. QED  BY <5>2
      <4>3. t <= size /\ (q + 1 < Len(w) => t = size) /\ size \in Nat
        <5>1. Turns(p) <= size /\ (R[k] = q /\ q + 1 < Len(w) => Turns(p) = size)
          BY <2>5, <2>7, <3>2, <4>1 DEF PacketCounts, TypeOf
        <5>2. size \in Nat
          BY <4>1 DEF g_type_sizes
        <5>. QED  BY <2>7, <4>2, <5>1, <5>2
      <4>4. t = size \/ (t < size /\ k = m)
        <5>1. k # m => t = size
          BY <2>8, <4>3
        <5>2. t = size \/ t < size
          BY <4>2, <4>3
        <5>. QED  BY <5>1, <5>2
      <4>. QED  BY <3>2, <4>2, <4>4, <4>1 DEF ReadableCount
    <3>. QED  BY <3>1, <3>2
  <2>. QED  BY <2>2, <2>6, <2>9
<1>16. Readable(ps)
  <2>1. DOMAIN ps = 1 .. m /\ Len(ps) = m
    BY <1>7
  <2>. QED  BY <1>15, <2>1 DEF Readable
<1>17. Len(w) - 2 = n
  BY <1>3
<1>. QED  BY <1>6, <1>16, <1>17

\* Every condition of ReadableFrame is needed: a frame of which one fails, be it
\* a count or a size beyond its field (EntryHeader.cpp:108-118), an entry without
\* a payload (Packet.cpp:107-111), one under a code for data sets (DataEntry.cpp:24)
\* or an array under any other, is not read back.  The reader may then take bytes
\* from somewhere else for what it expects; but it never finds all of it there, up
\* to the end of the frame (TcpPacket.cpp:24-39).
THEOREM OnlyReadable == Spec => []LostUnlessReadable
<1>1. Inv /\ ShapedInv => LostUnlessReadable
  <2> SUFFICES ASSUME Inv, ShapedInv, wire # <<>>,
                      \A k \in DOMAIN m_packets : m_packets[k].header #
                        [DefaultHeader EXCEPT !.m_contentSize = Turns(m_packets[k])],
                      ReadBack
               PROVE  ReadableFrame
    BY DEF LostUnlessReadable
  <2>1. m_packets \in Seq(BuiltPackets) /\ m_packets \in Seq(ShapedPackets)
    BY DEF Inv, ObjectsOK, ShapedInv
  <2>2. wire = FrameBytes(m_packets) /\ m_packets = SanitizedPackets(m_packets)
    BY DEF Inv, BuiltFromCorrected
  <2>3. ASSUME NEW k \in 1 .. Len(m_packets) PROVE CorrectPacket(m_packets[k])
    <3>1. m_packets[k] \in ShapedPackets /\ k \in DOMAIN m_packets
      BY <2>1
    <3>2. SanitizedPackets(m_packets)[k] = SanitizedPacket(m_packets[k])
      BY <3>1 DEF SanitizedPackets
    <3>3. SanitizedPacket(m_packets[k]) = m_packets[k]
      BY <2>2, <3>2
    <3>. QED  BY <3>1, <3>3, PacketIsCorrect
  <2>4. Read(wire) = [status |-> "parsed", m_packets |-> PacketsSeen(m_packets)]
    BY DEF ReadBack, PacketsSeen
  <2>5. Readable(m_packets) /\ (Len(wire) - 2) % Word # 0
    BY <2>1, <2>2, <2>3, <2>4, FrameReadable
  <2>. QED  BY <2>5 DEF ReadableFrame
<1>. QED  BY <1>1, Invariance, HeadersStayProper, PTL
=============================================================================
