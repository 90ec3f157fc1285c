------------------------- MODULE PacketBuildProofs -------------------------
(***************************************************************************)
(* Proofs about PacketBuild, for every table, every size of a byte and all *)
(* entries and data sets.                                                  *)
(***************************************************************************)
EXTENDS PacketBuild, LoopFacts

-----------------------------------------------------------------------------
(* Construction *)

\* The constructors of EntryHeader leave a size field of two bytes or none.
LEMMA HeaderTyped ==
  /\ DefaultHeader \in Headers
  /\ \A c \in CMD_CODE : EntryHeader(c) \in Headers
<1>1. DefaultHeader \in Headers
  BY TableAssumption DEF DefaultHeader, Headers
<1>2. ASSUME NEW c \in CMD_CODE PROVE EntryHeader(c) \in Headers
  <2>1. g_type_sizes(g_cmd_code_types_flags[c]) \in Nat
    BY DEF g_type_sizes
  <2>. QED  BY <2>1 DEF EntryHeader, Headers
<1>. QED  BY <1>1, <1>2

LEMMA NewPacketTyped ==
  ASSUME NEW h \in Headers
  PROVE  Packet(h) \in BuiltPackets
BY DEF Packet, BuiltPackets

LEMMA NewPacketsTyped == NewPackets \subseteq BuiltPackets
BY HeaderTyped, NewPacketTyped, BuildAssumption DEF NewPackets

LEMMA DataEntryTyped ==
  ASSUME NEW e \in EntryInput
  PROVE  DataEntry(e) \in BuiltEntries
BY HeaderTyped DEF EntryInput, DataEntry, BuiltEntries

LEMMA AnonymousArrayTyped ==
  ASSUME NEW a \in Seq(EntryInput)
  PROVE  AnonymousArray(a) \in Seq(BuiltEntries)
<1>1. \A i \in 1 .. Len(a) : DataEntry(a[i]) \in BuiltEntries
  BY DataEntryTyped
<1>. QED  BY <1>1 DEF AnonymousArray

LEMMA DataSetTyped ==
  ASSUME NEW ds \in DataSets
  PROVE  DataSet(ds) \in BuiltDataSets
<1>1. ds.cmd \in CMD_CODE /\ ds.m_anonArrays \in Seq(Seq(EntryInput))
  BY BuildAssumption
<1>2. \A i \in 1 .. Len(ds.m_anonArrays) :
         AnonymousArray(ds.m_anonArrays[i]) \in BuiltArrays
  BY <1>1, AnonymousArrayTyped DEF BuiltArrays
<1>3. PICK n \in Nat : DOMAIN ds.m_anonArrays = 1 .. n /\ Len(ds.m_anonArrays) = n
  BY <1>1
<1>4. [i \in 1 .. n |-> AnonymousArray(ds.m_anonArrays[i])] \in Seq(BuiltArrays)
  BY <1>2, <1>3
<1>. QED  BY <1>1, <1>3, <1>4, HeaderTyped DEF DataSet, BuiltDataSets

-----------------------------------------------------------------------------
(* Correction: it keeps the types, and a second one changes nothing *)

\* std::vector::resize yields a vector of the size asked for, the same vector
\* if it has that size already.
LEMMA ResizeFacts ==
  ASSUME NEW S, NEW s \in Seq(S), NEW n \in Nat, NEW f \in S
  PROVE  /\ resize(s, n, f) \in Seq(S)
         /\ Len(resize(s, n, f)) = n
         /\ Len(s) = n => resize(s, n, f) = s
<1>1. resize(s, n, f) \in Seq(S) /\ Len(resize(s, n, f)) = n
  BY DEF resize
<1>2. ASSUME Len(s) = n PROVE resize(s, n, f) = s
  BY <1>2, <1>1 DEF resize
<1>. QED  BY <1>1, <1>2

LEMMA SetSizeFacts ==
  ASSUME NEW h \in Headers, NEW n \in Nat
  PROVE  /\ setSize(h, n) \in Headers
         /\ setSize(setSize(h, n), n) = setSize(h, n)
         /\ setSize(h, n).m_sizeWidth = h.m_sizeWidth
BY DEF setSize, Headers

\* sanitizePayloadSizeByType: header and payload then agree, and a second call
\* finds nothing to correct, even if the payload has changed under the same
\* length in between.
LEMMA SanitizeFacts ==
  ASSUME NEW S, NEW h \in Headers, NEW s \in Seq(S), NEW f \in S,
         NEW r, r = sanitizePayloadSizeByType(h, s, f)
  PROVE  /\ r.header \in Headers /\ r.payload \in Seq(S)
         /\ \A t \in Seq(S) : Len(t) = Len(r.payload) =>
              sanitizePayloadSizeByType(r.header, t, f) = [header |-> r.header, payload |-> t]
<1>1. CASE h.m_sizeWidth # 0
  <2>1. r.header = setSize(h, Len(s)) /\ r.payload = s
    BY <1>1 DEF sanitizePayloadSizeByType
  <2>2. /\ r.header \in Headers /\ r.header.m_sizeWidth # 0
        /\ setSize(r.header, Len(s)) = r.header
    BY <1>1, <2>1, SetSizeFacts
  <2>. QED  BY <2>1, <2>2 DEF sanitizePayloadSizeByType
<1>2. CASE h.m_sizeWidth = 0
  <2>1. r.header = h /\ r.payload = resize(s, h.m_contentSize, f)
    BY <1>2 DEF sanitizePayloadSizeByType
  <2>2. h.m_contentSize \in Nat
    BY DEF Headers
  <2>3. r.payload \in Seq(S) /\ Len(r.payload) = h.m_contentSize
    BY <2>1, <2>2, ResizeFacts
  <2>4. \A t \in Seq(S) : Len(t) = Len(r.payload) => resize(t, h.m_contentSize, f) = t
    BY <2>2, <2>3, ResizeFacts
  <2>. QED  BY <1>2, <2>1, <2>3, <2>4 DEF sanitizePayloadSizeByType
<1>. QED  BY <1>1, <1>2

LEMMA EntryCorrected ==
  ASSUME NEW e \in BuiltEntries
  PROVE  /\ SanitizedEntry(e) \in BuiltEntries
         /\ SanitizedEntry(SanitizedEntry(e)) = SanitizedEntry(e)
<1>1. e.header \in Headers /\ e.m_data \in Seq(Byte) /\ 0 \in Byte
  BY RadixAssumption DEF BuiltEntries, Byte
<1>2. PICK r : r = sanitizePayloadSizeByType(e.header, e.m_data, 0)
  OBVIOUS
<1>3. /\ r.header \in Headers /\ r.payload \in Seq(Byte)
      /\ sanitizePayloadSizeByType(r.header, r.payload, 0)
           = [header |-> r.header, payload |-> r.payload]
  <2>1. ASSUME NEW S, NEW h \in Headers, NEW s \in Seq(S), NEW f \in S,
               r = sanitizePayloadSizeByType(h, s, f)
        PROVE  /\ r.header \in Headers /\ r.payload \in Seq(S)
               /\ \A t \in Seq(S) : Len(t) = Len(r.payload) =>
                    sanitizePayloadSizeByType(r.header, t, f) = [header |-> r.header, payload |-> t]
    BY <2>1, SanitizeFacts
  <2>2. /\ r.header \in Headers /\ r.payload \in Seq(Byte)
        /\ \A t \in Seq(Byte) : Len(t) = Len(r.payload) =>
             sanitizePayloadSizeByType(r.header, t, 0) = [header |-> r.header, payload |-> t]
    BY <1>1, <1>2, <2>1
  <2>. QED  BY <2>2
<1>4. SanitizedEntry(e) = [header |-> r.header, m_data |-> r.payload]
  BY <1>2 DEF SanitizedEntry
<1>. QED  BY <1>3, <1>4 DEF SanitizedEntry, BuiltEntries

LEMMA EntriesCorrected ==
  ASSUME NEW es \in Seq(BuiltEntries)
  PROVE  /\ SanitizedEntries(es) \in Seq(BuiltEntries)
         /\ Len(SanitizedEntries(es)) = Len(es)
         /\ SanitizedEntries(SanitizedEntries(es)) = SanitizedEntries(es)
<1>1. \A i \in 1 .. Len(es) : /\ SanitizedEntry(es[i]) \in BuiltEntries
                             /\ SanitizedEntry(SanitizedEntry(es[i])) = SanitizedEntry(es[i])
  BY EntryCorrected
<1>. QED  BY <1>1 DEF SanitizedEntries

LEMMA ArraysCorrected ==
  ASSUME NEW arrs \in Seq(BuiltArrays)
  PROVE  /\ SanitizedArrays(arrs) \in Seq(BuiltArrays)
         /\ Len(SanitizedArrays(arrs)) = Len(arrs)
         /\ SanitizedArrays(SanitizedArrays(arrs)) = SanitizedArrays(arrs)
<1>1. \A a \in BuiltArrays : /\ SanitizedEntries(a) \in BuiltArrays
                            /\ SanitizedEntries(SanitizedEntries(a)) = SanitizedEntries(a)
  BY EntriesCorrected DEF BuiltArrays
<1>2. \A i \in 1 .. Len(arrs) :
         /\ SanitizedEntries(arrs[i]) \in BuiltArrays
         /\ SanitizedEntries(SanitizedEntries(arrs[i])) = SanitizedEntries(arrs[i])
  BY <1>1
<1>. QED  BY <1>2 DEF SanitizedArrays

\* A data set corrects the number of its arrays, then the arrays.
LEMMA DataSetCorrected ==
  ASSUME NEW ds \in BuiltDataSets
  PROVE  /\ SanitizedDataSet(ds) \in BuiltDataSets
         /\ SanitizedDataSet(SanitizedDataSet(ds)) = SanitizedDataSet(ds)
<1>1. ds.header \in Headers /\ ds.m_anonArrays \in Seq(BuiltArrays)
  BY DEF BuiltDataSets
<1>2. PICK r : r = sanitizePayloadSizeByType(ds.header, ds.m_anonArrays, <<>>)
  OBVIOUS
<1>3. <<>> \in BuiltArrays
  BY DEF BuiltArrays
<1>4. /\ r.header \in Headers /\ r.payload \in Seq(BuiltArrays)
      /\ \A t \in Seq(BuiltArrays) : Len(t) = Len(r.payload) =>
           sanitizePayloadSizeByType(r.header, t, <<>>) = [header |-> r.header, payload |-> t]
  BY <1>1, <1>2, <1>3, SanitizeFacts
<1>5. PICK c \in Seq(BuiltArrays) :
        c = SanitizedArrays(r.payload) /\ Len(c) = Len(r.payload) /\ SanitizedArrays(c) = c
  BY <1>4, ArraysCorrected
<1>6. SanitizedDataSet(ds) = [header |-> r.header, m_anonArrays |-> c]
  BY <1>2, <1>5 DEF SanitizedDataSet
<1>7. sanitizePayloadSizeByType(r.header, c, <<>>) = [header |-> r.header, payload |-> c]
  BY <1>4, <1>5
<1>. QED  BY <1>4, <1>5, <1>6, <1>7 DEF SanitizedDataSet, BuiltDataSets

LEMMA DataSetsCorrected ==
  ASSUME NEW dss \in Seq(BuiltDataSets)
  PROVE  /\ SanitizedDataSets(dss) \in Seq(BuiltDataSets)
         /\ Len(SanitizedDataSets(dss)) = Len(dss)
         /\ SanitizedDataSets(SanitizedDataSets(dss)) = SanitizedDataSets(dss)
<1>1. \A i \in 1 .. Len(dss) :
        /\ SanitizedDataSet(dss[i]) \in BuiltDataSets
        /\ SanitizedDataSet(SanitizedDataSet(dss[i])) = SanitizedDataSet(dss[i])
  BY DataSetCorrected
<1>. QED  BY <1>1 DEF SanitizedDataSets

LEMMA PacketCorrected ==
  ASSUME NEW p \in BuiltPackets
  PROVE  /\ SanitizedPacket(p) \in BuiltPackets
         /\ SanitizedPacket(SanitizedPacket(p)) = SanitizedPacket(p)
<1>1. /\ p.header \in Headers
      /\ p.m_entries \in Seq(BuiltEntries) /\ p.m_dataSets \in Seq(BuiltDataSets)
  BY DEF BuiltPackets
<1>2. PICK es \in Seq(BuiltEntries) : /\ es = SanitizedEntries(p.m_entries)
                                      /\ SanitizedEntries(es) = es
                                      /\ Len(es) = Len(p.m_entries)
  BY <1>1, EntriesCorrected
<1>3. PICK ds \in Seq(BuiltDataSets) : /\ ds = SanitizedDataSets(p.m_dataSets)
                                       /\ SanitizedDataSets(ds) = ds
                                       /\ Len(ds) = Len(p.m_dataSets)
  BY <1>1, DataSetsCorrected
<1>4. Turns(p) \in Nat
  <2>1. Len(p.m_entries) \in Nat
    BY <1>1, LenProperties
  <2>2. Len(p.m_dataSets) \in Nat
    BY <1>1, LenProperties
  <2>3. \A m, n \in Nat : m + n \in Nat
    OBVIOUS
  <2>. QED  BY <2>1, <2>2, <2>3, Zenon DEF Turns
<1>5. PICK h \in Headers : h = setSize(p.header, Turns(p)) /\ setSize(h, Turns(p)) = h
  BY <1>1, <1>4, SetSizeFacts
<1>6. SanitizedPacket(p) = [header |-> h, m_entries |-> es, m_dataSets |-> ds]
  BY <1>2, <1>3, <1>5 DEF SanitizedPacket
<1>7. Turns([header |-> h, m_entries |-> es, m_dataSets |-> ds]) = Turns(p)
  BY <1>2, <1>3 DEF Turns
<1>. QED  BY <1>2, <1>3, <1>5, <1>6, <1>7 DEF SanitizedPacket, BuiltPackets

LEMMA PacketsCorrected ==
  ASSUME NEW ps \in Seq(BuiltPackets)
  PROVE  /\ SanitizedPackets(ps) \in Seq(BuiltPackets)
         /\ SanitizedPackets(SanitizedPackets(ps)) = SanitizedPackets(ps)
<1>1. \A i \in 1 .. Len(ps) : /\ SanitizedPacket(ps[i]) \in BuiltPackets
                             /\ SanitizedPacket(SanitizedPacket(ps[i])) = SanitizedPacket(ps[i])
  BY PacketCorrected
<1>. QED  BY <1>1 DEF SanitizedPackets

-----------------------------------------------------------------------------
(* The bytes of objects *)

\* from_uint16 makes two bytes.
LEMMA Word16Bytes ==
  ASSUME NEW v \in Nat
  PROVE  from_uint16(v) \in Seq(Byte) /\ Len(from_uint16(v)) = 2
<1>1. v % Radix \in Byte /\ (v \div Radix) % Radix \in Byte
  <2>1. \A n \in Nat : n % Radix \in 0 .. Radix - 1 /\ n \div Radix \in Nat
    BY DivMod, RadixAssumption
  <2>. QED  BY <2>1 DEF Byte
<1>. QED  BY <1>1 DEF from_uint16

\* A header is a code of two bytes and a size of two or none.
LEMMA HeaderBytesTyped ==
  ASSUME NEW h \in Headers
  PROVE  /\ HeaderBytes(h) \in Seq(Byte)
         /\ Len(HeaderBytes(h)) = 2 + h.m_sizeWidth
<1>1. h.m_cmd \in Nat /\ h.m_contentSize \in Nat /\ h.m_sizeWidth \in {0, 2}
  BY TableAssumption DEF Headers
<1>2. PICK b \in Seq(Byte), c \in Seq(Byte) :
        /\ b = from_uint16(h.m_cmd) /\ c = from_uint16(h.m_contentSize)
        /\ Len(b) = 2 /\ Len(c) = 2
  BY <1>1, Word16Bytes
<1>3. HeaderBytes(h) = b \o (IF h.m_sizeWidth = 2 THEN c ELSE <<>>)
  BY <1>2 DEF HeaderBytes
<1>4. b \o c \in Seq(Byte) /\ Len(b \o c) = 4
  <2>1. b \o c \in Seq(Byte) /\ Len(b \o c) = Len(b) + Len(c)
    BY ConcatProperties
  <2>. QED  BY <1>2, <2>1
<1>5. b \o <<>> = b
  BY ConcatEmptySeq
<1>6. CASE h.m_sizeWidth = 2
  BY <1>3, <1>4, <1>6
<1>7. CASE h.m_sizeWidth = 0
  <2>1. HeaderBytes(h) = b
    BY <1>3, <1>5, <1>7
  <2>. QED  BY <1>2, <1>7, <2>1
<1>. QED  BY <1>1, <1>6, <1>7

\* DataEntry::build makes at least the two bytes of the code.
LEMMA EntryBytesTyped ==
  ASSUME NEW e \in BuiltEntries
  PROVE  EntryBytes(e) \in Seq(Byte) /\ Len(EntryBytes(e)) >= 2
<1>1. PICK b \in Seq(Byte) : b = HeaderBytes(e.header) /\ Len(b) = 2 + e.header.m_sizeWidth
  BY HeaderBytesTyped DEF BuiltEntries
<1>2. e.header.m_sizeWidth \in {0, 2} /\ e.m_data \in Seq(Byte)
  BY DEF BuiltEntries, Headers
<1>3. b \o e.m_data \in Seq(Byte) /\ Len(b \o e.m_data) = Len(b) + Len(e.m_data)
  BY <1>2, ConcatProperties
<1>4. Len(e.m_data) \in Nat
  BY <1>2
<1>. QED  BY <1>1, <1>2, <1>3, <1>4 DEF EntryBytes

\* The bytes of the entries, one by one.
EntryParts(a) == [k \in DOMAIN a |-> EntryBytes(a[k])]

LEMMA EntryPartsTyped ==
  ASSUME NEW a \in BuiltArrays
  PROVE  /\ EntryParts(a) \in Seq(Seq(Byte)) /\ Len(EntryParts(a)) = Len(a)
         /\ \A k \in 1 .. Len(a) : EntryParts(a)[k] = EntryBytes(a[k])
<1>1. a \in Seq(BuiltEntries)
  BY DEF BuiltArrays
<1>2. \A k \in 1 .. Len(a) : EntryBytes(a[k]) \in Seq(Byte)
  BY <1>1, EntryBytesTyped
<1>3. PICK Q : Q = Seq(Byte)
  OBVIOUS
<1>4. [k \in 1 .. Len(a) |-> EntryBytes(a[k])] \in Seq(Q)
  BY <1>1, <1>2, <1>3
<1>5. DOMAIN a = 1 .. Len(a) /\ Len(a) \in Nat
  BY <1>1
<1>. QED  BY <1>3, <1>4, <1>5 DEF EntryParts

LEMMA EntriesBytesTyped ==
  ASSUME NEW a \in BuiltArrays
  PROVE  EntriesBytes(a) \in Seq(Byte)
<1>1. EntriesBytes(a) = FlattenSeq(EntryParts(a))
  BY DEF EntriesBytes, EntryParts
<1>. QED  BY <1>1, EntryPartsTyped, FlattenFacts

\* AnonymousArray::build writes a count, then the entries.
LEMMA ArrayBytesTyped ==
  ASSUME NEW a \in BuiltArrays
  PROVE  /\ ArrayBytes(a) \in Seq(Byte)
         /\ Len(ArrayBytes(a)) = 2 + Len(EntriesBytes(a))
         /\ Len(ArrayBytes(a)) >= 2
<1>1. Len(a) \in Nat
  BY DEF BuiltArrays
<1>2. PICK b \in Seq(Byte), c \in Seq(Byte) :
        b = from_uint16(Len(a)) /\ Len(b) = 2 /\ c = EntriesBytes(a)
  BY <1>1, Word16Bytes, EntriesBytesTyped
<1>3. b \o c \in Seq(Byte) /\ Len(b \o c) = Len(b) + Len(c) /\ Len(c) \in Nat
  BY ConcatProperties
<1>. QED  BY <1>2, <1>3 DEF ArrayBytes

\* The bytes of the arrays, one by one.
ArrayParts(arrs) == [k \in DOMAIN arrs |-> ArrayBytes(arrs[k])]

ArraysBytes(arrs) == FlattenSeq(ArrayParts(arrs))

LEMMA ArrayPartsTyped ==
  ASSUME NEW arrs \in Seq(BuiltArrays)
  PROVE  /\ ArrayParts(arrs) \in Seq(Seq(Byte)) /\ Len(ArrayParts(arrs)) = Len(arrs)
         /\ \A k \in 1 .. Len(arrs) : ArrayParts(arrs)[k] = ArrayBytes(arrs[k])
<1>1. \A k \in 1 .. Len(arrs) : ArrayBytes(arrs[k]) \in Seq(Byte)
  BY ArrayBytesTyped
<1>2. PICK Q : Q = Seq(Byte)
  OBVIOUS
<1>3. [k \in 1 .. Len(arrs) |-> ArrayBytes(arrs[k])] \in Seq(Q)
  BY <1>1, <1>2
<1>4. DOMAIN arrs = 1 .. Len(arrs) /\ Len(arrs) \in Nat
  OBVIOUS
<1>. QED  BY <1>2, <1>3, <1>4 DEF ArrayParts

\* DataSet::build writes a header, then the arrays.
LEMMA DataSetBytesTyped ==
  ASSUME NEW ds \in BuiltDataSets
  PROVE  /\ ArraysBytes(ds.m_anonArrays) \in Seq(Byte)
         /\ DataSetBytes(ds) = HeaderBytes(ds.header) \o ArraysBytes(ds.m_anonArrays)
         /\ DataSetBytes(ds) \in Seq(Byte)
         /\ Len(DataSetBytes(ds)) = Len(HeaderBytes(ds.header)) + Len(ArraysBytes(ds.m_anonArrays))
         /\ Len(DataSetBytes(ds)) >= 2
<1>1. PICK arrs \in Seq(BuiltArrays), h \in Headers : arrs = ds.m_anonArrays /\ h = ds.header
  BY DEF BuiltDataSets
<1>2. PICK b \in Seq(Byte) : b = HeaderBytes(h) /\ Len(b) = 2 + h.m_sizeWidth /\ Len(b) >= 2
  <2>1. h.m_sizeWidth \in {0, 2}
    BY DEF Headers
  <2>. QED  BY <2>1, HeaderBytesTyped
<1>3. PICK c \in Seq(Byte) : c = ArraysBytes(arrs)
  <2>1. FlattenSeq(ArrayParts(arrs)) \in Seq(Byte)
    BY ArrayPartsTyped, FlattenFacts
  <2>. QED  BY <2>1 DEF ArraysBytes
<1>4. b \o c \in Seq(Byte) /\ Len(b \o c) = Len(b) + Len(c) /\ Len(c) \in Nat
  BY ConcatProperties
<1>5. DataSetBytes(ds) = b \o c
  BY <1>1, <1>2, <1>3 DEF DataSetBytes, ArraysBytes, ArrayParts
<1>. QED  BY <1>1, <1>2, <1>3, <1>4, <1>5

\* The bytes of the data sets, one by one.
DataSetParts(dss) == [k \in DOMAIN dss |-> DataSetBytes(dss[k])]

DataSetsBytes(dss) == FlattenSeq(DataSetParts(dss))

LEMMA DataSetPartsTyped ==
  ASSUME NEW dss \in Seq(BuiltDataSets)
  PROVE  /\ DataSetParts(dss) \in Seq(Seq(Byte)) /\ Len(DataSetParts(dss)) = Len(dss)
         /\ \A k \in 1 .. Len(dss) : DataSetParts(dss)[k] = DataSetBytes(dss[k])
<1>1. \A k \in 1 .. Len(dss) : DataSetBytes(dss[k]) \in Seq(Byte)
  BY DataSetBytesTyped
<1>2. PICK Q : Q = Seq(Byte)
  OBVIOUS
<1>3. [k \in 1 .. Len(dss) |-> DataSetBytes(dss[k])] \in Seq(Q)
  BY <1>1, <1>2
<1>4. DOMAIN dss = 1 .. Len(dss) /\ Len(dss) \in Nat
  OBVIOUS
<1>. QED  BY <1>2, <1>3, <1>4 DEF DataSetParts

\* Packet::build writes a header, then the entries, then the data sets.
LEMMA PacketBytesTyped ==
  ASSUME NEW p \in BuiltPackets
  PROVE  /\ HeaderBytes(p.header) \in Seq(Byte) /\ Len(HeaderBytes(p.header)) >= 2
         /\ EntriesBytes(p.m_entries) \in Seq(Byte)
         /\ DataSetsBytes(p.m_dataSets) \in Seq(Byte)
         /\ PacketBytes(p) = (HeaderBytes(p.header) \o EntriesBytes(p.m_entries))
                               \o DataSetsBytes(p.m_dataSets)
         /\ PacketBytes(p) \in Seq(Byte)
         /\ Len(PacketBytes(p)) = Len(HeaderBytes(p.header)) + Len(EntriesBytes(p.m_entries))
                                    + Len(DataSetsBytes(p.m_dataSets))
         /\ Len(PacketBytes(p)) >= 2
<1>1. PICK h \in Headers, es \in BuiltArrays, dss \in Seq(BuiltDataSets) :
        h = p.header /\ es = p.m_entries /\ dss = p.m_dataSets
  BY DEF BuiltPackets, BuiltArrays
<1>2. PICK b \in Seq(Byte) : b = HeaderBytes(h) /\ Len(b) >= 2
  <2>1. h.m_sizeWidth \in {0, 2}
    BY DEF Headers
  <2>. QED  BY <2>1, HeaderBytesTyped
<1>3. PICK c \in Seq(Byte) : c = EntriesBytes(es)
  BY EntriesBytesTyped
<1>4. PICK d \in Seq(Byte) : d = DataSetsBytes(dss)
  <2>1. FlattenSeq(DataSetParts(dss)) \in Seq(Byte)
    BY DataSetPartsTyped, FlattenFacts
  <2>. QED  BY <2>1 DEF DataSetsBytes
<1>5. PICK bc \in Seq(Byte) : bc = b \o c /\ Len(bc) = Len(b) + Len(c)
  BY ConcatProperties
<1>6. bc \o d \in Seq(Byte) /\ Len(bc \o d) = Len(bc) + Len(d)
  BY ConcatProperties
<1>7. PacketBytes(p) = bc \o d
  BY <1>1, <1>2, <1>3, <1>4, <1>5 DEF PacketBytes, DataSetsBytes, DataSetParts
<1>8. Len(b) \in Nat /\ Len(c) \in Nat /\ Len(d) \in Nat
  OBVIOUS
<1>9. Len(PacketBytes(p)) = Len(b) + Len(c) + Len(d) /\ Len(PacketBytes(p)) >= 2
  BY <1>2, <1>5, <1>6, <1>7, <1>8
<1>. QED  BY <1>1, <1>2, <1>3, <1>4, <1>5, <1>6, <1>7, <1>9

\* The bytes of the packets, one by one.
PacketParts(ps) == [k \in DOMAIN ps |-> PacketBytes(ps[k])]

PacketsBytes(ps) == FlattenSeq(PacketParts(ps))

LEMMA PacketPartsTyped ==
  ASSUME NEW ps \in Seq(BuiltPackets)
  PROVE  /\ PacketParts(ps) \in Seq(Seq(Byte)) /\ Len(PacketParts(ps)) = Len(ps)
         /\ \A k \in 1 .. Len(ps) : PacketParts(ps)[k] = PacketBytes(ps[k])
         /\ PacketsBytes(ps) \in Seq(Byte)
<1>1. \A k \in 1 .. Len(ps) : PacketBytes(ps[k]) \in Seq(Byte)
  BY PacketBytesTyped
<1>2. PICK Q : Q = Seq(Byte)
  OBVIOUS
<1>3. [k \in 1 .. Len(ps) |-> PacketBytes(ps[k])] \in Seq(Q)
  BY <1>1, <1>2
<1>4. DOMAIN ps = 1 .. Len(ps) /\ Len(ps) \in Nat
  OBVIOUS
<1>5. /\ PacketParts(ps) \in Seq(Seq(Byte)) /\ Len(PacketParts(ps)) = Len(ps)
      /\ \A k \in 1 .. Len(ps) : PacketParts(ps)[k] = PacketBytes(ps[k])
  BY <1>2, <1>3, <1>4 DEF PacketParts
<1>6. PacketsBytes(ps) \in Seq(Byte)
  BY <1>5, FlattenFacts DEF PacketsBytes
<1>. QED  BY <1>5, <1>6

\* TcpPacket::build writes the size, then the packets.
LEMMA FrameBytesTyped ==
  ASSUME NEW ps \in Seq(BuiltPackets)
  PROVE  /\ FrameBytes(ps) = from_uint16(Len(PacketsBytes(ps))) \o PacketsBytes(ps)
         /\ FrameBytes(ps) \in Seq(Byte)
         /\ Len(FrameBytes(ps)) = 2 + Len(PacketsBytes(ps))
<1>1. PICK c \in Seq(Byte) : c = PacketsBytes(ps)
  BY PacketPartsTyped
<1>2. PICK b \in Seq(Byte) : b = from_uint16(Len(c)) /\ Len(b) = 2
  BY Word16Bytes
<1>3. b \o c \in Seq(Byte) /\ Len(b \o c) = Len(b) + Len(c)
  BY ConcatProperties
<1>4. FrameBytes(ps) = b \o c
  BY <1>1, <1>2 DEF FrameBytes, PacketsBytes, PacketParts
<1>. QED  BY <1>1, <1>2, <1>3, <1>4

-----------------------------------------------------------------------------
(* Headers stay those of the constructors, but for the sizes build() sets *)

TypeOf(h) == g_cmd_code_types_flags[h.m_cmd]

\* A header has a size field exactly if its type is of variable length.
ProperHeader(h) ==
  /\ h \in Headers
  /\ h.m_sizeWidth = IF Prefixed(h.m_cmd) THEN 2 ELSE 0

\* The default constructor's header: UNKNOWN, but with no size field.
Nameless(h) == h.m_cmd = UNKNOWN /\ h.m_sizeWidth = 0

\* The headers of entries, data sets and packets that the constructors make, and
\* whatever build() leaves of them.  Only a packet may be without a command.
ShapedEntries ==
  {e \in BuiltEntries :
     /\ ProperHeader(e.header)
     /\ ~Prefixed(e.header.m_cmd) => e.header.m_contentSize = g_type_sizes(TypeOf(e.header))}

ShapedDataSets ==
  {ds \in [header : Headers, m_anonArrays : Seq(Seq(ShapedEntries))] : ProperHeader(ds.header)}

ShapedPackets ==
  {p \in [header : Headers, m_entries : Seq(ShapedEntries), m_dataSets : Seq(ShapedDataSets)] :
     ProperHeader(p.header) \/ Nameless(p.header)}

LEMMA ShapedTyped ==
  /\ Seq(ShapedEntries) \subseteq BuiltArrays
  /\ ShapedDataSets \subseteq BuiltDataSets
  /\ ShapedPackets \subseteq BuiltPackets
<1>1. Seq(ShapedEntries) \subseteq BuiltArrays
  <2>1. ShapedEntries \subseteq BuiltEntries
    BY DEF ShapedEntries
  <2>. QED  BY <2>1 DEF BuiltArrays
<1>2. ShapedDataSets \subseteq BuiltDataSets
  <2>1. \A s \in Seq(Seq(ShapedEntries)) : s \in Seq(BuiltArrays)
    BY <1>1
  <2>. QED  BY <2>1 DEF ShapedDataSets, BuiltDataSets
<1>3. ShapedPackets \subseteq BuiltPackets
  <2>1. \A s \in Seq(ShapedDataSets) : s \in Seq(BuiltDataSets)
    BY <1>2
  <2>. QED  BY <1>1, <2>1 DEF ShapedPackets, BuiltPackets, BuiltArrays
<1>. QED  BY <1>1, <1>2, <1>3

\* EntryHeader(cmd, size) has a size field exactly if its type fixes no size.
LEMMA ProperByConstruction ==
  ASSUME NEW c \in CMD_CODE
  PROVE  /\ ProperHeader(EntryHeader(c))
         /\ ~Prefixed(EntryHeader(c).m_cmd) =>
              EntryHeader(c).m_contentSize = g_type_sizes(TypeOf(EntryHeader(c)))
<1>1. EntryHeader(c) \in Headers
  BY HeaderTyped
<1>. QED  BY <1>1 DEF EntryHeader, ProperHeader, TypeOf

\* The constructors make such objects.
LEMMA EntryShaped ==
  ASSUME NEW e \in EntryInput
  PROVE  DataEntry(e) \in ShapedEntries
<1>1. e.cmd \in CMD_CODE /\ DataEntry(e) \in BuiltEntries
  BY DataEntryTyped DEF EntryInput
<1>2. DataEntry(e).header = EntryHeader(e.cmd)
  BY DEF DataEntry
<1>. QED  BY <1>1, <1>2, ProperByConstruction DEF ShapedEntries

LEMMA DataSetShaped ==
  ASSUME NEW ds \in DataSets
  PROVE  DataSet(ds) \in ShapedDataSets
<1>1. ds.cmd \in CMD_CODE /\ ds.m_anonArrays \in Seq(Seq(EntryInput))
  BY BuildAssumption
<1>2. ASSUME NEW a \in Seq(EntryInput) PROVE AnonymousArray(a) \in Seq(ShapedEntries)
  <2>1. \A i \in 1 .. Len(a) : DataEntry(a[i]) \in ShapedEntries
    BY EntryShaped
  <2>. QED  BY <2>1 DEF AnonymousArray
<1>3. PICK n \in Nat : DOMAIN ds.m_anonArrays = 1 .. n /\ Len(ds.m_anonArrays) = n
  BY <1>1
<1>4. [i \in 1 .. n |-> AnonymousArray(ds.m_anonArrays[i])] \in Seq(Seq(ShapedEntries))
  <2>1. \A i \in 1 .. n : AnonymousArray(ds.m_anonArrays[i]) \in Seq(ShapedEntries)
    BY <1>1, <1>2, <1>3
  <2>2. PICK Q : Q = Seq(ShapedEntries)
    OBVIOUS
  <2>. QED  BY <2>1, <2>2
<1>5. EntryHeader(ds.cmd) \in Headers /\ ProperHeader(EntryHeader(ds.cmd))
  BY <1>1, HeaderTyped, ProperByConstruction
<1>. QED  BY <1>3, <1>4, <1>5 DEF DataSet, ShapedDataSets

LEMMA NewPacketsShaped ==
  /\ NewPackets \subseteq ShapedPackets
  /\ Packet(DefaultHeader) \in ShapedPackets
<1>1. ASSUME NEW h \in Headers, ProperHeader(h) \/ Nameless(h)
      PROVE  Packet(h) \in ShapedPackets
  BY <1>1 DEF Packet, ShapedPackets
<1>2. DefaultHeader \in Headers /\ Nameless(DefaultHeader)
  BY HeaderTyped DEF DefaultHeader, Nameless
<1>3. \A c \in PacketCodes : EntryHeader(c) \in Headers /\ ProperHeader(EntryHeader(c))
  BY HeaderTyped, ProperByConstruction, BuildAssumption
<1>. QED  BY <1>1, <1>2, <1>3 DEF NewPackets

\* setSize changes nothing but the size.
LEMMA HeaderKept ==
  ASSUME NEW h \in Headers, NEW n \in Nat
  PROVE  /\ setSize(h, n) \in Headers /\ setSize(h, n).m_cmd = h.m_cmd
         /\ setSize(h, n).m_sizeWidth = h.m_sizeWidth /\ setSize(h, n).m_contentSize = n
         /\ ProperHeader(h) => ProperHeader(setSize(h, n))
         /\ Nameless(h) => Nameless(setSize(h, n))
BY DEF setSize, Headers, ProperHeader, Nameless

\* build() changes no header but its size, and that only if it is written.
LEMMA EntryStaysShaped ==
  ASSUME NEW e \in ShapedEntries
  PROVE  SanitizedEntry(e) \in ShapedEntries
<1>1. PICK h \in Headers, d \in Seq(Byte) : h = e.header /\ d = e.m_data
  BY DEF ShapedEntries, BuiltEntries
<1>2. ProperHeader(h) /\ (~Prefixed(h.m_cmd) => h.m_contentSize = g_type_sizes(TypeOf(h)))
  BY <1>1 DEF ShapedEntries
<1>3. SanitizedEntry(e) \in BuiltEntries
  BY EntryCorrected DEF ShapedEntries
<1>4. CASE h.m_sizeWidth # 0
  <2>1. Prefixed(h.m_cmd)
    BY <1>2, <1>4 DEF ProperHeader
  <2>2. PICK g : g = setSize(h, Len(d))
    OBVIOUS
  <2>3. ProperHeader(g) /\ g.m_cmd = h.m_cmd
    BY <1>2, <2>2, HeaderKept
  <2>4. SanitizedEntry(e).header = g
    BY <1>1, <1>4, <2>2 DEF SanitizedEntry, sanitizePayloadSizeByType
  <2>. QED  BY <1>3, <2>1, <2>3, <2>4 DEF ShapedEntries
<1>5. CASE h.m_sizeWidth = 0
  <2>1. SanitizedEntry(e).header = h
    BY <1>1, <1>5 DEF SanitizedEntry, sanitizePayloadSizeByType
  <2>. QED  BY <1>2, <1>3, <2>1 DEF ShapedEntries
<1>. QED  BY <1>4, <1>5

LEMMA EntriesStayShaped ==
  ASSUME NEW es \in Seq(ShapedEntries)
  PROVE  SanitizedEntries(es) \in Seq(ShapedEntries)
<1>1. \A i \in 1 .. Len(es) : SanitizedEntry(es[i]) \in ShapedEntries
  BY EntryStaysShaped
<1>. QED  BY <1>1 DEF SanitizedEntries

LEMMA DataSetStaysShaped ==
  ASSUME NEW ds \in ShapedDataSets
  PROVE  SanitizedDataSet(ds) \in ShapedDataSets
<1>0. PICK A : A = Seq(ShapedEntries)
  OBVIOUS
<1>1. PICK h \in Headers, d \in Seq(A) : h = ds.header /\ d = ds.m_anonArrays
  BY <1>0 DEF ShapedDataSets
<1>2. ProperHeader(h)
  BY <1>1 DEF ShapedDataSets
<1>3. PICK r : r = sanitizePayloadSizeByType(h, d, <<>>)
  OBVIOUS
<1>4. r.payload \in Seq(A) /\ r.header \in Headers
  <2>1. <<>> \in A
    BY <1>0
  <2>. QED  BY <1>1, <1>3, <2>1, SanitizeFacts
<1>5. ProperHeader(r.header)
  <2>1. CASE h.m_sizeWidth # 0
    <3>1. r.header = setSize(h, Len(d)) /\ Len(d) \in Nat
      BY <1>3, <2>1 DEF sanitizePayloadSizeByType
    <3>. QED  BY <1>2, <3>1, HeaderKept
  <2>2. CASE h.m_sizeWidth = 0
    BY <1>2, <1>3, <2>2 DEF sanitizePayloadSizeByType
  <2>. QED  BY <2>1, <2>2
<1>6. PICK c \in Seq(A) : c = SanitizedArrays(r.payload)
  <2>1. \A i \in 1 .. Len(r.payload) : SanitizedEntries(r.payload[i]) \in A
    BY <1>0, <1>4, EntriesStayShaped
  <2>2. SanitizedArrays(r.payload) \in Seq(A)
    BY <1>4, <2>1 DEF SanitizedArrays
  <2>. QED  BY <2>2
<1>7. SanitizedDataSet(ds) = [header |-> r.header, m_anonArrays |-> c]
  BY <1>1, <1>3, <1>6 DEF SanitizedDataSet
<1>. QED  BY <1>0, <1>4, <1>5, <1>6, <1>7 DEF ShapedDataSets

LEMMA PacketsStayShaped ==
  ASSUME NEW ps \in Seq(ShapedPackets)
  PROVE  SanitizedPackets(ps) \in Seq(ShapedPackets)
<1>1. ASSUME NEW p \in ShapedPackets PROVE SanitizedPacket(p) \in ShapedPackets
  <2>1. PICK h \in Headers, es \in Seq(ShapedEntries), dss \in Seq(ShapedDataSets) :
          h = p.header /\ es = p.m_entries /\ dss = p.m_dataSets
    BY DEF ShapedPackets
  <2>2. PICK n \in Nat : n = Turns(p)
    <3>1. PICK a \in Nat, b \in Nat : a = Len(es) /\ b = Len(dss)
      OBVIOUS
    <3>2. Turns(p) = a + b
      BY <2>1, <3>1 DEF Turns
    <3>. QED  BY <3>2
  <2>3. PICK g \in Headers : g = setSize(h, n)
    BY HeaderKept
  <2>4. SanitizedEntries(es) \in Seq(ShapedEntries)
    BY EntriesStayShaped
  <2>5. SanitizedDataSets(dss) \in Seq(ShapedDataSets)
    <3>1. \A i \in 1 .. Len(dss) : SanitizedDataSet(dss[i]) \in ShapedDataSets
      BY DataSetStaysShaped
    <3>. QED  BY <3>1 DEF SanitizedDataSets
  <2>6. ProperHeader(g) \/ Nameless(g)
    BY <2>1, <2>3, HeaderKept DEF ShapedPackets
  <2>7. SanitizedPacket(p) = [header |-> g, m_entries |-> SanitizedEntries(es),
                              m_dataSets |-> SanitizedDataSets(dss)]
    BY <2>1, <2>2, <2>3 DEF SanitizedPacket
  <2>. QED  BY <2>4, <2>5, <2>6, <2>7 DEF ShapedPackets
<1>2. \A i \in 1 .. Len(ps) : SanitizedPacket(ps[i]) \in ShapedPackets
  BY <1>1
<1>. QED  BY <1>2 DEF SanitizedPackets

-----------------------------------------------------------------------------
(* What build() has corrected *)

\* build() has been called: the header says how long the payload is.
CorrectEntry(e) ==
  /\ e \in BuiltEntries
  /\ ProperHeader(e.header)
  /\ ~Prefixed(e.header.m_cmd) => e.header.m_contentSize = g_type_sizes(TypeOf(e.header))
  /\ e.header.m_contentSize = Len(e.m_data)

\* An entry that build() leaves alone has as many bytes as its header says.
LEMMA EntryIsCorrect ==
  ASSUME NEW e \in ShapedEntries, SanitizedEntry(e) = e
  PROVE  CorrectEntry(e)
<1>1. PICK h \in Headers, d \in Seq(Byte) : h = e.header /\ d = e.m_data
  BY DEF ShapedEntries, BuiltEntries
<1>2. PICK n \in Nat : n = Len(d)
  OBVIOUS
<1>3. h.m_contentSize = n
  <2>1. CASE h.m_sizeWidth # 0
    <3>1. SanitizedEntry(e).header = setSize(h, n)
      BY <1>1, <1>2, <2>1 DEF SanitizedEntry, sanitizePayloadSizeByType
    <3>2. setSize(h, n) = h
      BY <1>1, <3>1
    <3>3. setSize(h, n).m_contentSize = n
      BY HeaderKept
    <3>. QED  BY <3>2, <3>3
  <2>2. CASE h.m_sizeWidth = 0
    <3>1. SanitizedEntry(e).m_data = resize(d, h.m_contentSize, 0)
      BY <1>1, <2>2 DEF SanitizedEntry, sanitizePayloadSizeByType
    <3>2. h.m_contentSize \in Nat /\ 0 \in Byte
      BY RadixAssumption DEF Headers, Byte
    <3>3. Len(resize(d, h.m_contentSize, 0)) = h.m_contentSize
      BY <3>2, ResizeFacts
    <3>4. resize(d, h.m_contentSize, 0) = d
      BY <1>1, <3>1
    <3>. QED  BY <1>2, <3>3, <3>4
  <2>. QED  BY <2>1, <2>2
<1>. QED  BY <1>1, <1>2, <1>3 DEF CorrectEntry, ShapedEntries

LEMMA EntriesAreCorrect ==
  ASSUME NEW es \in Seq(ShapedEntries), SanitizedEntries(es) = es
  PROVE  \A k \in 1 .. Len(es) : CorrectEntry(es[k])
<1>1. ASSUME NEW k \in 1 .. Len(es) PROVE CorrectEntry(es[k])
  <2>1. es[k] \in ShapedEntries
    OBVIOUS
  <2>2. SanitizedEntries(es)[k] = SanitizedEntry(es[k])
    BY DEF SanitizedEntries
  <2>3. SanitizedEntry(es[k]) = es[k]
    BY <2>2
  <2>. QED  BY <2>1, <2>3, EntryIsCorrect
<1>. QED  BY <1>1

-----------------------------------------------------------------------------
(* The invariant *)

\* The frame last built is what the packets, already corrected, give again.
BuiltFromCorrected ==
  wire # <<>> => wire = FrameBytes(m_packets) /\ m_packets = SanitizedPackets(m_packets)

Inv == ObjectsOK /\ BuiltFromCorrected

LEMMA InitInv == Init => Inv
BY NewPacketsTyped DEF Init, Inv, ObjectsOK, BuiltFromCorrected

LEMMA NextInv == Inv /\ [Next]_vars => Inv'
<1> SUFFICES ASSUME Inv, [Next]_vars PROVE Inv'
  OBVIOUS
<1> USE DEF Inv, ObjectsOK, BuiltFromCorrected
<1>1. CASE appendEntry
  <2>1. PICK e \in Entries : packet' = [packet EXCEPT !.m_entries = Append(@, DataEntry(e))]
    BY <1>1 DEF appendEntry
  <2>2. DataEntry(e) \in BuiltEntries
    BY DataEntryTyped, BuildAssumption
  <2>3. packet.m_entries \in Seq(BuiltEntries)
    BY DEF BuiltPackets
  <2>4. Append(packet.m_entries, DataEntry(e)) \in Seq(BuiltEntries)
    BY <2>2, <2>3
  <2>5. packet' \in BuiltPackets
    BY <2>1, <2>4 DEF BuiltPackets
  <2>. QED  BY <1>1, <2>5 DEF appendEntry
<1>2. CASE appendDataSet
  <2>1. PICK ds \in DataSets : packet' = [packet EXCEPT !.m_dataSets = Append(@, DataSet(ds))]
    BY <1>2 DEF appendDataSet
  <2>2. packet.m_dataSets \in Seq(BuiltDataSets)
    BY DEF BuiltPackets
  <2>3. Append(packet.m_dataSets, DataSet(ds)) \in Seq(BuiltDataSets)
    BY <2>2, DataSetTyped
  <2>4. packet' \in BuiltPackets
    BY <2>1, <2>3 DEF BuiltPackets
  <2>. QED  BY <1>2, <2>4 DEF appendDataSet
<1>3. CASE appendPacket
  BY <1>3, NewPacketsTyped, HeaderTyped, NewPacketTyped DEF appendPacket
<1>4. CASE build
  BY <1>4, PacketsCorrected DEF build
<1>5. CASE UNCHANGED vars
  BY <1>5 DEF vars
<1>. QED  BY <1>1, <1>2, <1>3, <1>4, <1>5 DEF Next

\* Whatever is built and appended in whatever order (TcpPacket.cpp:55-67), the
\* objects keep their types, and a frame is made of packets that build() corrected.
THEOREM Invariance == Spec => []Inv
BY InitInv, NextInv, PTL DEF Spec

\* What build() returns is bytes, and the objects keep their types under it,
\* whatever is appended to them (EntryHeader.cpp:89-120, TcpPacket.cpp:55-67).
THEOREM BuildTypes == Spec => []TypeOK
<1>1. Inv => TypeOK
  <2> SUFFICES ASSUME Inv PROVE TypeOK
    OBVIOUS
  <2>1. wire # <<>> => wire \in Seq(Byte)
    BY FrameBytesTyped DEF Inv, ObjectsOK, BuiltFromCorrected
  <2>2. wire = <<>> => wire \in Seq(Byte)
    OBVIOUS
  <2>. QED  BY <2>1, <2>2 DEF TypeOK, Inv
<1>. QED  BY <1>1, Invariance, PTL

\* build() called again returns the same frame (TcpPacket.cpp:55-67), although
\* it corrects sizes and payloads in the packets it holds.
THEOREM BuildIsIdempotent == Spec => RebuildsAlike
<1>1. Inv /\ [Next]_vars => [wire # <<>> => wire' \in {wire, <<>>}]_vars
  <2> SUFFICES ASSUME Inv, [Next]_vars, wire # <<>>
               PROVE  wire' \in {wire, <<>>} \/ UNCHANGED vars
    OBVIOUS
  <2>1. CASE build
    <3>1. m_packets' = m_packets
      BY <2>1 DEF build, Inv, BuiltFromCorrected
    <3>2. wire' = FrameBytes(m_packets')
      BY <2>1 DEF build
    <3>. QED  BY <3>1, <3>2 DEF Inv, BuiltFromCorrected
  <2>2. CASE appendEntry \/ appendDataSet \/ appendPacket
    BY <2>2 DEF appendEntry, appendDataSet, appendPacket
  <2>. QED  BY <2>1, <2>2 DEF Next
<1>. QED  BY <1>1, Invariance, PTL DEF Spec, RebuildsAlike

\* Every header is one of those the constructors make.
ShapedInv == packet \in ShapedPackets /\ m_packets \in Seq(ShapedPackets)

LEMMA InitShaped == Init => ShapedInv
BY NewPacketsShaped DEF Init, ShapedInv

LEMMA NextShaped == ShapedInv /\ [Next]_vars => ShapedInv'
<1> SUFFICES ASSUME ShapedInv, [Next]_vars PROVE ShapedInv'
  OBVIOUS
<1> USE DEF ShapedInv
<1>1. CASE appendEntry
  <2>1. PICK e \in Entries : packet' = [packet EXCEPT !.m_entries = Append(@, DataEntry(e))]
    BY <1>1 DEF appendEntry
  <2>2. DataEntry(e) \in ShapedEntries
    BY EntryShaped, BuildAssumption
  <2>3. packet.m_entries \in Seq(ShapedEntries)
    BY DEF ShapedPackets
  <2>4. Append(packet.m_entries, DataEntry(e)) \in Seq(ShapedEntries)
    BY <2>2, <2>3
  <2>5. packet' \in ShapedPackets
    BY <2>1, <2>4 DEF ShapedPackets
  <2>. QED  BY <1>1, <2>5 DEF appendEntry
<1>2. CASE appendDataSet
  <2>1. PICK ds \in DataSets : packet' = [packet EXCEPT !.m_dataSets = Append(@, DataSet(ds))]
    BY <1>2 DEF appendDataSet
  <2>2. packet.m_dataSets \in Seq(ShapedDataSets)
    BY DEF ShapedPackets
  <2>3. Append(packet.m_dataSets, DataSet(ds)) \in Seq(ShapedDataSets)
    BY <2>2, DataSetShaped
  <2>4. packet' \in ShapedPackets
    BY <2>1, <2>3 DEF ShapedPackets
  <2>. QED  BY <1>2, <2>4 DEF appendDataSet
<1>3. CASE appendPacket
  BY <1>3, NewPacketsShaped DEF appendPacket
<1>4. CASE build
  BY <1>4, PacketsStayShaped DEF build
<1>5. CASE UNCHANGED vars
  BY <1>5 DEF vars
<1>. QED  BY <1>1, <1>2, <1>3, <1>4, <1>5 DEF Next

\* No sequence of calls gives an entry or a data set a header without the size
\* field its type needs, or with one it does not have (EntryHeader.cpp:16-49,
\* 76-82).
THEOREM HeadersStayProper == Spec => []ShapedInv
BY InitShaped, NextShaped, PTL DEF Spec
=============================================================================
