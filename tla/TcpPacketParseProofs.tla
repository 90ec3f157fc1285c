------------------------ MODULE TcpPacketParseProofs ------------------------
(***************************************************************************)
(* Proofs about TcpPacketParse, for every table of command codes, every    *)
(* set of values read, every length of buffer.                             *)
(***************************************************************************)
EXTENDS TcpPacketParse, LoopFacts

-----------------------------------------------------------------------------
(* The header reader *)

\* A 16-bit read stays in the buffer and moves over two bytes or none.
LEMMA Past16Bound ==
  ASSUME NEW l \in Nat
  PROVE  /\ Past16(l) \in Nat
         /\ Past16(l) <= l
         /\ l >= 2 => Past16(l) = l - 2
         /\ l < 2 => Past16(l) = l
BY DEF Past16, isEnoughToRead

\* A 16-bit read yields a value that was there, or 0.
LEMMA ReadInNat ==
  ASSUME NEW l \in Nat, NEW v \in Nat
  PROVE  to_uint16(l, v) \in Nat /\ (l < 2 => to_uint16(l, v) = 0)
BY DEF to_uint16, isEnoughToRead

\* getConfig finds a type the switch knows, or throws.
LEMMA TypesOfKnown ==
  ASSUME NEW c \in Nat
  PROVE  /\ TypesOf(c) \subseteq ENUM_TYPE \cup {NoType}
         /\ c = UNKNOWN => TypesOf(c) = {"TYPE_TCP_WCHAR_STR"}
BY TableAssumption DEF TypesOf

\* What EntryHeader(it, end) returns: with two bytes or more it advances, with
\* one byte it yields the header of an empty packet and stays where it is.
LEMMA HeaderFacts ==
  ASSUME NEW l \in Nat, NEW h \in Headers(l)
  PROVE  /\ h.cmd \in Nat /\ h.size \in Nat /\ h.left \in Nat
         /\ h.left <= l
         /\ l >= 2 => h.left <= l - 2
         /\ l = 1 => /\ h.size = 0 /\ h.left = 1
                     /\ h.cmd = UNKNOWN /\ h.type = "TYPE_TCP_WCHAR_STR"
<1>1. PICK code \in Codes, count \in Counts : \E type \in TypesOf(to_uint16(l, code)) :
             h = HeaderOf(l, code, count, type)
  BY DEF Headers
<1>2. PICK type \in TypesOf(to_uint16(l, code)) : h = HeaderOf(l, code, count, type)
  BY <1>1
<1>3. code \in Nat /\ count \in Nat
  BY InputAssumption
<1>4. to_uint16(l, code) \in Nat /\ (l < 2 => to_uint16(l, code) = 0)
  BY <1>3, ReadInNat
<1>5. /\ Past16(l) \in Nat /\ Past16(l) <= l
      /\ l >= 2 => Past16(l) = l - 2
      /\ l < 2 => Past16(l) = l
  BY Past16Bound
<1>6. /\ Past16(Past16(l)) \in Nat /\ Past16(Past16(l)) <= Past16(l)
      /\ Past16(l) < 2 => Past16(Past16(l)) = Past16(l)
  BY <1>5, Past16Bound
<1>7. /\ to_uint16(Past16(l), count) \in Nat
      /\ Past16(l) < 2 => to_uint16(Past16(l), count) = 0
  BY <1>3, <1>5, ReadInNat
<1>8. g_type_sizes(type) \in Nat
  BY DEF g_type_sizes
<1>9. l = 1 => type = "TYPE_TCP_WCHAR_STR"
  BY <1>4, TypesOfKnown DEF UNKNOWN
<1>10. "TYPE_TCP_WCHAR_STR" \in PrefixedTypes
  BY DEF PrefixedTypes
<1>11. /\ h.cmd = to_uint16(l, code)
       /\ h.type = type
       /\ h.size = IF type \in PrefixedTypes THEN to_uint16(Past16(l), count)
                                             ELSE g_type_sizes(type)
       /\ h.left = IF type \in PrefixedTypes THEN Past16(Past16(l)) ELSE Past16(l)
  BY <1>2 DEF HeaderOf
<1> QED
  BY <1>4, <1>5, <1>6, <1>7, <1>8, <1>9, <1>10, <1>11 DEF UNKNOWN

\* The entry built from a header, and the bytes behind it.
LEMMA EntryFacts ==
  ASSUME NEW l \in Nat, NEW h \in Headers(l)
  PROVE  /\ DataEntry(h) \in Entry
         /\ h.left - DataEntry(h).len \in Nat
         /\ h.left - DataEntry(h).len <= l
<1>1. h.cmd \in Nat /\ h.size \in Nat /\ h.left \in Nat /\ h.left <= l
  BY HeaderFacts
<1> QED
  BY <1>1 DEF DataEntry, Entry, isEnoughToRead

-----------------------------------------------------------------------------
(* Type correctness *)

LEMMA NewObjectsTyped ==
  /\ NoPacket \in Packet
  /\ NoDataSet \in DataSet
  /\ \A n \in Nat : NewArray(n) \in AnonymousArray
  /\ \A h : h.cmd \in Nat /\ h.size \in Nat =>
        NewPacket(h) \in Packet /\ NewDataSet(h) \in DataSet
BY DEF NoPacket, NoDataSet, NewArray, NewPacket, NewDataSet, Packet, DataSet,
       AnonymousArray, UNKNOWN

LEMMA AppendTyped ==
  ASSUME NEW S, NEW s \in Seq(S), NEW e \in S
  PROVE  Append(s, e) \in Seq(S)
OBVIOUS

\* The three containers of the parser grow by one well-formed element.
LEMMA ContainersGrow ==
  /\ \A p \in Packet, e \in Entry :
       [p EXCEPT !.m_entries = Append(@, e)] \in Packet
  /\ \A p \in Packet, d \in DataSet :
       [p EXCEPT !.m_dataSets = Append(@, d)] \in Packet
  /\ \A d \in DataSet, a \in AnonymousArray :
       [d EXCEPT !.m_anonArrays = Append(@, a)] \in DataSet
  /\ \A a \in AnonymousArray, e \in Entry :
       [a EXCEPT !.m_entries = Append(@, e)] \in AnonymousArray
<1>1. ASSUME NEW p \in Packet, NEW e \in Entry
      PROVE  [p EXCEPT !.m_entries = Append(@, e)] \in Packet
  <2>1. Append(p.m_entries, e) \in Seq(Entry)
    BY AppendTyped DEF Packet
  <2> QED
    BY <2>1 DEF Packet
<1>2. ASSUME NEW p \in Packet, NEW d \in DataSet
      PROVE  [p EXCEPT !.m_dataSets = Append(@, d)] \in Packet
  <2>1. Append(p.m_dataSets, d) \in Seq(DataSet)
    BY AppendTyped DEF Packet
  <2> QED
    BY <2>1 DEF Packet
<1>3. ASSUME NEW d \in DataSet, NEW a \in AnonymousArray
      PROVE  [d EXCEPT !.m_anonArrays = Append(@, a)] \in DataSet
  <2>1. Append(d.m_anonArrays, a) \in Seq(AnonymousArray)
    BY AppendTyped DEF DataSet
  <2> QED
    BY <2>1 DEF DataSet
<1>4. ASSUME NEW a \in AnonymousArray, NEW e \in Entry
      PROVE  [a EXCEPT !.m_entries = Append(@, e)] \in AnonymousArray
  <2>1. Append(a.m_entries, e) \in Seq(Entry)
    BY AppendTyped DEF AnonymousArray
  <2> QED
    BY <2>1 DEF AnonymousArray
<1> QED
  BY <1>1, <1>2, <1>3, <1>4

LEMMA StorePacketTyped ==
  ASSUME TypeOK, NEW p \in Packet, StorePacket(p)
  PROVE  m_packets' \in Seq(Packet) /\ packet' \in Packet /\ pc' = "packets"
BY NewObjectsTyped DEF TypeOK, StorePacket

LEMMA InitTyped == Init => TypeOK
<1> SUFFICES ASSUME Init PROVE TypeOK
  OBVIOUS
<1>1. MaxBuffer \in Nat
  BY BoundsAssumption
<1>2. packet \in Packet /\ dataSet \in DataSet /\ array \in AnonymousArray
  BY NewObjectsTyped DEF Init, NoArray
<1> QED
  BY <1>1, <1>2 DEF Init, TypeOK

LEMMA NextTyped == TypeOK /\ [Next]_vars => TypeOK'
<1> SUFFICES ASSUME TypeOK, [Next]_vars PROVE TypeOK'
  OBVIOUS
<1>1. CASE ReadSize
  <2>1. m_size' \in Nat
    BY <1>1, ReadInNat, InputAssumption DEF ReadSize, TypeOK
  <2>2. left' \in Nat /\ frameStart' \in Nat
    BY <1>1, Past16Bound DEF ReadSize, TypeOK
  <2> QED
    BY <1>1, <2>1, <2>2 DEF ReadSize, TypeOK
<1>2. CASE Finish
  BY <1>2 DEF Finish, TypeOK
<1>3. CASE BeginPacket
  <2>1. packet' \in Packet /\ left' \in Nat
    BY <1>3, HeaderFacts, NewObjectsTyped DEF BeginPacket, TypeOK
  <2> QED
    BY <1>3, <2>1 DEF BeginPacket, TypeOK, Running
<1>4. CASE EndPacket
  <2>1. [packet EXCEPT !.m_entryIter = Begin] \in Packet
    BY DEF TypeOK, Packet
  <2>2. m_packets' \in Seq(Packet) /\ packet' \in Packet /\ pc' = "packets"
    BY <1>4, <2>1, StorePacketTyped DEF EndPacket
  <2> QED
    BY <1>4, <2>2 DEF EndPacket, TypeOK
<1>5. CASE ParseEntry
  <2>1. PICK h \in Headers(left) :
          /\ left' = h.left - DataEntry(h).len
          /\ \/ /\ valid(DataEntry(h))
                /\ packet' = [packet EXCEPT !.m_entries = Append(@, DataEntry(h))]
                /\ UNCHANGED <<pc, m_packets>>
             \/ StorePacket(packet)
    BY <1>5 DEF ParseEntry
  <2>2. left' \in Nat /\ DataEntry(h) \in Entry
    BY <2>1, EntryFacts DEF TypeOK
  <2>3. CASE StorePacket(packet)
    BY <1>5, <2>2, <2>3, StorePacketTyped DEF ParseEntry, TypeOK
  <2>4. CASE /\ packet' = [packet EXCEPT !.m_entries = Append(@, DataEntry(h))]
             /\ UNCHANGED <<pc, m_packets>>
    <3>1. packet' \in Packet
      BY <2>2, <2>4, ContainersGrow DEF TypeOK
    <3> QED
      BY <1>5, <2>2, <2>4, <3>1 DEF ParseEntry, TypeOK
  <2> QED
    BY <2>1, <2>3, <2>4
<1>6. CASE BeginDataSet
  <2>1. dataSet' \in DataSet /\ left' \in Nat
    BY <1>6, HeaderFacts, NewObjectsTyped DEF BeginDataSet, TypeOK
  <2> QED
    BY <1>6, <2>1 DEF BeginDataSet, TypeOK, Running
<1>7. CASE EndDataSet
  <2>1. packet' \in Packet /\ dataSet' \in DataSet
    BY <1>7, NewObjectsTyped, ContainersGrow DEF EndDataSet, TypeOK
  <2> QED
    BY <1>7, <2>1 DEF EndDataSet, TypeOK, Running
<1>8. CASE BeginArray
  <2>1. left' \in Nat
    BY <1>8, Past16Bound DEF BeginArray, TypeOK
  <2>2. PICK v \in Counts :
          \/ StoreArray(NoArray) /\ UNCHANGED <<pc, array>>
          \/ array' = NewArray(to_uint16(left, v)) /\ pc' = "array" /\ UNCHANGED dataSet
    BY <1>8 DEF BeginArray
  <2>3. to_uint16(left, v) \in Nat
    BY ReadInNat, InputAssumption DEF TypeOK
  <2>4. array' \in AnonymousArray
    BY <2>2, <2>3, NewObjectsTyped DEF TypeOK
  <2>5. dataSet' \in DataSet
    <3>1. NoArray \in AnonymousArray
      BY NewObjectsTyped DEF NoArray
    <3> QED
      BY <2>2, <3>1, ContainersGrow DEF StoreArray, TypeOK
  <2>6. pc' \in Running \cup {"size", "packets", "done", "dead"}
    BY <2>2 DEF TypeOK, Running
  <2> QED
    BY <1>8, <2>1, <2>4, <2>5, <2>6 DEF BeginArray, TypeOK
<1>9. CASE ParseArrayEntry
  <2>1. PICK h \in Headers(left) :
          /\ left' = h.left - DataEntry(h).len
          /\ array' = [array EXCEPT !.m_entries = Append(@, DataEntry(h))]
    BY <1>9 DEF ParseArrayEntry
  <2>2. left' \in Nat /\ DataEntry(h) \in Entry
    BY <2>1, EntryFacts DEF TypeOK
  <2>3. array' \in AnonymousArray
    BY <2>1, <2>2, ContainersGrow DEF TypeOK
  <2> QED
    BY <1>9, <2>2, <2>3 DEF ParseArrayEntry, TypeOK
<1>10. CASE EndArray
  <2>1. dataSet' \in DataSet /\ array' \in AnonymousArray
    BY <1>10, NewObjectsTyped, ContainersGrow DEF EndArray, StoreArray, TypeOK, NoArray
  <2> QED
    BY <1>10, <2>1 DEF EndArray, TypeOK, Running
<1>11. CASE Die
  BY <1>11 DEF Die, TypeOK
<1>12. CASE UNCHANGED vars
  BY <1>12 DEF vars, TypeOK
<1> QED
  BY <1>1, <1>2, <1>3, <1>4, <1>5, <1>6, <1>7, <1>8, <1>9, <1>10, <1>11, <1>12
     DEF Next, ThrowUnknownType, ThrowNestedDataSet, CrashInPrint

\* The iterator never passes the end of the buffer, whatever is received.
THEOREM TypeCorrect == Spec => []TypeOK
<1>1. Init => TypeOK
  BY InitTyped
<1>2. TypeOK /\ [Next]_vars => TypeOK'
  BY NextTyped
<1> QED
  BY <1>1, <1>2, PTL DEF Spec
-----------------------------------------------------------------------------
(* The inductive invariant behind the safety properties *)

LEMMA HeadersTyped ==
  ASSUME NEW l \in Nat, NEW h \in Headers(l), TypeOK
  PROVE  NewPacket(h) \in Packet
BY HeaderFacts, NewObjectsTyped

\* A stored packet is the last element of the vector, unless the recording is
\* full and the vector is what it was.
LEMMA StorePacketFacts ==
  ASSUME TypeOK, NEW p \in Packet, StorePacket(p)
  PROVE  /\ m_packets' # <<>>
         /\ \A k \in DOMAIN m_packets' :
              \/ k \in DOMAIN m_packets /\ m_packets'[k] = m_packets[k]
              \/ k = Len(m_packets') /\ m_packets'[k] = p
         /\ \A k \in DOMAIN m_packets : k \in DOMAIN m_packets'
<1>1. CASE Len(m_packets) < MaxPackets
  <2>1. m_packets' = Append(m_packets, p) /\ m_packets \in Seq(Packet)
    BY <1>1 DEF StorePacket, TypeOK
  <2> QED
    BY <2>1
<1>2. CASE ~(Len(m_packets) < MaxPackets)
  <2>1. m_packets' = m_packets /\ m_packets \in Seq(Packet)
    BY <1>2 DEF StorePacket, TypeOK
  <2>2. m_packets # <<>>
    BY <1>2, <2>1, BoundsAssumption
  <2> QED
    BY <2>1, <2>2
<1> QED
  BY <1>1, <1>2

LEMMA InitInv == Init => Inv
<1> SUFFICES ASSUME Init PROVE Inv
  OBVIOUS
<1>1. pc = "size" /\ m_packets = <<>> /\ m_packetIter = Singular
  BY DEF Init
<1>2. TypeOK
  BY InitTyped
<1>3. ShortPacketIsLast /\ NoneShortSoFar /\ IteratorArmed /\ IteratorUnset /\ PacketAdvanced
  BY <1>1 DEF ShortPacketIsLast, NoneShortSoFar, IteratorArmed, IteratorUnset,
              PacketAdvanced, Running
<1> QED
  BY <1>2, <1>3 DEF Inv

\* Stored packets: only the last one can be short, and not before the input
\* is exhausted.
LEMMA NextShort == Inv /\ [Next]_vars => ShortPacketIsLast' /\ NoneShortSoFar'
<1> SUFFICES ASSUME Inv, [Next]_vars PROVE ShortPacketIsLast' /\ NoneShortSoFar'
  OBVIOUS
<1> USE DEF ShortPacketIsLast, NoneShortSoFar
<1>0. TypeOK /\ TypeOK' /\ ShortPacketIsLast /\ NoneShortSoFar /\ IteratorUnset
  BY NextTyped DEF Inv
\* Storing a packet that is not short, or that the end of the input cut off.
<1>S. ASSUME NEW p \in Packet, StorePacket(p), pc \in Running, IsShort(p) => left' = 0
      PROVE  ShortPacketIsLast' /\ NoneShortSoFar'
  <2>1. pc' = "packets"
    BY <1>S DEF StorePacket
  <2>2. \A k \in DOMAIN m_packets : ~IsShort(m_packets[k])
    BY <1>0, <1>S
  <2>3. \A k \in DOMAIN m_packets' : IsShort(m_packets'[k]) => k = Len(m_packets') /\ left' = 0
    BY <1>0, <1>S, <2>2, StorePacketFacts
  <2> QED
    BY <2>1, <2>3 DEF Running
\* Steps inside a packet under construction that store nothing.
<1>U. ASSUME pc \in Running, m_packets' = m_packets, packet'.m_entryIter = packet.m_entryIter
      PROVE  ShortPacketIsLast' /\ NoneShortSoFar'
  BY <1>0, <1>U
<1>1. CASE ReadSize
  <2>1. m_packets' = <<>> /\ pc' \in {"done", "packets"}
    BY <1>0, <1>1 DEF ReadSize, IteratorUnset
  <2> QED
    BY <2>1 DEF Running
<1>2. CASE Finish
  BY <1>0, <1>2 DEF Finish, Running
<1>3. CASE BeginPacket
  <2>1. packet'.m_entryIter = Singular
    BY <1>3 DEF BeginPacket, NewPacket
  <2>2. \A k \in DOMAIN m_packets : ~IsShort(m_packets[k])
    BY <1>0, <1>3 DEF BeginPacket
  <2> QED
    BY <1>3, <2>1, <2>2 DEF BeginPacket
<1>4. CASE EndPacket
  <2> DEFINE p == [packet EXCEPT !.m_entryIter = Begin]
  <2>1. p \in Packet /\ StorePacket(p) /\ pc \in Running /\ left' = left
    BY <1>0, <1>4 DEF EndPacket, TypeOK, Packet, Running
  <2>2. Turns(p) = Turns(packet) /\ p.size = packet.size
    BY <1>0 DEF Turns, TypeOK, Packet
  <2>3. IsShort(p) => left' = 0
    BY <1>4, <2>1, <2>2 DEF EndPacket, MoreEntries, IsShort
  <2> QED
    BY <2>1, <2>3, <1>S
<1>5. CASE ParseEntry
  <2>1. pc \in Running /\ packet \in Packet
    BY <1>0, <1>5 DEF ParseEntry, Running, TypeOK
  <2>2. PICK h \in Headers(left) :
          \/ /\ packet' = [packet EXCEPT !.m_entries = Append(@, DataEntry(h))]
             /\ UNCHANGED <<pc, m_packets>>
          \/ StorePacket(packet)
    BY <1>5 DEF ParseEntry
  <2>3. CASE StorePacket(packet)
    <3>1. packet.m_entryIter = Singular
      BY <1>0, <2>1
    <3>2. ~IsShort(packet)
      BY <3>1 DEF IsShort, Begin, Singular
    <3> QED
      BY <2>1, <2>3, <3>2, <1>S
  <2>4. CASE /\ packet' = [packet EXCEPT !.m_entries = Append(@, DataEntry(h))]
             /\ UNCHANGED <<pc, m_packets>>
    <3>1. packet'.m_entryIter = packet.m_entryIter
      BY <2>1, <2>4 DEF Packet
    <3> QED
      BY <2>1, <2>4, <3>1, <1>U
  <2> QED
    BY <2>2, <2>3, <2>4
<1>6. CASE BeginDataSet
  BY <1>6, <1>U DEF BeginDataSet, Running
<1>7. CASE EndDataSet
  <2>1. packet'.m_entryIter = packet.m_entryIter
    BY <1>0, <1>7 DEF EndDataSet, TypeOK, Packet
  <2> QED
    BY <1>7, <2>1, <1>U DEF EndDataSet, Running
<1>8. CASE BeginArray
  BY <1>8, <1>U DEF BeginArray, Running
<1>9. CASE ParseArrayEntry
  BY <1>9, <1>U DEF ParseArrayEntry, Running
<1>10. CASE EndArray
  BY <1>10, <1>U DEF EndArray, Running
<1>11. CASE Die
  BY <1>0, <1>11 DEF Die, Running
<1>12. CASE UNCHANGED vars
  BY <1>0, <1>12 DEF vars
<1> QED
  BY <1>1, <1>2, <1>3, <1>4, <1>5, <1>6, <1>7, <1>8, <1>9, <1>10, <1>11, <1>12
     DEF Next, ThrowUnknownType, ThrowNestedDataSet, CrashInPrint

\* The iterator of the frame: singular until Finish, and Finish has a packet.
LEMMA NextIterator == Inv /\ [Next]_vars => IteratorArmed' /\ IteratorUnset'
<1> SUFFICES ASSUME Inv, [Next]_vars PROVE IteratorArmed' /\ IteratorUnset'
  OBVIOUS
<1> USE DEF IteratorArmed, IteratorUnset, Running
<1>0. TypeOK /\ IteratorArmed /\ IteratorUnset
  BY DEF Inv
<1>S. ASSUME NEW p \in Packet, StorePacket(p), pc \in Running, m_packetIter' = m_packetIter
      PROVE  IteratorArmed' /\ IteratorUnset'
  BY <1>0, <1>S, StorePacketFacts DEF StorePacket
<1>1. CASE ReadSize
  <2>1. left' \in Nat
    BY <1>0, <1>1, Past16Bound DEF ReadSize, TypeOK
  <2>2. m_size' \in Nat
    BY <1>0, <1>1, ReadInNat, InputAssumption DEF ReadSize, TypeOK
  <2> QED
    BY <1>0, <1>1, <2>1, <2>2 DEF ReadSize
<1>2. CASE Finish
  BY <1>0, <1>2 DEF Finish, Begin, Singular
<1>3. CASE BeginPacket
  BY <1>0, <1>3 DEF BeginPacket
<1>4. CASE EndPacket
  <2>1. [packet EXCEPT !.m_entryIter = Begin] \in Packet
    BY <1>0 DEF TypeOK, Packet
  <2> QED
    BY <1>4, <2>1, <1>S DEF EndPacket
<1>5. CASE ParseEntry
  <2>1. packet \in Packet
    BY <1>0 DEF TypeOK
  <2>2. StorePacket(packet) \/ UNCHANGED <<pc, m_packets>>
    BY <1>5 DEF ParseEntry
  <2> QED
    BY <1>0, <1>5, <2>1, <2>2, <1>S DEF ParseEntry
<1>6. CASE BeginDataSet
  BY <1>0, <1>6 DEF BeginDataSet
<1>7. CASE EndDataSet
  BY <1>0, <1>7 DEF EndDataSet
<1>8. CASE BeginArray
  BY <1>0, <1>8 DEF BeginArray
<1>9. CASE ParseArrayEntry
  BY <1>0, <1>9 DEF ParseArrayEntry
<1>10. CASE EndArray
  BY <1>0, <1>10 DEF EndArray
<1>11. CASE Die
  BY <1>0, <1>11 DEF Die
<1>12. CASE UNCHANGED vars
  BY <1>0, <1>12 DEF vars
<1> QED
  BY <1>1, <1>2, <1>3, <1>4, <1>5, <1>6, <1>7, <1>8, <1>9, <1>10, <1>11, <1>12
     DEF Next, ThrowUnknownType, ThrowNestedDataSet, CrashInPrint

\* Reading never moves back, so a packet that has consumed input has for good.
LEMMA NextAdvanced == Inv /\ [Next]_vars => PacketAdvanced'
<1> SUFFICES ASSUME Inv, [Next]_vars PROVE PacketAdvanced'
  OBVIOUS
<1> USE DEF PacketAdvanced
<1>0. TypeOK /\ PacketAdvanced /\ left \in Nat /\ packetStart \in Nat
  BY DEF Inv, TypeOK
\* The empty packet of the last byte has no turn of a loop left.
<1>E. ASSUME pc \in Running, pc # "entries" \/ MoreEntries
      PROVE  left < packetStart
  <2>1. packet.size = 0 => ~MoreEntries
    BY <1>0 DEF MoreEntries, Turns, TypeOK, Packet
  <2> QED
    BY <1>0, <1>E, <2>1
<1>R. ASSUME left < packetStart, packetStart' = packetStart, left' \in Nat, left' <= left
      PROVE  PacketAdvanced'
  BY <1>0, <1>R
<1>1. CASE ReadSize
  BY <1>1 DEF ReadSize, Running
<1>2. CASE Finish
  BY <1>2 DEF Finish, Running
<1>3. CASE BeginPacket
  <2>1. PICK h \in Headers(left) : packet' = NewPacket(h) /\ left' = h.left
    BY <1>3 DEF BeginPacket
  <2>2. packet'.size = h.size
    BY <2>1 DEF NewPacket
  <2>3. CASE left = 1
    BY <1>0, <1>3, <2>1, <2>2, <2>3, HeaderFacts DEF BeginPacket
  <2>4. CASE left >= 2
    BY <1>0, <1>3, <2>1, <2>4, HeaderFacts DEF BeginPacket
  <2> QED
    BY <1>0, <1>3, <2>3, <2>4 DEF BeginPacket
<1>4. CASE EndPacket
  BY <1>4 DEF EndPacket, StorePacket, Running
<1>5. CASE ParseEntry
  <2>1. left' \in Nat /\ left' <= left
    BY <1>0, <1>5, EntryFacts DEF ParseEntry
  <2> QED
    BY <1>5, <2>1, <1>E, <1>R DEF ParseEntry, Running
<1>6. CASE BeginDataSet
  <2>1. left' \in Nat /\ left' <= left
    BY <1>0, <1>6, HeaderFacts DEF BeginDataSet
  <2> QED
    BY <1>6, <2>1, <1>E, <1>R DEF BeginDataSet, Running
<1>7. CASE EndDataSet
  BY <1>0, <1>7, <1>E, <1>R DEF EndDataSet, Running
<1>8. CASE BeginArray
  <2>1. left' \in Nat /\ left' <= left
    BY <1>0, <1>8, Past16Bound DEF BeginArray
  <2> QED
    BY <1>8, <2>1, <1>E, <1>R DEF BeginArray, Running
<1>9. CASE ParseArrayEntry
  <2>1. left' \in Nat /\ left' <= left
    BY <1>0, <1>9, EntryFacts DEF ParseArrayEntry
  <2> QED
    BY <1>9, <2>1, <1>E, <1>R DEF ParseArrayEntry, Running
<1>10. CASE EndArray
  BY <1>0, <1>10, <1>E, <1>R DEF EndArray, Running
<1>11. CASE Die
  BY <1>11 DEF Die, Running
<1>12. CASE UNCHANGED vars
  BY <1>0, <1>12 DEF vars
<1> QED
  BY <1>1, <1>2, <1>3, <1>4, <1>5, <1>6, <1>7, <1>8, <1>9, <1>10, <1>11, <1>12
     DEF Next, ThrowUnknownType, ThrowNestedDataSet, CrashInPrint

LEMMA NextInv == Inv /\ [Next]_vars => Inv'
BY NextTyped, NextShort, NextIterator, NextAdvanced DEF Inv

-----------------------------------------------------------------------------
(* The theorems *)

\* The strengthened invariant holds of every run of the parser.
THEOREM Invariance == Spec => []Inv
BY InitInv, NextInv, PTL DEF Spec

\* Of the packets a read yields only the last can lack entries without having
\* been cut at an invalid entry, and only when the buffer is used up.
THEOREM ShortPackets == Spec => []ShortPacketIsLast
<1>1. Inv => ShortPacketIsLast
  BY DEF Inv
<1> QED
  BY <1>1, Invariance, PTL

\* When the parser has returned, m_packetIter is safe to move if and only if
\* there is a packet.
THEOREM IteratorState == Spec => []IteratorArmed
<1>1. Inv => IteratorArmed
  BY DEF Inv
<1> QED
  BY <1>1, Invariance, PTL

\* Every turn of the while loop over packets consumes input, except the turn
\* that starts at the last byte.
THEOREM Progress == Spec => PacketProgress
<1>1. ASSUME Inv, [Next]_vars, pc \in Running, pc' = "packets"
      PROVE  left' < packetStart \/ (packetStart = 1 /\ left' = 1)
  <2>1. left \in Nat /\ packetStart \in Nat /\ PacketAdvanced /\ packet \in Packet
    BY <1>1 DEF Inv, TypeOK
  <2>2. EndPacket \/ ParseEntry
    BY <1>1 DEF Next, vars, Running, ReadSize, Finish, BeginPacket, BeginDataSet, EndDataSet,
       BeginArray, ParseArrayEntry, EndArray, ThrowUnknownType, ThrowNestedDataSet,
       CrashInPrint, Die
  <2>3. CASE EndPacket
    BY <1>1, <2>1, <2>3 DEF EndPacket, PacketAdvanced
  <2>4. CASE ParseEntry
    <3>1. left' \in Nat /\ left' <= left
      BY <2>1, <2>4, EntryFacts DEF ParseEntry
    <3>2. packet.size # 0
      BY <2>1, <2>4 DEF ParseEntry, MoreEntries, Turns, Packet
    <3> QED
      BY <1>1, <2>1, <3>1, <3>2 DEF PacketAdvanced
  <2> QED
    BY <2>2, <2>3, <2>4
<1>2. Inv /\ [Next]_vars =>
        [(pc \in Running /\ pc' = "packets") =>
            left' < packetStart \/ (packetStart = 1 /\ left' = 1)]_vars
  BY <1>1
<1> QED
  BY <1>2, Invariance, PTL DEF Spec, PacketProgress

LEMMA NextTrapped == TypeOK /\ Trapped /\ [Next]_vars => Trapped'
<1> SUFFICES ASSUME TypeOK, Trapped, [Next]_vars PROVE Trapped'
  OBVIOUS
<1>1. left = 1
  BY DEF Trapped
<1>2. \A h \in Headers(left) :
        h.size = 0 /\ h.left = 1 /\ h.type = "TYPE_TCP_WCHAR_STR"
  BY <1>1, HeaderFacts
<1>3. pc = "entries" => ~MoreEntries
  BY DEF Trapped, MoreEntries, Turns, TypeOK, Packet
<1>4. CASE BeginPacket
  BY <1>1, <1>2, <1>4 DEF BeginPacket, NewPacket, Trapped
<1>5. CASE EndPacket
  BY <1>1, <1>5 DEF EndPacket, StorePacket, Trapped
<1>6. CASE UNCHANGED vars
  BY <1>6 DEF vars, Trapped
<1>7. ~ThrowUnknownType
  BY <1>2, <1>3 DEF ThrowUnknownType, AtHeader, Trapped, NoType
<1>8. ~(ReadSize \/ Finish \/ ParseEntry \/ BeginDataSet \/ EndDataSet \/ BeginArray
          \/ ParseArrayEntry \/ EndArray \/ ThrowNestedDataSet \/ CrashInPrint)
  BY <1>1, <1>3 DEF Trapped, ReadSize, Finish, ParseEntry, BeginDataSet, EndDataSet, BeginArray,
     ParseArrayEntry, EndArray, ThrowNestedDataSet, CrashInPrint
<1> QED
  BY <1>4, <1>5, <1>6, <1>7, <1>8 DEF Next

\* Once the while loop comes round with a single byte left, the parser neither
\* returns, nor throws, nor crashes: it never leaves the loop.
THEOREM OneByteForever == Spec => OneByteSpins
<1>1. pc = "packets" /\ left = 1 => Trapped
  BY DEF Trapped
<1>2. Trapped => pc \notin {"done", "dead"}
  BY DEF Trapped
<1>3. TypeOK /\ Trapped /\ [Next]_vars => Trapped'
  BY NextTrapped
<1> QED
  BY <1>1, <1>2, <1>3, TypeCorrect, PTL DEF Spec, OneByteSpins

-----------------------------------------------------------------------------
(***************************************************************************)
(* The parser implements FrameConsumer: its initial states are initial     *)
(* states of the consumer, and every step of it is a step of the consumer  *)
(* or changes nothing the consumer has.  Fairness is left to TLC.          *)
(***************************************************************************)

(* What a read does to the bytes left: nothing, or it uses up two or more. *)

Moves(l, m) == m \in Nat /\ (m = l \/ m <= l - 2)

LEMMA UsedUpOrSame ==
  ASSUME NEW l \in Nat, NEW m, Moves(l, m)
  PROVE  m = l \/ m \in 0 .. l - 2
BY DEF Moves

LEMMA HeaderMoves ==
  ASSUME NEW l \in Nat, NEW h \in Headers(l)
  PROVE  /\ Moves(l, h.left)
         /\ Moves(l, h.left - DataEntry(h).len)
<1>1. /\ h.size \in Nat /\ h.left \in Nat /\ h.left <= l
      /\ l >= 2 => h.left <= l - 2
      /\ l = 1 => h.size = 0 /\ h.left = 1
  BY HeaderFacts
<1>2. h.left - DataEntry(h).len \in Nat /\ h.left - DataEntry(h).len <= h.left
  BY <1>1 DEF DataEntry, isEnoughToRead
<1>3. CASE l >= 2
  BY <1>1, <1>2, <1>3 DEF Moves
<1>4. CASE l = 1
  BY <1>1, <1>4 DEF Moves, DataEntry, isEnoughToRead
<1>5. CASE l = 0
  BY <1>1, <1>2, <1>5 DEF Moves
<1> QED
  BY <1>3, <1>4, <1>5

LEMMA Past16Moves ==
  ASSUME NEW l \in Nat
  PROVE  Moves(l, Past16(l))
BY Past16Bound DEF Moves

-----------------------------------------------------------------------------
(* What the mapping makes of the places of the parser. *)

LEMMA StatusOf ==
  /\ pc = "size" => Status = "new"
  /\ pc = "done" => Status = "returned"
  /\ pc = "dead" => Status = "failed"
  /\ pc \in Running \cup {"packets"} => Status = "busy"
BY DEF Status, Running

LEMMA StatusNext ==
  /\ pc' = "done" => Status' = "returned"
  /\ pc' = "dead" => Status' = "failed"
  /\ pc' \in Running \cup {"packets"} => Status' = "busy"
BY DEF Status, Running

LEMMA PaidOf ==
  /\ pc \notin Running => Paid = 0
  /\ pc \in Running /\ left < packetStart => Paid = 2
  /\ pc \in Running /\ ~(left < packetStart) => Paid = 0
BY DEF Paid

LEMMA PaidNext ==
  /\ pc' \notin Running => Paid' = 0
  /\ pc' \in Running /\ left' < packetStart' => Paid' = 2
BY DEF Paid

\* Storing a packet counts one more.
LEMMA StoreCounts ==
  ASSUME TypeOK, NEW p, StorePacket(p)
  PROVE  Len(m_packets)' = Consumer!OneMore(Len(m_packets))
<1>1. m_packets \in Seq(Packet) /\ Len(m_packets) \in Nat
  BY DEF TypeOK
<1>2. CASE Len(m_packets) < MaxPackets
  <2>1. m_packets' = Append(m_packets, p)
    BY <1>2 DEF StorePacket
  <2>2. Len(Append(m_packets, p)) = Len(m_packets) + 1
    BY <1>1
  <2> QED
    BY <1>2, <2>1, <2>2 DEF Consumer!OneMore
<1>3. CASE ~(Len(m_packets) < MaxPackets)
  BY <1>3 DEF StorePacket, Consumer!OneMore
<1> QED
  BY <1>2, <1>3

-----------------------------------------------------------------------------
(* Initial states and steps *)

LEMMA InitMapped == Init => Consumer!Init
<1> SUFFICES ASSUME Init PROVE Consumer!Init
  OBVIOUS
<1>1. Status = "new" /\ Paid = 0
  BY StatusOf, PaidOf DEF Init, Running
<1>2. left \in 0 .. MaxBuffer /\ Len(m_packets) = 0 /\ frameStart = 0
  BY DEF Init
<1> QED
  BY <1>1, <1>2 DEF Consumer!Init

\* Inside a packet that has used up bytes, a step that neither stores the
\* packet nor moves back uses up more, or is none of the consumer.
LEMMA InsideMapped ==
  ASSUME Inv, pc \in Running, pc' \in Running, left < packetStart,
         Moves(left, left'), UNCHANGED <<packetStart, m_packets, frameStart>>
  PROVE  [Consumer!Next]_(Consumer!vars)
<1>1. left \in Nat /\ packetStart \in Nat
  BY DEF Inv, TypeOK
<1>2. left' < packetStart'
  BY <1>1 DEF Moves
<1>3. Status = "busy" /\ Status' = "busy" /\ Paid = 2 /\ Paid' = 2
  BY <1>2, StatusOf, StatusNext, PaidOf, PaidNext
<1>4. CASE left' = left
  BY <1>3, <1>4 DEF Consumer!vars
<1>5. CASE left' \in 0 .. left - 2
  BY <1>3, <1>5 DEF Consumer!Next, Consumer!UseUp, Consumer!UsedUp
<1> QED
  BY <1>1, <1>4, <1>5, UsedUpOrSame

\* Storing the packet hands it out.
LEMMA StoreMapped ==
  ASSUME Inv, pc \in Running, left < packetStart, Moves(left, left'),
         NEW p, StorePacket(p), UNCHANGED frameStart
  PROVE  Consumer!HandOut
<1>1. pc' = "packets" /\ pc' \notin Running
  BY DEF StorePacket, Running
<1>2. Status = "busy" /\ Status' = "busy" /\ Paid = 2 /\ Paid' = 0
  BY <1>1, StatusOf, StatusNext, PaidOf, PaidNext
<1>3. Len(m_packets)' = Consumer!OneMore(Len(m_packets))
  BY StoreCounts DEF Inv
<1>4. left' = left \/ left' \in 0 .. left - 2
  BY UsedUpOrSame DEF Inv, TypeOK
<1> QED
  BY <1>2, <1>3, <1>4 DEF Consumer!HandOut, Consumer!UsedUp

\* A step that ends in the middle of things has paid for the packet.
LEMMA TurnsPaid ==
  ASSUME Inv, pc \in Running, pc # "entries" \/ MoreEntries
  PROVE  left < packetStart
<1>1. packet.size = 0 => ~MoreEntries
  BY DEF MoreEntries, Turns, Inv, TypeOK, Packet
<1> QED
  BY <1>1 DEF Inv, PacketAdvanced

LEMMA StepMapped == Inv /\ [Next]_vars => [Consumer!Next]_(Consumer!vars)
<1> SUFFICES ASSUME Inv, [Next]_vars PROVE [Consumer!Next]_(Consumer!vars)
  OBVIOUS
<1>0. TypeOK /\ left \in Nat /\ packetStart \in Nat
  BY DEF Inv, TypeOK
<1>1. CASE ReadSize
  <2>1. Moves(left, left') /\ left' \in Nat
    BY <1>0, <1>1, Past16Moves DEF ReadSize, Moves
  <2>2. m_size' \in Nat
    BY <1>0, <1>1, ReadInNat, InputAssumption DEF ReadSize
  <2>3. pc' \in {"done", "packets"} /\ (pc' = "packets" => left' # 0)
    BY <1>1, <2>1, <2>2 DEF ReadSize
  <2>4. /\ Status = "new" /\ Status' \in {"busy", "returned"}
        /\ Status' = "busy" => left' # 0
    BY <1>1, <2>3, StatusOf, StatusNext DEF ReadSize
  <2>5. Paid = 0 /\ Paid' = 0
    BY <1>1, <2>3, PaidOf, PaidNext DEF ReadSize, Running
  <2>6. Len(m_packets)' = Len(m_packets) /\ frameStart' = left'
    BY <1>1 DEF ReadSize
  <2>7. left' = left \/ left' \in 0 .. left - 2
    BY <1>0, <2>1, UsedUpOrSame
  <2>8. Consumer!Open
    BY <2>4, <2>5, <2>6, <2>7 DEF Consumer!Open, Consumer!UsedUp
  <2> QED
    BY <2>8 DEF Consumer!Next
<1>2. CASE Finish
  <2>1. m_packets # <<>> /\ m_packets \in Seq(Packet)
    BY <1>2 DEF Finish, Inv, IteratorUnset, TypeOK
  <2>2. Len(m_packets) # 0
    BY <2>1
  <2>3. Status = "busy" /\ Status' = "returned" /\ Paid = 0 /\ Paid' = 0
    BY <1>2, StatusOf, StatusNext, PaidOf, PaidNext DEF Finish, Running
  <2>4. left = 0 /\ left' = left /\ Len(m_packets)' = Len(m_packets) /\ UNCHANGED frameStart
    BY <1>2 DEF Finish
  <2>5. Consumer!Return
    BY <2>2, <2>3, <2>4 DEF Consumer!Return
  <2> QED
    BY <2>5 DEF Consumer!Next
<1>3. CASE BeginPacket
  <2>1. PICK h \in Headers(left) : left' = h.left
    BY <1>3 DEF BeginPacket
  <2>2. pc' \in Running /\ packetStart' = left /\ UNCHANGED <<m_packets, frameStart>>
    BY <1>3 DEF BeginPacket, Running
  <2>3. Status = "busy" /\ Status' = "busy" /\ Paid = 0
    BY <1>3, <2>2, StatusOf, StatusNext, PaidOf DEF BeginPacket, Running
  <2>4. CASE left = 1
    <3>1. left' = left
      BY <2>1, <2>4, HeaderFacts
    <3>2. Paid' = 0
      BY <1>0, <2>2, <3>1 DEF Paid
    <3> QED
      BY <2>2, <2>3, <3>1, <3>2 DEF Consumer!vars
  <2>5. CASE left >= 2
    <3>1. left' \in 0 .. left - 2
      BY <1>0, <2>1, <2>5, HeaderFacts
    <3>2. Paid' = 2
      BY <1>0, <2>2, <3>1, PaidNext
    <3>3. Consumer!UseUp
      BY <2>2, <2>3, <3>1, <3>2 DEF Consumer!UseUp, Consumer!UsedUp
    <3> QED
      BY <3>3 DEF Consumer!Next
  <2> QED
    BY <1>0, <1>3, <2>4, <2>5 DEF BeginPacket
<1>4. CASE EndPacket
  <2>1. pc \in Running /\ left' = left /\ UNCHANGED frameStart
    BY <1>4 DEF EndPacket, Running
  <2>2. PICK p : StorePacket(p)
    BY <1>4 DEF EndPacket
  <2>3. CASE left < packetStart
    <3>1. Moves(left, left')
      BY <1>0, <2>1 DEF Moves
    <3> QED
      BY <2>1, <2>2, <2>3, <3>1, StoreMapped DEF Consumer!Next
  <2>4. CASE ~(left < packetStart)
    <3>1. left = 1
      BY <2>1, <2>4 DEF Inv, PacketAdvanced
    <3>2. pc' = "packets" /\ pc' \notin Running
      BY <2>2 DEF StorePacket, Running
    <3>3. Status = "busy" /\ Status' = "busy" /\ Paid = 0 /\ Paid' = 0
      BY <2>1, <2>4, <3>2, StatusOf, StatusNext, PaidOf, PaidNext
    <3>4. Len(m_packets)' = Consumer!OneMore(Len(m_packets))
      BY <1>0, <2>2, StoreCounts
    <3>5. Consumer!Spin
      BY <2>1, <3>1, <3>3, <3>4 DEF Consumer!Spin
    <3> QED
      BY <3>5 DEF Consumer!Next
  <2> QED
    BY <2>3, <2>4
<1>5. CASE ParseEntry
  <2>1. pc \in Running /\ left < packetStart
    BY <1>5, TurnsPaid DEF ParseEntry, Running
  <2>2. Moves(left, left')
    BY <1>0, <1>5, HeaderMoves DEF ParseEntry
  <2>3. CASE StorePacket(packet)
    BY <1>5, <2>1, <2>2, <2>3, StoreMapped DEF ParseEntry, Consumer!Next
  <2>4. CASE UNCHANGED <<pc, m_packets>>
    BY <1>5, <2>1, <2>2, <2>4, InsideMapped DEF ParseEntry
  <2> QED
    BY <1>5, <2>3, <2>4 DEF ParseEntry
<1>6. CASE BeginDataSet
  <2>1. pc \in Running /\ pc' \in Running /\ left < packetStart
    BY <1>6, TurnsPaid DEF BeginDataSet, Running
  <2>2. Moves(left, left')
    BY <1>0, <1>6, HeaderMoves DEF BeginDataSet
  <2> QED
    BY <1>6, <2>1, <2>2, InsideMapped DEF BeginDataSet
<1>7. CASE EndDataSet
  <2>1. pc \in Running /\ pc' \in Running /\ left < packetStart
    BY <1>7, TurnsPaid DEF EndDataSet, Running
  <2>2. Moves(left, left')
    BY <1>0, <1>7 DEF EndDataSet, Moves
  <2> QED
    BY <1>7, <2>1, <2>2, InsideMapped DEF EndDataSet
<1>8. CASE BeginArray
  <2>1. pc \in Running /\ pc' \in Running /\ left < packetStart
    BY <1>8, TurnsPaid DEF BeginArray, Running
  <2>2. Moves(left, left')
    BY <1>0, <1>8, Past16Moves DEF BeginArray
  <2> QED
    BY <1>8, <2>1, <2>2, InsideMapped DEF BeginArray
<1>9. CASE ParseArrayEntry
  <2>1. pc \in Running /\ pc' \in Running /\ left < packetStart
    BY <1>9, TurnsPaid DEF ParseArrayEntry, Running
  <2>2. Moves(left, left')
    BY <1>0, <1>9, HeaderMoves DEF ParseArrayEntry
  <2> QED
    BY <1>9, <2>1, <2>2, InsideMapped DEF ParseArrayEntry
<1>10. CASE EndArray
  <2>1. pc \in Running /\ pc' \in Running /\ left < packetStart
    BY <1>10, TurnsPaid DEF EndArray, Running
  <2>2. Moves(left, left')
    BY <1>0, <1>10 DEF EndArray, Moves
  <2> QED
    BY <1>10, <2>1, <2>2, InsideMapped DEF EndArray
<1>11. CASE ThrowUnknownType \/ ThrowNestedDataSet \/ CrashInPrint
  <2>1. Die /\ pc \in Running \cup {"packets"}
    BY <1>11 DEF ThrowUnknownType, ThrowNestedDataSet, CrashInPrint, AtHeader, Running
  <2>2. Status = "busy" /\ Status' = "failed" /\ Paid' = 0
    BY <2>1, StatusOf, StatusNext, PaidNext DEF Die, Running
  <2>3. left' = left /\ Len(m_packets)' = Len(m_packets) /\ UNCHANGED frameStart
    BY <2>1 DEF Die
  <2>4. Consumer!Fail
    BY <2>2, <2>3 DEF Consumer!Fail
  <2> QED
    BY <2>4 DEF Consumer!Next
<1>12. CASE UNCHANGED vars
  <2>1. Status' = Status /\ Paid' = Paid /\ UNCHANGED <<left, m_packets, frameStart>>
    BY <1>12 DEF vars, Status, Paid
  <2> QED
    BY <2>1 DEF Consumer!vars
<1> QED
  BY <1>1, <1>2, <1>3, <1>4, <1>5, <1>6, <1>7, <1>8, <1>9, <1>10, <1>11, <1>12 DEF Next
-----------------------------------------------------------------------------
(* The theorems *)

\* Fairness apart, the constructor TcpPacket(start, end) with all its nested
\* loops is the consumer of bytes that FrameConsumer describes.
THEOREM ParserIsConsumer == Spec => Consumer!Init /\ [][Consumer!Next]_(Consumer!vars)
<1>1. Init => Consumer!Init
  BY InitMapped
<1>2. Inv /\ [Next]_vars => [Consumer!Next]_(Consumer!vars)
  BY StepMapped
<1> QED
  BY <1>1, <1>2, Invariance, PTL DEF Spec

LEMMA InitBounded == Init => PacketsBoundedByInput
BY StatusOf DEF Init, PacketsBoundedByInput, Consumer!TwoBytesPerPacket

\* The bound is kept by the consumer, whatever implements it.
LEMMA ConsumerKeepsBound ==
  ASSUME left \in Nat, left' \in Nat, frameStart \in Nat, Len(m_packets) \in Nat,
         Paid \in {0, 2}, Status = "new" => Len(m_packets) = 0 /\ Paid = 0,
         PacketsBoundedByInput, [Consumer!Next]_(Consumer!vars)
  PROVE  PacketsBoundedByInput'
<1> USE BoundsAssumption DEF PacketsBoundedByInput, Consumer!TwoBytesPerPacket
<1>1. CASE Consumer!Open
  <2>1. Paid = 0 /\ Len(m_packets) = 0 /\ frameStart' = left'
    BY <1>1 DEF Consumer!Open
  <2>2. Paid' = Paid /\ Len(m_packets)' = Len(m_packets)
    BY <1>1 DEF Consumer!Open
  <2>3. \A n, k, l \in Nat : n = 0 /\ k = 0 => 2 * n + l + k <= l
    OBVIOUS
  <2>4. 2 * Len(m_packets)' + left' + Paid' <= frameStart'
    BY <2>1, <2>2, <2>3
  <2> QED
    BY <2>4
<1>2. CASE Consumer!UseUp
  BY <1>2 DEF Consumer!UseUp, Consumer!UsedUp
<1>3. CASE Consumer!HandOut
  <2>1. Len(m_packets)' \in Nat /\ Len(m_packets)' <= Len(m_packets) + 1
    BY <1>3 DEF Consumer!HandOut, Consumer!OneMore
  <2>2. /\ Paid = 2 /\ Paid' = 0 /\ (left' = left \/ left' \in 0 .. left - 2)
        /\ Status = "busy" /\ frameStart' = frameStart
    BY <1>3 DEF Consumer!HandOut, Consumer!UsedUp
  <2> QED
    BY <2>1, <2>2
<1>4. CASE Consumer!Spin
  BY <1>4 DEF Consumer!Spin
<1>5. CASE Consumer!Return
  BY <1>5 DEF Consumer!Return
<1>6. CASE Consumer!Fail
  BY <1>6 DEF Consumer!Fail
<1>7. CASE UNCHANGED Consumer!vars
  BY <1>7 DEF Consumer!vars
<1> QED
  BY <1>1, <1>2, <1>3, <1>4, <1>5, <1>6, <1>7 DEF Consumer!Next

\* Of the bytes behind the size field of a read, two at least were used up for
\* every packet, whatever the length of the read, unless the parser comes to
\* its last byte: then m_packets grows for ever.
THEOREM PacketsBounded == Spec => []PacketsBoundedByInput
<1>1. Init => PacketsBoundedByInput
  BY InitBounded
<1>2. Inv /\ PacketsBoundedByInput /\ [Next]_vars => PacketsBoundedByInput'
  <2> SUFFICES ASSUME Inv, PacketsBoundedByInput, [Next]_vars PROVE PacketsBoundedByInput'
    OBVIOUS
  <2>1. left \in Nat /\ frameStart \in Nat /\ m_packets \in Seq(Packet) /\ left' \in Nat
    BY NextTyped DEF Inv, TypeOK
  <2>2. Len(m_packets) \in Nat /\ Paid \in {0, 2}
    BY <2>1 DEF Paid
  <2>3. Status = "new" => Len(m_packets) = 0 /\ Paid = 0
    BY PaidOf DEF Status, Running, Inv, TypeOK, IteratorUnset
  <2>4. [Consumer!Next]_(Consumer!vars)
    BY StepMapped
  <2> QED
    BY <2>1, <2>2, <2>3, <2>4, ConsumerKeepsBound
<1> QED
  BY <1>1, <1>2, Invariance, PTL DEF Spec

-----------------------------------------------------------------------------
(***************************************************************************)
(* The entries in memory are bounded by the bytes received: EntriesPaid is *)
(* inductive.                                                              *)
(***************************************************************************)

(* Sums *)

\* The recursive function in Total exists, so Total is its last value.
LEMMA TotalDef ==
  ASSUME NEW s \in Seq(Nat)
  PROVE  \E f \in [0 .. Len(s) -> Nat] :
           /\ f[0] = 0
           /\ \A k \in 1 .. Len(s) : f[k] = f[k - 1] + s[k]
           /\ Total(s) = f[Len(s)]
<1> DEFINE D == 0 .. Len(s)
           rank == [k \in D |-> k]
           Phi == [xg \in D \X [D -> Nat] |->
                     IF xg[1] = 0 THEN 0 ELSE xg[2][xg[1] - 1] + s[xg[1]]]
           sum == CHOOSE g : g = [k \in 0 .. Len(s) |-> IF k = 0 THEN 0 ELSE g[k - 1] + s[k]]
<1>0. Nat # {}
  OBVIOUS
<1>1. rank \in [D -> Nat]
  OBVIOUS
<1>2. Phi \in [D \X [D -> Nat] -> Nat]
  <2> SUFFICES ASSUME NEW k \in D, NEW g \in [D -> Nat]
               PROVE  (IF k = 0 THEN 0 ELSE g[k - 1] + s[k]) \in Nat
    OBVIOUS
  <2>1. k # 0 => k - 1 \in D /\ s[k] \in Nat
    OBVIOUS
  <2>2. k # 0 => g[k - 1] \in Nat
    BY <2>1
  <2> QED
    BY <2>1, <2>2
<1>3. ASSUME NEW x \in D, NEW g \in [D -> Nat], NEW h \in [D -> Nat],
             \A y \in D : rank[y] < rank[x] => g[y] = h[y]
      PROVE  Phi[<<x, g>>] = Phi[<<x, h>>]
  <2>1. x # 0 => x - 1 \in D /\ rank[x - 1] < rank[x]
    OBVIOUS
  <2>2. x # 0 => g[x - 1] = h[x - 1]
    BY <2>1, <1>3
  <2> QED
    BY <2>2
<1>4. IsRecursion(D, Nat, rank, Phi)
  <2> HIDE DEF D, rank, Phi
  <2> QED
    BY <1>0, <1>1, <1>2, <1>3 DEF IsRecursion
<1>5. \E f \in [D -> Nat] : \A x \in D : f[x] = Phi[<<x, f>>]
  <2> HIDE DEF D, rank, Phi
  <2> QED
    BY <1>4, RecursiveFunction
<1>6. PICK f \in [D -> Nat] : \A x \in D : f[x] = Phi[<<x, f>>]
  BY <1>5
<1>7. \A k \in D : f[k] = IF k = 0 THEN 0 ELSE f[k - 1] + s[k]
  BY <1>6
<1>8. f = [k \in 0 .. Len(s) |-> IF k = 0 THEN 0 ELSE f[k - 1] + s[k]]
  BY <1>7
<1>9. sum = [k \in 0 .. Len(s) |-> IF k = 0 THEN 0 ELSE sum[k - 1] + s[k]]
  BY <1>8, Zenon
<1>10. Total(s) = sum[Len(s)]
  BY DEF Total
<1>11. \A k \in D : sum[k] = f[k]
  <2> DEFINE S == {n \in Nat : \A k \in D : k <= n => sum[k] = f[k]}
  <2> HIDE DEF sum
  <2>1. 0 \in S
    BY <1>7, <1>9
  <2>2. ASSUME NEW n \in Nat, n \in S PROVE n + 1 \in S
    <3> SUFFICES ASSUME NEW k \in D, k <= n + 1 PROVE sum[k] = f[k]
      OBVIOUS
    <3>1. k # 0 => sum[k - 1] = f[k - 1]
      BY <2>2
    <3>2. sum[k] = IF k = 0 THEN 0 ELSE sum[k - 1] + s[k]
      BY <1>9
    <3> QED
      BY <3>1, <3>2, <1>7
  <2>3. Nat \subseteq S
    <3> HIDE DEF S
    <3> QED
      BY <2>1, <2>2, SetInduction
  <2> SUFFICES ASSUME NEW k \in D PROVE sum[k] = f[k]
    OBVIOUS
  <2>4. k \in S
    <3>1. k \in Nat
      OBVIOUS
    <3> HIDE DEF S
    <3> QED
      BY <2>3, <3>1
  <2> QED
    BY <2>4
<1>12. Len(s) \in D /\ 0 \in D
  OBVIOUS
<1> HIDE DEF sum
<1>13. Total(s) = f[Len(s)]
  BY <1>10, <1>11, <1>12
<1>14. f[0] = 0 /\ \A k \in 1 .. Len(s) : f[k] = f[k - 1] + s[k]
  BY <1>7
<1> QED
  BY <1>13, <1>14

\* The sum of no numbers, the sum of some, and the sum of one more.
LEMMA TotalFacts ==
  /\ Total(<<>>) = 0
  /\ \A s \in Seq(Nat) : Total(s) \in Nat
  /\ \A s \in Seq(Nat), n \in Nat : Total(Append(s, n)) = Total(s) + n
<1>1. Total(<<>>) = 0
  <2>1. <<>> \in Seq(Nat) /\ Len(<<>>) = 0
    OBVIOUS
  <2> QED
    BY <2>1, TotalDef
<1>2. ASSUME NEW s \in Seq(Nat) PROVE Total(s) \in Nat
  <2>1. PICK f \in [0 .. Len(s) -> Nat] : Total(s) = f[Len(s)]
    BY TotalDef
  <2>2. Len(s) \in 0 .. Len(s)
    OBVIOUS
  <2> QED
    BY <2>1, <2>2
<1>3. ASSUME NEW s \in Seq(Nat), NEW n \in Nat
      PROVE  Total(Append(s, n)) = Total(s) + n
  <2>1. PICK t : t = Append(s, n)
    OBVIOUS
  <2>2. PICK len \in Nat : len = Len(s)
    OBVIOUS
  <2>3. /\ t \in Seq(Nat) /\ Len(t) = len + 1
        /\ \A k \in 1 .. len : t[k] = s[k]
        /\ t[len + 1] = n
    BY <2>1, <2>2
  <2>4. PICK f \in [0 .. len -> Nat] :
           /\ f[0] = 0
           /\ \A k \in 1 .. len : f[k] = f[k - 1] + s[k]
           /\ Total(s) = f[len]
    BY <2>2, TotalDef
  <2>5. PICK g \in [0 .. len + 1 -> Nat] :
           /\ g[0] = 0
           /\ \A k \in 1 .. len + 1 : g[k] = g[k - 1] + t[k]
           /\ Total(t) = g[len + 1]
    BY <2>3, TotalDef
  <2>6. \A k \in 0 .. len : g[k] = f[k]
    <3> DEFINE S == {m \in Nat : m <= len => g[m] = f[m]}
    <3>1. 0 \in S
      BY <2>4, <2>5
    <3>2. ASSUME NEW m \in Nat, m \in S PROVE m + 1 \in S
      <4> SUFFICES ASSUME m + 1 <= len PROVE g[m + 1] = f[m + 1]
        OBVIOUS
      <4>1. m + 1 \in 1 .. len /\ m + 1 \in 1 .. len + 1 /\ (m + 1) - 1 = m
        BY <2>2
      <4>2. g[m + 1] = g[m] + t[m + 1] /\ f[m + 1] = f[m] + s[m + 1]
        BY <4>1, <2>4, <2>5
      <4>3. t[m + 1] = s[m + 1] /\ g[m] = f[m]
        BY <4>1, <2>3, <3>2
      <4> QED
        BY <4>2, <4>3
    <3>3. Nat \subseteq S
      <4> HIDE DEF S
      <4> QED
        BY <3>1, <3>2, SetInduction
    <3> QED
      BY <3>3
  <2>7. len + 1 \in 1 .. len + 1 /\ (len + 1) - 1 = len /\ len \in 0 .. len
    BY <2>2
  <2>8. Total(t) = g[len] + n /\ g[len] = f[len]
    BY <2>3, <2>5, <2>6, <2>7
  <2> QED
    BY <2>1, <2>4, <2>8
<1> QED
  BY <1>1, <1>2, <1>3

\* One number more, when both sequences are given by their elements.
LEMMA TotalGrows ==
  ASSUME NEW n \in Nat, NEW f \in [1 .. n -> Nat], NEW g \in [1 .. n + 1 -> Nat],
         \A k \in 1 .. n : g[k] = f[k]
  PROVE  Total(g) = Total(f) + g[n + 1]
<1>1. f \in Seq(Nat) /\ Len(f) = n /\ g \in Seq(Nat) /\ Len(g) = n + 1
  OBVIOUS
<1>2. n + 1 \in 1 .. n + 1
  OBVIOUS
<1>3. PICK m \in Nat : m = g[n + 1]
  BY <1>2
<1>4. PICK t : t = Append(f, m)
  OBVIOUS
<1>5. t \in Seq(Nat) /\ Len(t) = n + 1 /\ (\A k \in 1 .. n : t[k] = f[k]) /\ t[n + 1] = m
  BY <1>1, <1>4
<1>6. \A k \in 1 .. Len(g) : g[k] = t[k]
  BY <1>1, <1>3, <1>5
<1>7. g = t
  BY <1>1, <1>5, <1>6, SeqEqual
<1> QED
  BY <1>1, <1>3, <1>4, <1>7, TotalFacts

-----------------------------------------------------------------------------
(* The entries of the containers of the parser *)

LEMMA DataSetEntries ==
  /\ \A d \in DataSet : EntriesOfDataSet(d) \in Nat
  /\ \A h : EntriesOfDataSet(NewDataSet(h)) = 0
  /\ \A d \in DataSet, a \in AnonymousArray :
       EntriesOfDataSet([d EXCEPT !.m_anonArrays = Append(@, a)])
         = EntriesOfDataSet(d) + Len(a.m_entries)
<1> DEFINE Lens(s) == [i \in DOMAIN s |-> Len(s[i].m_entries)]
<1>1. ASSUME NEW s \in Seq(AnonymousArray)
      PROVE  Lens(s) \in [1 .. Len(s) -> Nat]
  BY DEF AnonymousArray
<1>2. ASSUME NEW d \in DataSet PROVE EntriesOfDataSet(d) \in Nat
  <2>1. d.m_anonArrays \in Seq(AnonymousArray)
    BY DEF DataSet
  <2>2. Lens(d.m_anonArrays) \in Seq(Nat)
    BY <2>1, <1>1
  <2>3. EntriesOfDataSet(d) = Total(Lens(d.m_anonArrays))
    BY DEF EntriesOfDataSet
  <2> HIDE DEF Lens
  <2> QED
    BY <2>2, <2>3, TotalFacts
<1>3. ASSUME NEW h PROVE EntriesOfDataSet(NewDataSet(h)) = 0
  <2>1. NewDataSet(h).m_anonArrays = <<>>
    BY DEF NewDataSet
  <2>2. Lens(<<>>) = <<>>
    OBVIOUS
  <2> QED
    BY <2>1, <2>2, TotalFacts DEF EntriesOfDataSet
<1>4. ASSUME NEW d \in DataSet, NEW a \in AnonymousArray
      PROVE  EntriesOfDataSet([d EXCEPT !.m_anonArrays = Append(@, a)])
               = EntriesOfDataSet(d) + Len(a.m_entries)
  <2>1. PICK s \in Seq(AnonymousArray) : s = d.m_anonArrays
    BY DEF DataSet
  <2>2. PICK t : t = Append(s, a)
    OBVIOUS
  <2>3. PICK n \in Nat : n = Len(s)
    BY <2>1
  <2>4. /\ t \in Seq(AnonymousArray) /\ Len(t) = n + 1
        /\ \A k \in 1 .. n : t[k] = s[k]
        /\ t[n + 1] = a
    BY <2>2, <2>3
  <2> DEFINE e == [d EXCEPT !.m_anonArrays = Append(@, a)]
  <2>5. e.m_anonArrays = t
    BY <2>1, <2>2 DEF DataSet
  <2>6. Lens(s) \in [1 .. n -> Nat] /\ Lens(t) \in [1 .. n + 1 -> Nat]
    BY <1>1, <2>3, <2>4
  <2>7. \A k \in 1 .. n : Lens(t)[k] = Lens(s)[k]
    BY <2>3, <2>4
  <2>8. Lens(t)[n + 1] = Len(a.m_entries)
    BY <2>4
  <2>9. EntriesOfDataSet(d) = Total(Lens(s))
    BY <2>1 DEF EntriesOfDataSet
  <2>10. EntriesOfDataSet(e) = Total(Lens(t))
    <3> HIDE DEF e
    <3> QED
      BY <2>5 DEF EntriesOfDataSet
  <2> HIDE DEF Lens
  <2>11. Total(Lens(t)) = Total(Lens(s)) + Lens(t)[n + 1]
    BY <2>6, <2>7, TotalGrows
  <2> HIDE DEF e
  <2>12. EntriesOfDataSet(e) = EntriesOfDataSet(d) + Len(a.m_entries)
    BY <2>8, <2>9, <2>10, <2>11
  <2> QED
    BY <2>12 DEF e
<1> QED
  BY <1>2, <1>3, <1>4

LEMMA PacketEntries ==
  /\ \A p \in Packet : EntriesOfPacket(p) \in Nat
  /\ \A h : EntriesOfPacket(NewPacket(h)) = 0
  /\ \A p \in Packet : \A i : EntriesOfPacket([p EXCEPT !.m_entryIter = i]) = EntriesOfPacket(p)
  /\ \A p \in Packet, e \in Entry :
       EntriesOfPacket([p EXCEPT !.m_entries = Append(@, e)]) = EntriesOfPacket(p) + 1
  /\ \A p \in Packet, d \in DataSet :
       EntriesOfPacket([p EXCEPT !.m_dataSets = Append(@, d)])
         = EntriesOfPacket(p) + EntriesOfDataSet(d)
<1> DEFINE Sizes(s) == [i \in DOMAIN s |-> EntriesOfDataSet(s[i])]
<1>1. ASSUME NEW s \in Seq(DataSet)
      PROVE  /\ Sizes(s) \in [1 .. Len(s) -> Nat]
             /\ Total(Sizes(s)) \in Nat
  <2>1. Sizes(s) \in [1 .. Len(s) -> Nat]
    BY DataSetEntries
  <2>2. Sizes(s) \in Seq(Nat)
    BY <2>1
  <2> HIDE DEF Sizes
  <2> QED
    BY <2>1, <2>2, TotalFacts
<1>0. \A p : EntriesOfPacket(p) = Len(p.m_entries) + Total(Sizes(p.m_dataSets))
  BY DEF EntriesOfPacket
<1>E. Sizes(<<>>) = <<>>
  OBVIOUS
<1>G. ASSUME NEW s \in Seq(DataSet), NEW d \in DataSet
      PROVE  Total(Sizes(Append(s, d))) = Total(Sizes(s)) + EntriesOfDataSet(d)
  <2>1. PICK t : t = Append(s, d)
    OBVIOUS
  <2>2. PICK n \in Nat : n = Len(s)
    OBVIOUS
  <2>3. /\ t \in Seq(DataSet) /\ Len(t) = n + 1
        /\ \A k \in 1 .. n : t[k] = s[k]
        /\ t[n + 1] = d
    BY <2>1, <2>2
  <2>4. Sizes(s) \in [1 .. n -> Nat] /\ Sizes(t) \in [1 .. n + 1 -> Nat]
    BY <1>1, <2>2, <2>3
  <2>5. \A k \in 1 .. n : Sizes(t)[k] = Sizes(s)[k]
    BY <2>2, <2>3
  <2>6. Sizes(t)[n + 1] = EntriesOfDataSet(d)
    BY <2>3
  <2> HIDE DEF Sizes
  <2>7. Total(Sizes(t)) = Total(Sizes(s)) + Sizes(t)[n + 1]
    BY <2>4, <2>5, TotalGrows
  <2> QED
    BY <2>1, <2>6, <2>7
<1> HIDE DEF Sizes
<1>2. ASSUME NEW p \in Packet PROVE EntriesOfPacket(p) \in Nat
  <2>1. p.m_dataSets \in Seq(DataSet) /\ Len(p.m_entries) \in Nat
    BY DEF Packet
  <2> QED
    BY <2>1, <1>0, <1>1
<1>3. ASSUME NEW h PROVE EntriesOfPacket(NewPacket(h)) = 0
  <2>1. NewPacket(h).m_entries = <<>> /\ NewPacket(h).m_dataSets = <<>>
    BY DEF NewPacket
  <2> QED
    BY <2>1, <1>0, <1>E, TotalFacts
<1>4. ASSUME NEW p \in Packet, NEW i
      PROVE  EntriesOfPacket([p EXCEPT !.m_entryIter = i]) = EntriesOfPacket(p)
  <2>1. /\ [p EXCEPT !.m_entryIter = i].m_entries = p.m_entries
        /\ [p EXCEPT !.m_entryIter = i].m_dataSets = p.m_dataSets
    BY DEF Packet
  <2> QED
    BY <2>1, <1>0
<1>5. ASSUME NEW p \in Packet, NEW e \in Entry
      PROVE  EntriesOfPacket([p EXCEPT !.m_entries = Append(@, e)]) = EntriesOfPacket(p) + 1
  <2>1. /\ [p EXCEPT !.m_entries = Append(@, e)].m_entries = Append(p.m_entries, e)
        /\ [p EXCEPT !.m_entries = Append(@, e)].m_dataSets = p.m_dataSets
        /\ p.m_entries \in Seq(Entry) /\ p.m_dataSets \in Seq(DataSet)
    BY DEF Packet
  <2>2. PICK n \in Nat : n = Len(p.m_entries)
    BY <2>1
  <2>3. Len(Append(p.m_entries, e)) = n + 1
    BY <2>1, <2>2
  <2>4. PICK m \in Nat : m = Total(Sizes(p.m_dataSets))
    BY <2>1, <1>1
  <2>5. EntriesOfPacket(p) = n + m
    BY <2>2, <2>4, <1>0
  <2>6. EntriesOfPacket([p EXCEPT !.m_entries = Append(@, e)]) = (n + 1) + m
    BY <2>1, <2>3, <2>4, <1>0
  <2> QED
    BY <2>5, <2>6
<1>6. ASSUME NEW p \in Packet, NEW d \in DataSet
      PROVE  EntriesOfPacket([p EXCEPT !.m_dataSets = Append(@, d)])
               = EntriesOfPacket(p) + EntriesOfDataSet(d)
  <2>1. /\ [p EXCEPT !.m_dataSets = Append(@, d)].m_entries = p.m_entries
        /\ [p EXCEPT !.m_dataSets = Append(@, d)].m_dataSets = Append(p.m_dataSets, d)
        /\ Len(p.m_entries) \in Nat /\ p.m_dataSets \in Seq(DataSet)
    BY DEF Packet
  <2>2. PICK n \in Nat : n = Len(p.m_entries)
    BY <2>1
  <2>3. PICK m \in Nat : m = Total(Sizes(p.m_dataSets))
    BY <2>1, <1>1
  <2>4. PICK k \in Nat : k = EntriesOfDataSet(d)
    BY DataSetEntries
  <2>5. EntriesOfPacket(p) = n + m
    BY <2>2, <2>3, <1>0
  <2>6. Total(Sizes(Append(p.m_dataSets, d))) = m + k
    BY <2>1, <2>3, <2>4, <1>G
  <2>7. EntriesOfPacket([p EXCEPT !.m_dataSets = Append(@, d)]) = n + (m + k)
    BY <2>1, <2>2, <2>6, <1>0
  <2> QED
    BY <2>4, <2>5, <2>7
<1> QED
  BY <1>2, <1>3, <1>4, <1>5, <1>6

\* The entries of the packets stored.
Stored == Total([k \in DOMAIN m_packets |-> EntriesOfPacket(m_packets[k])])

LEMMA StoredFacts ==
  ASSUME TypeOK
  PROVE  /\ Stored \in Nat
         /\ \A p \in Packet : StorePacket(p) =>
              /\ Stored' \in Nat
              /\ Stored' <= Stored + EntriesOfPacket(p)
              /\ EntriesOfPacket(packet)' = 0
<1> DEFINE Sizes(s) == [k \in DOMAIN s |-> EntriesOfPacket(s[k])]
<1>1. ASSUME NEW s \in Seq(Packet)
      PROVE  /\ Sizes(s) \in [1 .. Len(s) -> Nat]
             /\ Total(Sizes(s)) \in Nat
  <2>1. Sizes(s) \in [1 .. Len(s) -> Nat]
    BY PacketEntries
  <2>2. Sizes(s) \in Seq(Nat)
    BY <2>1
  <2> HIDE DEF Sizes
  <2> QED
    BY <2>1, <2>2, TotalFacts
<1>2. m_packets \in Seq(Packet)
  BY DEF TypeOK
<1>3. Stored = Total(Sizes(m_packets)) /\ Stored' = Total(Sizes(m_packets'))
  BY DEF Stored
<1>4. Stored \in Nat
  <2> HIDE DEF Sizes
  <2> QED
    BY <1>1, <1>2, <1>3
<1>5. ASSUME NEW p \in Packet, StorePacket(p)
      PROVE  Stored' \in Nat /\ Stored' <= Stored + EntriesOfPacket(p)
  <2>1. PICK m \in Nat : m = EntriesOfPacket(p)
    BY PacketEntries
  <2>2. CASE Len(m_packets) < MaxPackets
    <3>1. PICK t : t = Append(m_packets, p) /\ m_packets' = t
      BY <1>5, <2>2 DEF StorePacket
    <3>2. PICK n \in Nat : n = Len(m_packets)
      BY <1>2
    <3>3. /\ t \in Seq(Packet) /\ Len(t) = n + 1
          /\ \A k \in 1 .. n : t[k] = m_packets[k]
          /\ t[n + 1] = p
      BY <1>2, <3>1, <3>2
    <3>4. Sizes(m_packets) \in [1 .. n -> Nat] /\ Sizes(t) \in [1 .. n + 1 -> Nat]
      BY <1>1, <1>2, <3>2, <3>3
    <3>5. \A k \in 1 .. n : Sizes(t)[k] = Sizes(m_packets)[k]
      BY <1>2, <3>2, <3>3
    <3>6. Sizes(t)[n + 1] = m
      BY <2>1, <3>3
    <3> HIDE DEF Sizes
    <3>7. Total(Sizes(t)) = Total(Sizes(m_packets)) + Sizes(t)[n + 1]
      BY <3>4, <3>5, TotalGrows
    <3>8. Stored' = Stored + m
      BY <1>3, <3>1, <3>6, <3>7
    <3> QED
      BY <1>4, <2>1, <3>8
  <2>3. CASE ~(Len(m_packets) < MaxPackets)
    <3>1. Stored' = Stored
      BY <1>5, <2>3 DEF StorePacket, Stored
    <3> QED
      BY <1>4, <2>1, <3>1
  <2> QED
    BY <2>2, <2>3
<1>6. ASSUME NEW p, StorePacket(p) PROVE EntriesOfPacket(packet)' = 0
  BY <1>6, PacketEntries DEF StorePacket, NoPacket
<1> HIDE DEF Sizes
<1> QED
  BY <1>4, <1>5, <1>6

LEMMA HeldFacts ==
  /\ Held = Stored + EntriesOfPacket(packet) + EntriesOfDataSet(dataSet)
  /\ Held' = Stored' + EntriesOfPacket(packet)' + EntriesOfDataSet(dataSet)'
BY DEF Held, Stored

\* Sums that are compared.
LEMMA SumsCompared ==
  /\ \A a, b, c, d \in Nat : a <= c /\ b <= d => a + b <= c + d
  /\ \A a, b, c, d, e \in Nat : a + b <= c + d /\ c + d <= e => a + b <= e /\ a + 0 <= e
  /\ \A a, b, m, n, e \in Nat :
        a + b + 2 * n + 2 <= e /\ m <= b - 2 => a + m + 2 * (n + 1) + 2 <= e
OBVIOUS

-----------------------------------------------------------------------------
(* Initial states and steps *)

LEMMA InitPaid == Init => EntriesPaid
<1> SUFFICES ASSUME Init PROVE EntriesPaid
  OBVIOUS
<1>1. Stored = 0
  <2>1. [k \in DOMAIN m_packets |-> EntriesOfPacket(m_packets[k])] = <<>>
    BY DEF Init
  <2> QED
    BY <2>1, TotalFacts DEF Stored
<1>2. EntriesOfPacket(packet) = 0 /\ EntriesOfDataSet(dataSet) = 0
  BY PacketEntries, DataSetEntries DEF Init, NoPacket, NoDataSet
<1>3. Held = 0
  BY <1>1, <1>2, HeldFacts
<1>4. array.count = 0 /\ frameStart = 0 /\ pc = "size"
  BY DEF Init, NoArray, NewArray
<1> QED
  BY <1>3, <1>4 DEF EntriesPaid, EntriesBoundedByInput

\* Each step pays for the entries it adds with the bytes it consumes.
LEMMA NextPaid == TypeOK /\ EntriesPaid /\ [Next]_vars => EntriesPaid'
<1> SUFFICES ASSUME TypeOK, EntriesPaid, [Next]_vars PROVE EntriesPaid'
  OBVIOUS
<1> USE DEF EntriesPaid, EntriesBoundedByInput
<1>T. /\ left \in Nat /\ frameStart \in Nat
      /\ packet \in Packet /\ dataSet \in DataSet /\ array \in AnonymousArray
      /\ array.count \in Nat /\ Len(array.m_entries) \in Nat
      /\ array.m_entries \in Seq(Entry)
  BY DEF TypeOK, AnonymousArray
<1>N. /\ Stored \in Nat /\ EntriesOfPacket(packet) \in Nat
      /\ EntriesOfDataSet(dataSet) \in Nat /\ Held \in Nat
  <2>1. Stored \in Nat /\ EntriesOfPacket(packet) \in Nat /\ EntriesOfDataSet(dataSet) \in Nat
    BY <1>T, StoredFacts, PacketEntries, DataSetEntries
  <2> QED
    BY <2>1, HeldFacts
<1>L. left \in Nat /\ frameStart \in Nat /\ Held \in Nat /\ array.count \in Nat
  BY <1>T, <1>N
<1>M. ASSUME UNCHANGED m_packets PROVE Stored' = Stored
  BY <1>M DEF Stored
<1>P. ASSUME UNCHANGED packet PROVE EntriesOfPacket(packet)' = EntriesOfPacket(packet)
  BY <1>P
<1>D. ASSUME UNCHANGED dataSet PROVE EntriesOfDataSet(dataSet)' = EntriesOfDataSet(dataSet)
  BY <1>D
<1>H. ASSUME UNCHANGED <<m_packets, packet, dataSet>> PROVE Held' = Held
  BY <1>H, <1>M, <1>P, <1>D, HeldFacts
\* A packet with the entries of the one under construction takes its place.
<1>S. ASSUME NEW p \in Packet, EntriesOfPacket(p) = EntriesOfPacket(packet),
             StorePacket(p), UNCHANGED dataSet
      PROVE  Held' \in Nat /\ Held' <= Held /\ pc' = "packets"
  <2>1. Stored' \in Nat /\ Stored' <= Stored + EntriesOfPacket(packet)
        /\ EntriesOfPacket(packet)' = 0
    BY <1>S, StoredFacts
  <2>2. EntriesOfDataSet(dataSet)' = EntriesOfDataSet(dataSet)
    BY <1>S
  <2>3. pc' = "packets"
    BY <1>S DEF StorePacket
  <2> QED
    BY <1>N, <2>1, <2>2, <2>3, HeldFacts
\* Outside of arrays it is enough that no more is held than bytes are used up.
<1>Q. ASSUME pc \in {"packets", "entries", "arrays"}, pc' \in {"packets", "entries", "arrays"},
             UNCHANGED array, UNCHANGED frameStart,
             left' \in Nat, Held' \in Nat, Held' + left' <= Held + left
      PROVE  EntriesPaid'
  <2>1. Held + left <= frameStart /\ array.count = 0
    BY <1>Q
  <2>2. array'.count = 0
    BY <1>Q, <2>1
  <2>3. Held' \in Nat /\ left' \in Nat /\ Held' + left' <= Held + left /\ frameStart' = frameStart
    BY <1>Q
  <2>4. Held' + left' <= frameStart /\ Held' + 0 <= frameStart
    BY ONLY <1>L, <2>1, <2>3, SumsCompared
  <2>5. Held' + left' <= frameStart' /\ Held' + array'.count <= frameStart'
    BY ONLY <2>2, <2>3, <2>4, Zenon
  <2> QED
    BY <1>Q, <2>2, <2>5
<1>1. CASE ReadSize
  <2>1. /\ pc = "size" /\ pc' \in {"done", "packets"} /\ frameStart' = left'
        /\ UNCHANGED <<m_packets, packet, dataSet, array>>
        /\ left' = Past16(left)
    BY <1>1 DEF ReadSize
  <2>2. left' \in Nat
    BY <1>T, <2>1, Past16Bound
  <2> QED
    BY <2>1, <2>2, <1>H
<1>2. CASE Finish
  <2>1. pc' = "done" /\ pc = "packets" /\ UNCHANGED <<m_packets, packet, dataSet, array, frameStart>>
    BY <1>2 DEF Finish
  <2> QED
    BY <2>1, <1>H
<1>3. CASE BeginPacket
  <2>1. PICK h \in Headers(left) : packet' = NewPacket(h) /\ left' = h.left
    BY <1>3 DEF BeginPacket
  <2>2. /\ pc = "packets" /\ pc' = "entries"
        /\ UNCHANGED <<m_packets, dataSet, array, frameStart>>
    BY <1>3 DEF BeginPacket
  <2>3. left' \in Nat /\ left' <= left
    BY <1>T, <2>1, HeaderFacts
  <2>4. EntriesOfPacket(packet)' = 0
    BY <2>1, PacketEntries
  <2>5. Stored' = Stored /\ EntriesOfDataSet(dataSet)' = EntriesOfDataSet(dataSet)
    BY <2>2, <1>M
  <2>6. Held' <= Held /\ Held' \in Nat
    BY <1>N, <2>4, <2>5, HeldFacts
  <2>7. Held' + left' <= Held + left
    BY ONLY <1>L, <2>3, <2>6, SumsCompared
  <2> QED
    BY <2>2, <2>3, <2>6, <2>7, <1>Q
<1>4. CASE EndPacket
  <2>1. PICK p : p = [packet EXCEPT !.m_entryIter = Begin]
    OBVIOUS
  <2>2. p \in Packet /\ EntriesOfPacket(p) = EntriesOfPacket(packet)
    <3>1. p \in Packet
      BY <1>T, <2>1 DEF Packet
    <3> QED
      BY <1>T, <2>1, <3>1, PacketEntries
  <2>3. /\ StorePacket(p) /\ pc = "entries" /\ left' = left
        /\ UNCHANGED <<dataSet, array, frameStart>>
    BY <1>4, <2>1 DEF EndPacket
  <2>4. Held' \in Nat /\ Held' <= Held /\ pc' = "packets"
    BY <2>2, <2>3, <1>S
  <2>5. left' \in Nat /\ left' <= left
    BY <1>T, <2>3
  <2>6. Held' + left' <= Held + left
    BY ONLY <1>L, <2>4, <2>5, SumsCompared
  <2> QED
    BY <2>3, <2>4, <2>5, <2>6, <1>Q
<1>5. CASE ParseEntry
  <2>1. PICK h \in Headers(left) :
          /\ left' = h.left - DataEntry(h).len
          /\ \/ /\ valid(DataEntry(h))
                /\ packet' = [packet EXCEPT !.m_entries = Append(@, DataEntry(h))]
                /\ UNCHANGED <<pc, m_packets>>
             \/ StorePacket(packet)
    BY <1>5 DEF ParseEntry
  <2>2. pc = "entries" /\ left # 0 /\ UNCHANGED <<dataSet, array, frameStart>>
    BY <1>5 DEF ParseEntry, MoreEntries
  <2>3. left' \in Nat /\ left' <= left /\ DataEntry(h) \in Entry
    BY <1>T, <2>1, EntryFacts
  <2>4. CASE StorePacket(packet)
    <3>1. Held' \in Nat /\ Held' <= Held /\ pc' = "packets"
      BY <1>T, <2>2, <2>4, <1>S
    <3>2. Held' + left' <= Held + left
      BY ONLY <1>L, <2>3, <3>1, SumsCompared
    <3> QED
      BY <2>2, <2>3, <3>1, <3>2, <1>Q
  <2>5. CASE /\ valid(DataEntry(h))
             /\ packet' = [packet EXCEPT !.m_entries = Append(@, DataEntry(h))]
             /\ UNCHANGED <<pc, m_packets>>
    <3>1. left' <= left - 1
      <4>1. h.left \in Nat /\ h.left <= left /\ h.size \in Nat
            /\ (left >= 2 => h.left <= left - 2) /\ (left = 1 => h.size = 0)
        BY <1>T, HeaderFacts
      <4>2. DataEntry(h).len \in Nat /\ DataEntry(h).len # 0 /\ DataEntry(h).len <= h.size
        BY <2>5, <4>1 DEF valid, DataEntry
      <4> QED
        BY <1>T, <2>1, <2>2, <4>1, <4>2
    <3>2. EntriesOfPacket(packet)' = EntriesOfPacket(packet) + 1
      BY <1>T, <2>3, <2>5, PacketEntries
    <3>3. Stored' = Stored /\ EntriesOfDataSet(dataSet)' = EntriesOfDataSet(dataSet)
      BY <2>2, <2>5, <1>M
    <3>4. Held' = Held + 1
      BY <1>N, <3>2, <3>3, HeldFacts
    <3> QED
      BY <1>T, <1>N, <2>2, <2>3, <2>5, <3>1, <3>4
  <2> QED
    BY <2>1, <2>4, <2>5
<1>6. CASE BeginDataSet
  <2>1. PICK h \in Headers(left) : dataSet' = NewDataSet(h) /\ left' = h.left
    BY <1>6 DEF BeginDataSet
  <2>2. /\ pc = "entries" /\ pc' = "arrays"
        /\ UNCHANGED <<m_packets, packet, array, frameStart>>
    BY <1>6 DEF BeginDataSet
  <2>3. left' \in Nat /\ left' <= left
    BY <1>T, <2>1, HeaderFacts
  <2>4. EntriesOfDataSet(dataSet)' = 0
    BY <2>1, DataSetEntries
  <2>5. Stored' = Stored /\ EntriesOfPacket(packet)' = EntriesOfPacket(packet)
    BY <2>2, <1>M
  <2>6. Held' <= Held /\ Held' \in Nat
    BY <1>N, <2>4, <2>5, HeldFacts
  <2>7. Held' + left' <= Held + left
    BY ONLY <1>L, <2>3, <2>6, SumsCompared
  <2> QED
    BY <2>2, <2>3, <2>6, <2>7, <1>Q
<1>7. CASE EndDataSet
  <2>1. /\ pc = "arrays" /\ pc' = "entries"
        /\ packet' = [packet EXCEPT !.m_dataSets = Append(@, dataSet)]
        /\ dataSet' = NoDataSet
        /\ UNCHANGED <<left, m_packets, array, frameStart>>
    BY <1>7 DEF EndDataSet
  <2>2. EntriesOfPacket(packet)' = EntriesOfPacket(packet) + EntriesOfDataSet(dataSet)
    BY <1>T, <2>1, PacketEntries
  <2>3. EntriesOfDataSet(dataSet)' = 0
    BY <2>1, DataSetEntries DEF NoDataSet
  <2>4. Stored' = Stored
    BY <2>1, <1>M
  <2>5. Held' = Held
    BY <1>N, <2>2, <2>3, <2>4, HeldFacts
  <2> QED
    BY <1>T, <1>N, <2>1, <2>5
<1>8. CASE BeginArray
  <2>1. /\ pc = "arrays" /\ left' = Past16(left)
        /\ UNCHANGED <<m_packets, packet, frameStart>>
    BY <1>8 DEF BeginArray
  <2>2. PICK v \in Counts :
          \/ StoreArray(NoArray) /\ UNCHANGED <<pc, array>>
          \/ /\ ~Impossible(to_uint16(left, v), left')
             /\ array' = NewArray(to_uint16(left, v))
             /\ pc' = "array"
             /\ UNCHANGED dataSet
    BY <1>8 DEF BeginArray
  <2>3. /\ left' \in Nat /\ left' <= left
        /\ left >= 2 => left' = left - 2
    BY <1>T, <2>1, Past16Bound
  <2>4. CASE StoreArray(NoArray) /\ UNCHANGED <<pc, array>>
    <3>1. NoArray \in AnonymousArray /\ Len(NoArray.m_entries) = 0
      BY NewObjectsTyped DEF NoArray, NewArray
    <3>2. EntriesOfDataSet(dataSet)' = EntriesOfDataSet(dataSet)
      <4>1. dataSet' = [dataSet EXCEPT !.m_anonArrays = Append(@, NoArray)]
        BY <2>4 DEF StoreArray
      <4>2. EntriesOfDataSet(dataSet)' = EntriesOfDataSet(dataSet) + 0
        BY <1>T, <3>1, <4>1, DataSetEntries
      <4> QED
        BY <1>N, <4>2
    <3>3. Stored' = Stored /\ EntriesOfPacket(packet)' = EntriesOfPacket(packet)
      BY <2>1, <1>M
    <3>4. Held' = Held
      BY <3>2, <3>3, HeldFacts
    <3> QED
      BY <1>T, <1>N, <2>1, <2>3, <2>4, <3>4
  <2>5. CASE /\ ~Impossible(to_uint16(left, v), left')
             /\ array' = NewArray(to_uint16(left, v))
             /\ pc' = "array"
             /\ UNCHANGED dataSet
    <3>1. PICK count : count = to_uint16(left, v)
      OBVIOUS
    <3>2. count \in Nat /\ (left < 2 => count = 0)
      BY <1>T, <3>1, ReadInNat, InputAssumption
    <3>3. count # 0 /\ count <= left'
      BY <2>3, <2>5, <3>1, <3>2 DEF Impossible
    <3>4. left >= 2 /\ left' = left - 2
      BY <1>T, <2>3, <3>2, <3>3
    <3>5. array'.count = count /\ Len(array'.m_entries) = 0
      BY <2>5, <3>1 DEF NewArray
    <3>6. Held' = Held
      BY <2>1, <2>5, <1>H
    <3>7. Held + left <= frameStart /\ frameStart' = frameStart /\ pc' = "array"
      BY <2>1, <2>5
    <3> QED
      BY <1>T, <1>N, <3>2, <3>3, <3>4, <3>5, <3>6, <3>7
  <2> QED
    BY <2>2, <2>4, <2>5
<1>9. CASE ParseArrayEntry
  <2>1. PICK h \in Headers(left) :
          /\ left' = h.left - DataEntry(h).len
          /\ array' = [array EXCEPT !.m_entries = Append(@, DataEntry(h))]
    BY <1>9 DEF ParseArrayEntry
  <2>2. pc = "array" /\ UNCHANGED <<pc, m_packets, packet, dataSet, frameStart>>
    BY <1>9 DEF ParseArrayEntry
  <2>3. Moves(left, left') /\ DataEntry(h) \in Entry
    BY <1>T, <2>1, HeaderMoves, EntryFacts
  <2>4. PICK n \in Nat : n = Len(array.m_entries)
    BY <1>T
  <2>5. array'.count = array.count /\ Len(array'.m_entries) = n + 1
    <3>1. array'.count = array.count /\ array'.m_entries = Append(array.m_entries, DataEntry(h))
      BY <1>T, <2>1 DEF AnonymousArray
    <3> QED
      BY <1>T, <2>3, <2>4, <3>1
  <2>6. Held' = Held
    BY <2>2, <1>H
  <2>7. left' \in Nat /\ left' <= left /\ (left >= 2 => left' <= left - 2)
    <3>1. h.left \in Nat /\ h.left <= left /\ (left >= 2 => h.left <= left - 2)
      BY <1>T, HeaderFacts
    <3>2. DataEntry(h).len \in Nat /\ left' \in Nat
      BY <2>3 DEF Entry, Moves
    <3> QED
      BY <1>T, <2>1, <3>1, <3>2
  <2>8. array.count \in Nat /\ Held + array.count + 2 <= frameStart
    BY <1>T, <2>2
  <2>9. Held' + array'.count <= frameStart' /\ Held' + array'.count + 2 <= frameStart'
    BY <1>T, <1>N, <2>2, <2>5, <2>6, <2>8
  <2>10. left' <= 1 \/ Held' + left' + 2 * Len(array'.m_entries) + 2 <= frameStart'
    <3>1. CASE left <= 1
      BY <1>T, <2>7, <3>1
    <3>2. CASE ~(left <= 1)
      <4>1. Held + left + 2 * n + 2 <= frameStart
        BY <2>2, <2>4, <3>2
      <4>2. left' <= left - 2
        BY <1>T, <2>7, <3>2
      <4>3. Held + left' + 2 * (n + 1) + 2 <= frameStart
        BY ONLY <1>L, <2>7, <4>1, <4>2, n \in Nat, SumsCompared
      <4> QED
        BY <2>2, <2>5, <2>6, <4>3
    <3> QED
      BY <3>1, <3>2
  <2> QED
    BY <2>2, <2>9, <2>10
<1>10. CASE EndArray
  <2>1. /\ pc = "array" /\ pc' = "arrays" /\ Len(array.m_entries) = array.count
        /\ dataSet' = [dataSet EXCEPT !.m_anonArrays = Append(@, array)]
        /\ array' = NoArray
        /\ UNCHANGED <<left, m_packets, packet, frameStart>>
    BY <1>10 DEF EndArray, StoreArray
  <2>2. EntriesOfDataSet(dataSet)' = EntriesOfDataSet(dataSet) + array.count
    BY <1>T, <2>1, DataSetEntries
  <2>3. Stored' = Stored /\ EntriesOfPacket(packet)' = EntriesOfPacket(packet)
    BY <2>1, <1>M
  <2>4. Held' = Held + array.count
    BY <1>T, <1>N, <2>2, <2>3, HeldFacts
  <2>5. array'.count = 0
    BY <2>1 DEF NoArray, NewArray
  <2>6. Held + array.count + left <= frameStart
    BY <1>T, <1>N, <2>1
  <2> QED
    BY <1>T, <1>N, <2>1, <2>4, <2>5, <2>6
<1>11. CASE Die
  <2>1. pc' = "dead" /\ UNCHANGED <<m_packets, packet, dataSet, array, frameStart>>
    BY <1>11 DEF Die
  <2> QED
    BY <2>1, <1>H
<1>12. CASE UNCHANGED vars
  <2>1. UNCHANGED <<pc, left, m_packets, packet, dataSet, array, frameStart>>
    BY <1>12 DEF vars
  <2> QED
    BY <2>1, <1>H
<1> QED
  BY <1>1, <1>2, <1>3, <1>4, <1>5, <1>6, <1>7, <1>8, <1>9, <1>10, <1>11, <1>12
     DEF Next, ThrowUnknownType, ThrowNestedDataSet, CrashInPrint

\* The entries held in memory, those of the array under construction that are
\* still to come included, are never more than the bytes behind the size field,
\* whatever those bytes are: an anonymous array stores entries that have no
\* bytes left, but never more than its count, and its count was compared with
\* the bytes that were left (AnonymousArray.cpp:18-31).
THEOREM EntriesBounded == Spec => []EntriesBoundedByInput
<1>1. Init => EntriesPaid
  BY InitPaid
<1>2. TypeOK /\ EntriesPaid /\ [Next]_vars => EntriesPaid'
  BY NextPaid
<1>3. EntriesPaid => EntriesBoundedByInput
  BY DEF EntriesPaid
<1> QED
  BY <1>1, <1>2, <1>3, TypeCorrect, PTL DEF Spec
=============================================================================
