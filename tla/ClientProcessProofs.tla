------------------------ MODULE ClientProcessProofs ------------------------
(***************************************************************************)
(* Proofs about ClientProcess: the parser's invariant carries over to the  *)
(* composition, and with it what the client does with a frame.             *)
(***************************************************************************)
EXTENDS ClientProcess, TcpPacketParseProofs

-----------------------------------------------------------------------------
(* The count of an APPLICATION_VALUE *)

\* The header of an APPLICATION_VALUE holds the size of a float.
LEMMA ApplicationValueHeader ==
  ASSUME NEW l \in Nat, NEW h \in Headers(l), h.cmd = APPLICATION_VALUE
  PROVE  h.size = 4
<1>1. PICK code \in Codes, count \in Counts : \E type \in TypesOf(to_uint16(l, code)) :
             h = HeaderOf(l, code, count, type)
  BY DEF Headers
<1>2. PICK type \in TypesOf(to_uint16(l, code)) : h = HeaderOf(l, code, count, type)
  BY <1>1
<1>3. h.cmd = to_uint16(l, code)
  BY <1>2 DEF HeaderOf
<1>4. type = "TYPE_TCP_FLOAT"
  BY <1>3, FloatAssumption DEF TypesOf
<1>5. type \notin PrefixedTypes
  BY <1>4 DEF PrefixedTypes, DATA_SET
<1>6. h.size = g_type_sizes(type)
  BY <1>2, <1>5 DEF HeaderOf
<1> QED
  BY <1>4, <1>6 DEF g_type_sizes

\* The sum of the lengths of two sequences: it is a natural number, and one
\* length follows from the other.
LEMMA LengthsAdd == \A S, T : \A s \in Seq(S), t \in Seq(T) : Len(s) + Len(t) \in Nat
OBVIOUS

LEMMA OtherLength ==
  \A S, T : \A s \in Seq(S), t \in Seq(T) :
    Len(s) = 2 /\ Len(s) + Len(t) = 4 => Len(t) = 2
OBVIOUS

\* A packet has taken as many turns as it holds entries and data sets.
LEMMA TurnsFacts ==
  ASSUME NEW p \in Packet
  PROVE  /\ p.m_entries \in Seq(Entry) /\ p.m_dataSets \in Seq(DataSet)
         /\ p.size \in Nat
         /\ Turns(p) = Len(p.m_entries) + Len(p.m_dataSets)
         /\ Turns(p) \in Nat
         /\ Len(p.m_entries) = 2 /\ Turns(p) = 4 => Len(p.m_dataSets) = 2
<1>1. /\ p.m_entries \in Seq(Entry) /\ p.m_dataSets \in Seq(DataSet)
      /\ p.size \in Nat
  BY DEF Packet
<1>2. Turns(p) = Len(p.m_entries) + Len(p.m_dataSets)
  BY DEF Turns
<1>3. Turns(p) \in Nat
  BY <1>1, <1>2, LengthsAdd, Zenon
<1>4. Len(p.m_entries) = 2 /\ Turns(p) = 4 => Len(p.m_dataSets) = 2
  BY <1>1, <1>2, OtherLength, Zenon
<1> QED
  BY <1>1, <1>2, <1>3, <1>4, Zenon

\* Storing an entry, or a data set, is one turn.
LEMMA EntryIsATurn ==
  ASSUME NEW p \in Packet, NEW e \in Entry, NEW q,
         q.m_entries = Append(p.m_entries, e), q.m_dataSets = p.m_dataSets
  PROVE  Turns(q) = Turns(p) + 1
<1>1. Turns(q) = Len(Append(p.m_entries, e)) + Len(p.m_dataSets)
  BY DEF Turns
<1>2. Len(Append(p.m_entries, e)) + Len(p.m_dataSets)
        = Len(p.m_entries) + Len(p.m_dataSets) + 1
  <2>1. p.m_entries \in Seq(Entry) /\ p.m_dataSets \in Seq(DataSet)
    BY TurnsFacts
  <2>2. PICK s \in Seq(Entry), t \in Seq(DataSet) : s = p.m_entries /\ t = p.m_dataSets
    BY <2>1
  <2>3. Len(Append(s, e)) + Len(t) = Len(s) + Len(t) + 1
    OBVIOUS
  <2> QED
    BY <2>2, <2>3, Zenon
<1>3. Turns(p) = Len(p.m_entries) + Len(p.m_dataSets)
  BY DEF Turns
<1> QED
  BY <1>1, <1>2, <1>3, Zenon

LEMMA DataSetIsATurn ==
  ASSUME NEW p \in Packet, NEW ds \in DataSet, NEW q,
         q.m_entries = p.m_entries, q.m_dataSets = Append(p.m_dataSets, ds)
  PROVE  Turns(q) = Turns(p) + 1
<1>1. Turns(q) = Len(p.m_entries) + Len(Append(p.m_dataSets, ds))
  BY DEF Turns
<1>2. Len(p.m_entries) + Len(Append(p.m_dataSets, ds))
        = Len(p.m_entries) + Len(p.m_dataSets) + 1
  <2>1. p.m_entries \in Seq(Entry) /\ p.m_dataSets \in Seq(DataSet)
    BY TurnsFacts
  <2>2. PICK s \in Seq(Entry), t \in Seq(DataSet) : s = p.m_entries /\ t = p.m_dataSets
    BY <2>1
  <2>3. Len(s) + Len(Append(t, ds)) = Len(s) + Len(t) + 1
    OBVIOUS
  <2> QED
    BY <2>2, <2>3, Zenon
<1>3. Turns(p) = Len(p.m_entries) + Len(p.m_dataSets)
  BY DEF Turns
<1> QED
  BY <1>1, <1>2, <1>3, Zenon

LEMMA NewPacketCounted ==
  ASSUME NEW l \in Nat, NEW h \in Headers(l)
  PROVE  Counted(NewPacket(h))
<1>1. h.size \in Nat
  BY HeaderFacts
<1>2. Turns(NewPacket(h)) = 0 /\ NewPacket(h).size = h.size /\ NewPacket(h).cmd = h.cmd
  BY DEF Turns, NewPacket
<1> QED
  BY <1>1, <1>2, ApplicationValueHeader DEF Counted

-----------------------------------------------------------------------------
(* Steps of the parser *)

LEMMA NextAccepted == Inv /\ FrameAccepted /\ [Next]_vars => FrameAccepted'
<1> SUFFICES ASSUME Inv, FrameAccepted, [Next]_vars PROVE FrameAccepted'
  OBVIOUS
<1> USE DEF FrameAccepted, Refused, Running
<1>0. TypeOK /\ IteratorUnset
  BY DEF Inv
<1>1. CASE ReadSize
  <2>1. m_packetIter' = Singular /\ Singular # Begin /\ frameStart' = left'
    BY <1>0, <1>1 DEF ReadSize, IteratorUnset, Singular, Begin
  <2>2. pc' = IF m_size' = 0 \/ m_size' > left' THEN "done" ELSE "packets"
    BY <1>1 DEF ReadSize
  <2> QED
    BY <2>1, <2>2
<1>2. CASE Finish
  BY <1>2 DEF Finish
<1>3. CASE BeginPacket
  BY <1>3 DEF BeginPacket
<1>4. CASE EndPacket
  BY <1>4 DEF EndPacket, StorePacket
<1>5. CASE ParseEntry
  BY <1>5 DEF ParseEntry, StorePacket
<1>6. CASE BeginDataSet
  BY <1>6 DEF BeginDataSet
<1>7. CASE EndDataSet
  BY <1>7 DEF EndDataSet
<1>8. CASE BeginArray
  BY <1>8 DEF BeginArray
<1>9. CASE ParseArrayEntry
  BY <1>9 DEF ParseArrayEntry
<1>10. CASE EndArray
  BY <1>10 DEF EndArray
<1>11. CASE Die
  BY <1>11 DEF Die
<1>12. CASE UNCHANGED vars
  BY <1>12 DEF vars
<1> QED
  BY <1>1, <1>2, <1>3, <1>4, <1>5, <1>6, <1>7, <1>8, <1>9, <1>10, <1>11, <1>12
     DEF Next, ThrowUnknownType, ThrowNestedDataSet, CrashInPrint

LEMMA NextCounted == Inv /\ PacketsCounted /\ [Next]_vars => PacketsCounted'
<1> SUFFICES ASSUME Inv, PacketsCounted, [Next]_vars PROVE PacketsCounted'
  OBVIOUS
<1> USE DEF PacketsCounted, Running
<1>0. TypeOK /\ packet \in Packet /\ dataSet \in DataSet /\ left \in Nat
  BY DEF Inv, TypeOK
<1>S. ASSUME NEW p \in Packet, StorePacket(p), Counted(p)
      PROVE  PacketsCounted'
  <2>1. pc' = "packets"
    BY <1>S DEF StorePacket
  <2>2. \A k \in DOMAIN m_packets' : Counted(m_packets'[k])
    BY <1>0, <1>S, StorePacketFacts
  <2> QED
    BY <2>1, <2>2
<1>1. CASE ReadSize
  BY <1>1 DEF ReadSize
<1>2. CASE Finish
  BY <1>2 DEF Finish
<1>3. CASE BeginPacket
  BY <1>0, <1>3, NewPacketCounted DEF BeginPacket
<1>4. CASE EndPacket
  <2> DEFINE p == [packet EXCEPT !.m_entryIter = Begin]
  <2>1. p \in Packet /\ StorePacket(p)
    BY <1>0, <1>4 DEF EndPacket, Packet
  <2>2. p.m_entries = packet.m_entries /\ p.m_dataSets = packet.m_dataSets
        /\ p.size = packet.size /\ p.cmd = packet.cmd
    BY <1>0 DEF Packet
  <2>3. Counted(p)
    BY <1>4, <2>2 DEF EndPacket, Counted, Turns
  <2> QED
    BY <2>1, <2>3, <1>S
<1>5. CASE ParseEntry
  <2>1. PICK h \in Headers(left) :
          \/ /\ packet' = [packet EXCEPT !.m_entries = Append(@, DataEntry(h))]
             /\ UNCHANGED <<pc, m_packets>>
          \/ StorePacket(packet)
    BY <1>5 DEF ParseEntry
  <2>2. pc = "entries" /\ Turns(packet) < packet.size /\ Counted(packet)
    BY <1>5 DEF ParseEntry, MoreEntries
  <2>3. CASE StorePacket(packet)
    BY <1>0, <2>2, <2>3, <1>S
  <2>4. CASE /\ packet' = [packet EXCEPT !.m_entries = Append(@, DataEntry(h))]
             /\ UNCHANGED <<pc, m_packets>>
    <3>1. /\ packet'.m_entries = Append(packet.m_entries, DataEntry(h))
          /\ packet'.m_dataSets = packet.m_dataSets
          /\ packet'.size = packet.size /\ packet'.cmd = packet.cmd
      BY <1>0, <2>4 DEF Packet
    <3>2. /\ packet.m_entries \in Seq(Entry) /\ packet.m_dataSets \in Seq(DataSet)
          /\ packet.size \in Nat /\ Turns(packet) \in Nat
      BY <1>0, TurnsFacts
    <3>3. DataEntry(h) \in Entry
      BY <1>0, EntryFacts
    <3>4. Turns(packet') = Turns(packet) + 1
      BY <1>0, <3>1, <3>3, EntryIsATurn
    <3>5. Counted(packet')
      BY <2>2, <3>1, <3>2, <3>4 DEF Counted
    <3> QED
      BY <2>2, <2>4, <3>5
  <2> QED
    BY <2>1, <2>3, <2>4
<1>6. CASE BeginDataSet
  BY <1>6 DEF BeginDataSet, MoreEntries
<1>7. CASE EndDataSet
  <2>1. /\ packet'.m_dataSets = Append(packet.m_dataSets, dataSet)
        /\ packet'.m_entries = packet.m_entries
        /\ packet'.size = packet.size /\ packet'.cmd = packet.cmd
    BY <1>0, <1>7 DEF EndDataSet, Packet
  <2>2. /\ packet.m_entries \in Seq(Entry) /\ packet.m_dataSets \in Seq(DataSet)
        /\ packet.size \in Nat /\ Turns(packet) \in Nat
    BY <1>0, TurnsFacts
  <2>3. Turns(packet') = Turns(packet) + 1
    BY <1>0, <2>1, DataSetIsATurn
  <2>4. Turns(packet) < packet.size /\ Counted(packet)
    BY <1>7 DEF EndDataSet
  <2>5. Counted(packet')
    BY <2>1, <2>2, <2>3, <2>4 DEF Counted
  <2> QED
    BY <1>7, <2>5 DEF EndDataSet
<1>8. CASE BeginArray
  BY <1>8 DEF BeginArray
<1>9. CASE ParseArrayEntry
  BY <1>9 DEF ParseArrayEntry
<1>10. CASE EndArray
  BY <1>10 DEF EndArray
<1>11. CASE Die
  BY <1>11 DEF Die
<1>12. CASE UNCHANGED vars
  BY <1>12 DEF vars
<1> QED
  BY <1>1, <1>2, <1>3, <1>4, <1>5, <1>6, <1>7, <1>8, <1>9, <1>10, <1>11, <1>12
     DEF Next, ThrowUnknownType, ThrowNestedDataSet, CrashInPrint

-----------------------------------------------------------------------------
(* Steps of the composition *)

LEMMA ParserAtRest == pc = "done" => ~Next
BY DEF Next, ReadSize, Finish, BeginPacket, EndPacket, ParseEntry, BeginDataSet, EndDataSet,
   BeginArray, ParseArrayEntry, EndArray, ThrowUnknownType, ThrowNestedDataSet, CrashInPrint,
   AtHeader

LEMMA InitPInv == PInit => PInv
<1> SUFFICES ASSUME PInit PROVE PInv
  OBVIOUS
<1>1. Init /\ pc = "size" /\ m_packets = <<>>
  BY DEF PInit, Init
<1>2. Inv
  BY <1>1, InitInv
<1>3. FrameAccepted /\ PacketsCounted
  BY <1>1 DEF FrameAccepted, PacketsCounted, Running
<1>4. TypeOK
  BY <1>2 DEF Inv
<1>5. PTypeOK /\ ProcessingFollows
  BY <1>4 DEF PInit, PTypeOK, ProcessingFollows
<1> QED
  BY <1>2, <1>3, <1>5 DEF PInv

LEMMA NextPInv == PInv /\ [PNext]_PVars => PInv'
<1> SUFFICES ASSUME PInv, [PNext]_PVars PROVE PInv'
  OBVIOUS
<1>0. /\ Inv /\ FrameAccepted /\ PacketsCounted /\ PTypeOK /\ ProcessingFollows
      /\ m_packets \in Seq(Packet)
  BY DEF PInv, Inv, TypeOK
<1>1. [Next]_vars
  BY DEF PNext, PVars, Parse, ProcessNext, CrashOnSingular
<1>2. Inv' /\ FrameAccepted' /\ PacketsCounted' /\ TypeOK'
  BY <1>0, <1>1, NextInv, NextAccepted, NextCounted DEF Inv
<1>3. CASE Parse
  <2>1. pc # "done" /\ UNCHANGED processVars
    BY <1>3, ParserAtRest DEF Parse
  <2>2. stage = "looping" /\ handled = {} /\ response = {}
    BY <1>0, <2>1 DEF ProcessingFollows, PTypeOK
  <2>3. PTypeOK' /\ ProcessingFollows'
    BY <1>0, <1>2, <2>1, <2>2 DEF PTypeOK, ProcessingFollows, processVars
  <2> QED
    BY <1>2, <2>3 DEF PInv
<1>4. CASE ProcessNext
  <2>1. /\ pc = "done" /\ m_packetIter = Begin
        /\ UNCHANGED vars
        /\ position' = Advance(position)
        /\ \/ stage' = "returned" /\ UNCHANGED <<handled, response>>
           \/ /\ ~isEmpty(PacketAt(position'))
              /\ handled' = handled \cup {position'}
              /\ response' = IF Answers(PacketAt(position'))
                             THEN response \cup {position'} ELSE response
              /\ UNCHANGED stage
    BY <1>4 DEF ProcessNext
  <2>2. position' \in Nat
    BY <1>0, <2>1 DEF PTypeOK, Advance
  <2>3. PTypeOK'
    BY <1>0, <1>2, <2>1, <2>2 DEF PTypeOK
  <2>4. ~isEmpty(PacketAt(position')) =>
          position' < Len(m_packets) /\ PacketAt(position') = m_packets[position' + 1]
    BY DEF PacketAt, isEmpty, entriesCount, NoPacket, NewPacket
  <2>5. ProcessingFollows'
    BY <1>0, <2>1, <2>4 DEF ProcessingFollows, vars
  <2> QED
    BY <1>2, <2>3, <2>5 DEF PInv
<1>5. CASE CrashOnSingular
  <2>1. PTypeOK' /\ ProcessingFollows'
    BY <1>0, <1>2, <1>5 DEF CrashOnSingular, PTypeOK, ProcessingFollows, vars
  <2> QED
    BY <1>2, <2>1 DEF PInv
<1>6. CASE UNCHANGED PVars
  <2>1. PTypeOK' /\ ProcessingFollows'
    BY <1>0, <1>2, <1>6 DEF PVars, PTypeOK, ProcessingFollows, vars, processVars
  <2> QED
    BY <1>2, <2>1 DEF PInv
<1> QED
  BY <1>3, <1>4, <1>5, <1>6 DEF PNext

-----------------------------------------------------------------------------
(* The theorems *)

\* The parser's invariant and the client's hold of every run of the two.
THEOREM PInvariance == PSpec => []PInv
BY InitPInv, NextPInv, PTL DEF PSpec

\* Every object of parser and client stays well-formed.
THEOREM PTypeCorrect == PSpec => []PTypeOK
<1>1. PInv => PTypeOK
  BY DEF PInv
<1> QED
  BY <1>1, PInvariance, PTL

\* Exactly the frames whose size field is refused crash the client.
THEOREM CrashCause == PSpec => []CrashesOnRefusedFrame
<1>1. PInv => CrashesOnRefusedFrame
  BY DEF PInv, CrashesOnRefusedFrame, ProcessingFollows, FrameAccepted, PTypeOK, Begin, Singular
<1> QED
  BY <1>1, PInvariance, PTL

\* No complete packet of two entries is ever answered as a version request.
THEOREM AnswersMisread == PSpec => []AnswersOnlyMisreadRequests
<1>1. ASSUME PInv, NEW k \in response
      PROVE  LET p == PacketAt(k) IN
               \/ IsShort(p) /\ k + 1 = Len(m_packets)
               \/ p.m_entryIter = Singular
               \/ Len(p.m_dataSets) = 2
  <2> DEFINE p == PacketAt(k)
  <2>1. k \in Nat /\ m_packets \in Seq(Packet)
    BY <1>1 DEF PInv, PTypeOK, TypeOK
  <2>2. k < Len(m_packets) /\ Answers(m_packets[k + 1])
    BY <1>1 DEF PInv, ProcessingFollows
  <2>3. p = m_packets[k + 1] /\ k + 1 \in DOMAIN m_packets
    BY <2>1, <2>2 DEF PacketAt
  <2>4. p \in Packet /\ Counted(p) /\ Answers(p)
    BY <1>1, <2>1, <2>2, <2>3 DEF PInv, PacketsCounted
  <2>5. /\ Len(p.m_dataSets) \in Nat /\ p.m_entryIter \in {Begin, Singular}
        /\ Len(p.m_entries) = 2 /\ p.size = 4 /\ Turns(p) <= 4
    BY <2>4 DEF Packet, Counted, Answers, entriesCount
  <2>6. CASE p.m_entryIter = Singular
    BY <2>6
  <2>7. CASE p.m_entryIter = Begin /\ Turns(p) < 4
    <3>1. IsShort(p)
      BY <2>5, <2>7 DEF IsShort
    <3>2. ShortPacketIsLast
      BY <1>1 DEF PInv, Inv
    <3>3. k + 1 = Len(m_packets)
      BY <2>3, <3>1, <3>2 DEF ShortPacketIsLast
    <3> QED
      BY <3>1, <3>3
  <2>8. CASE Turns(p) = 4
    <3>1. Len(p.m_dataSets) = 2
      BY <2>4, <2>5, <2>8, TurnsFacts, Zenon
    <3> QED
      BY <3>1
  <2>9. Turns(p) \in Nat
    BY <2>4, TurnsFacts
  <2> QED
    BY <2>5, <2>6, <2>7, <2>8, <2>9
<1>2. PInv => AnswersOnlyMisreadRequests
  BY <1>1 DEF AnswersOnlyMisreadRequests
<1> QED
  BY <1>2, PInvariance, PTL

-----------------------------------------------------------------------------
(* Which packets are handled *)

WalkInv == WalkedSoFar /\ HandledUpToEmpty

LEMMA InitWalkInv == PInit => WalkInv
BY DEF PInit, WalkInv, WalkedSoFar, HandledUpToEmpty

LEMMA NextWalkInv == PInv /\ WalkInv /\ [PNext]_PVars => WalkInv'
<1> SUFFICES ASSUME PInv, WalkInv, [PNext]_PVars PROVE WalkInv'
  OBVIOUS
<1>1. position \in Nat /\ m_packets \in Seq(Packet)
  BY DEF PInv, PTypeOK, TypeOK
<1>2. CASE Parse
  <2>1. pc # "done" /\ UNCHANGED processVars
    BY <1>2, ParserAtRest DEF Parse
  <2>2. stage = "looping" /\ handled = {}
    BY <2>1 DEF PInv, ProcessingFollows
  <2>3. position = 0
    <3>1. handled = 1 .. position
      BY <2>2 DEF WalkInv, WalkedSoFar
    <3>. QED  BY <1>1, <2>2, <3>1
  <2>. QED  BY <2>1, <2>2, <2>3 DEF WalkInv, WalkedSoFar, HandledUpToEmpty, processVars
<1>3. CASE ProcessNext
  <2>1. PICK n \in Nat : n = position + 1 /\ position' = n /\ position = n - 1
    BY <1>1, <1>3 DEF ProcessNext, Advance
  <2>2. /\ m_packets' = m_packets /\ handled = 1 .. n - 1
        /\ \A j \in 2 .. n : j <= Len(m_packets) /\ m_packets[j].m_entries # <<>>
    BY <1>3, <2>1 DEF ProcessNext, vars, WalkInv, WalkedSoFar
  <2>3. isEmpty(PacketAt(n)) <=> (n < Len(m_packets) => m_packets[n + 1].m_entries = <<>>)
    <3>1. CASE n < Len(m_packets)
      <4>1. m_packets[n + 1] \in Packet /\ PacketAt(n) = m_packets[n + 1]
        BY <1>1, <2>1, <3>1 DEF PacketAt
      <4>2. m_packets[n + 1].m_entries \in Seq(Entry)
        BY <4>1 DEF Packet
      <4>. QED  BY <3>1, <4>1, <4>2 DEF isEmpty, entriesCount
    <3>2. CASE ~(n < Len(m_packets))
      BY <3>2 DEF PacketAt, isEmpty, entriesCount, NoPacket, NewPacket
    <3>. QED  BY <3>1, <3>2
  <2>4. CASE isEmpty(PacketAt(n))
    <3>1. stage' = "returned" /\ handled' = handled
      BY <1>3, <2>1, <2>4 DEF ProcessNext
    <3>2. ASSUME NEW k \in DOMAIN m_packets
          PROVE  k - 1 \in 1 .. n - 1 <=> k > 1 /\ \A j \in 2 .. k : m_packets[j].m_entries # <<>>
      <4>1. k \in Nat /\ k <= Len(m_packets) /\ Len(m_packets) \in Nat
        BY <1>1
      <4>2. CASE k <= n
        <5>1. \A j \in 2 .. k : j \in 2 .. n
          BY <2>1, <4>1, <4>2
        <5>2. k - 1 \in 1 .. n - 1 <=> k > 1
          BY <2>1, <4>1, <4>2
        <5>. QED  BY <2>2, <5>1, <5>2
      <4>3. CASE k > n
        <5>1. n < Len(m_packets) /\ k - 1 \notin 1 .. n - 1
          BY <2>1, <4>1, <4>3
        <5>2. m_packets[n + 1].m_entries = <<>>
          BY <2>3, <2>4, <5>1
        <5>3. k > 1 => n + 1 \in 2 .. k
          BY <1>1, <2>1, <4>1, <4>3
        <5>. QED  BY <5>1, <5>2, <5>3
      <4>. QED  BY <2>1, <4>1, <4>2, <4>3
    <3>. QED  BY <2>2, <3>1, <3>2 DEF WalkInv, WalkedSoFar, HandledUpToEmpty
  <2>5. CASE ~isEmpty(PacketAt(n))
    <3>1. stage' = "looping" /\ handled' = handled \cup {n}
      BY <1>3, <2>1, <2>5 DEF ProcessNext
    <3>2. handled' = 1 .. n
      BY <1>1, <2>1, <2>2, <3>1
    <3>3. n < Len(m_packets) /\ m_packets[n + 1].m_entries # <<>>
      BY <2>3, <2>5
    <3>4. Len(m_packets) \in Nat
      BY <1>1
    <3>5. \A j \in 2 .. n + 1 : j <= Len(m_packets) /\ m_packets[j].m_entries # <<>>
      BY <2>2, <3>3, <3>4
    <3>. QED  BY <2>1, <2>2, <3>1, <3>2, <3>5 DEF WalkInv, WalkedSoFar, HandledUpToEmpty
  <2>. QED  BY <2>4, <2>5
<1>4. CASE CrashOnSingular
  BY <1>4 DEF CrashOnSingular, WalkInv, WalkedSoFar, HandledUpToEmpty
<1>5. CASE UNCHANGED PVars
  BY <1>5 DEF PVars, vars, processVars, WalkInv, WalkedSoFar, HandledUpToEmpty
<1>. QED  BY <1>2, <1>3, <1>4, <1>5 DEF PNext

\* Handled are the packets from the second up to the first without entries.
THEOREM HandlesUpToEmpty == PSpec => []HandledUpToEmpty
<1>1. PInit => WalkInv
  BY InitWalkInv
<1>2. PInv /\ WalkInv /\ [PNext]_PVars => WalkInv'
  BY NextWalkInv
<1>3. WalkInv => HandledUpToEmpty
  BY DEF WalkInv
<1>. QED  BY <1>1, <1>2, <1>3, PInvariance, PTL DEF PSpec
=============================================================================
