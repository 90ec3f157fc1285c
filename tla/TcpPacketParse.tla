--------------------------- MODULE TcpPacketParse ---------------------------
(***************************************************************************)
(* TcpPacket(start, end): the parser that turns the bytes of one read into *)
(* packets of entries and data sets (TcpPacket.cpp, Packet.cpp,            *)
(* DataSet.cpp, AnonymousArray.cpp, DataEntry.cpp).                        *)
(*                                                                         *)
(* The nested constructors share one iterator by reference.  Each action   *)
(* is one turn of one of their loops, and pc names the loop that is        *)
(* running:                                                                *)
(*                                                                         *)
(*   "size"     TcpPacket::m_parse, before the size field is read          *)
(*   "packets"  TcpPacket::m_parse, at its while loop                      *)
(*   "entries"  Packet::m_parse, at its for loop                           *)
(*   "arrays"   DataSet::m_parse, at its for loop                          *)
(*   "array"    AnonymousArray's constructor, at its for loop              *)
(*   "done"     TcpPacket::m_parse returned                                *)
(*   "dead"     an exception left the parser, or the process crashed       *)
(***************************************************************************)
EXTENDS EntryHeader, Sequences

CONSTANTS
  MaxBuffer,    \* the longest buffer a read fills (CLIENT_MAX_BUFFER)
  MaxPackets    \* m_packets is recorded up to this length, see StorePacket

ASSUME BoundsAssumption == MaxBuffer \in Nat /\ MaxPackets \in Nat \ {0}

VARIABLES
  pc,
  left,          \* end - start
  m_size,        \* TcpPacket::m_size, the size field of the frame
  m_packets,     \* TcpPacket::m_packets
  m_packetIter,  \* TcpPacket::m_packetIter
  packet,        \* packet_temp, the packet under construction
  dataSet,       \* ds_temp, the data set under construction
  array,         \* the anonymous array under construction
  frameStart,    \* history: end - start behind the size field
  packetStart    \* history: end - start where packet began

vars == <<pc, left, m_size, m_packets, m_packetIter, packet, dataSet, array,
          frameStart, packetStart>>

\* An iterator into a vector is Begin, or Singular if it was never assigned.
Begin    == "begin"
Singular == "singular"

Running == {"entries", "arrays", "array"}

-----------------------------------------------------------------------------
(* DataEntry *)

\* m_parse: the payload is read whole, or not at all.
DataEntry(h) ==
  [cmd |-> h.cmd, size |-> h.size,
   len |-> IF isEnoughToRead(h.left, h.size) THEN h.size ELSE 0]

valid(entry) == entry.cmd # UNKNOWN /\ entry.len # 0

\* m_parse throws on a data set where an entry belongs.
Throws(h) == h.type = DATA_SET /\ isEnoughToRead(h.left, h.size)

-----------------------------------------------------------------------------
(* Packet, DataSet, AnonymousArray *)

NewPacket(h)  == [cmd |-> h.cmd, size |-> h.size, m_entries |-> <<>>,
                  m_dataSets |-> <<>>, m_entryIter |-> Singular]
NewDataSet(h) == [cmd |-> h.cmd, size |-> h.size, m_anonArrays |-> <<>>]
NewArray(n)   == [count |-> n, m_entries |-> <<>>]

\* What a temporary holds outside its scope.
NoPacket  == NewPacket([cmd |-> UNKNOWN, size |-> 0])
NoDataSet == NewDataSet([cmd |-> UNKNOWN, size |-> 0])
NoArray   == NewArray(0)

\* The value of i in the for loop of Packet::m_parse: a turn that does not
\* return appends one entry or one data set.
Turns(p) == Len(p.m_entries) + Len(p.m_dataSets)

\* Mutant: the last entry is not read.
AllButOneEntry == Turns(packet) + 1 < packet.size /\ left # 0

MoreEntries == Turns(packet) < packet.size /\ left # 0

\* The constructor returns, m_packets.push_back copies the packet and the
\* temporary dies.  The vector grows without bound when the while loop spins;
\* beyond MaxPackets the model stops recording what is appended.
StorePacket(p) ==
  /\ m_packets' = IF Len(m_packets) < MaxPackets THEN Append(m_packets, p) ELSE m_packets
  /\ packet' = NoPacket
  /\ pc' = "packets"

\* Codes of the entries of the data set that are not in g_cmd_code_text.
PrintsBeyondTable(ds) ==
  \E i \in DOMAIN ds.m_anonArrays : \E j \in DOMAIN ds.m_anonArrays[i].m_entries :
     ds.m_anonArrays[i].m_entries[j].cmd \notin CMD_CODE

-----------------------------------------------------------------------------
Init ==
  /\ pc = "size"
  /\ left \in 0 .. MaxBuffer
  /\ m_size = 0
  /\ m_packets = <<>>
  /\ m_packetIter = Singular
  /\ packet = NoPacket
  /\ dataSet = NoDataSet
  /\ array = NoArray
  /\ frameStart = 0
  /\ packetStart = 0

\* Mutant: the size field is not compared with the bytes that are there.
ReadSizeOnTrust ==
  /\ pc = "size"
  /\ \E v \in Counts : m_size' = to_uint16(left, v)
  /\ left' = Past16(left)
  /\ frameStart' = left'
  /\ pc' = IF m_size' = 0 THEN "done" ELSE "packets"
  /\ UNCHANGED <<m_packets, m_packetIter, packet, dataSet, array, packetStart>>

\* TcpPacket::m_parse reads the size field and checks it.
ReadSize ==
  /\ pc = "size"
  /\ \E v \in Counts : m_size' = to_uint16(left, v)
  /\ left' = Past16(left)
  /\ frameStart' = left'
  /\ pc' = IF m_size' = 0 \/ m_size' > left' THEN "done" ELSE "packets"
  /\ UNCHANGED <<m_packets, m_packetIter, packet, dataSet, array, packetStart>>

\* The while loop of TcpPacket::m_parse ends.
Finish ==
  /\ pc = "packets"
  /\ left = 0
  /\ m_packetIter' = Begin
  /\ pc' = "done"
  /\ UNCHANGED <<left, m_size, m_packets, packet, dataSet, array, frameStart, packetStart>>

\* Packet(start, end) reads its header.
BeginPacket ==
  /\ pc = "packets"
  /\ left # 0
  /\ \E h \in Headers(left) :
        /\ h.type # NoType
        /\ packet' = NewPacket(h)
        /\ left' = h.left
  /\ packetStart' = left
  /\ pc' = "entries"
  /\ UNCHANGED <<m_size, m_packets, m_packetIter, dataSet, array, frameStart>>

\* The for loop of Packet::m_parse ends, and the packet is stored.
EndPacket ==
  /\ pc = "entries"
  /\ ~MoreEntries
  /\ StorePacket([packet EXCEPT !.m_entryIter = Begin])
  /\ UNCHANGED <<left, m_size, m_packetIter, dataSet, array, frameStart, packetStart>>

\* One turn of the for loop of Packet::m_parse that reads an entry.  An
\* invalid entry makes m_parse return; the packet is stored as it is.
ParseEntry ==
  /\ pc = "entries"
  /\ MoreEntries
  /\ \E h \in Headers(left) :
        /\ h.type \notin {DATA_SET, NoType}
        /\ left' = h.left - DataEntry(h).len
        /\ \/ /\ valid(DataEntry(h))
              /\ packet' = [packet EXCEPT !.m_entries = Append(@, DataEntry(h))]
              /\ UNCHANGED <<pc, m_packets>>
           \/ ~valid(DataEntry(h)) /\ StorePacket(packet)
  /\ UNCHANGED <<m_size, m_packetIter, dataSet, array, frameStart, packetStart>>

\* One turn of the for loop of Packet::m_parse that meets a data set.
BeginDataSet ==
  /\ pc = "entries"
  /\ MoreEntries
  /\ \E h \in Headers(left) :
        /\ h.type = DATA_SET
        /\ dataSet' = NewDataSet(h)
        /\ left' = h.left
  /\ pc' = "arrays"
  /\ UNCHANGED <<m_size, m_packets, m_packetIter, packet, array, frameStart, packetStart>>

\* The for loop of DataSet::m_parse ends.
EndDataSet ==
  /\ pc = "arrays"
  /\ Len(dataSet.m_anonArrays) = dataSet.size
  /\ packet' = [packet EXCEPT !.m_dataSets = Append(@, dataSet)]
  /\ dataSet' = NoDataSet
  /\ pc' = "entries"
  /\ UNCHANGED <<left, m_size, m_packets, m_packetIter, array, frameStart, packetStart>>

\* Mutants: an empty array is not stored; a count is dropped only if zero.
StoreNonEmptyArray(a) ==
  IF a.m_entries = <<>> THEN UNCHANGED dataSet
  ELSE dataSet' = [dataSet EXCEPT !.m_anonArrays = Append(@, a)]
IsZero(count, rest) == count = 0

StoreArray(a) ==
  dataSet' = [dataSet EXCEPT !.m_anonArrays = Append(@, a)]

\* A count that is zero, or more than the bytes behind it could hold.
Impossible(count, rest) == count = 0 \/ count > rest

\* AnonymousArray(start, end) reads its count; an impossible one is dropped.
BeginArray ==
  /\ pc = "arrays"
  /\ Len(dataSet.m_anonArrays) < dataSet.size
  /\ left' = Past16(left)
  /\ \E v \in Counts :
       LET count == to_uint16(left, v) IN
       \/ /\ Impossible(count, left')
          /\ StoreArray(NoArray)
          /\ UNCHANGED <<pc, array>>
       \/ /\ ~Impossible(count, left')
          /\ array' = NewArray(count)
          /\ pc' = "array"
          /\ UNCHANGED dataSet
  /\ UNCHANGED <<m_size, m_packets, m_packetIter, packet, frameStart, packetStart>>

\* One turn of the for loop of AnonymousArray: the entry is stored unchecked.
ParseArrayEntry ==
  /\ pc = "array"
  /\ Len(array.m_entries) < array.count
  /\ \E h \in Headers(left) :
        /\ h.type # NoType
        /\ ~Throws(h)
        /\ left' = h.left - DataEntry(h).len
        /\ array' = [array EXCEPT !.m_entries = Append(@, DataEntry(h))]
  /\ UNCHANGED <<pc, m_size, m_packets, m_packetIter, packet, dataSet, frameStart, packetStart>>

EndArray ==
  /\ pc = "array"
  /\ Len(array.m_entries) = array.count
  /\ StoreArray(array)
  /\ array' = NoArray
  /\ pc' = "arrays"
  /\ UNCHANGED <<left, m_size, m_packets, m_packetIter, packet, frameStart, packetStart>>

\* A header is about to be read.
AtHeader ==
  \/ pc = "packets" /\ left # 0
  \/ pc = "entries" /\ MoreEntries
  \/ pc = "array" /\ Len(array.m_entries) < array.count

Die ==
  /\ pc' = "dead"
  /\ UNCHANGED <<left, m_size, m_packets, m_packetIter, packet, dataSet, array,
                 frameStart, packetStart>>

\* getConfig throws on the type it finds behind the table.
ThrowUnknownType ==
  /\ AtHeader
  /\ \E h \in Headers(left) : h.type = NoType
  /\ Die

\* DataEntry::m_parse throws on a data set nested in an anonymous array.
ThrowNestedDataSet ==
  /\ pc = "array"
  /\ Len(array.m_entries) < array.count
  /\ \E h \in Headers(left) : Throws(h)
  /\ Die

\* dbg_print indexes g_cmd_code_text beyond its end, and crashes.
CrashInPrint ==
  /\ \/ /\ pc = "entries" /\ MoreEntries
        /\ \E h \in Headers(left) : h.type \notin {DATA_SET, NoType} /\ h.cmd \notin CMD_CODE
     \/ /\ pc = "arrays" /\ Len(dataSet.m_anonArrays) = dataSet.size
        /\ PrintsBeyondTable(dataSet)
  /\ Die

Next ==
  \/ ReadSize \/ Finish
  \/ BeginPacket \/ EndPacket \/ ParseEntry
  \/ BeginDataSet \/ EndDataSet
  \/ BeginArray \/ ParseArrayEntry \/ EndArray
  \/ ThrowUnknownType \/ ThrowNestedDataSet \/ CrashInPrint

\* The parser runs on the thread that called it and waits for nothing.
Spec == Init /\ [][Next]_vars /\ WF_vars(Next)
-----------------------------------------------------------------------------
(* Properties *)

Entry          == [cmd : Nat, size : Nat, len : Nat]
AnonymousArray == [count : Nat, m_entries : Seq(Entry)]
DataSet        == [cmd : Nat, size : Nat, m_anonArrays : Seq(AnonymousArray)]
Packet         == [cmd : Nat, size : Nat, m_entries : Seq(Entry),
                   m_dataSets : Seq(DataSet), m_entryIter : {Begin, Singular}]

\* The iterator never passes the end of the buffer (left stays a natural
\* number through every read), and the objects built are well-formed.
TypeOK ==
  /\ pc \in Running \cup {"size", "packets", "done", "dead"}
  /\ left \in Nat /\ m_size \in Nat /\ frameStart \in Nat /\ packetStart \in Nat
  /\ m_packets \in Seq(Packet)
  /\ m_packetIter \in {Begin, Singular}
  /\ packet \in Packet /\ dataSet \in DataSet /\ array \in AnonymousArray

\* A packet that ended with fewer entries than its header declares either was
\* cut at an invalid entry (its m_entryIter was never set) or is the last
\* packet of an exhausted buffer: the bytes of a cut packet's missing entries
\* are parsed as further packets, those of any other are not there.
IsShort(p) == Turns(p) < p.size /\ p.m_entryIter = Begin

ShortPacketIsLast ==
  \A k \in DOMAIN m_packets :
     IsShort(m_packets[k]) => k = Len(m_packets) /\ left = 0

\* getNextPacket moves m_packetIter without looking at it.  Once the parser
\* has returned, the iterator is singular exactly when there is no packet.
IteratorArmed ==
  pc = "done" => (m_packetIter = Singular <=> m_packets = <<>>)

\* No packet is constructed without consuming input, so the while loop of
\* TcpPacket::m_parse makes progress, unless a single byte is left.
PacketProgress ==
  [][(pc \in Running /\ pc' = "packets") =>
        left' < packetStart \/ (packetStart = 1 /\ left' = 1)]_vars

\* The parser returns (or throws, or crashes), unless it comes to its last
\* byte: no other input keeps one of its four nested loops running.
TerminatesUnlessOneByteLeft == <>(pc \in {"done", "dead"} \/ left = 1)

\* With one byte left at the while loop the parser is lost: it constructs
\* empty packets for ever and never returns.
OneByteSpins == [](pc = "packets" /\ left = 1 => [](pc \notin {"done", "dead"}))

\* The sum of a sequence of numbers.
Total(s) ==
  LET sum[k \in 0 .. Len(s)] == IF k = 0 THEN 0 ELSE sum[k - 1] + s[k]
  IN  sum[Len(s)]

EntriesOfDataSet(ds) ==
  Total([i \in DOMAIN ds.m_anonArrays |-> Len(ds.m_anonArrays[i].m_entries)])

EntriesOfPacket(p) ==
  Len(p.m_entries) + Total([i \in DOMAIN p.m_dataSets |-> EntriesOfDataSet(p.m_dataSets[i])])

\* The entries of the packets and data sets there are.
Held ==
  Total([k \in DOMAIN m_packets |-> EntriesOfPacket(m_packets[k])])
    + EntriesOfPacket(packet) + EntriesOfDataSet(dataSet)

\* The entries held in memory, those an array has made room for included, are
\* bounded by the bytes received, although an anonymous array stores entries
\* for which no byte was left to read (AnonymousArray.cpp:18-31).
EntriesBoundedByInput == Held + array.count <= frameStart

\* The size field is the size of one frame, so the parser consumes no more
\* than that many bytes (main.cpp documents the field as the total package
\* size, and several frames received in one read).
FrameHonoured == frameStart - left <= m_size

-----------------------------------------------------------------------------
(* The inductive invariant: what the parser maintains while it is inside a *)
(* packet, from which the safety properties above follow.                  *)

\* While a packet is under construction every stored one is whole or cut, and
\* the packet's own iterator is not set.
NoneShortSoFar ==
  pc \in Running => /\ \A k \in DOMAIN m_packets : ~IsShort(m_packets[k])
                    /\ packet.m_entryIter = Singular

\* Only Finish sets the iterator, and Finish needs a packet to be stored.
IteratorUnset ==
  /\ pc = "size" => m_packets = <<>>
  /\ pc \in Running \cup {"size", "packets"} => m_packetIter = Singular
  /\ pc = "packets" /\ left = 0 => m_packets # <<>>

\* The packet under construction has consumed input, or it is the empty
\* packet of the last byte.
PacketAdvanced ==
  pc \in Running =>
    \/ left < packetStart
    \/ pc = "entries" /\ packetStart = 1 /\ left = 1 /\ packet.size = 0

\* Entries outside of anonymous arrays take bytes, one or more each.  Those of
\* an array need not, but their number did not exceed the bytes behind the
\* count, and the two bytes of the count make up for one that is left over.
EntriesPaid ==
  /\ EntriesBoundedByInput
  /\ pc = "size" => Held = 0
  /\ pc \notin {"array", "dead"} => array.count = 0
  /\ pc \in {"packets", "entries", "arrays"} => Held + left <= frameStart
  /\ pc = "array" => /\ Held + array.count + 2 <= frameStart
                     /\ \/ left <= 1
                        \/ Held + left + 2 * Len(array.m_entries) + 2 <= frameStart

\* Where the parser is while it spins on the last byte.
Trapped ==
  left = 1 /\ (pc = "packets" \/ (pc = "entries" /\ packet.size = 0))

Inv ==
  /\ TypeOK
  /\ ShortPacketIsLast /\ NoneShortSoFar
  /\ IteratorArmed /\ IteratorUnset
  /\ PacketAdvanced

-----------------------------------------------------------------------------
(* The parser implements FrameConsumer. *)

Status ==
  CASE pc = "size" -> "new"
    [] pc = "done" -> "returned"
    [] pc = "dead" -> "failed"
    [] OTHER       -> "busy"

\* The packet under construction has used up bytes.
Paid == IF pc \in Running /\ left < packetStart THEN 2 ELSE 0

Consumer ==
  INSTANCE FrameConsumer
  WITH Capacity <- MaxBuffer, Limit <- MaxPackets,
       status <- Status, rest <- left, paid <- Paid, handed <- Len(m_packets),
       given <- frameStart

\* Seen from its caller, the constructor TcpPacket(start, end) is a consumer of
\* bytes: whatever its nested constructors do, a packet costs bytes that none
\* before it has used up, and it returns with none left (TcpPacket.cpp:24-39).
ImplementsConsumer == Consumer!Spec

\* So the packets of a read are no more than half of the bytes this read left
\* behind the size field, unless the parser comes to its last byte.
PacketsBoundedByInput == Consumer!TwoBytesPerPacket
=============================================================================
