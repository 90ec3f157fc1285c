---------------------------- MODULE PacketBuild ----------------------------
(***************************************************************************)
(* The objects a program fills with entries and data sets, and the bytes   *)
(* their build() methods make of them (TcpPacket.cpp, Packet.cpp,          *)
(* DataSet.cpp, AnonymousArray.cpp, DataEntry.cpp, EntryHeader.cpp).       *)
(*                                                                         *)
(* build() changes the objects it is called on: it corrects the sizes in   *)
(* their headers, or their payloads if the type fixes the size.  Here the  *)
(* corrected object comes first, and the bytes are made from that.         *)
(***************************************************************************)
EXTENDS ValueConverter, SequencesExt

CONSTANTS
  PacketCodes,   \* the commands packets are constructed with
  Entries,       \* the entries, as [cmd, m_data], a program may append
  DataSets,      \* the data sets, as [cmd, m_anonArrays], likewise
  MaxTurns,      \* bound: entries and data sets of all packets
  MaxPackets     \* bound: packets of one TcpPacket

EntryInput == [cmd : CMD_CODE, m_data : Seq(Byte)]

ASSUME BuildAssumption ==
  /\ PacketCodes \subseteq CMD_CODE
  /\ Entries \subseteq EntryInput
  /\ DataSets \subseteq [cmd : CMD_CODE, m_anonArrays : Seq(Seq(EntryInput))]
  /\ MaxTurns \in Nat /\ MaxPackets \in Nat

VARIABLES
  packet,      \* the packet being filled
  m_packets,   \* TcpPacket::m_packets
  wire         \* what TcpPacket::build returned, <<>> if a packet came since

vars == <<packet, m_packets, wire>>

-----------------------------------------------------------------------------
(* Headers *)

Prefixed(cmd) == g_cmd_code_types_flags[cmd] \in PrefixedTypes

\* EntryHeader() is of no type: it has no size field although UNKNOWN has one.
DefaultHeader == [m_cmd |-> UNKNOWN, m_sizeWidth |-> 0, m_contentSize |-> 0]

\* EntryHeader(cmd, size): getConfig overwrites the size it is given.
EntryHeader(cmd) ==
  [m_cmd |-> cmd,
   m_sizeWidth |-> IF Prefixed(cmd) THEN 2 ELSE 0,
   m_contentSize |-> IF Prefixed(cmd) THEN 0 ELSE g_type_sizes(g_cmd_code_types_flags[cmd])]

HeaderBytes(h) ==
  from_uint16(h.m_cmd) \o (IF h.m_sizeWidth = 2 THEN from_uint16(h.m_contentSize) ELSE <<>>)

setSize(h, size) == [h EXCEPT !.m_contentSize = size]

\* std::vector::resize
resize(s, n, filler) == [i \in 1 .. n |-> IF i <= Len(s) THEN s[i] ELSE filler]

\* Mutant: sizes are added up instead of set.
sanitizeByAdding(h, payload, filler) ==
  IF h.m_sizeWidth # 0
  THEN [header |-> setSize(h, h.m_contentSize + Len(payload)), payload |-> payload]
  ELSE [header |-> h, payload |-> resize(payload, h.m_contentSize, filler)]

\* The header is corrected, or the payload if its type fixes the size.
sanitizePayloadSizeByType(h, payload, filler) ==
  IF h.m_sizeWidth # 0
  THEN [header |-> setSize(h, Len(payload)), payload |-> payload]
  ELSE [header |-> h, payload |-> resize(payload, h.m_contentSize, filler)]

-----------------------------------------------------------------------------
(* DataEntry, AnonymousArray, DataSet, Packet *)

DataEntry(e) == [header |-> EntryHeader(e.cmd), m_data |-> e.m_data]

AnonymousArray(a) == [i \in DOMAIN a |-> DataEntry(a[i])]

DataSet(ds) ==
  [header |-> EntryHeader(ds.cmd),
   m_anonArrays |-> [i \in DOMAIN ds.m_anonArrays |-> AnonymousArray(ds.m_anonArrays[i])]]

Packet(h) == [header |-> h, m_entries |-> <<>>, m_dataSets |-> <<>>]

NewPackets == {Packet(h) : h \in {DefaultHeader} \cup {EntryHeader(c) : c \in PacketCodes}}

Turns(p) == Len(p.m_entries) + Len(p.m_dataSets)

\* What the objects hold for whoever uses them: codes and payloads.
EntriesSeen(es) == [i \in DOMAIN es |-> [cmd |-> es[i].header.m_cmd, m_data |-> es[i].m_data]]

DataSetSeen(ds) ==
  [cmd |-> ds.header.m_cmd,
   m_anonArrays |-> [i \in DOMAIN ds.m_anonArrays |-> EntriesSeen(ds.m_anonArrays[i])]]

Seen(p) ==
  [cmd        |-> p.header.m_cmd,
   m_entries  |-> EntriesSeen(p.m_entries),
   m_dataSets |-> [i \in DOMAIN p.m_dataSets |-> DataSetSeen(p.m_dataSets[i])]]

\* What build() leaves of an entry, an array, a data set and a packet.
SanitizedEntry(e) ==
  LET s == sanitizePayloadSizeByType(e.header, e.m_data, 0)
  IN  [header |-> s.header, m_data |-> s.payload]

SanitizedEntries(es) == [i \in DOMAIN es |-> SanitizedEntry(es[i])]

SanitizedArrays(s) == [i \in DOMAIN s |-> SanitizedEntries(s[i])]

SanitizedDataSet(ds) ==
  LET s == sanitizePayloadSizeByType(ds.header, ds.m_anonArrays, <<>>)
  IN  [header |-> s.header, m_anonArrays |-> SanitizedArrays(s.payload)]

SanitizedDataSets(dss) == [i \in DOMAIN dss |-> SanitizedDataSet(dss[i])]

SanitizedPacket(p) ==
  [header     |-> setSize(p.header, Turns(p)),
   m_entries  |-> SanitizedEntries(p.m_entries),
   m_dataSets |-> SanitizedDataSets(p.m_dataSets)]

SanitizedPackets(ps) == [k \in DOMAIN ps |-> SanitizedPacket(ps[k])]

-----------------------------------------------------------------------------
(* The bytes of corrected objects *)

EntryBytes(e) == HeaderBytes(e.header) \o e.m_data

EntriesBytes(es) == FlattenSeq([i \in DOMAIN es |-> EntryBytes(es[i])])

\* Mutant: an empty array is not written.
NonEmptyArrayBytes(a) ==
  IF a = <<>> THEN <<>> ELSE from_uint16(Len(a)) \o EntriesBytes(a)

ArrayBytes(a) == from_uint16(Len(a)) \o EntriesBytes(a)

DataSetBytes(ds) ==
  HeaderBytes(ds.header)
    \o FlattenSeq([i \in DOMAIN ds.m_anonArrays |-> ArrayBytes(ds.m_anonArrays[i])])

\* Entries first, then data sets, in whatever order they were appended.
PacketBytes(p) ==
  HeaderBytes(p.header) \o EntriesBytes(p.m_entries)
    \o FlattenSeq([i \in DOMAIN p.m_dataSets |-> DataSetBytes(p.m_dataSets[i])])

\* The size in front is that of the packets modulo Word.
FrameBytes(ps) ==
  LET payload == FlattenSeq([k \in DOMAIN ps |-> PacketBytes(ps[k])])
  IN  from_uint16(Len(payload)) \o payload

-----------------------------------------------------------------------------
\* Bound: the last packet is not filled, and the others share MaxTurns.
MayFill ==
  /\ Len(m_packets) < MaxPackets
  /\ FoldLeft(LAMBDA n, p : n + Turns(p), Turns(packet), m_packets) < MaxTurns

Init ==
  /\ packet \in NewPackets
  /\ m_packets = <<>>
  /\ wire = <<>>

appendEntry ==
  /\ MayFill
  /\ \E e \in Entries :
        packet' = [packet EXCEPT !.m_entries = Append(@, DataEntry(e))]
  /\ UNCHANGED <<m_packets, wire>>

appendDataSet ==
  /\ MayFill
  /\ \E ds \in DataSets :
        packet' = [packet EXCEPT !.m_dataSets = Append(@, DataSet(ds))]
  /\ UNCHANGED <<m_packets, wire>>

\* TcpPacket::appendPacket copies the packet; the program starts on another.
appendPacket ==
  /\ Len(m_packets) < MaxPackets
  /\ m_packets' = Append(m_packets, packet)
  /\ IF Len(m_packets') < MaxPackets THEN packet' \in NewPackets
     ELSE packet' = Packet(DefaultHeader)
  /\ wire' = <<>>

\* TcpPacket::build
build ==
  /\ m_packets' = SanitizedPackets(m_packets)
  /\ wire' = FrameBytes(m_packets')
  /\ UNCHANGED packet

Next == appendEntry \/ appendDataSet \/ appendPacket \/ build

Spec == Init /\ [][Next]_vars

-----------------------------------------------------------------------------
Headers ==
  [m_cmd : CMD_CODE, m_sizeWidth : {0, 2}, m_contentSize : Nat]

BuiltEntries == [header : Headers, m_data : Seq(Byte)]

BuiltArrays == Seq(BuiltEntries)

BuiltDataSets == [header : Headers, m_anonArrays : Seq(BuiltArrays)]

BuiltPackets ==
  [header : Headers, m_entries : Seq(BuiltEntries), m_dataSets : Seq(BuiltDataSets)]

\* What build() returns is bytes, and the objects keep their types: the width
\* of a size field is one the code can write (EntryHeader.cpp:112-119).
ObjectsOK ==
  /\ packet \in BuiltPackets
  /\ m_packets \in Seq(BuiltPackets)

TypeOK == ObjectsOK /\ wire \in Seq(Byte)

\* build() changes the sizes and payloads of the objects it is called on, but
\* only once: a frame built again is the same frame, until a packet is added.
RebuildsAlike == [][wire # <<>> => wire' \in {wire, <<>>}]_vars
=============================================================================
