--------------------------- MODULE PacketReadBack ---------------------------
(***************************************************************************)
(* The packets one side builds and the parser of the other: what of them   *)
(* is read back, and which packets are made so that they can be.           *)
(***************************************************************************)
EXTENDS PacketBuild, WireRead

\* enum CMD_CODE : uint16_t
ASSUME CodesAssumption == CMD_CODE \subseteq 0 .. Word - 1

\* The payload's length fits the size field, if there is one.
SizeFits(h, n) == h.m_sizeWidth # 0 => n < Word

ReadableEntry(e) ==
  e.header.m_cmd # UNKNOWN /\ g_cmd_code_types_flags[e.header.m_cmd] # DATA_SET
    /\ e.m_data # <<>> /\ SizeFits(e.header, Len(e.m_data))

ReadableArray(a) ==
  /\ Len(a) < Word
  /\ \A i \in DOMAIN a : /\ g_cmd_code_types_flags[a[i].header.m_cmd] # DATA_SET
                         /\ SizeFits(a[i].header, Len(a[i].m_data))

ReadableDataSet(ds) ==
  /\ g_cmd_code_types_flags[ds.header.m_cmd] = DATA_SET
  /\ Len(ds.m_anonArrays) < Word
  /\ \A i \in DOMAIN ds.m_anonArrays : ReadableArray(ds.m_anonArrays[i])

\* The reader takes as many turns as there are, or finds the end before.
ReadableCount(p, last) ==
  IF Prefixed(p.header.m_cmd)
  THEN \/ p.header.m_sizeWidth # 0 /\ Turns(p) < Word
       \/ p.header.m_sizeWidth = 0 /\ Turns(p) = 0 /\ last
  ELSE LET size == g_type_sizes(g_cmd_code_types_flags[p.header.m_cmd])
       IN  Turns(p) = size \/ (Turns(p) < size /\ last)

Readable(ps) ==
  \A k \in DOMAIN ps :
    /\ ReadableCount(ps[k], k = Len(ps))
    /\ \A i \in DOMAIN ps[k].m_entries : ReadableEntry(ps[k].m_entries[i])
    /\ \A i \in DOMAIN ps[k].m_dataSets : ReadableDataSet(ps[k].m_dataSets[i])

\* The packets are readable, and their bytes are not a multiple of Word.
ReadableFrame == Readable(m_packets) /\ (Len(wire) - 2) % Word # 0

ReadBack ==
  Read(wire) = [status    |-> "parsed",
                m_packets |-> [k \in DOMAIN m_packets |-> Seen(m_packets[k])]]

-----------------------------------------------------------------------------
\* What one side builds out of readable packets (TcpPacket.cpp:55-67), the
\* constructors of the other (TcpPacket.cpp:24-39) parse into the same packets.
ReadBackIfReadable == wire # <<>> /\ ReadableFrame => ReadBack

\* Each of those conditions is needed: a count or a size beyond 16 bits, an
\* empty string, a payload or an array under a code of another kind always
\* loses something.  A packet without a command (Packet.cpp:7-10) is left
\* out: the count it lacks may be read from the packet behind it.
LostUnlessReadable ==
  wire # <<>> /\ (\A k \in DOMAIN m_packets : m_packets[k].header # [DefaultHeader EXCEPT
                                        !.m_contentSize = Turns(m_packets[k])])
    => (~ReadableFrame => ~ReadBack)

\* A part of a frame that is read before the rest has arrived (Client.cpp reads
\* whatever there is) gives no packets, not even those that are whole in it:
\* its size field (TcpPacket.cpp:55-67) promises more than there is, and it is
\* refused (TcpPacket.cpp:24-30).  A frame beyond 16 bits has no such field.
NothingFromPart ==
  wire # <<>> /\ Len(wire) - 2 < Word
    => \A n \in 0 .. Len(wire) - 1 :
         Read(SubSeq(wire, 1, n)) = [status |-> "refused", m_packets |-> <<>>]
=============================================================================
