--------------------------- MODULE MCPacketBuild ---------------------------
(***************************************************************************)
(* Values for model checking PacketReadBack.                               *)
(***************************************************************************)
EXTENDS PacketReadBack

\* A byte of two values: a 16-bit field holds 0 .. 3.
MCTypes == [c \in 0 .. 3 |-> CASE c = 1 -> "TYPE_TCP_UINT8"
                               [] c = 3 -> DATA_SET
                               [] OTHER -> "TYPE_TCP_WCHAR_STR"]

MCEntry(c, d) == [cmd |-> c, m_data |-> d]

MCEntries ==
  {MCEntry(1, <<>>), MCEntry(2, <<>>), MCEntry(2, <<1, 1, 0, 1>>), MCEntry(0, <<1>>),
   MCEntry(3, <<1>>)}

MCDataSets ==
  {[cmd |-> 3, m_anonArrays |-> as] :
     as \in {<< >>, << <<>>, <<>>, <<>>, <<>> >>,
             << <<>>, <<MCEntry(0, <<>>), MCEntry(2, <<1>>)>> >>,
             << [i \in 1 .. 4 |-> MCEntry(1, <<0>>)] >>,
             << <<MCEntry(3, <<>>)>> >>}}
    \cup {[cmd |-> 1, m_anonArrays |-> << <<MCEntry(1, <<1>>)>>, <<>> >>]}

\* Where a word has more values than the table has rows, the others find a
\* string, a number or no type behind it.
MCBeyondTable ==
  [c \in 0 .. Word - 1 |-> CASE c % 3 = 0 -> "TYPE_TCP_WCHAR_STR"
                             [] c % 3 = 1 -> "TYPE_TCP_UINT8"
                             [] OTHER     -> NoType]

-----------------------------------------------------------------------------
(* server_response_version (Client.cpp:64-70), with the codes of the table. *)

VersionTypes == [c \in {UNKNOWN, APPLICATION_VALUE, 1139, 1334} |->
                   CASE c = UNKNOWN           -> "TYPE_TCP_WCHAR_STR"
                     [] c = APPLICATION_VALUE -> "TYPE_TCP_FLOAT"
                     [] c = 1139              -> "TYPE_TCP_UUID_16_BYTES"
                     [] c = 1334              -> "TYPE_TCP_UINT32"]

VersionEntries == {MCEntry(1334, <<1, 0, 5, 1>>), MCEntry(1139, [i \in 1 .. 16 |-> i])}

\* A command is followed by the count of the packet's entries, as main.cpp
\* 319-325 has it: "3B 00 - cmd entries count", then "01 00 - count of
\* entries".
CountFollowsCommand ==
  wire # <<>> /\ m_packets # <<>> /\ m_packets[1].m_entries # <<>>
    /\ m_packets[1].header.m_cmd = APPLICATION_VALUE
    => SubSeq(wire, 5, 6) = from_uint16(Turns(m_packets[1]))

=============================================================================
