------------------------------ MODULE WireRead ------------------------------
(***************************************************************************)
(* What TcpPacket(start, end) makes of the bytes w, as a function of them  *)
(* (TcpPacket.cpp, Packet.cpp, DataSet.cpp, AnonymousArray.cpp,            *)
(* DataEntry.cpp).  TcpPacketParse has the same parser step by step, for   *)
(* arbitrary bytes; here they are known.                                   *)
(*                                                                         *)
(* Everything is read behind the first i bytes and says how many bytes are *)
(* behind it: `next', or Lost if an exception is thrown or the parser does *)
(* not come to an end.                                                     *)
(***************************************************************************)
EXTENDS ValueConverter

\* What the lookup of a code finds that is not in g_cmd_code_types_flags: the
\* memory behind the table is read as one of its rows.  NoType is a value that
\* is no type; it also stands for a crash in dbg_print, which looks the code up
\* in g_cmd_code_text.
CONSTANT BeyondTable

ASSUME BeyondAssumption == BeyondTable \in [0 .. Word - 1 -> ENUM_TYPE \cup {NoType}]

Lost == -1

\* What is behind a command: its size, if it has one.
TypedHeader(w, cmd, type, j) ==
  [cmd  |-> cmd,
   type |-> type,
   size |-> IF type \in PrefixedTypes THEN uint16At(w, j) ELSE g_type_sizes(type),
   next |-> IF type \in PrefixedTypes THEN after16(w, j) ELSE j]

\* Mutant: APPLICATION_VALUE has a count.
HeaderWithCount(w, i) ==
  LET cmd == uint16At(w, i)
  IN  TypedHeader(w, cmd, IF cmd = APPLICATION_VALUE THEN "TYPE_TCP_WCHAR_STR"
                          ELSE IF cmd \in CMD_CODE THEN g_cmd_code_types_flags[cmd]
                          ELSE BeyondTable[cmd],
                  after16(w, i))

\* EntryHeader(it, end)
HeaderAt(w, i) ==
  LET cmd == uint16At(w, i)
  IN  TypedHeader(w, cmd, IF cmd \in CMD_CODE THEN g_cmd_code_types_flags[cmd]
                          ELSE BeyondTable[cmd],
                  after16(w, i))

\* DataEntry::m_parse
EntryAt(w, h) ==
  [cmd    |-> h.cmd,
   m_data |-> IF isEnoughAt(w, h.next, h.size) THEN SubSeq(w, h.next + 1, h.next + h.size)
              ELSE <<>>]

\* Mutant: an entry needs no payload.
isKnown(e) == e.cmd # UNKNOWN

isValid(e) == e.cmd # UNKNOWN /\ e.m_data # <<>>

(***************************************************************************)
(* The loops.  A turn changes what has been read and the place where the   *)
(* next one reads; once that place is Lost no turn is made any more.       *)
(***************************************************************************)

\* AnonymousArray's constructor
WithArrayEntry(w, s, h) ==
  LET e == EntryAt(w, h)
  IN  IF h.type = NoType \/ (h.type = DATA_SET /\ isEnoughAt(w, h.next, h.size))
      THEN [s EXCEPT !.next = Lost]
      ELSE [m_entries |-> Append(s.m_entries, e), next |-> h.next + Len(e.m_data)]

EntriesTurn(w, s) ==
  IF s.next = Lost THEN s ELSE WithArrayEntry(w, s, HeaderAt(w, s.next))

ReadEntries(w, i, n) ==
  LET read[k \in 0 .. n] ==
        IF k = 0 THEN [m_entries |-> <<>>, next |-> i] ELSE EntriesTurn(w, read[k - 1])
  IN  read[n]

ReadArray(w, i) ==
  LET count == uint16At(w, i)
      j     == after16(w, i)
  IN  ReadEntries(w, j, IF count > Len(w) - j THEN 0 ELSE count)

\* DataSet::m_parse
WithArray(s, a) ==
  [m_anonArrays |-> Append(s.m_anonArrays, a.m_entries), next |-> a.next]

ArraysTurn(w, s) == IF s.next = Lost THEN s ELSE WithArray(s, ReadArray(w, s.next))

\* A turn takes a count or a command at least, if there is one: of more turns
\* than these the last find nothing to read.
TurnsIn(w, i) == (Len(w) - i) \div 2 + 1

\* The loop does not look at the end.  Once there is nothing to read, not even a
\* count, every turn that is left stores an empty array.
NothingLeft(w, s) == s.next = Lost \/ s.next + 1 >= Len(w)

WithEmptyArrays(s, n) ==
  IF s.next = Lost THEN s ELSE [s EXCEPT !.m_anonArrays = @ \o [k \in 1 .. n |-> <<>>]]

ReadArrays(w, i, n) ==
  LET read[k \in 0 .. n] ==
        IF k = 0 THEN [m_anonArrays |-> <<>>, next |-> i] ELSE ArraysTurn(w, read[k - 1])
      last == IF n <= TurnsIn(w, i) THEN n
              ELSE CHOOSE k \in 0 .. n : k = n \/ NothingLeft(w, read[k])
  IN  WithEmptyArrays(read[last], n - last)

\* Packet::m_parse.  No turn is made at the end, nor behind an invalid entry.
WithDataSet(s, h, ds) ==
  [s EXCEPT !.next = ds.next,
     !.m_dataSets = Append(@, [cmd |-> h.cmd, m_anonArrays |-> ds.m_anonArrays])]

WithEntry(s, h, e) ==
  [s EXCEPT !.next = h.next + Len(e.m_data),
     !.m_entries = IF isValid(e) THEN Append(@, e) ELSE @,
     !.returned = ~isValid(e)]

Stopped(w, s) == s.returned \/ s.next \in {Lost, Len(w)}

PacketTurn(w, s) ==
  IF Stopped(w, s) THEN s
  ELSE LET h == HeaderAt(w, s.next) IN
       IF h.type = NoType THEN [s EXCEPT !.next = Lost]
       ELSE IF h.type = DATA_SET THEN WithDataSet(s, h, ReadArrays(w, h.next, h.size))
       ELSE WithEntry(s, h, EntryAt(w, h))

ReadTurns(w, i, n) ==
  LET turns == IF n > TurnsIn(w, i) THEN TurnsIn(w, i) ELSE n
      read[k \in 0 .. turns] ==
        IF k = 0 THEN [m_entries |-> <<>>, m_dataSets |-> <<>>, next |-> i, returned |-> FALSE]
        ELSE PacketTurn(w, read[k - 1])
      last == IF n <= TurnsIn(w, i) THEN n
              ELSE CHOOSE k \in 0 .. turns : k = turns \/ Stopped(w, read[k])
  IN  read[last]

\* TcpPacket::m_parse.  One byte left is never consumed.
WithPacket(s, h, p) ==
  [m_packets |-> Append(s.m_packets, [cmd        |-> h.cmd,
                                      m_entries  |-> p.m_entries,
                                      m_dataSets |-> p.m_dataSets]),
   next |-> p.next]

FrameTurn(w, s) ==
  IF s.next \in {Lost, Len(w)} THEN s
  ELSE LET h == HeaderAt(w, s.next) IN
       IF s.next + 1 = Len(w) \/ h.type = NoType THEN [s EXCEPT !.next = Lost]
       ELSE WithPacket(s, h, ReadTurns(w, h.next, h.size))

\* The loop is left at the end, or by an exception.
AllRead(w, i, read) ==
  LET s == read[CHOOSE k \in 0 .. TurnsIn(w, i) : read[k].next \in {Lost, Len(w)}]
  IN  IF s.next = Lost THEN [status |-> "lost", m_packets |-> <<>>]
      ELSE [status |-> "parsed", m_packets |-> s.m_packets]

ReadPackets(w, i) ==
  LET read[k \in 0 .. TurnsIn(w, i)] ==
        IF k = 0 THEN [m_packets |-> <<>>, next |-> i] ELSE FrameTurn(w, read[k - 1])
  IN  AllRead(w, i, read)

\* Mutants: the size field is not compared with what is there; it is, but only
\* a frame with no packet in it is refused; it is not skipped.
ReadOnTrust(w) == ReadPackets(w, after16(w, 0))
ReadWholePackets(w) ==
  IF uint16At(w, 0) = 0 \/ (/\ uint16At(w, 0) > Len(w) - after16(w, 0)
                            /\ ReadPackets(w, after16(w, 0)).m_packets = <<>>)
  THEN [status |-> "refused", m_packets |-> <<>>]
  ELSE ReadPackets(w, after16(w, 0))
ReadFromSize(w) ==
  IF uint16At(w, 0) = 0 \/ uint16At(w, 0) > Len(w) - after16(w, 0)
  THEN [status |-> "refused", m_packets |-> <<>>]
  ELSE ReadPackets(w, 0)

Read(w) ==
  LET m_size == uint16At(w, 0) IN
  IF m_size = 0 \/ m_size > Len(w) - after16(w, 0)
  THEN [status |-> "refused", m_packets |-> <<>>]
  ELSE ReadPackets(w, after16(w, 0))
=============================================================================
