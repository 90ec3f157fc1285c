-------------------------- MODULE DocumentedEntries --------------------------
(***************************************************************************)
(* The recorded request whose entries main.cpp lists one by one, read by   *)
(* DataEntry(it, end) behind the count, one entry after the other          *)
(* (DataEntry.cpp:35-40).  The count is passed over: see CountOnWire.      *)
(***************************************************************************)
EXTENDS WireRead, RecordedMessages, CmdCodeTypes

VARIABLES
  position,    \* the bytes behind the iterator
  m_entries    \* the entries read so far

walkVars == <<position, m_entries>>

\* The walk does not go beyond the table.
NothingBehind == [cmd \in 0 .. Word - 1 |-> NoType]

WInit == position = 6 /\ m_entries = <<>>

ReadEntry ==
  LET h == HeaderAt(AuthMessage, position)
      e == EntryAt(AuthMessage, h)
  IN  /\ position # Len(AuthMessage)
      /\ h.type \in ENUM_TYPE \ {DATA_SET}
      /\ m_entries' = Append(m_entries, e)
      /\ position' = h.next + Len(e.m_data)

WSpec == WInit /\ [][ReadEntry]_walkVars

\* Where main.cpp:303-316 has the end of the k-th entry.
DocumentedEnd ==
  LET end[k \in 0 .. Len(AuthEntries)] ==
        IF k = 0 THEN 6 ELSE end[k - 1] + 2 + AuthEntries[k].sizeWidth + AuthEntries[k].size
  IN  end

\* Every entry has the code and the length main.cpp:303-316 gives it, and ends
\* where the next one begins there.
EntriesAsDocumented ==
  /\ \A k \in DOMAIN m_entries :
        /\ k \in DOMAIN AuthEntries
        /\ m_entries[k].cmd = AuthEntries[k].cmd
        /\ Len(m_entries[k].m_data) = AuthEntries[k].size
  /\ position = DocumentedEnd[Len(m_entries)]
=============================================================================
