-------------------------- MODULE MCMessageReplay --------------------------
(***************************************************************************)
(* Values for model checking MessageReplay, and its properties: what comes *)
(* of the messages of this repository when they meet its own parser.       *)
(***************************************************************************)
EXTENDS MessageReplay, CmdCodeTypes, DataTypesHolder

\* What the programs append.
Calls == UNION {Range(Programs[name].calls) : name \in DOMAIN Programs}

Plain(e) == [cmd |-> e.cmd, m_data |-> e.m_data]

MCEntries == {Plain(c.entry) : c \in {d \in Calls : d.op = "appendEntry"}}

MCDataSets ==
  {[cmd |-> c.cmd,
    m_anonArrays |-> [i \in DOMAIN c.m_anonArrays |->
                        [j \in DOMAIN c.m_anonArrays[i] |-> Plain(c.m_anonArrays[i][j])]]] :
     c \in {d \in Calls : d.op = "appendDataSet"}}

\* Memory behind the table, as a type of every size, a string, a data set and
\* what is no type.
MCBehindTable ==
  {"TYPE_TCP_UINT8", "TYPE_TCP_UINT16", "TYPE_TCP_UINT32", "TYPE_TCP_UINT64",
   "TYPE_TCP_UUID_16_BYTES", "TYPE_TCP_WCHAR_STR", DATA_SET, NoType}

-----------------------------------------------------------------------------
\* The programs whose frames the parser reads, and what it reads of the rest.
ReadablePrograms == {"server_response_version", "testNestedDataSetBuilding"}

ReadableMessages == ReadablePrograms \cup 
  {"NestedCapture", "Heartbeats", "CaptureAndHeartbeats"}

RecordedRequests == {"AuthMessage", "VersionMessage", "GuidMessage"}

Built == calls = <<>> /\ message \in DOMAIN Programs

\* The packets a program has filled: those of its frame, or its one packet.
Filled == IF m_packets = <<>> THEN <<packet>> ELSE m_packets

\* Of the functions that fill packets, the parser reads back what two have
\* filled (Client.cpp:64-70, main.cpp:85-250), and of the others something
\* else or nothing, whatever is behind the table: they leave out the frame or
\* the packet (Client.cpp:61), or append a string under the code of a data set
\* (Client.cpp:108).
ResponsesReadBack ==
  Built => (With(behind)!Read(wire).m_packets
              = [k \in DOMAIN Filled |-> Seen(Filled[k])]
            <=> message \in ReadablePrograms)

\* The constructor a number is appended with (DataEntry.cpp:60-88) fits the
\* type its code has in the table: build() cuts nothing off, and the getters
\* of the entry that is read back give the same number.
NumbersSurvive ==
  Built /\ message \in ReadablePrograms =>
    LET p == With(behind)!Read(wire).m_packets[1]
        Survives(e, es) == \E r \in Range(es) : r.cmd = e.cmd
                              /\ (e.width # 0 => to_uint(r.m_data, e.width) = e.value)
                              /\ Len(r.m_data) = Len(e.m_data)
    IN  \A call \in Range(Programs[message].calls) :
          /\ call.op = "appendEntry" => Survives(call.entry, p.m_entries)
          /\ call.op = "appendDataSet" =>
               \E ds \in Range(p.m_dataSets) :
                  \A i \in DOMAIN call.m_anonArrays : \A j \in DOMAIN call.m_anonArrays[i] :
                     Survives(call.m_anonArrays[i][j], ds.m_anonArrays[i])

-----------------------------------------------------------------------------
\* A client survives a message if and only if every read of it ends with a
\* frame: nothing puts together what TCP has delivered in parts
\* (Client.cpp:191-205), and what is left of a frame is taken for a frame.
SurvivesIffUncut ==
  message \in ReadableMessages /\ calls = <<>> =>
    /\ ~Alive => ~(cuts \subseteq FrameEnds)
    /\ Alive /\ taken = Len(sent) => cuts \subseteq FrameEnds

\* No packet is handed on from the beginning of a frame whose end has not
\* arrived (TcpPacket.cpp:27-33), whatever message it belongs to.
NothingFromCutFrame ==
  taken > 0 /\ frames # <<>> /\ message \in ReadableMessages \cup RecordedRequests
    /\ Cardinality(cuts) = 1 /\ taken < Len(frames[1])
    => outcome.cmds = <<>>

\* Of several heartbeats that arrive in one read, as they did in the recorded
\* session (main.cpp:340-372), one is handed on: the parser goes on behind the
\* first frame without looking for the size of the next (TcpPacket.cpp:33-38).
OneHeartbeatPerRead ==
  message = "Heartbeats" /\ taken > 0 /\ cuts \subseteq FrameEnds =>
    Cardinality({k \in DOMAIN outcome.cmds : outcome.cmds[k] = BUFF_COUNT}) = 1

\* The first entry of each recorded request, as main.cpp takes it apart
\* (303-304, 324-325, 332-333): SESSION_GUID, VERSION, SESSION_GUID.
FirstEntry ==
  LET guid == <<72, 71, 70, 69, 68, 67, 66, 65, 86, 85, 84, 83, 82, 81, 80, 73>>
  IN  [AuthMessage    |-> Plain(Bytes(SESSION_GUID, guid)),
       VersionMessage |-> Plain(Bytes(VERSION, <<1, 0, 5, 1>>)),
       GuidMessage    |-> Plain(Bytes(SESSION_GUID, guid))]

\* None of the requests that main.cpp has from a recorded session (298-333) is
\* understood, even if it arrives whole: the parser stops or finds packets of
\* its own in the bytes, but whatever is behind the table, the entry the notes
\* begin with is in none of them.
RecordedRequestsMisread ==
  message \in RecordedRequests =>
    \A k \in DOMAIN With(behind)!Read(sent).m_packets :
       FirstEntry[message] \notin Range(With(behind)!Read(sent).m_packets[k].m_entries)

\* The table nobody reads types by is the one that agrees with the recorded
\* request: it splits its bytes as the comment does (main.cpp:300-316).
HolderSplitsAsDocumented ==
  message = "AuthMessage" =>
    LET WidthAt(i)   == IF get(uint16At(sent, i)).m_type = DYNAMIC
                        THEN get(uint16At(sent, i)).m_staticSize ELSE 0
        SizeAt(i)    == IF WidthAt(i) = 0 THEN get(uint16At(sent, i)).m_staticSize
                        ELSE to_uint(SubSeq(sent, i + 3, i + 2 + WidthAt(i)), WidthAt(i))
        next[k \in 0 .. Len(AuthEntries)] ==
          IF k = 0 THEN 6 ELSE next[k - 1] + 2 + WidthAt(next[k - 1]) + SizeAt(next[k - 1])
    IN  /\ \A k \in DOMAIN AuthEntries :
             AuthEntries[k] = [cmd       |-> uint16At(sent, next[k - 1]),
                               sizeWidth |-> WidthAt(next[k - 1]),
                               size      |-> SizeAt(next[k - 1])]
        /\ next[Len(AuthEntries)] = Len(sent)
=============================================================================
