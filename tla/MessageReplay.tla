--------------------------- MODULE MessageReplay ---------------------------
(***************************************************************************)
(* The messages this repository knows, with the table of command codes as  *)
(* it stands and bytes of 256 values: those its own functions build        *)
(* (ResponsePrograms) and those its notes record (RecordedMessages).       *)
(*                                                                         *)
(* A message is built call by call, or is there from the start.  Its bytes *)
(* then travel over a TCP connection, which keeps their order and nothing  *)
(* else: each read delivers what has arrived.  TcpPacket(start, end) is    *)
(* constructed from the bytes of one read and knows nothing of the others. *)
(*                                                                         *)
(* What the receiver does is what m_read is written for: the construction  *)
(* and the processing that Client.cpp has in a comment (211-212) are taken *)
(* for enabled, and the loop around them for done after one turn.          *)
(*                                                                         *)
(* What lies in memory behind the table of types is not the program's to   *)
(* say: it is chosen once, and every code behind the table finds the same. *)
(***************************************************************************)
EXTENDS PacketBuild, ResponsePrograms, RecordedMessages

CONSTANTS
  CLIENT_MAX_BUFFER,    \* the bytes one read delivers at most
  BehindTable           \* bound: the types that are found behind the table

ASSUME ReplayAssumption ==
  CLIENT_MAX_BUFFER \in Nat /\ BehindTable \subseteq ENUM_TYPE \cup {NoType}

VARIABLES
  behind,     \* the type that every code behind the table finds
  message,    \* the name of the message
  calls,      \* the calls its program has still to make
  frames,     \* the frames that are sent
  taken,      \* the bytes the receiver has read
  cuts,       \* history: where its reads ended
  outcome     \* what the parser made of the last read

replayVars ==
  <<packet, m_packets, wire, behind, message, calls, frames, taken, cuts, outcome>>

\* The reader, with type behind the table.
With(type) == INSTANCE WireRead WITH BeyondTable <- [cmd \in 0 .. Word - 1 |-> type]

Programs ==
  [server_response_version   |-> server_response_version,
   get_finish_login          |-> get_finish_login,
   get_banned_until          |-> get_banned_until,
   server_response_apply_on_interval_flag |-> server_response_apply_on_interval_flag,
   testNestedDataSetBuilding |-> testNestedDataSetBuilding,
   test_build_packet         |-> test_build_packet,
   emptyResponse             |-> emptyResponse]

\* Four heartbeats, as the first two reads of the recorded session have them,
\* and two behind the largest capture.
Recorded ==
  [NestedCapture  |-> <<NestedCapture>>,
   AuthMessage    |-> <<AuthMessage>>,
   VersionMessage |-> <<VersionMessage>>,
   GuidMessage    |-> <<GuidMessage>>,
   Heartbeats     |-> [i \in 1 .. 4 |-> Heartbeat],
   CaptureAndHeartbeats |-> <<NestedCapture, Heartbeat, Heartbeat>>]

sent == FlattenSeq(frames)

\* Where a frame ends in what is sent.
FrameEnds == {Len(FlattenSeq(SubSeq(frames, 1, k))) : k \in 1 .. Len(frames)}

NothingRead == [status |-> "none", cmds |-> <<>>]

-----------------------------------------------------------------------------
StartProgram(name) ==
  /\ message = name
  /\ packet = Packet(IF Programs[name].cmd = NoCommand THEN DefaultHeader
                     ELSE EntryHeader(Programs[name].cmd))
  /\ calls = Programs[name].calls
  /\ frames = <<>>

StartRecorded(name) ==
  /\ message = name
  /\ packet = Packet(DefaultHeader)
  /\ calls = <<>>
  /\ frames = Recorded[name]

RInit ==
  /\ m_packets = <<>> /\ wire = <<>>
  /\ behind \in BehindTable
  /\ taken = 0 /\ cuts = {} /\ outcome = NothingRead
  /\ \/ \E name \in DOMAIN Programs : StartProgram(name)
     \/ \E name \in DOMAIN Recorded : StartRecorded(name)

-----------------------------------------------------------------------------
(* Building *)

Appended(e) == DataEntry([cmd |-> e.cmd, m_data |-> e.m_data])

AppendedArrays(as) == [i \in DOMAIN as |-> [j \in DOMAIN as[i] |-> Appended(as[i][j])]]

\* Packet::build: the packet is corrected, and no size is put in front.
buildPacket ==
  /\ packet' = SanitizedPacket(packet)
  /\ wire' = PacketBytes(packet')
  /\ UNCHANGED m_packets

Perform(call) ==
  \/ /\ call.op = "appendEntry"
     /\ appendEntry
     /\ Last(packet'.m_entries) = Appended(call.entry)
  \/ /\ call.op = "appendDataSet"
     /\ appendDataSet
     /\ Last(packet'.m_dataSets).header.m_cmd = call.cmd
     /\ Last(packet'.m_dataSets).m_anonArrays = AppendedArrays(call.m_anonArrays)
  \/ call.op = "appendPacket" /\ appendPacket
  \/ call.op = "TcpPacket::build" /\ build
  \/ call.op = "Packet::build" /\ buildPacket

\* The next call of the program.  What the last one returns is sent.
Call ==
  /\ calls # <<>>
  /\ Perform(Head(calls))
  /\ calls' = Tail(calls)
  /\ frames' = IF calls' = <<>> THEN <<wire'>> ELSE <<>>
  /\ UNCHANGED <<behind, message, taken, cuts, outcome>>

-----------------------------------------------------------------------------
(* Reading *)

\* m_processTcpPacket returns and the next read is issued only if the parser
\* returned with packets: see CrashesOnRefusedFrame and OneByteSpins.
Alive == outcome.status \in {"none", "parsed"}

ResultOf(r) ==
  [status |-> r.status, cmds |-> [k \in DOMAIN r.m_packets |-> r.m_packets[k].cmd]]

ReadHandler ==
  /\ calls = <<>> /\ Alive
  /\ \E n \in 1 .. Len(sent) - taken :
        /\ n <= CLIENT_MAX_BUFFER
        /\ taken' = taken + n
        /\ outcome' = ResultOf(With(behind)!Read(SubSeq(sent, taken + 1, taken + n)))
  /\ cuts' = cuts \cup {taken'}
  /\ UNCHANGED <<packet, m_packets, wire, behind, message, calls, frames>>

RNext == Call \/ ReadHandler

RSpec == RInit /\ [][RNext]_replayVars
=============================================================================
