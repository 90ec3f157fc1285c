--------------------------- MODULE ClientProcess ---------------------------
(***************************************************************************)
(* Client::m_processTcpPacket over the packets of one read: it takes them  *)
(* from TcpPacket::getNextPacket until an empty one comes, hands each to   *)
(* m_processPacket and collects the answers (Client.cpp, TcpPacket.cpp).   *)
(*                                                                         *)
(* It composes with the parser: the packets are those TcpPacketParse       *)
(* constructs from the same input, whole, short or cut.                    *)
(***************************************************************************)
EXTENDS TcpPacketParse

\* The table makes APPLICATION_VALUE a float.
ASSUME FloatAssumption ==
  APPLICATION_VALUE \in CMD_CODE /\ g_cmd_code_types_flags[APPLICATION_VALUE] = "TYPE_TCP_FLOAT"

VARIABLES
  stage,      \* of m_processTcpPacket
  position,   \* m_packetIter - m_packets.begin()
  handled,    \* history: positions of the packets given to m_processPacket
  response    \* the answers, as the positions of the packets answered

processVars == <<stage, position, handled, response>>

PInit ==
  /\ Init
  /\ stage = "looping"
  /\ position = 0
  /\ handled = {}
  /\ response = {}

Parse == Next /\ UNCHANGED processVars

-----------------------------------------------------------------------------
\* entriesCount and isEmpty look at the entries alone.
entriesCount(p) == Len(p.m_entries)

\* Mutant: a packet of one entry counts as empty.
isNearlyEmpty(p) == entriesCount(p) <= 1

isEmpty(p) == entriesCount(p) = 0

\* What getNextPacket returns with the iterator at pos, counted from 0.
PacketAt(pos) == IF pos < Len(m_packets) THEN m_packets[pos + 1] ELSE NoPacket

\* m_processPacket answers one kind of packet only.
Answers(p) == p.cmd = APPLICATION_VALUE /\ entriesCount(p) = 2

\* Mutant: the iterator is moved only when it is not yet at the last packet.
StayAtLast(pos) == IF pos + 1 < Len(m_packets) THEN pos + 1 ELSE pos

\* getNextPacket moves the iterator first and then looks.
Advance(pos) == pos + 1

\* One turn of the loop over getNextPacket.
ProcessNext ==
  /\ pc = "done" /\ stage = "looping"
  /\ m_packetIter = Begin
  /\ position' = Advance(position)
  /\ LET packetIn == PacketAt(position') IN
     \/ /\ isEmpty(packetIn)
        /\ stage' = "returned"
        /\ UNCHANGED <<handled, response>>
     \/ /\ ~isEmpty(packetIn)
        /\ handled' = handled \cup {position'}
        /\ response' = IF Answers(packetIn) THEN response \cup {position'} ELSE response
        /\ UNCHANGED stage
  /\ UNCHANGED vars

\* getNextPacket moves an iterator that was never assigned and reads through it.
CrashOnSingular ==
  /\ pc = "done" /\ stage = "looping"
  /\ m_packetIter = Singular
  /\ stage' = "crashed"
  /\ UNCHANGED <<position, handled, response>>
  /\ UNCHANGED vars

PNext == Parse \/ ProcessNext \/ CrashOnSingular

PVars == <<vars, processVars>>

\* Parsing and processing are one call after the other on one thread.
PSpec == PInit /\ [][PNext]_PVars /\ WF_PVars(PNext)
-----------------------------------------------------------------------------
(* Properties *)

PTypeOK ==
  /\ TypeOK
  /\ stage \in {"looping", "returned", "crashed"}
  /\ position \in Nat
  /\ handled \subseteq Nat /\ response \subseteq handled

\* The size field of the frame was found wanting, so nothing was parsed.
Refused == m_size = 0 \/ m_size > frameStart

\* A frame whose size field is zero, or more than the read delivered, crashes
\* the client; no other frame does.
CrashesOnRefusedFrame ==
  /\ stage = "crashed" => Refused
  /\ stage = "returned" => ~Refused

\* The parser takes a header of APPLICATION_VALUE for one without a count and
\* then expects four entries, and the answer to its version request is for
\* two: only packets that lack entries, or carry two data sets, are answered.
AnswersOnlyMisreadRequests ==
  \A k \in response :
    LET p == PacketAt(k) IN
      \/ IsShort(p) /\ k + 1 = Len(m_packets)
      \/ p.m_entryIter = Singular
      \/ Len(p.m_dataSets) = 2

\* What m_processTcpPacket leaves out: the first packet, and everything from the
\* next one on that has no entries - it may be one of data sets alone, or one cut
\* at its first entry - whatever the packets behind it hold (Client.cpp:173-182).
HandledUpToEmpty ==
  stage = "returned" =>
    \A k \in DOMAIN m_packets :
      k - 1 \in handled <=> k > 1 /\ \A j \in 2 .. k : m_packets[j].m_entries # <<>>

\* Once parsed, the packets are gone through, or the client crashes.
ProcessingEnds == (pc = "done") ~> (stage \in {"returned", "crashed"})

\* Every packet of the read that has entries is handled: the test of main.cpp
\* parses a frame of a single packet and asks for it with getNextPacket.
EveryPacketHandled ==
  stage = "returned" =>
    \A k \in DOMAIN m_packets :
      ~isEmpty(m_packets[k]) => k - 1 \in handled

-----------------------------------------------------------------------------
(* The inductive invariant, on top of the parser's.                        *)

\* The loop over packets was entered by frames that were not refused only.
FrameAccepted ==
  /\ pc \in Running \cup {"packets"} => ~Refused
  /\ pc = "done" => (m_packetIter = Begin <=> ~Refused)

\* A packet never holds more than its header promises, and that of an
\* APPLICATION_VALUE promises four.
Counted(p) ==
  /\ Turns(p) <= p.size
  /\ p.cmd = APPLICATION_VALUE => p.size = 4

PacketsCounted ==
  /\ \A k \in DOMAIN m_packets : Counted(m_packets[k])
  /\ pc \in Running => Counted(packet)
  /\ pc \in {"arrays", "array"} => Turns(packet) < packet.size

\* Processing starts when parsing is over, and goes where the iterator says.
ProcessingFollows ==
  /\ stage # "looping" \/ handled # {} => pc = "done"
  /\ stage = "crashed" => m_packetIter = Singular
  /\ stage = "returned" => m_packetIter = Begin
  /\ \A k \in response : k < Len(m_packets) /\ Answers(m_packets[k + 1])

\* The packets handled so far are those gone through, and none was empty.
WalkedSoFar ==
  stage = "looping" =>
    /\ handled = 1 .. position
    /\ \A j \in 2 .. position + 1 : j <= Len(m_packets) /\ m_packets[j].m_entries # <<>>

PInv == Inv /\ FrameAccepted /\ PacketsCounted /\ PTypeOK /\ ProcessingFollows
=============================================================================
