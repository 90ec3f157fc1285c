-------------------------- MODULE ResponsePrograms --------------------------
(***************************************************************************)
(* The functions that fill packets (Client.cpp, and the tests in           *)
(* main.cpp), each as the sequence of the calls it makes.                  *)
(***************************************************************************)
EXTENDS ValueConverter, CmdCodes

-----------------------------------------------------------------------------
(* Calls.  A number keeps its value next to its bytes. *)

Bytes(cmd, m_data) == [cmd |-> cmd, m_data |-> m_data, width |-> 0, value |-> 0]
Number(cmd, byte_width, v) ==
  [cmd |-> cmd, m_data |-> from_uint_to_vector(v, byte_width), width |-> byte_width, value |-> v]
uint32(cmd, v)  == Number(cmd, 4, v)
uint64(cmd, v)  == Number(cmd, 8, v)
bool(cmd, v)    == Number(cmd, 1, IF v THEN 1 ELSE 0)
double(cmd, v)  == Bytes(cmd, from_double(v))

\* A string of n characters, of which only the number matters.
Text(n) == [i \in 1 .. n |-> 65]

appendingEntries(es) == [i \in DOMAIN es |-> [op |-> "appendEntry", entry |-> es[i]]]
appendingDataSet(cmd, pairs) ==
  <<[op |-> "appendDataSet", cmd |-> cmd, m_anonArrays |-> pairs]>>

\* The packet goes into a TcpPacket and that is built; or the packet alone is.
framed   == <<[op |-> "appendPacket"], [op |-> "TcpPacket::build"]>>
unframed == <<[op |-> "Packet::build"]>>

-----------------------------------------------------------------------------
session_guid == <<64, 65, 66, 67, 68, 69, 70, 71, 72, 73, 80, 81, 82, 83, 84, 85>>

\* A packet without a command: Packet().
NoCommand == -1

server_response_version ==
  [cmd |-> APPLICATION_VALUE,
   calls |-> appendingEntries(<<Bytes(VERSION, <<1, 0, 5, 1>>),
                                Bytes(SESSION_GUID, session_guid)>>) \o framed]

get_finish_login ==
  [cmd |-> NoCommand,
   calls |-> appendingEntries(<<bool(SUCCESS, TRUE), Bytes(SESSION_GUID, session_guid)>>)
               \o unframed]

get_banned_until ==
  [cmd |-> NoCommand,
   calls |-> appendingEntries(<<double(BANNED_UNTIL_DATETIME, 0), Bytes(TEXT_VALUE, Text(16))>>)
               \o unframed]

\* The entries both functions about APPLY_ON_INTERVAL_FLAG begin with.
IntervalEntries ==
  <<uint32(PLAYER_ID, 1521365),       uint64(NET_ACCESS_FLAGS, 33551352),
    Bytes(DISPLAY_EULA_FLAG, <<110>>), Bytes(PLAYER_NAME, Text(13)),
    bool(SUCCESS, TRUE),              uint32(MSG_ID, 18761),
    uint64(BANNED_UNTIL_DATETIME, 0), Bytes(SESSION_GUID, session_guid),
    uint32(CONNECTION_HANDLE, 4480),  uint32(GAME_BITS, 15),
    uint32(AFK_TIMEOUT_SEC, 900),     Bytes(TEXT_VALUE, <<102, 53>>)>>

\* The code of a data set on a string.  The packets the function makes behind
\* that go into a TcpPacket of its own, which dies when it returns.
server_response_apply_on_interval_flag ==
  [cmd |-> APPLY_ON_INTERVAL_FLAG,
   calls |-> appendingEntries(Append(IntervalEntries, Bytes(CODE_DATA_SET, <<102, 53>>)))
               \o framed]

SysSites == <<<<1, 41583>>, <<2, 41483>>, <<4, 53164>>>>

MapConfigs ==
  <<<<1131, 43925>>, <<1171, 50819>>, <<1369, 52695>>, <<1439, 64636>>,
    <<1287, 35942>>, <<1112, 34477>>, <<1304, 36824>>, <<795, 33843>>,
    <<1272, 34206>>, <<1445, 64890>>, <<1245, 33851>>, <<1417, 60144>>,
    <<1373, 55501>>, <<1205, 36025>>, <<1291, 36021>>, <<1307, 37050>>,
    <<1372, 52820>>, <<1303, 36815>>, <<1227, 33849>>, <<1295, 40458>>,
    <<1438, 64339>>, <<1308, 37052>>, <<1419, 60172>>, <<1224, 33847>>,
    <<1243, 33848>>, <<1270, 34189>>, <<963, 33844>>, <<1241, 33845>>,
    <<1246, 33846>>, <<1450, 65001>>>>

testNestedDataSetBuilding ==
  LET site(p) == <<uint32(SYS_SITE_ID, p[1]), uint32(NAME_MSG_ID, p[2])>>
      game(p) == <<uint32(MAP_GAME_ID, p[1]), uint32(FRIENDLY_NAME_MSG_ID, p[2])>>
  IN  [cmd |-> APPLY_ON_INTERVAL_FLAG,
       calls |-> appendingEntries(IntervalEntries)
         \o appendingDataSet(CODE_DATA_SET, [i \in DOMAIN SysSites |-> site(SysSites[i])])
         \o appendingDataSet(DATA_SET_MAP_CONFIGS,
                             [i \in DOMAIN MapConfigs |-> game(MapConfigs[i])])
         \o framed]

test_build_packet ==
  [cmd |-> NoCommand,
   calls |-> appendingEntries(<<Bytes(SESSION_GUID, session_guid)>>) \o unframed]

\* What the read handler writes in every turn: no packet was appended.
emptyResponse == [cmd |-> NoCommand, calls |-> <<[op |-> "TcpPacket::build"]>>]
=============================================================================
