SPECIFICATION RSpec
CONSTANTS
  g_cmd_code_types_flags <- CmdTypes
  Radix = 256
  PacketCodes = {}
  Entries <- MCEntries
  DataSets <- MCDataSets
  MaxTurns = 14
  MaxPackets = 1
  CLIENT_MAX_BUFFER = 8192
  BehindTable <- MCBehindTable
INVARIANTS ResponsesReadBack NumbersSurvive SurvivesIffUncut NothingFromCutFrame
           OneHeartbeatPerRead RecordedRequestsMisread HolderSplitsAsDocumented
CHECK_DEADLOCK FALSE
