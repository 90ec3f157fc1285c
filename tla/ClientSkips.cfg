SPECIFICATION PSpec
CONSTANTS
  g_cmd_code_types_flags <- MCTypes
  Codes = {0, 1}
  Counts = {0, 1, 5}
  MaxBuffer = 9
  MaxPackets = 5
INVARIANT EveryPacketHandled
CHECK_DEADLOCK FALSE
