SPECIFICATION Spec
CONSTANTS
  g_cmd_code_types_flags <- VersionTypes
  BeyondTable <- MCBeyondTable
  Radix = 256
  PacketCodes = {59}
  Entries <- VersionEntries
  DataSets = {}
  MaxTurns = 2
  MaxPackets = 1
INVARIANT CountFollowsCommand
CHECK_DEADLOCK FALSE
