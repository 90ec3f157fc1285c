SPECIFICATION Spec
CONSTANTS
  g_cmd_code_types_flags <- MCTypes
  BeyondTable <- MCBeyondTable
  Radix = 2
  PacketCodes = {1, 3}
  Entries <- MCEntries
  DataSets <- MCDataSets
  MaxTurns = 4
  MaxPackets = 2
INVARIANTS TypeOK ReadBackIfReadable LostUnlessReadable
PROPERTY RebuildsAlike
CHECK_DEADLOCK FALSE
