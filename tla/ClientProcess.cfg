SPECIFICATION PSpec
CONSTANTS
  g_cmd_code_types_flags <- MCTypes
  Codes = {0, 1, 59, 268}
  Counts = {0, 1, 2, 5, 20}
  MaxBuffer = 16
  MaxPackets = 8
INVARIANTS PTypeOK ShortPacketIsLast IteratorArmed EntriesBoundedByInput
           PacketsBoundedByInput CrashesOnRefusedFrame AnswersOnlyMisreadRequests
           HandledUpToEmpty
PROPERTY ProcessingEnds
CHECK_DEADLOCK FALSE
