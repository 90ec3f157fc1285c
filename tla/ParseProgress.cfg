SPECIFICATION Spec
CONSTANTS
  g_cmd_code_types_flags <- MCTypes
  Codes = {0, 1, 4, 268, 2000}
  Counts = {0, 1, 2, 20}
  MaxBuffer = 12
  MaxPackets = 2
INVARIANT TypeOK
PROPERTIES PacketProgress TerminatesUnlessOneByteLeft OneByteSpins
           ImplementsConsumer
CHECK_DEADLOCK FALSE
