SPECIFICATION Spec
CONSTANTS
  g_cmd_code_types_flags <- MCTypes
  Codes = {1, 4}
  Counts = {0, 1, 4}
  MaxBuffer = 10
  MaxPackets = 3
INVARIANT FrameHonoured
CHECK_DEADLOCK FALSE
