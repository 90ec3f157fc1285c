SPECIFICATION WSpec
CONSTANTS
  g_cmd_code_types_flags <- CmdTypes
  BeyondTable <- NothingBehind
  Radix = 256
INVARIANT EntriesAsDocumented
CHECK_DEADLOCK FALSE
