SPECIFICATION Spec
CONSTANTS
  MaxEntries = 3
  MaxPackets = 2
  MaxStorages = 8
INVARIANTS TypeOK FrameCopiesUnwalkable FirstEntryNeverWalked WalkDefinedUntilNothing
CHECK_DEADLOCK FALSE
