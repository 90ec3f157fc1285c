SPECIFICATION Spec
CONSTANTS
  Clients = {c1, c2, c3}
  MaxInbox = 2
  MaxWrites = 3
INVARIANTS TypeOK BufferHasOneOwner WritesNeverComplete
PROPERTIES DropsOnlyWhoHungUp AcceptedUnlessCaptured ReleasedUnlessCaptured AnyInputIsFatal
CHECK_DEADLOCK FALSE
