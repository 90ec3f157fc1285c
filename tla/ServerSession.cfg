SPECIFICATION Spec
CONSTANTS
  Clients = {c1}
  MaxInbox = 2
  MaxWrites = 3
PROPERTY EveryMessageIsRead
CHECK_DEADLOCK FALSE
