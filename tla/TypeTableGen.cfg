SPECIFICATION Spec
CONSTANTS
  Files <- MCFiles
  STRING_NAME_SIZE = 2
  Radix = 256
INVARIANTS OneRowTooMany RowsAreRecords LastRowNameless GeneratedAsCommitted
CHECK_DEADLOCK FALSE
