CONSTANTS
  PAGE_TABLE_ENTRIES = 2
  PAGE_SIZE = 2
  FRAMES = 4
  COUNTER = 6
  Byte = {0, 1}
  Address = {0, 1, 3, 4, 7}
  NULL = NULL
SPECIFICATION Spec
INVARIANT ReportedTableSize
CHECK_DEADLOCK FALSE
