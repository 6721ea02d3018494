CONSTANTS
  Names = {s}
  BlockLen = 5
  SegNum = 2
  MaxBlocks = 2
  MaxLen = 2
  First = 3
  Limit = 12
SPECIFICATION Spec
INVARIANTS CacheSound ValidIsWritten ReadIsPrefix
PROPERTY KeepsValid
CHECK_DEADLOCK FALSE
