CONSTANTS
  Bytes <- MCBytes
  HoleWait = 1
  SnHoleTimeout = 2
  AbnormalGap = 2
  MaxAge = 2
SPECIFICATION Spec
INVARIANTS TypeOK NoByteForgotten TriedOnce NoFalseHole
CHECK_DEADLOCK FALSE
