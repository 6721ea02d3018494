CONSTANTS
  Bytes <- MCBytes
  HoleWait = 1
  SnHoleTimeout = 2
  AbnormalGap = 2
  MaxAge = 2
SPECIFICATION Spec
PROPERTY ExpiredNotAsked
CHECK_DEADLOCK FALSE
