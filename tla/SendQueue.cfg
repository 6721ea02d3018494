CONSTANTS
  MSS = 3
  Overhead = 2
  Interval = 1
  Rates = {1, 4}
  MaxGap = 1
  MaxQueued = 12
SPECIFICATION FairSpec
INVARIANTS BytesAccount DatagramsWhole BucketBound
PROPERTY Drains
CHECK_DEADLOCK FALSE
