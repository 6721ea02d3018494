CONSTANTS
  MSS = 2
  K = 2
  First = {1}
  MaxByte = 4
  Sizes = {1, 2}
  HoleWait = 1
  Packed = 2
  Faults = {"lose", "reorder", "duplicate"}
  MaxFaults = 1
SPECIFICATION FairSpec
PROPERTY Repaired
CHECK_DEADLOCK FALSE
