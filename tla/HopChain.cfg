CONSTANTS
  MSS = 1
  K = 2
  First = {1}
  MaxByte = 5
  Sizes = {1}
  HoleWait = 1
  Packed = 1
  Faults = {"lose", "reorder"}
  MaxFaults = 2
SPECIFICATION Spec
INVARIANTS DeliveredOnce InOrderNoFalseHole EveryInterestAnswered
PROPERTY TracksHoles
CHECK_DEADLOCK FALSE
