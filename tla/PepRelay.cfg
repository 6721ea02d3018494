CONSTANTS
  Total = 2
  Room = 1
  MaxSent = 2
SPECIFICATION FairSpec
INVARIANTS BufferAccounts RelaysNext NeverDeaf ClosedComplete
PROPERTIES Relayed ClosesAfterFin
CHECK_DEADLOCK FALSE
