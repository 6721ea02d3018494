CONSTANTS
  Experiments <- MCExperiments
  Tests <- MCTests
SPECIFICATION FairSpec
INVARIANTS Routed NoForwardLoop NobodyDies
PROPERTIES ImplementsLatch ServedFirst AtomicReturns
CHECK_DEADLOCK FALSE
