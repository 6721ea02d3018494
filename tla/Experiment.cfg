SPECIFICATION Spec
CONSTANTS
  SatelliteNum <- MCSatelliteNum
  Fstates <- MCFstates
  HopRtt <- MCHopRtt
  Sessions <- MCSessions
INVARIANTS Enumerates NetFits CurvesSound OwnLogs FailsAsKnown
CHECK_DEADLOCK FALSE
