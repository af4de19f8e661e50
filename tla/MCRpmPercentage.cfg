SPECIFICATION Spec
CONSTANTS
  None = None
  SelfTimes <- MCSelfTimes
  ForeignTimes <- MCForeignTimes
  Percentiles <- MCPercentiles
  Trims = {5}
  MaxProbes = 4
INVARIANTS
  TrimsThePercentage
CHECK_DEADLOCK FALSE
