SPECIFICATION FairSpec
CONSTANTS
  None = None
  Mad = 2
  Sdt = 5
  Measurements <- MCMeasurements
  MaxBucket = 4
  MaxInterval = 4
INVARIANTS
  TypeOK
  RpmFromJudgedProbes
  RttsKeepEveryProbe
  ConnectionsOutliveTheirUsers
PROPERTIES
  DirectionEnds
CHECK_DEADLOCK FALSE
