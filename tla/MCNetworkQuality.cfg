SPECIFICATION FairSpec
CONSTANTS
  None = None
  Directions <- MCDirections
  Measurements <- MCMeasurements
  MaxBucket = 4
INVARIANTS
  TypeOK
  FinalRpmFromConsideredProbes
  WorkingConditions
  LoadsAsExpected
  ExportHasEveryMeasurement
PROPERTIES
  FinalRpmIsReported
CHECK_DEADLOCK FALSE
