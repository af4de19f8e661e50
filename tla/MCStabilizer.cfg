SPECIFICATION Spec
CONSTANTS
  None = None
  Mad = 2
  Sdt = 5
  Measurements <- MCMeasurements
  MaxBucket = 4
  MaxInterval = 4
INVARIANTS
  TypeOK
  StableMeansAnswered
  BoundsAreExact
PROPERTIES
  VerdictIsSettled
  ImplementsSlidingIntervals
CHECK_DEADLOCK FALSE
