SPECIFICATION FairSpec
CONSTANTS
  p1 = p1
  p2 = p2
  c1 = c1
  Probes <- MCProbes
  Connections <- MCConnections
  Nobody = Nobody
  MaxBucket = 3
INVARIANTS
  TypeOK
  NeverSendsOnClosedChannel
  SelfPresentInDirections
PROPERTIES
  ImplementsMeasurementStream
  ResultsAreDelivered
  WindsDownUnlessStuck
CHECK_DEADLOCK FALSE
