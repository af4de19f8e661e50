SPECIFICATION Spec
CONSTANTS
  p1 = p1
  p2 = p2
  c1 = c1
  Probes <- MCProbes
  Connections <- MCConnections
  Nobody = Nobody
  MaxBucket = 3
PROPERTIES
  SelfProbesStartOnRunning
CHECK_DEADLOCK FALSE
