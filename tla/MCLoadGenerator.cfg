SPECIFICATION FairSpec
CONSTANTS
  Mnp = 2
  Starting = 1
  Additive = 1
  MaxBytes = 2
  MaxBucket = 2
INVARIANTS
  TypeOK
  AtMostMnpConnections
  EveryByteReportedOnce
PROPERTIES
  ImplementsMeasurementStream
  EndedDownloadStaysEnded
  RampsUpToMnp
CHECK_DEADLOCK FALSE
