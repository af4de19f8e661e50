SPECIFICATION FairWaitSpec
CONSTANTS
  Waiters = {w1, w2}
  MaxReads = 2
  Nobody = Nobody
INVARIANTS
  WaitTypeOK
  TrueMeansStarted
PROPERTIES
  StartIsSeen
  CancelIsSeenUnlessMissed
CHECK_DEADLOCK FALSE
