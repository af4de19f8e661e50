SPECIFICATION Spec
CONSTANTS
  NoAttempt = NoAttempt
  Attempts = {a1, a2}
  MaxRequests = 1
  MaxTime = 4
INVARIANTS
  ForeignMeasuresThreeRoundTrips
CHECK_DEADLOCK FALSE
