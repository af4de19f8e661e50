SPECIFICATION Spec
CONSTANTS
  NoAttempt = NoAttempt
  Attempts = {a1, a2}
  MaxRequests = 2
  MaxTime = 5
INVARIANTS
  TypeOK
  ReusedMeasuresOneRoundTrip
  FreshMeasuresItsConnection
CHECK_DEADLOCK FALSE
