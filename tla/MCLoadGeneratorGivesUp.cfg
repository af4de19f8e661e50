SPECIFICATION Spec
CONSTANTS
  Mnp = 2
  Starting = 1
  Additive = 1
  MaxBytes = 2
  MaxBucket = 2
PROPERTIES
  GivesUpOnlyOnInvalid
CHECK_DEADLOCK FALSE
