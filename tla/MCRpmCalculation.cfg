SPECIFICATION MCSpec
CONSTANTS
  None = None
  SelfTimes <- MCSelfTimes
  ForeignTimes <- MCForeignTimes
  Percentiles <- MCPercentiles
  Trims <- MCTrims
  MaxProbes = 20
INVARIANTS
  PercentileIsARank
  TrimmingDropsTheGreatest
  WhenRpmIsANumber
  QualityOfAnswers
  MergeIsConcatenation
CHECK_DEADLOCK FALSE
