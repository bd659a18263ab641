CONSTANTS
  NoneValue = NoneValue
  engine1 = engine1
  None <- NoneValue
  TimeValues <- MCTimes
  Durations <- MCDurations
  Senders <- MCSenders
  CallerKw <- MCCallerKw
  ReuseParams = FALSE
SPECIFICATION Spec
INVARIANT UseElasticsearchHonoured
