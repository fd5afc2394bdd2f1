CONSTANTS
  c1 = c1
  t1 = t1
  NoTopic = NoTopic
  Callers = {c1}
  Topics = {t1}
  MaxCalls = 1
  MaxFailures = 0
  MaxQueue = 1
  RacingResubscribe = FALSE
SPECIFICATION Spec
INVARIANT ConnectedMeansTransportUp
CHECK_DEADLOCK FALSE
