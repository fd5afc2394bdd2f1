CONSTANTS
  c1 = c1
  t1 = t1
  t2 = t2
  NoTopic = NoTopic
  Callers = {c1}
  Topics = {t1, t2}
  MaxCalls = 4
  MaxFailures = 0
  MaxQueue = 2
  RacingResubscribe = TRUE
SPECIFICATION Spec
INVARIANT SubscriptionsReachVenue
CHECK_DEADLOCK FALSE
