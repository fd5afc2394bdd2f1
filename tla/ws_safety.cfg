CONSTANTS
  c1 = c1
  c2 = c2
  t1 = t1
  t2 = t2
  NoTopic = NoTopic
  Callers = {c1, c2}
  Topics = {t1, t2}
  MaxCalls = 2
  MaxFailures = 1
  MaxQueue = 1
  RacingResubscribe = FALSE
SPECIFICATION Spec
SYMMETRY Interchangeable
INVARIANTS
  TypeOK
  OnlyCloseStopsTheLoop
  HeartbeatArmed
  OneAttemptAtATime
  QueueDiesWithConnection
  SubscriptionsReachVenue
  PingBacklogBounded
PROPERTIES
  OneWriteInFlight
  TopicsSurviveFailures
  NoDuplicateSubscribe
  CloseIsFinal
  FollowsFeed
CHECK_DEADLOCK FALSE
