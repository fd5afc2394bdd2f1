CONSTANTS
  c1 = c1
  t1 = t1
  NoTopic = NoTopic
  Callers = {c1}
  Topics = {t1}
  MaxCalls = 2
  MaxFailures = 1
  MaxQueue = 1
  RacingResubscribe = FALSE
SPECIFICATION FairSpec
PROPERTIES
  WantedTopicsGetFed
  SilentPeerIsReplaced
  CloseDrains
CHECK_DEADLOCK FALSE
