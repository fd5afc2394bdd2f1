CONSTANTS
  u1 = u1
  u2 = u2
  Nobody = Nobody
  Users = {u1, u2}
  MaxCalls = 3
  MaxThrows = 1
  EarlyReaders = FALSE
SPECIFICATION FairSpec
INVARIANTS
  TypeOK
  CreatedOnce
  NoSessionPointerRace
PROPERTIES
  PostedWorkGetsRun
  DestructorReturns
CHECK_DEADLOCK FALSE
