SPECIFICATION Spec
CONSTANTS
  Threads = {t1, t2, t3}
  Times = {0, 2, 3}
  MaxTaken = 2
INVARIANTS
  TypeOK
  NoReplay
  RoughRecency
PROPERTIES
  TakesTickets
CHECK_DEADLOCK FALSE
SYMMETRY Interchangeable
