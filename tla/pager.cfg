SPECIFICATION FairSpec
CONSTANTS
  MaxTime = 10
  Interval = 2
  BatchCandles = 1
  CoarseSkip = 4
  MaxEmptySearch = 9
  PageLimit = 2
INVARIANTS
  TypeOK
  Ascending
  OnlyClosedCandles
  
  NoHoleBetweenCandles
  FundingComplete
PROPERTIES
  Terminates
CHECK_DEADLOCK FALSE
