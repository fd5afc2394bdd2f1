SPECIFICATION Spec
CONSTANTS
  MaxTime = 10
  Interval = 2
  BatchCandles = 1
  CoarseSkip = 4
  MaxEmptySearch = 9
  PageLimit = 2
INVARIANTS
  FundingEndInclusive
CHECK_DEADLOCK FALSE
