SPECIFICATION Spec
CONSTANTS
  Orders = {limit, market}
  Market = {market}
  NoOrder = NoOrder
  Size = 2
  MaxDrops = 1
INVARIANTS
  NoOrderBeforeFeed
CHECK_DEADLOCK FALSE
