SPECIFICATION Spec
CONSTANTS
  Orders = {limit, market}
  Market = {market}
  NoOrder = NoOrder
  Size = 2
  MaxDrops = 1
INVARIANTS
  TypeOK
  LiveOrdersMapped
  
PROPERTIES
  GoneIsAccounted
CHECK_DEADLOCK FALSE
