CONSTANTS
  A = A
  B = B
  NoCoin = NoCoin
  Scale = 4
  SigFigs = 2
  MaxDecimals = 2
  Universe <- TwoCoins
  SzDecimals <- OneAndNoDecimal
  Books <- BooksAroundTen
  Qtys <- SmallAndLarge
  Loaders = {l1}
  MaxMoves = 1
  MaxLoads = 1
SPECIFICATION Spec
INVARIANTS
  TypeOK
  OrdersTradeTheirCoin
  PricesOnGrid
  MarketOrderStillCrosses
  
CHECK_DEADLOCK FALSE
