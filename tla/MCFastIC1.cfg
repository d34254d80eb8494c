CONSTANTS
  InitTicks = 10
  Ahead = 1
  FfPeriod = 8
  MaxPeriod = 6
  TrendPeriod = 8
  RankPeriod = 7
  Books <- MCBooks
  TradePrices <- MCTradePrices
  MaxVol = 4
  Precision = 5
  Window = 4
  MaxRows = 25
SPECIFICATION Spec
INVARIANTS
  TypeOK
  FastMatchesReference
  MeanOfToday
  RanksAgree
  TradesAreDivided
CHECK_DEADLOCK FALSE
