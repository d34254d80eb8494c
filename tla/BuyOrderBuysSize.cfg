CONSTANTS
  OrderIds = {o1, o2}
  MaxPos <- MCClosed
  DayTicks = 3
  LookAhead = 1
  HalfWord = 8
  Overnight <- MCShort
  MaxLate = 1
SPECIFICATION Spec
PROPERTIES
  BuyOrderBuysSize
