CONSTANTS
  OrderIds = {o1, o2}
  MaxPos <- MCMaxPos
  DayTicks = 3
  LookAhead = 1
  HalfWord = 8
  Overnight <- MCClosed
  MaxLate = 1
SPECIFICATION Spec
PROPERTIES
  SellOrderIsSell
