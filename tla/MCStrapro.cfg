CONSTANTS
  OrderIds = {o1, o2, o3}
  MaxPos <- MCMaxPos
  DayTicks = 4
  LookAhead = 1
  HalfWord = 8
  Overnight <- MCOvernight
  MaxLate = 3
SPECIFICATION Spec
INVARIANTS
  TypeOK
  OneWorkingOrder
  OvershootBoundedByLateFills
  WorkingOrderIsFresh
PROPERTIES
  QuietOrderObeysLimit
SYMMETRY Symmetry
