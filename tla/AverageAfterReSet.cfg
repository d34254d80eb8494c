CONSTANTS
  Length = 7
  MinLength = 3
  MaxRows = 6
SPECIFICATION Spec
INVARIANTS
  AverageAlwaysOverSameRows
