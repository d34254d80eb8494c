CONSTANTS
  Length = 7
  MinLength = 3
  MaxRows = 18
SPECIFICATION Spec
INVARIANTS
  TypeOK
  SameRowAtEveryAge
  FullWindowsShowSameRows
  AverageOverSameRows
