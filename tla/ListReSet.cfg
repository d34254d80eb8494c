CONSTANTS
  Length = 7
  MinLength = 3
  MaxAppends = 6
SPECIFICATION Spec
INVARIANTS
  WindowSinceReSet
