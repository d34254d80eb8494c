CONSTANTS
  Length = 7
  MinLength = 3
  MaxAppends = 24
SPECIFICATION Spec
INVARIANTS
  TypeOK
  PreIsNewest
  WindowIsNewest
PROPERTIES
  ImplementsRecentValues
