CONSTANTS
  Length = 8
  MinLength = 4
  MaxRows = 16
  MaxAssigns = 2
SPECIFICATION Spec
INVARIANTS
  TypeOK
  SeriesOfOneRow
  DifferencesOfRows
  WeightsOfTheirRow
  IndexedPairsOfOneRow
  AssignmentShowsSource
