SPECIFICATION Spec
CONSTANTS
  N = 12
  LOG = 2
  CAP = 2
  MaxPieces = 2
  Careful = TRUE
  Scenarios <- MCScenarios
INVARIANTS TypeOK Mountable ListsEachOnce
PROPERTY OperationsAreAtomic
