SPECIFICATION Spec
CONSTANTS
  N = 12
  LOG = 2
  CAP = 2
  MaxPieces = 2
  Careful = FALSE
  Scenarios <- MCTaken
INVARIANT AllocatesUnused
