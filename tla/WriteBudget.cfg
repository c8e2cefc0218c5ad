CONSTANTS
  p1 = p1
  DProcs = {p1}
  DInodes = {1}
  BSIZE = 2
  NDIRECT = 12
  MAXOPBLOCKS = 10
  NBlocks = 16
  Sizes = {1, 26}
SPECIFICATION Spec
INVARIANT WriteInBudget
CHECK_DEADLOCK FALSE
