CONSTANTS
  p1 = p1  p2 = p2
  MProcs = {p1, p2}
  NPages = 24
  Levels = 3
  FanOut = 2
  PGSIZE = 2
  KERNBASE = 9
  UMaxM = 20
  Deltas <- SomeDeltas
  Tops = {3, 4}
  Pushes = {1, 3, 7}
  MinCore = 4
  HeapEnd = 14
  Requests = {2, 3, 5}
  MAXARGS = 3
  MaxLine = 4
  RunLines <- SomeLines
  NShProcs = 6
  MaxRetries = 5
SPECIFICATION Spec
INVARIANTS PagesAccounted SizeMapped HeapPartitioned AnswersOwn
PROPERTIES ParsesGrammar PromptReturns SessionEnds
CHECK_DEADLOCK FALSE
