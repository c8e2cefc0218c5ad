CONSTANTS
  p1 = p1  p2 = p2  i1 = i1  q1 = q1  name1 = name1
  Procs = {p1, p2}
  Names = {name1}
  NInodes = 3
  NINODE = 2
  None = None
  Calls = {"open", "create", "unlink", "close"}
  FProcs = {1, 2}
  NFILE = 3
  NOFILE = 2
  OpenInodes = {i1}
  PipePages = {q1}
  DProcs = {p1, p2}
  DInodes = {1, 2}
  BSIZE = 2
  NDIRECT = 1
  MAXOPBLOCKS = 2
  NBlocks = 4
  Sizes = {1, 5}
  DirProcs = {p1, p2}
  DirNames = {"a", "b"}
  NDirInodes = 3
  Paths <- SomePaths
SPECIFICATION Spec
SYMMETRY Perms
INVARIANTS RefsCounted FileRefsExact ObjectsClosedOnce
INVARIANTS BlocksAccounted ReadsWhatWasWritten DirTree WorkingDirKept WalkFindsInode
CHECK_DEADLOCK FALSE
