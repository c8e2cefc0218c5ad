CONSTANTS
  p1 = p1  p2 = p2  d1 = d1  d2 = d2
  Procs = {p1, p2}
  Data = {d1, d2}
  NoBuf = NoBuf
  MAXOPBLOCKS = 2
  LOGSIZE = 4
  LogStart = 2
  LogSize = 4
  FSSize = 9
  OpWrites = 2
SPECIFICATION Spec
SYMMETRY Perms
PROPERTIES CrashAtomic WriteAhead
