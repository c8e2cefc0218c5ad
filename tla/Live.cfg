CONSTANTS
  p1 = p1  p2 = p2  d1 = d1  c1 = c1
  CPUs = {c1}
  NPROC = 3
  None = None
  Calls = {"fork", "exit", "wait", "kill"}
  Procs = {p1, p2}
  Data = {d1}
  NoBuf = NoBuf
  MAXOPBLOCKS = 2
  LOGSIZE = 4
  LogStart = 2
  LogSize = 4
  FSSize = 8
  OpWrites = 1
SPECIFICATION BothSpec
PROPERTIES SleeperWakes KilledExits ZombieCollected
