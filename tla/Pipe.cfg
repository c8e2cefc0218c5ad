CONSTANTS
  p1 = p1  p2 = p2  p3 = p3  d1 = d1  d2 = d2
  Procs = {p1, p2, p3}
  Data = {d1, d2}
  PIPESIZE = 2
  UMax = 4
  Failed = Failed
  MaxIO = 3
  Kills = {p1, p3}
SPECIFICATION Spec
SYMMETRY Perms
CONSTRAINT Roles
INVARIANTS SleepersHaveReason
PROPERTIES Stream
CHECK_DEADLOCK FALSE
