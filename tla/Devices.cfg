CONSTANTS
  p1 = p1  p2 = p2  p3 = p3  b1 = b1  b2 = b2  b3 = b3  v1 = v1  v2 = v2  s1 = s1  s2 = s2
  BProcs = {p1, p2, p3}
  Blocks = {b1, b2, b3}
  Values = {v1, v2}
  NBUF = 2
  MaxPinned = 1
  MaxErrors = 1
  Readers = {s1, s2}
  INPUT_BUF = 3
  UMaxC = 6
  MaxRead = 2
  Sleepers = {s1, s2}
  Naps <- SomeNaps
  UMaxT = 8
  Lag = 1
SPECIFICATION Spec
SYMMETRY Perms
INVARIANTS HolderSeesNewest BgetFindsBuffer SleeperHasRequest ReaderSleepsForLine SleepsLongEnough
PROPERTIES CommittedKept
CHECK_DEADLOCK FALSE
