CONSTANTS
  p1 = p1  p2 = p2  a = a  b = b  c = c
  Procs = {p1, p2}
  Names = {a, b}
  NInodes = 3
  NINODE = 4
  None = None
  Calls = {"open", "create", "unlink", "close"}
SPECIFICATION Spec
SYMMETRY Perms
CHECK_DEADLOCK FALSE
INVARIANT NamedIsAllocated
