CONSTANTS
  p1 = p1  p2 = p2  a = a  b = b  c = c
  Procs = {p1, p2}
  Names = {a, b, c}
  NInodes = 2
  NINODE = 3
  None = None
  Calls = {"open", "create", "link", "unlink", "close"}
SPECIFICATION Spec
SYMMETRY Perms
CONSTRAINTS NoEarlyReuse NotExhausted
INVARIANTS NamedIsAllocated ValidIsCurrent LinksCounted
