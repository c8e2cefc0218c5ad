CONSTANTS
  c1 = c1  c2 = c2
  CPUs = {c1}
  NPROC = 2
  None = None
  Calls = {"fork", "exit", "wait", "kill0"}
SPECIFICATION Spec
PROPERTY KillHitsProcess
