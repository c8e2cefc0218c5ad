CONSTANTS
  c1 = c1  c2 = c2
  CPUs = {c1, c2}
  NPROC = 4
  None = None
  Calls = {"fork", "exit", "wait", "kill", "lock", "getpid"}
SPECIFICATION Spec
SYMMETRY Perms
CONSTRAINT FamilyWhenFull
INVARIANTS NoLockPanic StackInUse NoMaskedHalt SleepMissesNoWakeup SleepLockExclusive KillMissesNoSleeper WaitMissesNoExit
