CONSTANTS
  NPROC = 2
  MAXPID = 2
  KillArgs = {0, 2}
SPECIFICATION Spec
INVARIANT KilledByPid
