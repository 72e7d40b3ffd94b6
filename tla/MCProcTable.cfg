CONSTANTS
  NPROC = 4
  MAXPID = 4
  KillArgs = {2, 3}
SPECIFICATION FairSpec
INVARIANTS TableSound StackIsFree
PROPERTIES OrphansReaped
