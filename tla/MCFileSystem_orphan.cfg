SPECIFICATION MCSpec
CONSTANTS
  Procs = {p1, p2}
  InitProc = p1
  None = None
  Names = {"a", "b"}
  Calls <- MCCalls
  Modes = {"rdonly", "trunc"}
  NINODES = 5
  NINODE = 3
  NFILE = 1
  NOFILE = 1
  MAXCALLS = 3
INVARIANT
  FreedWhenUnused
CHECK_DEADLOCK FALSE
