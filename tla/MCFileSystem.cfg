SPECIFICATION MCSpec
CONSTANTS
  Procs = {p1, p2}
  InitProc = p1
  None = None
  Names = {"a", "b"}
  Calls <- MCCalls
  Modes = {"rdonly", "trunc"}
  NINODES = 5
  NINODE = 3
  NFILE = 2
  NOFILE = 2
  MAXCALLS = 3
INVARIANTS CountsExact CacheIsDisk CallsGetOn DiskIsTree
CHECK_DEADLOCK FALSE
