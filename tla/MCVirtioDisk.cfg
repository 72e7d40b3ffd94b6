SPECIFICATION FairSpec
CONSTANTS
  Procs = {p1, p2, p3}
  Writers = {p1}
  NUM = 8
  IDXMOD = 16
  None = None
INVARIANTS DriverSound
PROPERTIES DiskProgress
