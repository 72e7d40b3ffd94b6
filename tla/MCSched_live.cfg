CONSTANTS
  NPROC = 2
  NCPU = 1
  TICKMOD = 2
  MAXN = 1
SPECIFICATION FairSpec
PROPERTIES KilledExits RunnableRuns
