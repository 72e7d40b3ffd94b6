CONSTANTS
  Procs = {p1, p2}
  Blocks = {b1, b2, b3}
  Values = {v0}
  InitVal = v0
  Torn = Torn
  NoBuf = NoBuf
  NoProc = NoProc
  MAXOPBLOCKS = 2
  LOGSIZE = 4
  NLOG = 4
  OPBLOCKS = 1
SPECIFICATION FairSpec
INVARIANTS LogFits
PROPERTIES LogProgress
