CONSTANTS
  Procs = {p1, p2}
  Blocks = {b1, b2}
  Values = {v0, v1}
  InitVal = v0
  Torn = Torn
  NoBuf = NoBuf
  NoProc = NoProc
  MAXOPBLOCKS = 3
  LOGSIZE = 6
  NLOG = 6
  OPBLOCKS = 2
SPECIFICATION Spec
SYMMETRY Sym
INVARIANTS LogSafe
PROPERTIES CrashAtomicity
