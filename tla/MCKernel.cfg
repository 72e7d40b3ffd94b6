SPECIFICATION MCSpec
CONSTANTS
  p1 = p1
  p2 = p2
  Slots = {p1, p2}
  initproc = p1
  NPAGES = 18
  PGSIZE = 2
  NPTE = 3
  UINTMOD = 64
  MAXARG = 2
  None = None
  Images <- const_Images
  SbrkArgs <- const_SbrkArgs
  Procs = {u1, u2}
  n1 = n1
  n2 = n2
  n3 = n3
  Blocks = {n1, n2, n3}
  Under <- const_Under
  Values = {v0, v1}
  InitVal = v0
  NBUF = 2
  MAXPIN = 1
  NoProc = NoProc
  NoBlock = NoBlock
SYMMETRY Sym
INVARIANTS MemorySound BuffersSound
PROPERTIES WholeImages StoresBlocks
