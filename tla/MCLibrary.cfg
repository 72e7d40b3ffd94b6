SPECIFICATION LibSpec
CONSTANTS
  Procs = {1, 2}
  Files = {1, 2}
  FilesOf <- MCFilesOf
  BSIZE = 3
  NDIRECT = 1
  NBLOCKS = 12
  MAXOPBLOCKS = 6
  UINTMOD = 16
  WriteSizes = {4, 11}
  ReadSizes = {2}
  MAXWRITES = 3
  NMETA = 2
  HostFiles <- MCHostFiles
  DIRSIZ = 2
  MAXARGS = 3
  NFDS = 6
  Commands <- MCCommands
  MAXLINES = 1
  HEADER = 2
  NALLOC = 3
  HEAPEND = 11
  MallocSizes = {1, 4, 7}
  MAXHELD = 3
  GREPBUF = 5
  Inputs <- MCInputs
  Patterns <- MCPatterns
  PGSIZE = 3
  ADDRMOD = 16
  WORD = 2
  UINT32 = 64
INVARIANTS ReadsAreWrites BlocksExact ChunkFitsLog ImageReadable PipelinesEnd ForegroundDone HeapSound FiltersExact AnswersExact ParseInverts
CHECK_DEADLOCK FALSE
