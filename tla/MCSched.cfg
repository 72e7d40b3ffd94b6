CONSTANTS
  NPROC = 2
  NCPU = 2
  TICKMOD = 2
  MAXN = 1
  Writers = {w1, w2}
  Readers = {r1}
  Bytes = {0, 1}
  PIPESIZE = 2
  UINTMOD = 4
  MAXBYTES = 2
  Victims = {w1, w2, r1}
  Nobody = Nobody
SPECIFICATION MCSpec
SYMMETRY Sym
INVARIANTS SchedulerSound InterruptsBackOn NeverEarly NoLostWakeup FreedWhenUnused WaitsExact
PROPERTY IsQueue
