SPECIFICATION Spec
CONSTANTS
  Threads = {t1, t2, t3}
  NSectors = 2
  MaxCount = 2
  IO_THREADS_MAX = 3
  NoData = NoData
  GuardTimeouts = TRUE
SYMMETRY Symmetry
CHECK_DEADLOCK FALSE
INVARIANTS NoConflict SlotsExact ReadsAtomic CopyFaithful
