SPECIFICATION FairSpec
CONSTANTS
  t1 = t1
  t2 = t2
  t3 = t3
  Threads = {t1, t2, t3}
  ThreadNum <- Wide
  MAX_READERS = 2
  READERS = 3
  OWNERS = 4
  NO_OWNER = 3
  REQUIRE_TIME = 2
  Disciplined = FALSE
INVARIANTS Exclusion WordExact
PROPERTIES ReleaseWorks ImplementsRWLock CallsReturn
