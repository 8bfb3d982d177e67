SPECIFICATION FairSpec
CONSTANTS
  t1 = t1
  t2 = t2
  Threads = {t1, t2}
  Root = 2
  TotalClusters = 6
  FREE = FREE
  BAD = BAD
  RESERVED = RESERVED
  END = END
  None = None
  NoHint = NoHint
  FirstOffset = 4
  Worlds <- Volumes
  BadAtFirst = {3}
INVARIANTS TypeOK Exclusive FilesWhole NoMissedFree
PROPERTIES DeallocWhole CallsReturn
