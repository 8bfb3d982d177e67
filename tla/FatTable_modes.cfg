SPECIFICATION FairSpec
CONSTANTS
  FatCount = 4
  TotalClusters = 2
  RootCluster = 1
  FREE = FREE
  BAD = BAD
  Values = {FREE, BAD, USED}
  CacheModes = {{}, {"cache", "map"}, {"cache", "map", "hard"}}
  MinorityOnly = TRUE
INVARIANTS TypeOK MajorityElected ReadCorrect CopiesAgree RecordsAgree
PROPERTIES ImplementsRegister PassEnds
