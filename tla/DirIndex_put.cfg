CONSTANTS
  Names <- PutNames
  NodeSize = 2
  FatSizes = {5}
  MapSize <- SomeMapSize
  Header = 1
  Pool = 27
SPECIFICATION Spec
INVARIANT PutReturns
CHECK_DEADLOCK FALSE
