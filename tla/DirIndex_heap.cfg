CONSTANTS
  Names <- SomeNames
  NodeSize = 2
  FatSizes = {3, 5}
  MapSize <- SomeMapSize
  Header = 1
  Pool = 18
SPECIFICATION Spec
INVARIANTS HeapTiled Owned MallocComplete LookupExact RedBlack
CHECK_DEADLOCK FALSE
