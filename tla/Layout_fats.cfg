SPECIFICATION Spec
CONSTANTS
  Formats <- Used
  Documented <- Used
  FileSizes = {1}
  MaxFiles = 1
CHECK_DEADLOCK FALSE
INVARIANTS FatsFound
