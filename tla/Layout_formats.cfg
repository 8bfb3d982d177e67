SPECIFICATION FairSpec
CONSTANTS
  Formats <- All
  Documented <- Used
  FileSizes = {0, 1, 2}
  MaxFiles = 2
CHECK_DEADLOCK FALSE
INVARIANTS GeometryFits Intact
PROPERTIES FormatEnds
