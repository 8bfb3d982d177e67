CONSTANTS
  Names = {n1, n2, n3}
  Ids = {d1, d2, d3}
  NoId = NoId
  END = END
  FREED = FREED
  INVALID = INVALID
  NO_OP = NO_OP
  NClusters = 2
  SlotsPer = 3
  SlotsPerSector = 1
  Leftovers = {END}
  JSlots = 2
  MaxCrashes = 0
  Worlds <- NoFaults
SYMMETRY Symmetry
SPECIFICATION Spec
PROPERTY AddKeepsOthers
CHECK_DEADLOCK FALSE
