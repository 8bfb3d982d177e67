CONSTANTS
  Names = {n1, n2, n3}
  Ids = {d1, d2, d3, d4}
  NoId = NoId
  END = END
  FREED = FREED
  INVALID = INVALID
  NO_OP = NO_OP
  NClusters = 2
  SlotsPer = 3
  SlotsPerSector = 1
  Leftovers = {END, INVALID}
  JSlots = 2
  MaxCrashes = 2
  Worlds <- Volumes
SYMMETRY Symmetry
SPECIFICATION Spec
INVARIANTS FilesKept JournalSettled
PROPERTY Refines
CHECK_DEADLOCK FALSE
