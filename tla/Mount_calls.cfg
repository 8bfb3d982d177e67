CONSTANTS
  Codes = {e1, e2}
  NO_ERROR = NO_ERROR
  NOTHING = NOTHING
  DAMAGED = DAMAGED
  ErrorCopies = 3
  Ring = 5
  Stored = 3
  Boots = 2
  Format <- SomeFormat
  Worlds <- SomeWorlds
  Astray <- SomeAstray
  Bits = {0, 4, 12}
SPECIFICATION MountSpec
INVARIANTS RingOrdered
PROPERTIES RingIsQueue CopiesJudged BootsHeal
SYMMETRY Symmetry
