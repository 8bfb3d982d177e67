SPECIFICATION Spec
CONSTANTS
  Clusters = {c1, c2, c3}
  FREE = FREE
  END = END
  Dirs = {d1, d2}
  Names = {n1}
  Modes = {{"R", "W"}}
  TableSize = 2
  CellsPer = 2
  Offsets = {0, 1, 2, 3}
  Sizes = {1, 3}
  MaxMoves = 2
  Worlds = {{"io"}, {"io", "deep"}, {"deep", "trunc", "meta"}, {"link"}, {"add"}, {"trunc", "front"}}
CHECK_DEADLOCK FALSE
SYMMETRY Symmetry
INVARIANTS FilesWhole ReadExact
PROPERTIES WriteStores
