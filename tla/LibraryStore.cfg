SPECIFICATION Spec
CONSTANTS
  Units = {u1, u2}
  Importers = {i1, i2}
  Deleters = {d1}
  NoUnit = NoUnit
  MaxImages = 1
  PageSize = 1
  MaxMedia = 2
  MaxImports = 2
SYMMETRY Symmetry
INVARIANTS TypeOK RowsHaveFiles DownloadsWalk
PROPERTIES WalkMovesOn
CHECK_DEADLOCK FALSE
