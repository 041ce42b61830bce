SPECIFICATION Spec
CONSTANTS
  x = x
  y = y
  empty = empty
  l = l
  Readers = {r1, r2}
  Cells = {c1, c2}
  Literals = {empty, l}
  Text <- LiteralText
  EmptyString = empty
  Byte = {x, y}
  Last = {y}
  Data <- PairData
  SizeMod = 16
  MaxHeld = 2
  Widths = {1}
  VarIntSizes = {2}
  Offsets <- PairOffsets
  Lengths <- PairLengths
  Foreign <- ForeignOffsets
  Direct = FALSE
  MayFail = TRUE
SYMMETRY SymmetryOfAll
INVARIANTS
  TypeOK
  RefsCover
  NoLeak
PROPERTY
  FaultsOnlyBehindEnd
CHECK_DEADLOCK FALSE
