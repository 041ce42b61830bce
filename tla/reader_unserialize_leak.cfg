SPECIFICATION Spec
CONSTANTS
  x = x
  y = y
  empty = empty
  l = l
  Readers = {r1}
  Cells = {c1, c2}
  Literals = {empty, l}
  Text <- LiteralText
  EmptyString = empty
  Byte = {x, y}
  Last = {y}
  Data <- PairData
  SizeMod = 16
  MaxHeld = 2
  Widths = {1}
  VarIntSizes = {2}
  Offsets <- PairOffsets
  Lengths <- PairLengths
  Foreign = {}
  Direct = TRUE
  MayFail = FALSE
SYMMETRY SymmetryOfAll
INVARIANT
  NoLeak
CHECK_DEADLOCK FALSE
