SPECIFICATION Spec
CONSTANTS
  x = x
  y = y
  empty = empty
  l = l
  Readers = {r1, r2}
  Cells = {c1}
  Literals = {empty, l}
  Text <- LiteralText
  EmptyString = empty
  Byte = {x, y}
  Last = {y}
  Data <- OneData
  SizeMod = 16
  MaxHeld = 1
  Widths = {1, 2, 3}
  VarIntSizes = {2, 3}
  Offsets <- OneOffsets
  Lengths <- OneLengths
  Foreign = {}
  Direct = FALSE
  MayFail = FALSE
SYMMETRY SymmetryOfAll
INVARIANTS
  OffsetInString
  NeverFaults
PROPERTY
  ImplementsSource
