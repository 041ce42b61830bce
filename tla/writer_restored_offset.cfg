SPECIFICATION Spec
CONSTANTS
  a = a
  b = b
  Uninit = Uninit
  Wild = Wild
  Writers = {w1}
  Blocks = {k1, k2}
  Byte = {a, b}
  Prealloc = 2
  StackSize = 3
  SizeMod = 32
  MaxCapacity = 6
  MayFail = FALSE
  Strings <- OpsStrings
  Encodings <- OpsEncodings
  Offsets <- OpsOffsets
  Lengths <- OpsLengths
  Arrays <- ForeignArrays
SYMMETRY Addresses
INVARIANT
  WrittenBytesOnly
CHECK_DEADLOCK FALSE
