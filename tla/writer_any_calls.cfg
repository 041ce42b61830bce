SPECIFICATION Spec
CONSTANTS
  a = a
  b = b
  Uninit = Uninit
  Wild = Wild
  Writers = {w1}
  Blocks = {k1, k2}
  Byte = {a, b}
  Prealloc = 1
  StackSize = 3
  SizeMod = 16
  MaxCapacity = 2
  MayFail = TRUE
  Strings <- PairStrings
  Encodings <- PairEncodings
  Offsets <- PairOffsets
  Lengths <- PairLengths
  Arrays <- AnyArrays
SYMMETRY Addresses
INVARIANT
  TypeOK
CHECK_DEADLOCK FALSE
