SPECIFICATION Spec
CONSTANTS
  a = a
  b = b
  Uninit = Uninit
  Wild = Wild
  Writers = {w1, w2}
  Blocks = {k1, k2, k3}
  Byte = {a, b}
  Prealloc = 1
  StackSize = 2
  SizeMod = 16
  MaxCapacity = 2
  MayFail = TRUE
  Strings <- PairStrings
  Encodings <- PairEncodings
  Offsets <- PairOffsets
  Lengths <- PairLengths
  Arrays <- PairArrays
SYMMETRY Symmetry
INVARIANTS
  OneOwner
PROPERTIES
  RunningNeverFaults
  AbortKeepsContents
  ImplementsSink
CHECK_DEADLOCK FALSE
