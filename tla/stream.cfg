SPECIFICATION Spec
CONSTANTS
  CharBits = 2
  BitsPerByte = 1
  Float <- SmallFloat
  Double <- SmallDouble
  Writes <- FewWritten
  Used <- Few
  Seeks = {0, 2, 3}
  Cuts = {0, 1, 2}
  MaxLength = 6
  MaxValues = 3
INVARIANTS
  ValuesStand
  ReadsValues
  TruncatedThrows
CHECK_DEADLOCK FALSE
