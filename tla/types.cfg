SPECIFICATION Spec
CONSTANTS
  CharBits = 2
  BitsPerByte = 1
  Float <- SmallFloat
  Double <- SmallDouble
  Writes <- AllWritten
  Used <- Entries
  Seeks = {}
  Cuts = {0}
  MaxLength = 16
  MaxValues = 1
INVARIANTS
  TypeOK
  ReadsValues
  RepacksSame
PROPERTIES
  ReadsAsPromised
CHECK_DEADLOCK FALSE
