SPECIFICATION FairSpec
CONSTANTS
  BitsPerByte = 2
  TypeBits = 5
  LongBits = 6
  StackSize = 3
  Numbers <- AllNumbers
  Followers <- Rest
  Inputs <- AllInputs
INVARIANTS
  TypeOK
  WriteReturns
  Shortest
  RoundTrip
  TakesOneVarInt
  ReadsGroups
  MatchesFormat
PROPERTY
  CallsEnd
