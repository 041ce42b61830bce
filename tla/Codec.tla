------------------------------- MODULE Codec -------------------------------
(***************************************************************************)
(* The static functions of Byte, BE, LE and VarInt (classes/Types.cpp) and *)
(* what they do with bytes (Serializers.h).  The functions named after one *)
(* type, read*, write*, pack* and unpack*, share an entry of the table     *)
(* Entries.  What depends on the byte order of the machine has it as a     *)
(* parameter, host.  The zend_longs and doubles of the script are words of *)
(* LongBits bits.                                                          *)
(***************************************************************************)
EXTENDS VarIntFormat, Floats

Seqs == INSTANCE SequencesExt

CONSTANTS
  CharBits,  \* CHAR_BIT: 8 in the code
  Float,     \* the format of float: 8 bits of exponent, 23 of fraction
  Double     \* the format of double: 11 and 52

LongBits == 8 * CharBits
Byte == Word(CharBits)
Orders == {"BigEndian", "LittleEndian"}

ASSUME WidthAssumption == CharBits \in Nat \ {0, 1} /\ BitsPerByte = CharBits - 1
ASSUME FormatsAssumption ==
  /\ Float \in [exponent : Nat \ {0}, fraction : Nat \ {0}]
  /\ Double \in [exponent : Nat \ {0}, fraction : Nat \ {0}]
  /\ 1 + Float.exponent + Float.fraction = 4 * CharBits
  /\ 1 + Double.exponent + Double.fraction = 8 * CharBits
  /\ Float.fraction < Double.fraction
  /\ Bias(Float) + Float.fraction <= Bias(Double)

----------------------------------------------------------------------------
(* The table of functions.                                                 *)

SizeOf ==
  [uint8_t |-> 1, int8_t |-> 1, uint16_t |-> 2, int16_t |-> 2, uint32_t |-> 4,
   int32_t |-> 4, uint64_t |-> 8, int64_t |-> 8, float |-> 4, double |-> 8]

IsSigned(type) == type \in {"int8_t", "int16_t", "int32_t", "int64_t"}

Bits(type) == SizeOf[type] * CharBits

(* What functions have in common: the class, the two parts of the name     *)
(* behind read, write, pack and unpack, the type TValue, the functions of  *)
(* Serializers.h they are made with, and their byte order; "none" where a  *)
(* function lacks one.                                                     *)
Entry(class, sign, name, type, codec, order) ==
  [class |-> class, sign |-> sign, name |-> name,
   type |-> type, codec |-> codec, order |-> order]

IntEntries(class, name, unsigned, signed, codec, order) ==
  {Entry(class, "Unsigned", name, unsigned, codec, order),
   Entry(class, "Signed", name, signed, codec, order)}

EndianEntries(class, order) ==
  UNION {IntEntries(class, "Short", "uint16_t", "int16_t", "FixedSizeType", order),
         IntEntries(class, "Int", "uint32_t", "int32_t", "FixedSizeType", order),
         IntEntries(class, "Long", "uint64_t", "int64_t", "FixedSizeType", order),
         {Entry(class, "none", "Float", "float", "FixedSizeType", order),
          Entry(class, "none", "Double", "double", "FixedSizeType", order)},
         IntEntries(class, "Triad", "uint32_t", "int32_t", "Int24", order)}

Entries ==
  UNION {IntEntries("Byte", "none", "uint8_t", "int8_t", "Byte", "none"),
         EndianEntries("BE", "BigEndian"),
         EndianEntries("LE", "LittleEndian"),
         IntEntries("VarInt", "Int", "uint32_t", "int32_t", "VarInt", "none"),
         IntEntries("VarInt", "Long", "uint64_t", "int64_t", "VarInt", "none")}

----------------------------------------------------------------------------
(* Between the script's values and TValue.                                 *)

(* A word of n bits as an integer without sign, and back. *)
Integer(v, n) ==
  LET lowest[k \in 0 .. n] == IF k = 0 THEN 0 ELSE lowest[k - 1] + v[k - 1] * 2 ^ (k - 1)
  IN  lowest[n]
Digits(k, n) == [i \in 0 .. n - 1 |-> IF (k \div 2 ^ i) % 2 = 1 THEN 1 ELSE 0]

(* A number without its sign, k, and the sign bit. *)
Magnitude(v, f) == Integer(v, f.exponent + f.fraction)
SignOf(v, f) == v[f.exponent + f.fraction]
WithSign(k, bit, f) ==
  LET n == f.exponent + f.fraction
  IN  [i \in 0 .. n |-> IF i = n THEN bit ELSE Digits(k, n)[i]]

(* static_cast<TValue> of what the script passed. *)
ToValue(t, n) ==
  CASE t.type = "float"  -> WithSign(Narrow(Magnitude(n, Double), Double, Float), SignOf(n, Double), Float)
    [] t.type = "double" -> n
    [] OTHER             -> Cast(n, LongBits, Bits(t.type), FALSE)

(* assignZval, which converts implicitly. *)
FromValue(t, v) ==
  CASE t.type = "float"  -> WithSign(Widen(Magnitude(v, Float), Float, Double), SignOf(v, Float), Double)
    [] t.type = "double" -> v
    [] OTHER             -> Cast(v, Bits(t.type), LongBits, IsSigned(t.type))

----------------------------------------------------------------------------
(* Between TValue and bytes, for the types of fixed size.                  *)

TriadSize == 3

(* How many bytes are stored. *)
Stored(t) == IF t.codec = "Int24" THEN TriadSize ELSE SizeOf[t.type]

(* The byte of v that has weight k. *)
Octet(v, k) == [i \in 0 .. CharBits - 1 |-> v[k * CharBits + i]]

(* What memcpy copies from and to a value of n bytes.                      *)
ToMemory(v, n, host) ==
  [j \in 1 .. n |-> Octet(v, IF host = "LittleEndian" THEN j - 1 ELSE n - j)]
FromMemory(s, n, host) ==
  [i \in 0 .. n * CharBits - 1 |->
     LET k == i \div CharBits
     IN  s[IF host = "LittleEndian" THEN k + 1 ELSE n - k][i % CharBits]]

(* Mutant of Flip: big-endian values are always reversed. *)
FlipBig(s, order, host) == IF order = "BigEndian" THEN Seqs!Reverse(s) ELSE s

Flip(s, order, host) == IF order # host THEN Seqs!Reverse(s) ELSE s

WriteFixedSizeType(v, t, host) == Flip(ToMemory(v, Stored(t), host), t.order, host)
ReadFixedSizeType(s, t, host) == FromMemory(Flip(s, t.order, host), Stored(t), host)

(* A byte is copied as it is. *)
WriteByte(v, host) == ToMemory(v, 1, host)
ReadByte(s, host) == FromMemory(s, 1, host)

(* (value >> 8 * k) & 0xff for each of the three bytes. *)
WriteInt24(v, t) ==
  LET part(k) == Octet(ShiftRight(v, Bits(t.type), k * CharBits), 0)
  IN  IF t.order = "LittleEndian" THEN <<part(0), part(1), part(2)>> ELSE <<part(2), part(1), part(0)>>

(* Mutant of SignExtended: the sign is not. *)
SignExtendedNot(v, n, k) == v

(* (v << k) >> k of a signed v of n bits. *)
SignExtended(v, n, k) == SignedShiftRight(ShiftLeft(v, n, k), n, k)

ReadInt24(s, t) ==
  LET n       == Bits(t.type)
      byte(k) == s[IF t.order = "LittleEndian" THEN k + 1 ELSE TriadSize - k]
      part(k) == ShiftLeft(Cast(byte(k), CharBits, n, FALSE), n, k * CharBits)
      value   == Or(Or(part(0), part(1)), part(2))
  IN  IF IsSigned(t.type) THEN SignExtended(value, n, n - TriadSize * CharBits) ELSE value

----------------------------------------------------------------------------
(* Whole functions.                                                        *)

(* The bytes that write* and pack* make of n. *)
Encode(t, n, host) ==
  LET v == ToValue(t, n) IN
  CASE t.codec = "Byte"          -> WriteByte(v, host)
    [] t.codec = "FixedSizeType" -> WriteFixedSizeType(v, t, host)
    [] t.codec = "Int24"         -> WriteInt24(v, t)
    [] t.codec = "VarInt"        ->
         VarIntOf(IF IsSigned(t.type) THEN ZigZag(v, Bits(t.type)) ELSE v, Bits(t.type))

(* Mutant of Moved: the offset moves before the length is checked. *)
MovedAnyway(t, ok, k) == k

(* How far the offset moves: over the bytes of a varint even if it throws. *)
Moved(t, ok, k) == IF ok \/ t.codec = "VarInt" THEN k ELSE 0

(* What read* and unpack* make of the bytes s: whether they throw, how far *)
(* they move the offset, and what they return.                             *)
Decode(t, s, host) ==
  LET n  == Bits(t.type)
      k  == IF t.codec = "VarInt" THEN VarIntBytes(s, n) ELSE Stored(t)
      u  == Joined(s, k, n)
      ok == IF t.codec = "VarInt" THEN Terminated(s, k) ELSE k <= Len(s)
      v  == CASE t.codec = "Byte"          -> ReadByte(SubSeq(s, 1, k), host)
              [] t.codec = "FixedSizeType" -> ReadFixedSizeType(SubSeq(s, 1, k), t, host)
              [] t.codec = "Int24"         -> ReadInt24(SubSeq(s, 1, k), t)
              [] t.codec = "VarInt"        -> IF IsSigned(t.type) THEN UnZigZag(u, n) ELSE u
  IN
  [threw  |-> ~ ok,
   taken  |-> Moved(t, ok, k),
   number |-> IF ok THEN FromValue(t, v) ELSE Zero(LongBits)]
=============================================================================
