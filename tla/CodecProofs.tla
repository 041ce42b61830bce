---------------------------- MODULE CodecProofs ----------------------------
(***************************************************************************)
(* What the functions of the table make of every number and of any bytes,  *)
(* for every width of a byte: the bytes of the types of fixed size have    *)
(* the order their class is named after on every machine, varints end      *)
(* where they should, what is written comes back, what is read is written  *)
(* again as it was, and what is cut off is not read.  Of the conversions   *)
(* between floats and doubles nothing is said but that they make words.    *)
(***************************************************************************)
EXTENDS Codec, NaturalLemmas

(* What a pair of integer functions has in common.                         *)
LEMMA IntEntryIs ==
  ASSUME NEW class, NEW name, NEW unsigned, NEW signed, NEW codec, NEW order,
         NEW t \in IntEntries(class, name, unsigned, signed, codec, order)
  PROVE  /\ t.class = class /\ t.name = name /\ t.codec = codec /\ t.order = order
         /\ \/ t.type = unsigned /\ t.sign = "Unsigned"
            \/ t.type = signed /\ t.sign = "Signed"
BY DEF IntEntries, Entry

Integral(t, unsigned, signed) ==
  \/ t.type = unsigned /\ t.sign = "Unsigned"
  \/ t.type = signed /\ t.sign = "Signed"

Placed(t) == \/ t.class = "BE" /\ t.order = "BigEndian"
             \/ t.class = "LE" /\ t.order = "LittleEndian"

(* The rows of the table.                                                  *)
Row(t) ==
  \/ /\ t.codec = "Byte" /\ t.class = "Byte" /\ t.order = "none" /\ t.name = "none"
     /\ Integral(t, "uint8_t", "int8_t")
  \/ /\ t.codec = "FixedSizeType" /\ Placed(t)
     /\ \/ t.name = "Short" /\ Integral(t, "uint16_t", "int16_t")
        \/ t.name = "Int" /\ Integral(t, "uint32_t", "int32_t")
        \/ t.name = "Long" /\ Integral(t, "uint64_t", "int64_t")
        \/ t.name = "Float" /\ t.type = "float"
        \/ t.name = "Double" /\ t.type = "double"
  \/ /\ t.codec = "Int24" /\ Placed(t) /\ t.name = "Triad" /\ Integral(t, "uint32_t", "int32_t")
  \/ /\ t.codec = "VarInt" /\ t.class = "VarInt" /\ t.order = "none"
     /\ \/ t.name = "Int" /\ Integral(t, "uint32_t", "int32_t")
        \/ t.name = "Long" /\ Integral(t, "uint64_t", "int64_t")

(* Every entry is one of these rows.                                       *)
LEMMA EntryRow == ASSUME NEW t \in Entries PROVE Row(t)
<1>1. ASSUME NEW class, NEW order, t \in EndianEntries(class, order)
      PROVE  /\ t.class = class /\ t.order = order
             /\ \/ /\ t.codec = "FixedSizeType"
                   /\ \/ t.name = "Short" /\ Integral(t, "uint16_t", "int16_t")
                      \/ t.name = "Int" /\ Integral(t, "uint32_t", "int32_t")
                      \/ t.name = "Long" /\ Integral(t, "uint64_t", "int64_t")
                      \/ t.name = "Float" /\ t.type = "float"
                      \/ t.name = "Double" /\ t.type = "double"
                \/ t.codec = "Int24" /\ t.name = "Triad" /\ Integral(t, "uint32_t", "int32_t")
  <2>1. CASE t \in IntEntries(class, "Short", "uint16_t", "int16_t", "FixedSizeType", order)
    BY <2>1, IntEntryIs DEF Integral
  <2>2. CASE t \in IntEntries(class, "Int", "uint32_t", "int32_t", "FixedSizeType", order)
    BY <2>2, IntEntryIs DEF Integral
  <2>3. CASE t \in IntEntries(class, "Long", "uint64_t", "int64_t", "FixedSizeType", order)
    BY <2>3, IntEntryIs DEF Integral
  <2>4. CASE t \in {Entry(class, "none", "Float", "float", "FixedSizeType", order),
                    Entry(class, "none", "Double", "double", "FixedSizeType", order)}
    <3>1. t.class = class /\ t.order = order /\ t.codec = "FixedSizeType"
      BY <2>4 DEF Entry
    <3>2. (t.name = "Float" /\ t.type = "float") \/ (t.name = "Double" /\ t.type = "double")
      BY <2>4 DEF Entry
    <3> QED
      BY <3>1, <3>2
  <2>5. CASE t \in IntEntries(class, "Triad", "uint32_t", "int32_t", "Int24", order)
    BY <2>5, IntEntryIs DEF Integral
  <2> QED
    BY <1>1, <2>1, <2>2, <2>3, <2>4, <2>5 DEF EndianEntries
<1>2. CASE t \in IntEntries("Byte", "none", "uint8_t", "int8_t", "Byte", "none")
  <2>1. Integral(t, "uint8_t", "int8_t") /\ t.codec = "Byte" /\ t.class = "Byte" /\ t.order = "none" /\ t.name = "none"
    BY <1>2 DEF Integral, IntEntries, Entry
  <2> QED
    BY <2>1 DEF Row
<1>3. CASE t \in IntEntries("VarInt", "Int", "uint32_t", "int32_t", "VarInt", "none")
  <2>1. Integral(t, "uint32_t", "int32_t") /\ t.codec = "VarInt" /\ t.class = "VarInt" /\ t.order = "none" /\ t.name = "Int"
    BY <1>3, IntEntryIs DEF Integral
  <2> QED
    BY <2>1 DEF Row
<1>4. CASE t \in IntEntries("VarInt", "Long", "uint64_t", "int64_t", "VarInt", "none")
  <2>1. Integral(t, "uint64_t", "int64_t") /\ t.codec = "VarInt" /\ t.class = "VarInt" /\ t.order = "none" /\ t.name = "Long"
    BY <1>4, IntEntryIs DEF Integral
  <2> QED
    BY <2>1 DEF Row
<1>5. CASE t \in EndianEntries("BE", "BigEndian")
  <2> HIDE DEF Integral
  <2> QED
    BY <1>1, <1>5, Zenon DEF Row, Placed
<1>6. CASE t \in EndianEntries("LE", "LittleEndian")
    BY <1>1, <1>6, Zenon DEF Row, Placed
<1> QED
  BY <1>2, <1>3, <1>4, <1>5, <1>6 DEF Entries

(* What the sizes, byte orders and codecs have to do with each other.      *)
LEMMA EntryFacts ==
  ASSUME NEW t \in Entries
  PROVE  /\ SizeOf[t.type] \in {1, 2, 4, 8}
         /\ t.codec \in {"Byte", "FixedSizeType", "Int24", "VarInt"}
         /\ t.codec = "Byte" => SizeOf[t.type] = 1
         /\ t.codec \in {"FixedSizeType", "Int24"} => t.order \in Orders
         /\ t.codec = "Int24" => SizeOf[t.type] = 4 /\ t.type \notin {"float", "double"}
         /\ t.codec = "VarInt" => SizeOf[t.type] \in {4, 8} /\ t.type \notin {"float", "double"}
         /\ t.codec = "VarInt" <=> t.class = "VarInt"
         /\ t.type = "float" => SizeOf[t.type] = 4
         /\ t.type = "double" => SizeOf[t.type] = 8
<1>1. Row(t)
  BY EntryRow
<1>2. /\ SizeOf["uint8_t"] = 1 /\ SizeOf["int8_t"] = 1
      /\ SizeOf["uint16_t"] = 2 /\ SizeOf["int16_t"] = 2
      /\ SizeOf["uint32_t"] = 4 /\ SizeOf["int32_t"] = 4
      /\ SizeOf["uint64_t"] = 8 /\ SizeOf["int64_t"] = 8
      /\ SizeOf["float"] = 4 /\ SizeOf["double"] = 8
  BY DEF SizeOf
<1>3. CASE t.codec = "Byte"
  BY <1>1, <1>2, <1>3 DEF Row, Integral
<1>4. CASE t.codec = "FixedSizeType"
  BY <1>1, <1>2, <1>4 DEF Row, Integral, Placed, Orders
<1>5. CASE t.codec = "Int24"
  BY <1>1, <1>2, <1>5 DEF Row, Integral, Placed, Orders
<1>6. CASE t.codec = "VarInt"
  BY <1>1, <1>2, <1>6 DEF Row, Integral
<1>7. t.codec \in {"Byte", "FixedSizeType", "Int24", "VarInt"}
  BY <1>1 DEF Row
<1> QED
  BY <1>3, <1>4, <1>5, <1>6, <1>7

----------------------------------------------------------------------------
(* Words and values.                                                       *)

(* Words with the same bits are equal. *)
LEMMA SameWord ==
  ASSUME NEW n \in Int, NEW u \in Word(n), NEW v \in Word(n), \A i \in 0 .. n - 1 : u[i] = v[i]
  PROVE  u = v
BY DEF Word

(* What a cast does with the bits. *)
LEMMA CastType ==
  ASSUME NEW m \in Nat \ {0}, NEW n \in Nat, NEW v \in Word(m), NEW signed
  PROVE  /\ Cast(v, m, n, signed) \in Word(n)
         /\ \A i \in 0 .. n - 1 :
              Cast(v, m, n, signed)[i] = IF i < m THEN v[i] ELSE IF signed THEN v[m - 1] ELSE 0
<1>1. m - 1 \in 0 .. m - 1 /\ \A i \in 0 .. n - 1 : i < m => i \in 0 .. m - 1
  OBVIOUS
<1> QED
  BY <1>1 DEF Cast, Word

(* The types of the functions have whole bytes, at most those of a zend_long. *)
LEMMA TypeWidths ==
  ASSUME NEW t \in Entries
  PROVE  /\ CharBits \in Nat \ {0} /\ BitsPerByte \in Nat \ {0} /\ CharBits = BitsPerByte + 1
         /\ LongBits \in Nat \ {0} /\ LongBits = 8 * CharBits
         /\ Bits(t.type) \in Nat \ {0} /\ Bits(t.type) = SizeOf[t.type] * CharBits
         /\ Bits(t.type) <= LongBits
BY EntryFacts, WidthAssumption DEF LongBits, Bits

(* The sign and the other bits make a word as long as the format. *)
LEMMA WithSignType ==
  ASSUME NEW f \in {Float, Double}, NEW k, NEW bit \in {0, 1}
  PROVE  WithSign(k, bit, f) \in Word(1 + f.exponent + f.fraction)
<1> DEFINE n == f.exponent + f.fraction
<1>1. n \in Nat /\ 1 + f.exponent + f.fraction = n + 1
  BY FormatsAssumption
<1>2. WithSign(k, bit, f) = [i \in 0 .. n |-> IF i = n THEN bit ELSE Digits(k, n)[i]]
  BY DEF WithSign
<1> HIDE DEF n
<1>3. \A i \in 0 .. n - 1 : Digits(k, n)[i] \in {0, 1}
  BY DEF Digits
<1>4. (n + 1) - 1 = n /\ \A i \in 0 .. n : i # n => i \in 0 .. n - 1
  BY <1>1
<1>5. [i \in 0 .. n |-> IF i = n THEN bit ELSE Digits(k, n)[i]] \in [0 .. n -> {0, 1}]
  BY <1>3, <1>4
<1> QED
  BY <1>1, <1>2, <1>4, <1>5 DEF Word

(* The script's number becomes a value of the type, and back. *)
LEMMA ValueTypes ==
  ASSUME NEW t \in Entries
  PROVE  /\ \A n \in Word(LongBits) : ToValue(t, n) \in Word(Bits(t.type))
         /\ \A v \in Word(Bits(t.type)) : FromValue(t, v) \in Word(LongBits)
<1>1. LongBits \in Nat \ {0} /\ Bits(t.type) \in Nat \ {0}
  BY TypeWidths
<1>2. CASE t.type = "float"
  <2>1. 1 + Float.exponent + Float.fraction = Bits(t.type) /\ 1 + Double.exponent + Double.fraction = LongBits
    BY <1>2, EntryFacts, FormatsAssumption DEF Bits, LongBits
  <2>2. /\ Float.exponent + Float.fraction \in 0 .. Bits(t.type) - 1
        /\ Double.exponent + Double.fraction \in 0 .. LongBits - 1
    BY <2>1, FormatsAssumption, TypeWidths
  <2>3. /\ \A n \in Word(LongBits) : SignOf(n, Double) \in {0, 1}
        /\ \A v \in Word(Bits(t.type)) : SignOf(v, Float) \in {0, 1}
    BY <2>2 DEF SignOf, Word
  <2>4. ASSUME NEW n \in Word(LongBits) PROVE ToValue(t, n) \in Word(Bits(t.type))
    <3>1. ToValue(t, n) = WithSign(Narrow(Magnitude(n, Double), Double, Float), SignOf(n, Double), Float)
      BY <1>2 DEF ToValue
    <3> QED
      BY <2>1, <2>3, <3>1, WithSignType
  <2>5. ASSUME NEW v \in Word(Bits(t.type)) PROVE FromValue(t, v) \in Word(LongBits)
    <3>1. FromValue(t, v) = WithSign(Widen(Magnitude(v, Float), Float, Double), SignOf(v, Float), Double)
      BY <1>2 DEF FromValue
    <3> QED
      BY <2>1, <2>3, <3>1, WithSignType
  <2> QED
    BY <2>4, <2>5
<1>3. CASE t.type = "double"
  <2>1. Bits(t.type) = LongBits
    BY <1>3, EntryFacts, TypeWidths
  <2> QED
    BY <1>3, <2>1 DEF ToValue, FromValue
<1>4. CASE t.type \notin {"float", "double"}
  <2>1. /\ \A n : ToValue(t, n) = Cast(n, LongBits, Bits(t.type), FALSE)
        /\ \A v : FromValue(t, v) = Cast(v, Bits(t.type), LongBits, IsSigned(t.type))
    BY <1>4 DEF ToValue, FromValue
  <2>2. \A n \in Word(LongBits) : Cast(n, LongBits, Bits(t.type), FALSE) \in Word(Bits(t.type))
    BY <1>1, CastType
  <2>3. \A v \in Word(Bits(t.type)) : Cast(v, Bits(t.type), LongBits, IsSigned(t.type)) \in Word(LongBits)
    BY <1>1, CastType
  <2> QED
    BY <2>1, <2>2, <2>3
<1> QED
  BY <1>2, <1>3, <1>4

----------------------------------------------------------------------------
(* The types of fixed size.  In memory, on the wire and in the buffer, the *)
(* byte with weight k has one of two positions.                            *)

PositionOf(order, n, k) == IF order = "LittleEndian" THEN k + 1 ELSE n - k
WeightAt(order, n, j) == IF order = "LittleEndian" THEN j - 1 ELSE n - j

(* The bytes of v in the order of t.                                       *)
FixedBytes(t, v) == [j \in 1 .. Stored(t) |-> Octet(v, WeightAt(t.order, Stored(t), j))]

(* The value whose bytes in the order of t are the first of s.             *)
FixedValue(t, s) ==
  [i \in 0 .. Bits(t.type) - 1 |->
     IF i < Stored(t) * CharBits
       THEN s[PositionOf(t.order, Stored(t), i \div CharBits)][i % CharBits]
       ELSE IF IsSigned(t.type)
              THEN s[PositionOf(t.order, Stored(t), Stored(t) - 1)][CharBits - 1] ELSE 0]

(* How many bytes are stored. *)
LEMMA StoredType ==
  ASSUME NEW t \in Entries
  PROVE  /\ Stored(t) \in 1 .. 8 /\ Stored(t) <= SizeOf[t.type] /\ SizeOf[t.type] \in 1 .. 8
         /\ t.codec # "Int24" => Stored(t) = SizeOf[t.type]
         /\ t.codec = "Int24" => Stored(t) = 3 /\ SizeOf[t.type] = 4
         /\ Stored(t) * CharBits \in Nat /\ Stored(t) * CharBits <= Bits(t.type)
<1>1. /\ Stored(t) \in 1 .. 8 /\ Stored(t) <= SizeOf[t.type] /\ SizeOf[t.type] \in 1 .. 8
      /\ t.codec # "Int24" => Stored(t) = SizeOf[t.type]
      /\ t.codec = "Int24" => Stored(t) = 3 /\ SizeOf[t.type] = 4
  BY EntryFacts DEF Stored, TriadSize
<1>2. Stored(t) \in Nat /\ SizeOf[t.type] \in Nat /\ CharBits \in Nat
  BY <1>1, TypeWidths
<1>3. Stored(t) * CharBits \in Nat /\ Stored(t) * CharBits <= SizeOf[t.type] * CharBits
  BY <1>1, <1>2, Multiples
<1> QED
  BY <1>1, <1>3, TypeWidths

(* Positions and weights are inverse. *)
LEMMA Placing ==
  ASSUME NEW n \in Nat, NEW order
  PROVE  /\ \A j \in 1 .. n : /\ WeightAt(order, n, j) \in 0 .. n - 1
                              /\ PositionOf(order, n, WeightAt(order, n, j)) = j
         /\ \A k \in 0 .. n - 1 : /\ PositionOf(order, n, k) \in 1 .. n
                                  /\ WeightAt(order, n, PositionOf(order, n, k)) = k
BY DEF PositionOf, WeightAt

(* A byte of a word. *)
LEMMA OctetType ==
  ASSUME NEW m \in Nat, NEW v \in Word(m), NEW k \in Nat, (k + 1) * CharBits <= m
  PROVE  /\ Octet(v, k) \in Byte
         /\ \A i \in 0 .. CharBits - 1 : Octet(v, k)[i] = v[k * CharBits + i]
<1>1. k * CharBits \in Nat /\ k * CharBits + CharBits <= m /\ CharBits \in Nat
  BY WidthAssumption, Multiples
<1> DEFINE a == k * CharBits
<1>2. Octet(v, k) = [i \in 0 .. CharBits - 1 |-> v[a + i]]
  BY DEF Octet
<1>3. a \in Nat /\ a + CharBits <= m
  BY <1>1
<1> HIDE DEF a
<1>4. \A i \in 0 .. CharBits - 1 : a + i \in 0 .. m - 1
  BY <1>1, <1>3
<1>5. [i \in 0 .. CharBits - 1 |-> v[a + i]] \in Byte
  BY <1>4 DEF Byte, Word
<1>6. \A i \in 0 .. CharBits - 1 : Octet(v, k)[i] = v[a + i]
  BY <1>2
<1> QED
  BY <1>2, <1>5, <1>6 DEF a

(* Every byte of a value that is stored is a byte of it. *)
LEMMA FixedBytesType ==
  ASSUME NEW t \in Entries, NEW v \in Word(Bits(t.type))
  PROVE  /\ FixedBytes(t, v) \in Seq(Byte)
         /\ Len(FixedBytes(t, v)) = Stored(t)
         /\ \A k \in 0 .. Stored(t) - 1, i \in 0 .. CharBits - 1 :
              FixedBytes(t, v)[PositionOf(t.order, Stored(t), k)][i] = v[k * CharBits + i]
<1> DEFINE n == Stored(t)
           m == Bits(t.type)
<1>1. n \in Nat /\ m \in Nat /\ n * CharBits <= m /\ CharBits \in Nat /\ n * CharBits \in Nat
  BY StoredType, TypeWidths
<1>2. FixedBytes(t, v) = [j \in 1 .. n |-> Octet(v, WeightAt(t.order, n, j))]
  BY DEF FixedBytes
<1> HIDE DEF n, m
<1>3. ASSUME NEW k \in 0 .. n - 1 PROVE k \in Nat /\ (k + 1) * CharBits <= m
  <2>1. k + 1 \in Nat /\ k + 1 <= n
    BY <1>1
  <2>2. (k + 1) * CharBits <= n * CharBits /\ (k + 1) * CharBits \in Nat
    BY <1>1, <2>1, Multiples
  <2> QED
    BY <1>1, <2>2
<1>4. v \in Word(m)
  BY DEF m
<1>5. \A k \in 0 .. n - 1 : /\ Octet(v, k) \in Byte
                            /\ \A i \in 0 .. CharBits - 1 : Octet(v, k)[i] = v[k * CharBits + i]
  BY <1>1, <1>3, <1>4, OctetType
<1>6. \A j \in 1 .. n : Octet(v, WeightAt(t.order, n, j)) \in Byte
  BY <1>1, <1>5, Placing
<1>7. FixedBytes(t, v) \in Seq(Byte) /\ Len(FixedBytes(t, v)) = n
  BY <1>1, <1>2, <1>6
<1>8. ASSUME NEW k \in 0 .. n - 1, NEW i \in 0 .. CharBits - 1
      PROVE  FixedBytes(t, v)[PositionOf(t.order, n, k)][i] = v[k * CharBits + i]
  <2>1. /\ PositionOf(t.order, n, k) \in 1 .. n
        /\ WeightAt(t.order, n, PositionOf(t.order, n, k)) = k
    BY <1>1, Placing
  <2>2. FixedBytes(t, v)[PositionOf(t.order, n, k)] = Octet(v, k)
    BY <1>2, <2>1
  <2> QED
    BY <1>5, <2>2
<1> QED
  BY <1>7, <1>8 DEF n

(* std::reverse turns one byte order into the other. *)
LEMMA Reversed ==
  ASSUME NEW h \in Orders, NEW o \in Orders, o # h, NEW n \in Nat
  PROVE  /\ \A j \in 1 .. n : WeightAt(h, n, (n - j) + 1) = WeightAt(o, n, j)
         /\ \A k \in 0 .. n - 1 : (n - PositionOf(h, n, k)) + 1 = PositionOf(o, n, k)
BY DEF Orders, WeightAt, PositionOf

(* What memcpy writes, reversed or not, is what the order says, on every   *)
(* machine.                                                                *)
LEMMA WritesFixed ==
  ASSUME NEW t \in Entries, NEW v \in Word(Bits(t.type)), NEW h \in Orders
  PROVE  /\ t.codec = "Byte" => WriteByte(v, h) = FixedBytes(t, v)
         /\ t.codec = "FixedSizeType" => WriteFixedSizeType(v, t, h) = FixedBytes(t, v)
<1> DEFINE n == Stored(t)
<1>1. n \in Nat /\ (t.codec = "Byte" => n = 1)
  BY StoredType, EntryFacts
<1>2. FixedBytes(t, v) = [j \in 1 .. n |-> Octet(v, WeightAt(t.order, n, j))]
  BY DEF FixedBytes
<1>3. ToMemory(v, n, h) = [j \in 1 .. n |-> Octet(v, WeightAt(h, n, j))]
  BY DEF ToMemory, WeightAt
<1>4. t.codec = "FixedSizeType" => WriteFixedSizeType(v, t, h) = Flip(ToMemory(v, n, h), t.order, h)
  BY DEF WriteFixedSizeType
<1>5. t.codec = "Byte" => WriteByte(v, h) = ToMemory(v, n, h)
  BY <1>1 DEF WriteByte
<1> HIDE DEF n
<1>6. CASE t.codec = "Byte"
  <2>1. \A j \in 1 .. n : WeightAt(h, n, j) = WeightAt(t.order, n, j)
    BY <1>1, <1>6 DEF WeightAt
  <2> QED
    BY <1>2, <1>3, <1>5, <1>6, <2>1
<1>7. CASE t.codec = "FixedSizeType" /\ t.order = h
  BY <1>2, <1>3, <1>4, <1>7 DEF Flip
<1>8. CASE t.codec = "FixedSizeType" /\ t.order # h
  <2> DEFINE s == ToMemory(v, n, h)
  <2>1. Len(s) = n /\ \A j \in 1 .. n : s[j] = Octet(v, WeightAt(h, n, j))
    BY <1>1, <1>3
  <2>2. WriteFixedSizeType(v, t, h) = [j \in 1 .. Len(s) |-> s[(Len(s) - j) + 1]]
    BY <1>4, <1>8 DEF Flip, Seqs!Reverse
  <2> HIDE DEF s
  <2>3. \A j \in 1 .. n : (n - j) + 1 \in 1 .. n
    BY <1>1
  <2>4. \A j \in 1 .. n : WeightAt(h, n, (n - j) + 1) = WeightAt(t.order, n, j)
    BY <1>1, <1>8, Reversed, EntryFacts
  <2>5. \A j \in 1 .. n : s[(n - j) + 1] = Octet(v, WeightAt(t.order, n, j))
    BY <2>1, <2>3, <2>4
  <2>6. WriteFixedSizeType(v, t, h) = [j \in 1 .. n |-> s[(n - j) + 1]]
    BY <2>1, <2>2
  <2>7. WriteFixedSizeType(v, t, h) = FixedBytes(t, v)
    BY <1>2, <2>5, <2>6
  <2> QED
    BY <1>8, <2>7
<1> QED
  BY <1>6, <1>7, <1>8

(* So do the shifts of a triad. *)
LEMMA WritesTriad ==
  ASSUME NEW t \in Entries, t.codec = "Int24", NEW v \in Word(Bits(t.type))
  PROVE  WriteInt24(v, t) = FixedBytes(t, v)
<1> DEFINE n == Bits(t.type)
           part(k) == Octet(ShiftRight(v, n, k * CharBits), 0)
<1>1. n = 4 * CharBits /\ CharBits \in Nat /\ n \in Nat /\ Stored(t) = 3 /\ t.order \in Orders
  BY StoredType, EntryFacts, TypeWidths
<1>2. WriteInt24(v, t) = IF t.order = "LittleEndian" THEN <<part(0), part(1), part(2)>>
                                                     ELSE <<part(2), part(1), part(0)>>
  BY DEF WriteInt24
<1> HIDE DEF n
<1>3. ASSUME NEW k \in 0 .. 2 PROVE part(k) = Octet(v, k)
  <2> DEFINE a == k * CharBits
             u == ShiftRight(v, n, a)
  <2>1. a \in Nat /\ a + CharBits <= n
    BY <1>1
  <2>2. u = [i \in 0 .. n - 1 |-> IF i + a < n THEN v[i + a] ELSE 0]
    BY DEF ShiftRight
  <2>3. Octet(u, 0) = [i \in 0 .. CharBits - 1 |-> u[0 * CharBits + i]]
        /\ Octet(v, k) = [i \in 0 .. CharBits - 1 |-> v[a + i]]
    BY DEF Octet
  <2>4. part(k) = Octet(u, 0)
    OBVIOUS
  <2> HIDE DEF a, u
  <2>5. ASSUME NEW i \in 0 .. CharBits - 1 PROVE u[0 * CharBits + i] = v[a + i]
    <3>1. i \in 0 .. n - 1 /\ i + a < n /\ 0 * CharBits + i = i /\ i + a = a + i
      BY <1>1, <2>1
    <3> QED
      BY <2>2, <3>1
  <2>6. Octet(u, 0) = Octet(v, k)
    BY <2>3, <2>5
  <2> QED
    BY <2>4, <2>6
<1> HIDE DEF part
<1>4. FixedBytes(t, v) = [j \in 1 .. 3 |-> Octet(v, WeightAt(t.order, 3, j))]
  BY <1>1 DEF FixedBytes
<1>5. 0 \in 0 .. 2 /\ 1 \in 0 .. 2 /\ 2 \in 0 .. 2
  OBVIOUS
<1>6. CASE t.order = "LittleEndian"
  <2>1. FixedBytes(t, v) = [j \in 1 .. 3 |-> Octet(v, j - 1)]
    BY <1>4, <1>6 DEF WeightAt
  <2>2. WriteInt24(v, t) = <<Octet(v, 0), Octet(v, 1), Octet(v, 2)>>
    BY <1>2, <1>3, <1>5, <1>6
  <2> QED
    BY <2>1, <2>2
<1>7. CASE t.order # "LittleEndian"
  <2>1. FixedBytes(t, v) = [j \in 1 .. 3 |-> Octet(v, 3 - j)]
    BY <1>4, <1>7 DEF WeightAt
  <2>2. WriteInt24(v, t) = <<Octet(v, 2), Octet(v, 1), Octet(v, 0)>>
    BY <1>2, <1>3, <1>5, <1>7
  <2> QED
    BY <2>1, <2>2
<1> QED
  BY <1>6, <1>7

(* What write* and pack* make of a number, for the types of fixed size: on *)
(* every machine its bytes in the order the class is named after.          *)
LEMMA EncodesFixed ==
  ASSUME NEW t \in Entries, t.codec # "VarInt", NEW n \in Word(LongBits), NEW h \in Orders
  PROVE  Encode(t, n, h) = FixedBytes(t, ToValue(t, n))
<1> DEFINE v == ToValue(t, n)
<1>1. v \in Word(Bits(t.type))
  BY ValueTypes
<1>2. /\ t.codec = "Byte" => Encode(t, n, h) = WriteByte(v, h)
      /\ t.codec = "FixedSizeType" => Encode(t, n, h) = WriteFixedSizeType(v, t, h)
      /\ t.codec = "Int24" => Encode(t, n, h) = WriteInt24(v, t)
  BY DEF Encode
<1>3. t.codec \in {"Byte", "FixedSizeType", "Int24"}
  BY EntryFacts
<1> HIDE DEF v
<1>4. Encode(t, n, h) = FixedBytes(t, v)
  BY <1>1, <1>2, <1>3, WritesFixed, WritesTriad
<1> QED
  BY <1>4 DEF v

(* A bit of a value lies in one byte of it. *)
LEMMA ByteOfBit ==
  ASSUME NEW n \in Nat, NEW i \in 0 .. n * CharBits - 1
  PROVE  /\ i \div CharBits \in 0 .. n - 1
         /\ i % CharBits \in 0 .. CharBits - 1
         /\ i = (i \div CharBits) * CharBits + (i % CharBits)
<1>1. i \in Nat /\ i < n * CharBits /\ CharBits \in Nat \ {0}
  BY WidthAssumption
<1>2. i \div CharBits \in Nat /\ i \div CharBits < n
  BY <1>1, Division, QuotientBelow
<1> QED
  BY <1>1, <1>2, Division

(* What is put together from bytes is a value of the type. *)
LEMMA FixedValueType ==
  ASSUME NEW t \in Entries, NEW s \in Seq(Byte), Stored(t) <= Len(s)
  PROVE  FixedValue(t, s) \in Word(Bits(t.type))
<1> DEFINE n == Stored(t)
           m == Bits(t.type)
           byte(k) == s[PositionOf(t.order, n, k)]
<1>1. n \in Nat /\ n >= 1 /\ n <= Len(s) /\ m \in Nat /\ n - 1 \in 0 .. n - 1
  <2>1. Stored(t) \in 1 .. 8 /\ m \in Nat
    BY StoredType, TypeWidths
  <2> QED
    BY <2>1
<1>2. FixedValue(t, s) =
        [i \in 0 .. m - 1 |->
           IF i < n * CharBits THEN byte(i \div CharBits)[i % CharBits]
           ELSE IF IsSigned(t.type) THEN byte(n - 1)[CharBits - 1] ELSE 0]
  BY DEF FixedValue
<1>3. ASSUME NEW k \in 0 .. n - 1 PROVE byte(k) \in [0 .. CharBits - 1 -> {0, 1}]
  <2> HIDE DEF n
  <2>1. PositionOf(t.order, n, k) \in 1 .. n
    BY <1>1, Placing
  <2> QED
    BY <1>1, <2>1 DEF Byte, Word
<1> HIDE DEF n, m, byte
<1>4. CharBits - 1 \in 0 .. CharBits - 1
  BY WidthAssumption
<1>5. \A i \in 0 .. m - 1 : i < n * CharBits =>
        i \div CharBits \in 0 .. n - 1 /\ i % CharBits \in 0 .. CharBits - 1
  <2>1. \A i \in 0 .. m - 1 : i < n * CharBits => i \in 0 .. n * CharBits - 1
    BY <1>1, WidthAssumption
  <2> QED
    BY <1>1, <2>1, ByteOfBit
<1>6. byte(n - 1)[CharBits - 1] \in {0, 1}
  BY <1>1, <1>3, <1>4
<1>7. \A i \in 0 .. m - 1 : i < n * CharBits => byte(i \div CharBits)[i % CharBits] \in {0, 1}
  BY <1>3, <1>5
<1>8. FixedValue(t, s) \in [0 .. m - 1 -> {0, 1}]
  BY <1>2, <1>6, <1>7
<1> QED
  BY <1>8 DEF Word, m

(* What memcpy reads, reversed or not, is put together in the order of t,  *)
(* on every machine.                                                       *)
LEMMA ReadsFixed ==
  ASSUME NEW t \in Entries, NEW s \in Seq(Byte), Len(s) = Stored(t), NEW h \in Orders
  PROVE  /\ t.codec = "Byte" => ReadByte(s, h) = FixedValue(t, s)
         /\ t.codec = "FixedSizeType" => ReadFixedSizeType(s, t, h) = FixedValue(t, s)
<1> SUFFICES ASSUME t.codec \in {"Byte", "FixedSizeType"}
             PROVE  /\ t.codec = "Byte" => ReadByte(s, h) = FixedValue(t, s)
                    /\ t.codec = "FixedSizeType" => ReadFixedSizeType(s, t, h) = FixedValue(t, s)
  OBVIOUS
<1> DEFINE n == Stored(t)
           b == n * CharBits
           read(o) == [i \in 0 .. b - 1 |-> s[PositionOf(o, n, i \div CharBits)][i % CharBits]]
<1>1. n \in Nat /\ (t.codec = "Byte" => n = 1) /\ Bits(t.type) = b /\ b \in Nat /\ Len(s) = n
  BY StoredType, EntryFacts, TypeWidths
<1>2. FixedValue(t, s) = read(t.order)
  <2>1. FixedValue(t, s) =
          [i \in 0 .. b - 1 |->
             IF i < b THEN s[PositionOf(t.order, n, i \div CharBits)][i % CharBits]
             ELSE IF IsSigned(t.type) THEN s[PositionOf(t.order, n, n - 1)][CharBits - 1] ELSE 0]
    BY <1>1 DEF FixedValue
  <2> HIDE DEF n, b
  <2>2. \A i \in 0 .. b - 1 : i < b
    BY <1>1
  <2> QED
    BY <2>1, <2>2
<1>3. \A z : FromMemory(z, n, h) =
               [i \in 0 .. b - 1 |-> z[PositionOf(h, n, i \div CharBits)][i % CharBits]]
  BY DEF FromMemory, PositionOf
<1>4. t.codec = "FixedSizeType" => ReadFixedSizeType(s, t, h) = FromMemory(Flip(s, t.order, h), n, h)
  BY DEF ReadFixedSizeType
<1>5. t.codec = "Byte" => ReadByte(s, h) = FromMemory(s, n, h)
  BY <1>1 DEF ReadByte
<1>6. \A i \in 0 .. b - 1 : i \div CharBits \in 0 .. n - 1
  BY <1>1, ByteOfBit
<1> HIDE DEF n, b
<1>7. CASE t.codec = "Byte"
  <2>1. \A i \in 0 .. b - 1 : PositionOf(h, n, i \div CharBits) = PositionOf(t.order, n, i \div CharBits)
    BY <1>1, <1>6, <1>7 DEF PositionOf
  <2>2. FromMemory(s, n, h) = read(t.order)
    BY <1>3, <2>1
  <2> QED
    BY <1>2, <1>5, <1>7, <2>2
<1>8. CASE t.codec = "FixedSizeType" /\ t.order = h
  BY <1>2, <1>3, <1>4, <1>8 DEF Flip
<1>9. CASE t.codec = "FixedSizeType" /\ t.order # h
  <2> DEFINE z == Flip(s, t.order, h)
  <2>1. z = [j \in 1 .. n |-> s[(n - j) + 1]]
    BY <1>1, <1>9 DEF Flip, Seqs!Reverse
  <2> HIDE DEF z
  <2>2. \A k \in 0 .. n - 1 : /\ PositionOf(h, n, k) \in 1 .. n
                              /\ (n - PositionOf(h, n, k)) + 1 = PositionOf(t.order, n, k)
    BY <1>1, <1>9, Reversed, Placing, EntryFacts
  <2>3. \A k \in 0 .. n - 1 : z[PositionOf(h, n, k)] = s[PositionOf(t.order, n, k)]
    BY <2>1, <2>2
  <2>4. \A i \in 0 .. b - 1 : z[PositionOf(h, n, i \div CharBits)] = s[PositionOf(t.order, n, i \div CharBits)]
    BY <1>6, <2>3
  <2>5. FromMemory(z, n, h) = read(t.order)
    BY <1>3, <2>4
  <2> QED
    BY <1>2, <1>4, <1>9, <2>5 DEF z
<1> QED
  BY <1>7, <1>8, <1>9

(* The three parts of a triad are put together and its sign extended. *)
LEMMA ReadsTriad ==
  ASSUME NEW t \in Entries, t.codec = "Int24", NEW s \in Seq(Byte), Len(s) = 3
  PROVE  ReadInt24(s, t) = FixedValue(t, s)
<1> DEFINE c == CharBits
           n == Bits(t.type)
           byte(k) == s[PositionOf(t.order, 3, k)]
           part(k) == ShiftLeft(Cast(byte(k), c, n, FALSE), n, k * c)
           value == Or(Or(part(0), part(1)), part(2))
<1>1. n = 4 * c /\ c \in Nat \ {0} /\ n \in Nat \ {0} /\ Stored(t) = 3 /\ t.order \in Orders
  BY StoredType, EntryFacts, TypeWidths
<1>2. ReadInt24(s, t) = IF IsSigned(t.type) THEN SignExtended(value, n, n - 3 * c) ELSE value
  BY DEF ReadInt24, PositionOf, TriadSize
<1>3. FixedValue(t, s) =
        [i \in 0 .. n - 1 |-> IF i < 3 * c THEN byte(i \div c)[i % c]
                              ELSE IF IsSigned(t.type) THEN byte(2)[c - 1] ELSE 0]
  BY <1>1 DEF FixedValue
<1>4. ASSUME NEW k \in 0 .. 2 PROVE byte(k) \in [0 .. c - 1 -> {0, 1}]
  <2>1. PositionOf(t.order, 3, k) \in 1 .. 3
    BY DEF PositionOf
  <2>2. \A j \in 1 .. 3 : s[j] \in Byte
    OBVIOUS
  <2>3. s[PositionOf(t.order, 3, k)] \in Byte
    BY <2>1, <2>2
  <2> QED
    BY <2>3 DEF Byte, Word
<1> HIDE DEF n, c, byte
<1>5. ASSUME NEW k \in 0 .. 2
      PROVE  part(k) = [i \in 0 .. n - 1 |-> IF i \div c = k THEN byte(k)[i % c] ELSE 0]
  <2> DEFINE a == k * c
             u == Cast(byte(k), c, n, FALSE)
  <2>1. u = [i \in 0 .. n - 1 |-> IF i < c THEN byte(k)[i] ELSE 0]
    BY DEF Cast
  <2>2. part(k) = [i \in 0 .. n - 1 |-> IF i >= a THEN u[i - a] ELSE 0]
    BY DEF ShiftLeft
  <2>3. a \in Nat /\ k \in Nat /\ a + c <= n
    BY <1>1
  <2>4. ASSUME NEW i \in 0 .. n - 1
        PROVE  (IF i >= a THEN u[i - a] ELSE 0) = IF i \div c = k THEN byte(k)[i % c] ELSE 0
    <3>0. i \in Nat
      BY <1>1, <2>4
    <3>1. i \in Nat /\ i \div c \in Nat /\ i % c \in 0 .. c - 1 /\ i = (i \div c) * c + (i % c)
      BY <1>1, <3>0, Division
    <3>2. CASE i \div c = k
      <4>1. i = a + (i % c)
        BY <3>1, <3>2
      <4> HIDE DEF a, u
      <4>2. i >= a /\ i - a = i % c /\ i - a \in 0 .. n - 1 /\ i - a < c
        BY <1>1, <2>3, <3>1, <4>1
      <4> QED
        BY <2>1, <3>2, <4>2
    <3>3. CASE i \div c < k
      <4>1. i < a
        BY <1>1, <2>3, <3>1, <3>3, QuotientBelow
      <4> HIDE DEF a, u
      <4> QED
        BY <2>3, <3>1, <3>3, <4>1
    <3>4. CASE i \div c > k
      <4>1. ~ (i < (k + 1) * c) /\ (k + 1) * c = a + c
        <5>1. ~ (i \div c < k + 1) /\ k + 1 \in Nat /\ (k + 1) * c = k * c + c
          BY <1>1, <2>3, <3>1, <3>4, Multiples
        <5> QED
          BY <1>1, <3>1, <5>1, QuotientBelow
      <4> HIDE DEF a, u
      <4>2. i >= a /\ i - a \in 0 .. n - 1 /\ ~ (i - a < c)
        BY <1>1, <2>3, <3>1, <4>1
      <4> QED
        BY <2>1, <2>3, <3>1, <3>4, <4>2
    <3>5. \A q \in Nat : q = k \/ q < k \/ q > k
      BY <2>3
    <3> QED
      BY <3>1, <3>2, <3>3, <3>4, <3>5
  <2> HIDE DEF a, u, part
  <2> QED
    BY <2>2, <2>4
<1> HIDE DEF part
<1>6. ASSUME NEW i \in 0 .. n - 1
      PROVE  /\ i \div c \in 0 .. 3 /\ i % c \in 0 .. c - 1
             /\ (i < 3 * c <=> i \div c < 3)
  <2>1. i \in Nat /\ i < 4 * c
    BY <1>1
  <2>2. i \div c \in Nat /\ i % c \in 0 .. c - 1
    BY <1>1, <2>1, Division
  <2>3. i \div c < 4 /\ (i < 3 * c <=> i \div c < 3)
    BY <1>1, <2>1, QuotientBelow
  <2> QED
    BY <2>2, <2>3
<1>7. value = [i \in 0 .. n - 1 |-> IF i < 3 * c THEN byte(i \div c)[i % c] ELSE 0]
  <2>1. value = [i \in 0 .. n - 1 |-> IF part(0)[i] = 1 THEN 1
                                      ELSE IF part(1)[i] = 1 THEN 1 ELSE part(2)[i]]
    <3>1. DOMAIN part(0) = 0 .. n - 1
      BY <1>5
    <3>2. Or(part(0), part(1)) = [i \in 0 .. n - 1 |-> IF part(0)[i] = 1 THEN 1 ELSE part(1)[i]]
      BY <3>1 DEF Or
    <3> DEFINE w == Or(part(0), part(1))
    <3>3. value = [i \in 0 .. n - 1 |-> IF w[i] = 1 THEN 1 ELSE part(2)[i]]
      BY <3>2 DEF Or
    <3>4. \A i \in 0 .. n - 1 : w[i] = IF part(0)[i] = 1 THEN 1 ELSE part(1)[i]
      BY <3>2
    <3> HIDE DEF w, value
    <3> QED
      BY <3>3, <3>4
  <2>2. ASSUME NEW i \in 0 .. n - 1
        PROVE  (IF part(0)[i] = 1 THEN 1 ELSE IF part(1)[i] = 1 THEN 1 ELSE part(2)[i])
                 = IF i < 3 * c THEN byte(i \div c)[i % c] ELSE 0
    <3>1. \A k \in 0 .. 2 : part(k)[i] = IF i \div c = k THEN byte(k)[i % c] ELSE 0
      BY <1>5
    <3>2. \A k \in 0 .. 2 : byte(k)[i % c] \in {0, 1}
      BY <1>4, <1>6
    <3>3. /\ part(0)[i] = IF i \div c = 0 THEN byte(0)[i % c] ELSE 0
          /\ part(1)[i] = IF i \div c = 1 THEN byte(1)[i % c] ELSE 0
          /\ part(2)[i] = IF i \div c = 2 THEN byte(2)[i % c] ELSE 0
      BY <3>1
    <3>4. /\ i \div c = 0 \/ i \div c = 1 \/ i \div c = 2 \/ i \div c = 3
          /\ i < 3 * c <=> i \div c < 3
      BY <1>6
    <3> DEFINE q == i \div c
    <3> HIDE DEF q
    <3>5. /\ part(0)[i] = IF q = 0 THEN byte(0)[i % c] ELSE 0
          /\ part(1)[i] = IF q = 1 THEN byte(1)[i % c] ELSE 0
          /\ part(2)[i] = IF q = 2 THEN byte(2)[i % c] ELSE 0
          /\ q = 0 \/ q = 1 \/ q = 2 \/ q = 3
          /\ i < 3 * c <=> q < 3
      BY <3>3, <3>4 DEF q
    <3>6. (IF part(0)[i] = 1 THEN 1 ELSE IF part(1)[i] = 1 THEN 1 ELSE part(2)[i])
            = IF i < 3 * c THEN byte(q)[i % c] ELSE 0
      BY <3>2, <3>5
    <3> QED
      BY <3>6 DEF q
  <2> HIDE DEF value
  <2> QED
    BY <2>1, <2>2
<1> HIDE DEF value
<1>8. CASE IsSigned(t.type)
  <2> DEFINE w == ShiftLeft(value, n, c)
  <2>1. n - 3 * c = c
    BY <1>1
  <2>2. ReadInt24(s, t) = [i \in 0 .. n - 1 |-> IF i + c < n THEN w[i + c] ELSE w[n - 1]]
    BY <1>2, <1>8, <2>1 DEF SignExtended, SignedShiftRight
  <2>3. w = [i \in 0 .. n - 1 |-> IF i >= c THEN value[i - c] ELSE 0]
    BY DEF ShiftLeft
  <2>4. value[(n - 1) - c] = byte(2)[c - 1]
    <3>1. (n - 1) - c = 2 * c + (c - 1) /\ (n - 1) - c < 3 * c /\ (n - 1) - c \in 0 .. n - 1 /\ c - 1 \in 0 .. c - 1
      BY <1>1
    <3>2. (2 * c + (c - 1)) \div c = 2 /\ (2 * c + (c - 1)) % c = c - 1
      BY <1>1, <3>1, DivisionIs
    <3> QED
      BY <1>7, <3>1, <3>2
  <2> HIDE DEF w
  <2>5. ASSUME NEW i \in 0 .. n - 1
        PROVE  (IF i + c < n THEN w[i + c] ELSE w[n - 1])
                 = IF i < 3 * c THEN byte(i \div c)[i % c] ELSE byte(2)[c - 1]
    <3>1. CASE i < 3 * c
      <4>1. i + c < n /\ i + c \in 0 .. n - 1 /\ i + c >= c /\ (i + c) - c = i
        BY <1>1, <2>5, <3>1
      <4>2. w[i + c] = value[i]
        BY <2>3, <4>1
      <4> QED
        BY <1>7, <3>1, <4>1, <4>2
    <3>2. CASE ~ (i < 3 * c)
      <4>1. ~ (i + c < n) /\ n - 1 \in 0 .. n - 1 /\ n - 1 >= c
        BY <1>1, <2>5, <3>2
      <4> QED
        BY <2>3, <2>4, <3>2, <4>1
    <3> QED
      BY <3>1, <3>2
  <2>6. FixedValue(t, s) =
          [i \in 0 .. n - 1 |-> IF i < 3 * c THEN byte(i \div c)[i % c] ELSE byte(2)[c - 1]]
    BY <1>3, <1>8
  <2> QED
    BY <2>2, <2>5, <2>6
<1>9. CASE ~ IsSigned(t.type)
  BY <1>2, <1>3, <1>7, <1>9
<1> QED
  BY <1>8, <1>9

(* The parts of Decode: how many bytes it takes, whether they are enough,  *)
(* and the value they make.                                                *)
Bytes(t, s) == IF t.codec = "VarInt" THEN VarIntBytes(s, Bits(t.type)) ELSE Stored(t)
Enough(t, s) ==
  IF t.codec = "VarInt" THEN Terminated(s, Bytes(t, s)) ELSE Bytes(t, s) <= Len(s)
ValueOf(t, s, h) ==
  LET k == Bytes(t, s)
      u == Joined(s, k, Bits(t.type))
  IN  CASE t.codec = "Byte"          -> ReadByte(SubSeq(s, 1, k), h)
        [] t.codec = "FixedSizeType" -> ReadFixedSizeType(SubSeq(s, 1, k), t, h)
        [] t.codec = "Int24"         -> ReadInt24(SubSeq(s, 1, k), t)
        [] t.codec = "VarInt"        -> IF IsSigned(t.type) THEN UnZigZag(u, Bits(t.type)) ELSE u

(* Decode is made of these parts. *)
LEMMA DecodeIs ==
  ASSUME NEW t, NEW s, NEW h
  PROVE  /\ Decode(t, s, h).threw = ~ Enough(t, s)
         /\ Decode(t, s, h).taken = IF Enough(t, s) \/ t.codec = "VarInt" THEN Bytes(t, s) ELSE 0
         /\ Decode(t, s, h).number =
              IF Enough(t, s) THEN FromValue(t, ValueOf(t, s, h)) ELSE Zero(LongBits)
<1>1. Decode(t, s, h) =
        [threw  |-> ~ Enough(t, s),
         taken  |-> Moved(t, Enough(t, s), Bytes(t, s)),
         number |-> IF Enough(t, s) THEN FromValue(t, ValueOf(t, s, h)) ELSE Zero(LongBits)]
  BY Zenon DEF Decode, Enough, Bytes, ValueOf
<1>2. Moved(t, Enough(t, s), Bytes(t, s)) = IF Enough(t, s) \/ t.codec = "VarInt" THEN Bytes(t, s) ELSE 0
  BY DEF Moved
<1> QED
  BY <1>1, <1>2

(* What read* and unpack* make of bytes, for the types of fixed size, on   *)
(* every machine.                                                          *)
LEMMA DecodesFixed ==
  ASSUME NEW t \in Entries, t.codec # "VarInt", NEW s \in Seq(Byte), NEW h \in Orders
  PROVE  /\ Decode(t, s, h).threw = ~ (Stored(t) <= Len(s))
         /\ Decode(t, s, h).taken = IF Stored(t) <= Len(s) THEN Stored(t) ELSE 0
         /\ Decode(t, s, h).number =
              IF Stored(t) <= Len(s) THEN FromValue(t, FixedValue(t, s)) ELSE Zero(LongBits)
<1> DEFINE n == Stored(t)
           z == SubSeq(s, 1, n)
           v == ValueOf(t, s, h)
<1>1. Bytes(t, s) = n /\ Enough(t, s) = (n <= Len(s))
  BY DEF Bytes, Enough
<1>2. /\ t.codec = "Byte" => v = ReadByte(z, h)
      /\ t.codec = "FixedSizeType" => v = ReadFixedSizeType(z, t, h)
      /\ t.codec = "Int24" => v = ReadInt24(z, t)
  BY <1>1 DEF ValueOf
<1>3. n \in 1 .. 8 /\ t.codec \in {"Byte", "FixedSizeType", "Int24"} /\ Len(s) \in Nat
  BY StoredType, EntryFacts
<1>4. ASSUME n <= Len(s) PROVE v = FixedValue(t, s)
  <2>1. z \in Seq(Byte) /\ Len(z) = n /\ \A j \in 1 .. n : z[j] = s[j]
    <3> HIDE DEF n
    <3> QED
      BY <1>3, <1>4
  <2>2. v = FixedValue(t, z)
    <3>1. t.codec = "Int24" => n = 3
      BY StoredType
    <3> HIDE DEF z
    <3>2. CASE t.codec = "Byte"
      BY <1>2, <2>1, <3>2, ReadsFixed
    <3>3. CASE t.codec = "FixedSizeType"
      BY <1>2, <2>1, <3>3, ReadsFixed
    <3>4. CASE t.codec = "Int24"
      BY <1>2, <2>1, <3>1, <3>4, ReadsTriad
    <3> QED
      BY <1>3, <3>2, <3>3, <3>4
  <2> HIDE DEF z, n
  <2>3. \A k \in 0 .. n - 1 : z[PositionOf(t.order, n, k)] = s[PositionOf(t.order, n, k)]
    BY <1>3, <2>1, Placing
  <2>4. ASSUME NEW i \in 0 .. Bits(t.type) - 1, i < n * CharBits PROVE i \div CharBits \in 0 .. n - 1
    <3>1. i \in 0 .. n * CharBits - 1 /\ n \in Nat
      BY <1>3, <2>4, WidthAssumption, TypeWidths
    <3> QED
      BY <3>1, ByteOfBit
  <2>5. n - 1 \in 0 .. n - 1
    BY <1>3
  <2>6. FixedValue(t, z) = FixedValue(t, s)
    BY <2>3, <2>4, <2>5 DEF FixedValue, n
  <2> QED
    BY <2>2, <2>6
<1> HIDE DEF n, v
<1>5. /\ Decode(t, s, h).threw = ~ (n <= Len(s))
      /\ Decode(t, s, h).taken = IF n <= Len(s) THEN n ELSE 0
      /\ Decode(t, s, h).number = IF n <= Len(s) THEN FromValue(t, v) ELSE Zero(LongBits)
  BY <1>1, DecodeIs DEF v
<1>6. n <= Len(s) => FromValue(t, v) = FromValue(t, FixedValue(t, s))
  BY <1>4
<1> QED
  BY <1>5, <1>6 DEF n

(* The value that is put together from the bytes of v has the bits of v,   *)
(* and its sign or zeros where a triad has no bytes.                       *)
LEMMA FixedComesBack ==
  ASSUME NEW t \in Entries, NEW v \in Word(Bits(t.type)), NEW s \in Seq(Byte),
         Stored(t) <= Len(s), \A j \in 1 .. Stored(t) : s[j] = FixedBytes(t, v)[j]
  PROVE  \A i \in 0 .. Bits(t.type) - 1 :
           FixedValue(t, s)[i] = IF i < Stored(t) * CharBits THEN v[i]
                                 ELSE IF IsSigned(t.type) THEN v[Stored(t) * CharBits - 1] ELSE 0
<1> DEFINE n == Stored(t)
           m == Bits(t.type)
           byte(k) == s[PositionOf(t.order, n, k)]
<1>1. FixedValue(t, s) =
        [i \in 0 .. m - 1 |->
           IF i < n * CharBits THEN byte(i \div CharBits)[i % CharBits]
           ELSE IF IsSigned(t.type) THEN byte(n - 1)[CharBits - 1] ELSE 0]
  BY DEF FixedValue
<1>2. n \in 1 .. 8 /\ CharBits \in Nat \ {0} /\ m \in Nat
  BY StoredType, TypeWidths
<1>3. \A j \in 1 .. n : s[j] = FixedBytes(t, v)[j]
  OBVIOUS
<1>4. \A k \in 0 .. n - 1, i \in 0 .. CharBits - 1 :
        FixedBytes(t, v)[PositionOf(t.order, n, k)][i] = v[k * CharBits + i]
  BY FixedBytesType
<1> HIDE DEF n, m
<1>5. \A k \in 0 .. n - 1 : byte(k) = FixedBytes(t, v)[PositionOf(t.order, n, k)]
  BY <1>2, <1>3, Placing
<1> HIDE DEF byte
<1>6. \A k \in 0 .. n - 1, i \in 0 .. CharBits - 1 : byte(k)[i] = v[k * CharBits + i]
  BY <1>4, <1>5
<1>7. ASSUME NEW i \in 0 .. m - 1, i < n * CharBits PROVE byte(i \div CharBits)[i % CharBits] = v[i]
  <2>1. i \in 0 .. n * CharBits - 1 /\ n \in Nat
    BY <1>2, <1>7
  <2>2. /\ i \div CharBits \in 0 .. n - 1 /\ i % CharBits \in 0 .. CharBits - 1
        /\ i = (i \div CharBits) * CharBits + (i % CharBits)
    BY <2>1, ByteOfBit
  <2> DEFINE q == i \div CharBits
             r == i % CharBits
  <2>3. q \in 0 .. n - 1 /\ r \in 0 .. CharBits - 1 /\ i = q * CharBits + r
    BY <2>2
  <2> HIDE DEF q, r
  <2>4. byte(q)[r] = v[i]
    BY <1>6, <2>3
  <2> QED
    BY <2>4 DEF q, r
<1>8. byte(n - 1)[CharBits - 1] = v[n * CharBits - 1]
  <2>1. n - 1 \in 0 .. n - 1 /\ CharBits - 1 \in 0 .. CharBits - 1 /\ n - 1 \in Nat /\ (n - 1) + 1 = n
    BY <1>2
  <2>2. byte(n - 1)[CharBits - 1] = v[(n - 1) * CharBits + (CharBits - 1)]
    BY <1>6, <2>1
  <2>3. n * CharBits = (n - 1) * CharBits + CharBits /\ (n - 1) * CharBits \in Nat
    BY <1>2, <2>1, Multiples
  <2> DEFINE a == (n - 1) * CharBits
  <2>4. n * CharBits = a + CharBits /\ a \in Nat
    BY <2>3
  <2> HIDE DEF a
  <2>5. a + (CharBits - 1) = n * CharBits - 1
    BY <1>2, <2>4
  <2> QED
    BY <2>2, <2>5 DEF a
<1> QED
  BY <1>1, <1>7, <1>8 DEF n, m

(* What a cast to fewer bits leaves. *)
LEMMA CastDown ==
  ASSUME NEW m \in Nat \ {0}, NEW n \in Nat, n <= m, NEW v \in Word(m)
  PROVE  /\ Cast(v, m, n, FALSE) \in Word(n)
         /\ \A i \in 0 .. n - 1 : Cast(v, m, n, FALSE)[i] = v[i]
<1>1. Cast(v, m, n, FALSE) = [i \in 0 .. n - 1 |-> IF i < m THEN v[i] ELSE 0]
  BY DEF Cast
<1>2. \A i \in 0 .. n - 1 : i < m /\ i \in 0 .. m - 1
  OBVIOUS
<1> QED
  BY <1>1, <1>2 DEF Word

(* Casting to a wider word and back changes nothing. *)
LEMMA CastBack ==
  ASSUME NEW t \in Entries, t.type # "float", NEW v \in Word(Bits(t.type))
  PROVE  ToValue(t, FromValue(t, v)) = v
<1> DEFINE m == Bits(t.type)
           x == Cast(v, m, LongBits, IsSigned(t.type))
<1>1. m \in Nat \ {0} /\ LongBits \in Nat \ {0} /\ m <= LongBits
  BY TypeWidths
<1>2. CASE t.type = "double"
  BY <1>2 DEF ToValue, FromValue
<1>3. CASE t.type # "double"
  <2>1. ToValue(t, FromValue(t, v)) = Cast(x, LongBits, m, FALSE)
    BY <1>3 DEF ToValue, FromValue
  <2> HIDE DEF m
  <2>2. v \in Word(m)
    BY DEF m
  <2>3. x \in Word(LongBits) /\ \A i \in 0 .. LongBits - 1 : i < m => x[i] = v[i]
    BY <1>1, <2>2, CastType
  <2> HIDE DEF x
  <2>4. /\ Cast(x, LongBits, m, FALSE) \in Word(m)
        /\ \A i \in 0 .. m - 1 : Cast(x, LongBits, m, FALSE)[i] = x[i]
    BY <1>1, <2>3, CastDown
  <2>5. \A i \in 0 .. m - 1 : i \in 0 .. LongBits - 1 /\ i < m
    BY <1>1
  <2> DEFINE y == Cast(x, LongBits, m, FALSE)
  <2>6. y \in Word(m) /\ \A i \in 0 .. m - 1 : y[i] = v[i]
    BY <2>3, <2>4, <2>5
  <2> HIDE DEF y
  <2>7. y = v
    BY <1>1, <2>2, <2>6, SameWord
  <2> QED
    BY <2>1, <2>7 DEF y
<1> QED
  BY <1>2, <1>3

(* A value of which all bytes are stored is put together again.            *)
LEMMA FixedSame ==
  ASSUME NEW t \in Entries, t.codec \notin {"VarInt", "Int24"}, NEW v \in Word(Bits(t.type)),
         NEW s \in Seq(Byte), Stored(t) <= Len(s), \A j \in 1 .. Stored(t) : s[j] = FixedBytes(t, v)[j]
  PROVE  FixedValue(t, s) = v
<1> DEFINE m == Bits(t.type)
           b == Stored(t) * CharBits
           u == FixedValue(t, s)
<1>1. m \in Nat /\ b = m
  BY StoredType, TypeWidths
<1>2. u \in Word(m)
  BY FixedValueType
<1>3. \A i \in 0 .. m - 1 : u[i] = IF i < b THEN v[i] ELSE IF IsSigned(t.type) THEN v[b - 1] ELSE 0
  BY FixedComesBack
<1> HIDE DEF m, b, u
<1>4. \A i \in 0 .. m - 1 : u[i] = v[i]
  BY <1>1, <1>3
<1> QED
  BY <1>1, <1>2, <1>4, SameWord DEF m, u

(* A number that is read back from its bytes, by types other than float.   *)
LEMMA FixedReturns ==
  ASSUME NEW t \in Entries, t.codec # "VarInt", t.type # "float", NEW n \in Word(LongBits),
         NEW s \in Seq(Byte), Stored(t) <= Len(s),
         \A j \in 1 .. Stored(t) : s[j] = FixedBytes(t, ToValue(t, n))[j]
  PROVE  FromValue(t, FixedValue(t, s)) =
           IF t.type = "double" THEN n ELSE Cast(n, Stored(t) * CharBits, LongBits, IsSigned(t.type))
<1> DEFINE m == Bits(t.type)
           b == Stored(t) * CharBits
           v == ToValue(t, n)
           u == FixedValue(t, s)
<1>1. /\ m \in Nat \ {0} /\ LongBits \in Nat \ {0} /\ m <= LongBits
      /\ b \in Nat \ {0} /\ b <= m
  <2>1. Stored(t) \in 1 .. 8 /\ b \in Nat /\ b <= m /\ CharBits \in Nat \ {0}
    BY StoredType, TypeWidths
  <2>2. b # 0
    BY <2>1
  <2> QED
    BY <2>1, <2>2, TypeWidths
<1>2. v \in Word(m) /\ u \in Word(m)
  BY ValueTypes, FixedValueType
<1>3. \A i \in 0 .. m - 1 : u[i] = IF i < b THEN v[i] ELSE IF IsSigned(t.type) THEN v[b - 1] ELSE 0
  BY <1>2, FixedComesBack
<1>4. CASE t.type = "double"
  <2>1. v = n /\ FromValue(t, u) = u
    BY <1>4 DEF ToValue, FromValue
  <2>2. b = m
    BY <1>4, StoredType, TypeWidths, EntryFacts
  <2> HIDE DEF m, b, v, u
  <2>3. \A i \in 0 .. m - 1 : u[i] = v[i]
    BY <1>1, <1>3, <2>2
  <2>4. u = v
    BY <1>1, <1>2, <2>3, SameWord
  <2>5. FromValue(t, u) = n
    BY <2>1, <2>4
  <2> QED
    BY <1>4, <2>5 DEF u
<1>5. CASE t.type # "double"
  <2> DEFINE signed == IsSigned(t.type)
             x == Cast(u, m, LongBits, signed)
             y == Cast(n, b, LongBits, signed)
  <2>1. v = Cast(n, LongBits, m, FALSE) /\ FromValue(t, u) = x
    BY <1>5 DEF ToValue, FromValue
  <2> HIDE DEF m, b, v, u, signed
  <2>2. \A i \in 0 .. m - 1 : v[i] = n[i]
    BY <1>1, <2>1, CastDown
  <2>3. x \in Word(LongBits) /\ \A i \in 0 .. LongBits - 1 :
          x[i] = IF i < m THEN u[i] ELSE IF signed THEN u[m - 1] ELSE 0
    BY <1>1, <1>2, CastType
  <2>5. y = [i \in 0 .. LongBits - 1 |-> IF i < b THEN n[i] ELSE IF signed THEN n[b - 1] ELSE 0]
    BY DEF Cast
  <2>6. ASSUME NEW i \in 0 .. LongBits - 1 PROVE x[i] = y[i]
    <3>1. /\ m - 1 \in 0 .. m - 1 /\ b - 1 \in 0 .. m - 1
          /\ i < m => i \in 0 .. m - 1
          /\ i < b => i < m
          /\ m - 1 < b => b = m
      BY <1>1
    <3>2. \A j \in 0 .. m - 1 : u[j] = IF j < b THEN n[j] ELSE IF signed THEN n[b - 1] ELSE 0
      BY <1>3, <2>2, <3>1 DEF signed
    <3> QED
      BY <2>3, <2>5, <3>1, <3>2
  <2>7. x = y
    <3>1. y = [i \in 0 .. LongBits - 1 |-> y[i]] /\ x = [i \in 0 .. LongBits - 1 |-> x[i]]
      BY <2>3, <2>5 DEF Word
    <3> QED
      BY <2>6, <3>1
  <2> QED
    BY <1>5, <2>1, <2>7 DEF b, u, signed
<1> QED
  BY <1>4, <1>5

(* Writing what was read gives the bytes that were read, if the conversion *)
(* of a float can be undone.                                               *)
LEMMA FixedRepacks ==
  ASSUME NEW t \in Entries, t.codec # "VarInt", NEW h \in Orders,
         NEW s \in Seq(Byte), Stored(t) <= Len(s),
         t.type = "float" => ToValue(t, FromValue(t, FixedValue(t, s))) = FixedValue(t, s)
  PROVE  Encode(t, FromValue(t, FixedValue(t, s)), h) = SubSeq(s, 1, Stored(t))
<1> DEFINE n == Stored(t)
           m == Bits(t.type)
           u == FixedValue(t, s)
           f == FixedBytes(t, u)
           byte(k) == s[PositionOf(t.order, n, k)]
<1>1. u \in Word(m)
  BY FixedValueType
<1>2. FromValue(t, u) \in Word(LongBits) /\ ToValue(t, FromValue(t, u)) = u
  <2>1. t.type # "float" => ToValue(t, FromValue(t, u)) = u
    BY <1>1, CastBack
  <2> QED
    BY <1>1, <2>1, ValueTypes
<1>3. Encode(t, FromValue(t, u), h) = f
  BY <1>2, EncodesFixed
<1>4. n \in Nat /\ n >= 1 /\ n <= Len(s) /\ Len(s) \in Nat /\ n * CharBits <= m /\ n * CharBits \in Nat /\ m \in Nat
      /\ CharBits \in Nat \ {0}
  <2>1. Stored(t) \in 1 .. 8
    BY StoredType
  <2>2. n * CharBits <= m /\ n * CharBits \in Nat /\ m \in Nat /\ CharBits \in Nat \ {0}
    BY StoredType, TypeWidths
  <2> QED
    BY <2>1, <2>2
<1>5. /\ f \in Seq(Byte) /\ Len(f) = n
      /\ \A k \in 0 .. n - 1, i \in 0 .. CharBits - 1 :
           f[PositionOf(t.order, n, k)][i] = u[k * CharBits + i]
  BY <1>1, FixedBytesType
<1>6. \A i \in 0 .. m - 1 : i < n * CharBits => u[i] = byte(i \div CharBits)[i % CharBits]
  BY DEF FixedValue
<1> HIDE DEF n, m, f, u
<1>7. ASSUME NEW j \in 1 .. n PROVE f[j] = s[j]
  <2> DEFINE k == WeightAt(t.order, n, j)
  <2>1. k \in 0 .. n - 1 /\ PositionOf(t.order, n, k) = j
    BY <1>4, Placing
  <2> HIDE DEF k
  <2>2. f[j] \in Word(CharBits) /\ s[j] \in Word(CharBits)
    BY <1>4, <1>5 DEF Byte
  <2>3. ASSUME NEW i \in 0 .. CharBits - 1 PROVE f[j][i] = s[j][i]
    <3> DEFINE a == k * CharBits + i
    <3>1. a \div CharBits = k /\ a % CharBits = i
      <4>1. k \in Nat
        BY <1>4, <2>1
      <4> QED
        BY <1>4, <4>1, DivisionIs
    <3>2. a \in Nat /\ a < n * CharBits
      <4>1. k \in Nat /\ k < n /\ a \in Nat
        BY <1>4, <2>1
      <4>2. a \div CharBits < n
        BY <3>1, <4>1
      <4> HIDE DEF a
      <4> QED
        BY <1>4, <4>1, <4>2, QuotientBelow
    <3>3. f[j][i] = u[a]
      BY <1>5, <2>1
    <3> HIDE DEF a
    <3>4. a \in 0 .. m - 1
      BY <1>4, <3>2
    <3>5. u[a] = byte(k)[i]
      BY <1>6, <3>1, <3>2, <3>4
    <3> QED
      BY <2>1, <3>3, <3>5
  <2> QED
    BY <1>4, <2>2, <2>3, SameWord
<1>8. f = SubSeq(s, 1, n)
  BY <1>4, <1>5, <1>7
<1> QED
  BY <1>3, <1>8 DEF n, u

----------------------------------------------------------------------------
(* Varints.                                                                *)

(* MAX_BYTES groups are enough for a number of n bits. *)
LEMMA MaxBytesEnough ==
  ASSUME NEW n \in Nat \ {0}
  PROVE  MAX_BYTES(n) \in Nat \ {0} /\ n <= MAX_BYTES(n) * BitsPerByte
<1> DEFINE q == n \div BitsPerByte
           r == n % BitsPerByte
<1>1. BitsPerByte \in Nat \ {0}
  BY WidthAssumption
<1>2. q \in Nat /\ r \in 0 .. BitsPerByte - 1 /\ n = q * BitsPerByte + r
  BY <1>1, Division
<1>3. MAX_BYTES(n) = q + (IF r > 0 THEN 1 ELSE 0)
  BY DEF MAX_BYTES
<1> HIDE DEF q, r
<1>4. (q + 1) * BitsPerByte = q * BitsPerByte + BitsPerByte
  BY <1>1, <1>2, Multiples
<1>5. q = 0 => r > 0
  BY <1>1, <1>2
<1>6. CASE r > 0
  BY <1>1, <1>2, <1>3, <1>4, <1>6
<1>7. CASE r = 0
  BY <1>1, <1>2, <1>3, <1>5, <1>7
<1> QED
  BY <1>2, <1>6, <1>7

(* Nothing is left of u behind a number of groups if the bits there are 0. *)
LEMMA NothingLeft ==
  ASSUME NEW n \in Nat \ {0}, NEW u \in Word(n), NEW k \in Nat
  PROVE  ShiftRight(u, n, k * BitsPerByte) = Zero(n)
           <=> \A i \in 0 .. n - 1 : i >= k * BitsPerByte => u[i] = 0
<1> DEFINE a == k * BitsPerByte
           v == ShiftRight(u, n, a)
<1>1. a \in Nat
  BY WidthAssumption, Multiples
<1>2. v = [i \in 0 .. n - 1 |-> IF i + a < n THEN u[i + a] ELSE 0]
  BY DEF ShiftRight
<1>3. Zero(n) = [i \in 0 .. n - 1 |-> 0]
  BY DEF Zero
<1> HIDE DEF a
<1>4. ASSUME v = Zero(n), NEW i \in 0 .. n - 1, i >= a PROVE u[i] = 0
  <2>1. i - a \in 0 .. n - 1 /\ (i - a) + a = i /\ i < n
    BY <1>1, <1>4
  <2>2. v[i - a] = u[i]
    BY <1>2, <2>1
  <2>3. v[i - a] = 0
    BY <1>3, <1>4, <2>1
  <2> QED
    BY <2>2, <2>3
<1>5. ASSUME \A i \in 0 .. n - 1 : i >= a => u[i] = 0 PROVE v = Zero(n)
  <2>1. \A i \in 0 .. n - 1 : i + a < n => i + a \in 0 .. n - 1 /\ i + a >= a
    BY <1>1
  <2>2. \A i \in 0 .. n - 1 : (IF i + a < n THEN u[i + a] ELSE 0) = 0
    BY <1>5, <2>1
  <2> HIDE DEF v
  <2> QED
    BY <1>2, <1>3, <2>2
<1> HIDE DEF v
<1>6. v = Zero(n) <=> \A i \in 0 .. n - 1 : i >= a => u[i] = 0
  BY <1>4, <1>5
<1> QED
  BY <1>6 DEF v, a

(* A number takes as many groups as have bits, and at least one; no fewer  *)
(* would do.                                                               *)
LEMMA GroupsType ==
  ASSUME NEW n \in Nat \ {0}, NEW u \in Word(n)
  PROVE  /\ Groups(u, n) \in 1 .. MAX_BYTES(n)
         /\ \A i \in 0 .. n - 1 : i >= Groups(u, n) * BitsPerByte => u[i] = 0
         /\ \A k \in 1 .. MAX_BYTES(n) :
              (\A i \in 0 .. n - 1 : i >= k * BitsPerByte => u[i] = 0) => Groups(u, n) <= k
<1> DEFINE m == MAX_BYTES(n)
           Nothing(k) == ShiftRight(u, n, k * BitsPerByte) = Zero(n)
           P(k) == Nothing(k) /\ \A j \in 1 .. k - 1 : ~ Nothing(j)
           S == {k \in 1 .. m : Nothing(k)}
<1>1. m \in Nat \ {0} /\ n <= m * BitsPerByte
  BY MaxBytesEnough
<1>2. \A k \in Nat : Nothing(k) <=> \A i \in 0 .. n - 1 : i >= k * BitsPerByte => u[i] = 0
  BY NothingLeft
<1>3. Groups(u, n) = CHOOSE k \in 1 .. m : P(k)
  BY DEF Groups
<1> HIDE DEF m, Nothing
<1>4. Nothing(m)
  <2>1. m * BitsPerByte \in Nat
    BY <1>1, WidthAssumption, Multiples
  <2> DEFINE a == m * BitsPerByte
  <2>2. a \in Nat /\ n <= a
    BY <1>1, <2>1
  <2> HIDE DEF a
  <2>3. \A i \in 0 .. n - 1 : ~ (i >= a)
    BY <2>2
  <2> QED
    BY <1>1, <1>2, <2>3 DEF a
<1>5. PICK g \in S : \A k \in S : g <= k
  <2>1. m \in S /\ S \in SUBSET Nat
    BY <1>1, <1>4
  <2> HIDE DEF S
  <2> QED
    BY <2>1, Minimum
<1>6. g \in 1 .. m /\ P(g)
  <2>1. \A j \in 1 .. g - 1 : j \in 1 .. m /\ ~ (g <= j)
    BY <1>1, <1>5
  <2> QED
    BY <1>5, <2>1
<1>7. ASSUME NEW k \in 1 .. m, P(k) PROVE k = g
  <2>1. g <= k
    BY <1>5, <1>7
  <2>2. ~ (g < k)
    BY <1>1, <1>6, <1>7
  <2> QED
    BY <1>6, <1>7, <2>1, <2>2
<1> HIDE DEF P
<1>8. Groups(u, n) = g
  BY <1>3, <1>6, <1>7
<1>9. g \in Nat /\ Nothing(g) /\ \A k \in 1 .. m : k \in Nat /\ (Nothing(k) => g <= k)
  BY <1>1, <1>5, <1>6
<1> QED
  BY <1>2, <1>6, <1>8, <1>9 DEF m

(* The bytes of a varint: which one ends it, and the bits they have.       *)
LEMMA VarIntOfType ==
  ASSUME NEW n \in Nat \ {0}, NEW u \in Word(n)
  PROVE  /\ VarIntOf(u, n) \in Seq(Byte)
         /\ Len(VarIntOf(u, n)) = Groups(u, n)
         /\ \A k \in 1 .. Groups(u, n) : Ends(VarIntOf(u, n)[k]) <=> k = Groups(u, n)
         /\ \A k \in 1 .. Groups(u, n), j \in 0 .. BitsPerByte - 1 :
              VarIntOf(u, n)[k][j] =
                IF (k - 1) * BitsPerByte + j < n THEN u[(k - 1) * BitsPerByte + j] ELSE 0
<1> DEFINE m == Groups(u, n)
           more(k) == IF k < m THEN 1 ELSE 0
           left(k) == ShiftRight(u, n, (k - 1) * BitsPerByte)
           s == VarIntOf(u, n)
<1>1. m \in Nat /\ m >= 1 /\ BitsPerByte \in Nat \ {0} /\ CharBits - 1 = BitsPerByte
  <2>1. MAX_BYTES(n) \in Nat /\ m \in 1 .. MAX_BYTES(n)
    BY MaxBytesEnough, GroupsType
  <2> QED
    BY <2>1, WidthAssumption
<1>2. s = [k \in 1 .. m |-> Group(left(k), n, more(k))]
  BY DEF VarIntOf
<1> HIDE DEF m, s
<1>3. ASSUME NEW k \in 1 .. m
      PROVE  /\ s[k] \in Byte
             /\ s[k][BitsPerByte] = more(k)
             /\ \A j \in 0 .. BitsPerByte - 1 :
                  s[k][j] = IF (k - 1) * BitsPerByte + j < n THEN u[(k - 1) * BitsPerByte + j] ELSE 0
  <2> DEFINE a == (k - 1) * BitsPerByte
  <2>1. a \in Nat
    <3>1. k - 1 \in Nat
      BY <1>1
    <3> QED
      BY <1>1, <3>1, Multiples
  <2>2. left(k) = [i \in 0 .. n - 1 |-> IF i + a < n THEN u[i + a] ELSE 0]
    BY DEF ShiftRight
  <2>3. s[k] = [i \in 0 .. BitsPerByte |->
                  IF i = BitsPerByte THEN more(k) ELSE IF i < n THEN left(k)[i] ELSE 0]
    BY <1>2 DEF Group
  <2>4. more(k) \in {0, 1}
    OBVIOUS
  <2> HIDE DEF a, left, more
  <2>5. \A i \in 0 .. n - 1 : left(k)[i] \in {0, 1}
    <3>1. \A i \in 0 .. n - 1 : i + a < n => i + a \in 0 .. n - 1
      BY <2>1
    <3> QED
      BY <2>2, <3>1 DEF Word
  <2>6. \A i \in 0 .. BitsPerByte : i < n => i \in 0 .. n - 1
    BY <1>1
  <2>7. s[k] \in [0 .. BitsPerByte -> {0, 1}]
    BY <2>3, <2>4, <2>5, <2>6
  <2>8. ASSUME NEW j \in 0 .. BitsPerByte - 1
        PROVE  s[k][j] = IF a + j < n THEN u[a + j] ELSE 0
    <3>1. j \in 0 .. BitsPerByte /\ j # BitsPerByte /\ j \in Nat /\ a + j = j + a
      BY <1>1, <2>1
    <3>2. s[k][j] = IF j < n THEN left(k)[j] ELSE 0
      BY <2>3, <3>1
    <3>3. j < n => left(k)[j] = IF j + a < n THEN u[j + a] ELSE 0
      BY <2>2, <2>6, <3>1
    <3>4. a + j < n => j < n
      BY <2>1, <3>1
    <3> QED
      BY <3>1, <3>2, <3>3, <3>4
  <2>9. s[k][BitsPerByte] = more(k)
    BY <1>1, <2>3
  <2> QED
    BY <1>1, <2>7, <2>8, <2>9 DEF a, Byte, Word
<1>4. s \in Seq(Byte) /\ Len(s) = m
  <2> HIDE DEF left, more
  <2>1. \A k \in 1 .. m : Group(left(k), n, more(k)) \in Byte
    BY <1>2, <1>3
  <2> QED
    BY <1>1, <1>2, <2>1
<1>5. \A k \in 1 .. m : Ends(s[k]) <=> k = m
  <2>1. \A k \in 1 .. m : (more(k) = 0 <=> k = m)
    BY <1>1
  <2> QED
    BY <1>3, <2>1 DEF Ends
<1> QED
  BY <1>3, <1>4, <1>5 DEF m, s

(* Where the reading loop stops. *)
StopsAt(s, n, k) ==
  /\ k \in 0 .. MAX_BYTES(n) /\ k <= Len(s)
  /\ \A i \in 1 .. k - 1 : ~ Ends(s[i])
  /\ k \in {MAX_BYTES(n), Len(s)} \/ (k > 0 /\ Ends(s[k]))

(* It stops at one place.                                                  *)
LEMMA VarIntBytesIs ==
  ASSUME NEW n \in Nat \ {0}, NEW s \in Seq(Byte)
  PROVE  /\ StopsAt(s, n, VarIntBytes(s, n))
         /\ \A k : StopsAt(s, n, k) => VarIntBytes(s, n) = k
<1> DEFINE m == MAX_BYTES(n)
           l == Len(s)
           P(k) == /\ k <= l
                   /\ \A i \in 1 .. k - 1 : ~ Ends(s[i])
                   /\ k \in {m, l} \/ (k > 0 /\ Ends(s[k]))
           S == {k \in 0 .. m : k <= l /\ (k \in {m, l} \/ (k > 0 /\ Ends(s[k])))}
<1>1. m \in Nat \ {0} /\ l \in Nat
  BY MaxBytesEnough
<1>2. VarIntBytes(s, n) = CHOOSE k \in 0 .. m : P(k)
  BY DEF VarIntBytes
<1>3. \A k : StopsAt(s, n, k) <=> k \in 0 .. m /\ P(k)
  BY DEF StopsAt
<1> HIDE DEF m, l
<1>4. PICK g \in S : \A k \in S : g <= k
  <2>1. S # {} /\ S \in SUBSET Nat
    <3>1. CASE m <= l
      BY <1>1, <3>1
    <3>2. CASE l < m
      BY <1>1, <3>2
    <3> QED
      BY <1>1, <3>1, <3>2
  <2> HIDE DEF S
  <2> QED
    BY <2>1, Minimum
<1>5. g \in 0 .. m /\ P(g)
  <2>1. ASSUME NEW i \in 1 .. g - 1 PROVE ~ Ends(s[i])
    <3>1. i \in 0 .. m /\ i <= l /\ i > 0 /\ ~ (g <= i)
      BY <1>1, <1>4, <2>1
    <3> QED
      BY <1>4, <3>1
  <2> QED
    BY <1>4, <2>1
<1>6. ASSUME NEW k \in 0 .. m, P(k) PROVE k = g
  <2>1. k \in Nat /\ g \in Nat /\ g <= m /\ k <= m /\ g <= l /\ k <= l
    BY <1>1, <1>5, <1>6
  <2>2. ~ (k < g)
    <3> SUFFICES ASSUME k < g PROVE FALSE
      OBVIOUS
    <3>1. k \notin {m, l}
      BY <1>1, <2>1
    <3>2. k \in 1 .. g - 1 /\ Ends(s[k])
      BY <1>6, <2>1, <3>1
    <3> QED
      BY <1>5, <3>2
  <2>3. ~ (g < k)
    <3> SUFFICES ASSUME g < k PROVE FALSE
      OBVIOUS
    <3>1. g \notin {m, l}
      BY <1>1, <2>1
    <3>2. g \in 1 .. k - 1 /\ Ends(s[g])
      BY <1>5, <2>1, <3>1
    <3> QED
      BY <1>6, <3>2
  <2> QED
    BY <2>1, <2>2, <2>3
<1> HIDE DEF P
<1>7. VarIntBytes(s, n) = g
  BY <1>2, <1>5, <1>6
<1> QED
  BY <1>3, <1>5, <1>6, <1>7

(* What the groups of any bytes say is a number of the type. *)
LEMMA JoinedType ==
  ASSUME NEW n \in Nat \ {0}, NEW s \in Seq(Byte), NEW k \in Nat, k <= Len(s)
  PROVE  Joined(s, k, n) \in Word(n)
<1>1. BitsPerByte \in Nat \ {0} /\ CharBits - 1 = BitsPerByte
  BY WidthAssumption
<1>2. ASSUME NEW i \in 0 .. n - 1, i \div BitsPerByte < k
      PROVE  s[1 + (i \div BitsPerByte)][i % BitsPerByte] \in {0, 1}
  <2>1. i \in Nat /\ i \div BitsPerByte \in Nat /\ i % BitsPerByte \in 0 .. BitsPerByte - 1
    <3>1. i \in Nat
      BY <1>2
    <3> QED
      BY <1>1, <3>1, Division
  <2> DEFINE q == i \div BitsPerByte
             r == i % BitsPerByte
  <2>2. q \in Nat /\ q < k /\ r \in 0 .. BitsPerByte
    BY <1>1, <1>2, <2>1
  <2> HIDE DEF q, r
  <2>3. s[1 + q] \in [0 .. BitsPerByte -> {0, 1}]
    <3>1. 1 + q \in 1 .. Len(s)
      BY <2>2
    <3>2. s[1 + q] \in Byte
      BY <3>1
    <3> QED
      BY <1>1, <3>2 DEF Byte, Word
  <2>4. s[1 + q][r] \in {0, 1}
    BY <2>2, <2>3
  <2> QED
    BY <2>4 DEF q, r
<1> QED
  BY <1>2 DEF Joined, Word

(* The groups of a varint say the number it is made of.                    *)
LEMMA JoinedIs ==
  ASSUME NEW n \in Nat \ {0}, NEW u \in Word(n), NEW s \in Seq(Byte), Groups(u, n) <= Len(s),
         \A k \in 1 .. Groups(u, n) : s[k] = VarIntOf(u, n)[k]
  PROVE  Joined(s, Groups(u, n), n) = u
<1> DEFINE m == Groups(u, n)
           v == VarIntOf(u, n)
           j == Joined(s, m, n)
<1>1. m \in Nat /\ BitsPerByte \in Nat \ {0}
  BY GroupsType, MaxBytesEnough, WidthAssumption
<1>2. \A k \in 1 .. m, i \in 0 .. BitsPerByte - 1 :
        v[k][i] = IF (k - 1) * BitsPerByte + i < n THEN u[(k - 1) * BitsPerByte + i] ELSE 0
  BY VarIntOfType
<1>3. \A i \in 0 .. n - 1 : i >= m * BitsPerByte => u[i] = 0
  BY GroupsType
<1>4. j = [i \in 0 .. n - 1 |->
             IF i \div BitsPerByte < m THEN s[1 + (i \div BitsPerByte)][i % BitsPerByte] ELSE 0]
  BY DEF Joined
<1>5. \A k \in 1 .. m : s[k] = v[k]
  OBVIOUS
<1>6. j \in Word(n)
  <2>1. m <= Len(s)
    OBVIOUS
  <2> HIDE DEF m
  <2> QED
    BY <1>1, <2>1, JoinedType
<1> HIDE DEF m, v, j
<1>7. ASSUME NEW i \in 0 .. n - 1 PROVE j[i] = u[i]
  <2> DEFINE q == i \div BitsPerByte
             r == i % BitsPerByte
  <2>1. i \in Nat
    BY <1>7
  <2>2. q \in Nat /\ r \in 0 .. BitsPerByte - 1 /\ i = q * BitsPerByte + r
    BY <1>1, <2>1, Division
  <2>3. i < m * BitsPerByte <=> q < m
    BY <1>1, <2>1, QuotientBelow
  <2>4. j[i] = IF q < m THEN s[1 + q][r] ELSE 0
    BY <1>4
  <2>5. m * BitsPerByte \in Nat
    BY <1>1, Multiples
  <2> HIDE DEF q, r
  <2>6. CASE q < m
    <3>1. 1 + q \in 1 .. m /\ (1 + q) - 1 = q
      BY <1>1, <2>2, <2>6
    <3>2. v[1 + q][r] = IF q * BitsPerByte + r < n THEN u[q * BitsPerByte + r] ELSE 0
      BY <1>2, <2>2, <3>1
    <3>3. v[1 + q][r] = u[i]
      BY <1>7, <2>2, <3>2
    <3> QED
      BY <1>5, <2>4, <2>6, <3>1, <3>3
  <2>7. CASE ~ (q < m)
    <3> DEFINE a == m * BitsPerByte
    <3>1. a \in Nat /\ ~ (i < a)
      BY <2>3, <2>5, <2>7
    <3> HIDE DEF a
    <3>2. i >= a
      BY <2>1, <3>1
    <3> QED
      BY <1>3, <2>4, <2>7, <3>2 DEF a
  <2> QED
    BY <2>6, <2>7
<1>8. j = u
  BY <1>6, <1>7, SameWord
<1> QED
  BY <1>8 DEF j, m

(* A varint of which the first bytes are there: if they all are, reading   *)
(* takes them and no more, and says the number; if not, it takes what      *)
(* there is, and throws.                                                   *)
LEMMA ReadsVarInt ==
  ASSUME NEW n \in Nat \ {0}, NEW u \in Word(n), NEW s \in Seq(Byte),
         \A k \in 1 .. Groups(u, n) : k <= Len(s) => s[k] = VarIntOf(u, n)[k]
  PROVE  /\ Groups(u, n) <= Len(s) =>
              /\ VarIntBytes(s, n) = Groups(u, n)
              /\ Terminated(s, Groups(u, n))
              /\ Joined(s, Groups(u, n), n) = u
         /\ ~ (Groups(u, n) <= Len(s)) =>
              /\ VarIntBytes(s, n) = Len(s)
              /\ ~ Terminated(s, Len(s))
<1> DEFINE m == Groups(u, n)
           v == VarIntOf(u, n)
           l == Len(s)
<1>1. m \in 1 .. MAX_BYTES(n) /\ MAX_BYTES(n) \in Nat /\ m \in Nat /\ l \in Nat
  <2>1. MAX_BYTES(n) \in Nat /\ m \in 1 .. MAX_BYTES(n) /\ l \in Nat
    BY GroupsType, MaxBytesEnough
  <2> QED
    BY <2>1
<1>2. \A k \in 1 .. m : Ends(v[k]) <=> k = m
  BY VarIntOfType
<1>3. \A k \in 1 .. m : k <= l => s[k] = v[k]
  OBVIOUS
<1>4. m <= l => Joined(s, m, n) = u
  <2> SUFFICES ASSUME m <= l PROVE Joined(s, m, n) = u
    OBVIOUS
  <2>1. \A k \in 1 .. m : k <= l
    BY <1>1
  <2>2. \A k \in 1 .. m : s[k] = v[k]
    BY <1>3, <2>1
  <2> QED
    BY <2>2, JoinedIs
<1> HIDE DEF m, v
<1>5. ASSUME m <= l PROVE VarIntBytes(s, n) = m /\ Terminated(s, m)
  <2>1. m > 0 /\ Ends(s[m]) /\ \A i \in 1 .. m - 1 : ~ Ends(s[i])
    <3>1. m \in 1 .. m /\ m <= l /\ \A i \in 1 .. m - 1 : i \in 1 .. m /\ i <= l /\ i # m
      BY <1>1, <1>5
    <3> QED
      BY <1>2, <1>3, <3>1
  <2>2. StopsAt(s, n, m)
    BY <1>1, <1>5, <2>1 DEF StopsAt
  <2> QED
    BY <2>1, <2>2, VarIntBytesIs DEF Terminated
<1>6. ASSUME ~ (m <= l) PROVE VarIntBytes(s, n) = l /\ ~ Terminated(s, l)
  <2>1. \A i \in 1 .. l : ~ Ends(s[i])
    <3>1. \A i \in 1 .. l : i \in 1 .. m /\ i <= l /\ i # m
      BY <1>1, <1>6
    <3> QED
      BY <1>2, <1>3, <3>1
  <2>2. StopsAt(s, n, l)
    BY <1>1, <1>6, <2>1 DEF StopsAt
  <2>3. l > 0 => l \in 1 .. l
    BY <1>1
  <2> QED
    BY <2>1, <2>2, <2>3, VarIntBytesIs DEF Terminated
<1> QED
  BY <1>4, <1>5, <1>6 DEF m

(* The zigzag encoding stays in the width of the type and is undone, both  *)
(* ways.                                                                   *)
LEMMA ZigZagInverse ==
  ASSUME NEW n \in Nat \ {0}, NEW v \in Word(n)
  PROVE  /\ ZigZag(v, n) \in Word(n) /\ UnZigZag(v, n) \in Word(n)
         /\ UnZigZag(ZigZag(v, n), n) = v
         /\ ZigZag(UnZigZag(v, n), n) = v
<1> DEFINE z == ZigZag(v, n)
           w == UnZigZag(v, n)
<1>1. /\ \A i \in 0 .. n - 1 : v[i] \in {0, 1}
      /\ n - 1 \in 0 .. n - 1 /\ 0 \in 0 .. n - 1
  BY DEF Word
<1>2. \A x : UnZigZag(x, n) =
         [i \in 0 .. n - 1 |-> IF (IF i + 1 < n THEN x[i + 1] ELSE 0) = x[0] THEN 0 ELSE 1]
  BY DEF UnZigZag, Xor, ShiftRight, Mask
<1>3. \A x : ZigZag(x, n) =
         [i \in 0 .. n - 1 |-> IF (IF i >= 1 THEN x[i - 1] ELSE 0) = x[n - 1] THEN 0 ELSE 1]
  BY DEF ZigZag, Xor, ShiftLeft, Mask
<1>4. ASSUME NEW x PROVE ZigZag(x, n) \in Word(n) /\ UnZigZag(x, n) \in Word(n)
  <2>1. [i \in 0 .. n - 1 |-> IF (IF i + 1 < n THEN x[i + 1] ELSE 0) = x[0] THEN 0 ELSE 1] \in Word(n)
    BY DEF Word
  <2>2. [i \in 0 .. n - 1 |-> IF (IF i >= 1 THEN x[i - 1] ELSE 0) = x[n - 1] THEN 0 ELSE 1] \in Word(n)
    BY DEF Word
  <2> QED
    BY <1>2, <1>3, <2>1, <2>2
<1>5. \A i \in 0 .. n - 1 : z[i] = IF (IF i >= 1 THEN v[i - 1] ELSE 0) = v[n - 1] THEN 0 ELSE 1
  BY <1>3
<1>6. \A i \in 0 .. n - 1 : w[i] = IF (IF i + 1 < n THEN v[i + 1] ELSE 0) = v[0] THEN 0 ELSE 1
  BY <1>2
<1> HIDE DEF z, w
<1>7. ASSUME NEW i \in 0 .. n - 1
      PROVE  UnZigZag(z, n)[i] = v[i]
  <2>1. UnZigZag(z, n)[i] = IF (IF i + 1 < n THEN z[i + 1] ELSE 0) = z[0] THEN 0 ELSE 1
    BY <1>2
  <2>2. z[0] = v[n - 1]
    BY <1>1, <1>5
  <2>3. CASE i + 1 < n
    <3>1. i + 1 \in 0 .. n - 1 /\ i + 1 >= 1 /\ (i + 1) - 1 = i
      BY <2>3
    <3>2. z[i + 1] = IF v[i] = v[n - 1] THEN 0 ELSE 1
      BY <1>5, <3>1
    <3> QED
      BY <1>1, <2>1, <2>2, <2>3, <3>2
  <2>4. CASE ~ (i + 1 < n)
    <3>1. i = n - 1
      BY <2>4
    <3> QED
      BY <1>1, <2>1, <2>2, <2>4, <3>1
  <2> QED
    BY <2>3, <2>4
<1>8. ASSUME NEW i \in 0 .. n - 1
      PROVE  ZigZag(w, n)[i] = v[i]
  <2>1. ZigZag(w, n)[i] = IF (IF i >= 1 THEN w[i - 1] ELSE 0) = w[n - 1] THEN 0 ELSE 1
    BY <1>3
  <2>2. w[n - 1] = IF 0 = v[0] THEN 0 ELSE 1
    <3>1. ~ ((n - 1) + 1 < n)
      OBVIOUS
    <3> QED
      BY <1>1, <1>6, <3>1
  <2>3. w[n - 1] = v[0]
    BY <1>1, <2>2
  <2>4. CASE i >= 1
    <3>1. i - 1 \in 0 .. n - 1 /\ (i - 1) + 1 < n /\ (i - 1) + 1 = i
      BY <2>4
    <3>2. w[i - 1] = IF v[i] = v[0] THEN 0 ELSE 1
      BY <1>6, <3>1
    <3> QED
      BY <1>1, <2>1, <2>3, <2>4, <3>2
  <2>5. CASE ~ (i >= 1)
    <3>1. i = 0
      BY <2>5
    <3> QED
      BY <1>1, <2>1, <2>3, <2>5, <3>1
  <2> QED
    BY <2>4, <2>5
<1>9. UnZigZag(z, n) \in Word(n) /\ ZigZag(w, n) \in Word(n)
  BY <1>4
<1>10. UnZigZag(z, n) = v
  BY <1>7, <1>9, SameWord
<1>11. ZigZag(w, n) = v
  BY <1>8, <1>9, SameWord
<1> QED
  BY <1>4, <1>10, <1>11 DEF z, w

(* A number cast to an integer type and back keeps the bits of the type    *)
(* and has its sign.                                                       *)
LEMMA CastThrough ==
  ASSUME NEW t \in Entries, t.type \notin {"float", "double"}, NEW n \in Word(LongBits)
  PROVE  FromValue(t, ToValue(t, n)) = Cast(n, Bits(t.type), LongBits, IsSigned(t.type))
<1> DEFINE m == Bits(t.type)
           signed == IsSigned(t.type)
           v == Cast(n, LongBits, m, FALSE)
<1>1. m \in Nat \ {0} /\ LongBits \in Nat \ {0} /\ m <= LongBits
  BY TypeWidths
<1>2. ToValue(t, n) = v /\ FromValue(t, v) = Cast(v, m, LongBits, signed)
  BY DEF ToValue, FromValue
<1>3. \A w : Cast(w, m, LongBits, signed) =
         [i \in 0 .. LongBits - 1 |-> IF i < m THEN w[i] ELSE IF signed THEN w[m - 1] ELSE 0]
  BY DEF Cast
<1> HIDE DEF m, v, signed
<1>4. \A i \in 0 .. m - 1 : v[i] = n[i]
  BY <1>1, CastDown DEF v
<1>5. /\ m - 1 \in 0 .. m - 1
      /\ \A i \in 0 .. LongBits - 1 : i < m => i \in 0 .. m - 1
  BY <1>1
<1>6. \A i \in 0 .. LongBits - 1 :
        (IF i < m THEN v[i] ELSE IF signed THEN v[m - 1] ELSE 0)
          = (IF i < m THEN n[i] ELSE IF signed THEN n[m - 1] ELSE 0)
  BY <1>4, <1>5
<1>7. Cast(v, m, LongBits, signed) = Cast(n, m, LongBits, signed)
  BY <1>3, <1>6
<1> QED
  BY <1>2, <1>7 DEF m, signed

----------------------------------------------------------------------------
(* Whole functions.                                                        *)

(* What a varint function writes the groups of. *)
Coded(t, n) ==
  IF IsSigned(t.type) THEN ZigZag(ToValue(t, n), Bits(t.type)) ELSE ToValue(t, n)

(* What write* and pack* make of a number, for varints. *)
LEMMA EncodesVarInt ==
  ASSUME NEW t \in Entries, t.codec = "VarInt", NEW n \in Word(LongBits), NEW h
  PROVE  /\ Coded(t, n) \in Word(Bits(t.type))
         /\ Encode(t, n, h) = VarIntOf(Coded(t, n), Bits(t.type))
<1>1. ToValue(t, n) \in Word(Bits(t.type)) /\ Bits(t.type) \in Nat \ {0}
  BY ValueTypes, TypeWidths
<1>2. Coded(t, n) \in Word(Bits(t.type))
  BY <1>1, ZigZagInverse DEF Coded
<1>3. Encode(t, n, h) = VarIntOf(Coded(t, n), Bits(t.type))
  BY DEF Encode, Coded
<1> QED
  BY <1>2, <1>3

(* Every function stores bytes, at least one, and the same on every        *)
(* machine.                                                                *)
LEMMA EncodeType ==
  ASSUME NEW t \in Entries, NEW n \in Word(LongBits), NEW h \in Orders
  PROVE  /\ Encode(t, n, h) \in Seq(Byte)
         /\ Len(Encode(t, n, h)) \in Nat \ {0}
         /\ t.codec # "VarInt" => Len(Encode(t, n, h)) = Stored(t)
         /\ \A g \in Orders : Encode(t, n, g) = Encode(t, n, h)
<1>1. CASE t.codec = "VarInt"
  <2> DEFINE u == Coded(t, n)
             m == Bits(t.type)
  <2>1. m \in Nat \ {0} /\ MAX_BYTES(m) \in Nat
    BY TypeWidths, MaxBytesEnough
  <2>2. u \in Word(m) /\ \A g : Encode(t, n, g) = VarIntOf(u, m)
    BY <1>1, EncodesVarInt
  <2> HIDE DEF u, m
  <2>3. VarIntOf(u, m) \in Seq(Byte) /\ Len(VarIntOf(u, m)) = Groups(u, m)
        /\ Groups(u, m) \in 1 .. MAX_BYTES(m)
    BY <2>1, <2>2, VarIntOfType, GroupsType
  <2> QED
    BY <1>1, <2>1, <2>2, <2>3
<1>2. CASE t.codec # "VarInt"
  <2> DEFINE v == ToValue(t, n)
  <2>1. v \in Word(Bits(t.type)) /\ Stored(t) \in 1 .. 8
    BY ValueTypes, StoredType
  <2>2. \A g \in Orders : Encode(t, n, g) = FixedBytes(t, v)
    BY <1>2, EncodesFixed
  <2> HIDE DEF v
  <2>3. FixedBytes(t, v) \in Seq(Byte) /\ Len(FixedBytes(t, v)) = Stored(t)
    BY <2>1, FixedBytesType
  <2> QED
    BY <2>1, <2>2, <2>3
<1> QED
  BY <1>1, <1>2

(* Every function takes bytes that are there, and returns a number.        *)
LEMMA DecodeType ==
  ASSUME NEW t \in Entries, NEW s \in Seq(Byte), NEW h \in Orders
  PROVE  /\ Decode(t, s, h).threw \in BOOLEAN
         /\ Decode(t, s, h).taken \in 0 .. Len(s)
         /\ Decode(t, s, h).number \in Word(LongBits)
<1> DEFINE d == Decode(t, s, h)
           m == Bits(t.type)
<1>1. Zero(LongBits) \in Word(LongBits)
  BY DEF Zero, Word
<1>2. CASE t.codec = "VarInt"
  <2> DEFINE k == VarIntBytes(s, m)
             u == Joined(s, k, m)
             v == IF IsSigned(t.type) THEN UnZigZag(u, m) ELSE u
  <2>1. m \in Nat \ {0} /\ MAX_BYTES(m) \in Nat
    BY TypeWidths, MaxBytesEnough
  <2>2. k \in Nat /\ k <= Len(s)
    <3> HIDE DEF m
    <3> QED
      BY <2>1, VarIntBytesIs DEF StopsAt
  <2>3. /\ d.threw = ~ Terminated(s, k) /\ d.taken = k
        /\ d.number = IF Terminated(s, k) THEN FromValue(t, v) ELSE Zero(LongBits)
    <3>1. Bytes(t, s) = k /\ Enough(t, s) = Terminated(s, k) /\ ValueOf(t, s, h) = v
      BY <1>2 DEF Bytes, Enough, ValueOf
    <3> QED
      BY <1>2, <3>1, DecodeIs
  <2>4. v \in Word(m)
    <3>1. u \in Word(m)
      BY <2>1, <2>2, JoinedType
    <3> HIDE DEF u, m
    <3> QED
      BY <2>1, <3>1, ZigZagInverse
  <2>5. FromValue(t, v) \in Word(LongBits)
    BY <2>4, ValueTypes
  <2> HIDE DEF d, k, v
  <2>6. d.threw \in BOOLEAN /\ d.number \in Word(LongBits)
    BY <1>1, <2>3, <2>5
  <2>7. d.taken \in 0 .. Len(s)
    BY <2>2, <2>3
  <2> QED
    BY <2>6, <2>7 DEF d
<1>3. CASE t.codec # "VarInt"
  <2> DEFINE n == Stored(t)
  <2>1. n \in 1 .. 8 /\ Len(s) \in Nat
    BY StoredType
  <2>2. n <= Len(s) => FromValue(t, FixedValue(t, s)) \in Word(LongBits)
    BY FixedValueType, ValueTypes
  <2>3. /\ d.threw = ~ (n <= Len(s)) /\ d.taken = IF n <= Len(s) THEN n ELSE 0
        /\ d.number = IF n <= Len(s) THEN FromValue(t, FixedValue(t, s)) ELSE Zero(LongBits)
    BY <1>3, DecodesFixed
  <2> HIDE DEF d, n
  <2>4. d.threw \in BOOLEAN /\ d.number \in Word(LongBits)
    BY <1>1, <2>2, <2>3
  <2>5. d.taken \in 0 .. Len(s)
    BY <2>1, <2>3
  <2> QED
    BY <2>4, <2>5 DEF d
<1> QED
  BY <1>2, <1>3

(* What reading a number returns that was written with the same function,  *)
(* if it is no float.                                                      *)
Returned(t, n) ==
  IF t.type = "double" THEN n ELSE Cast(n, Stored(t) * CharBits, LongBits, IsSigned(t.type))

(* What stands at the beginning of s of the number n. *)
BeginsWith(s, t, n, h) ==
  \A k \in 1 .. Len(Encode(t, n, h)) : k <= Len(s) => s[k] = Encode(t, n, h)[k]

(* A varint that is there is read; one that is cut off is not. *)
LEMMA VarIntComesBack ==
  ASSUME NEW t \in Entries, t.codec = "VarInt", NEW n \in Word(LongBits), NEW s \in Seq(Byte),
         NEW g \in Orders, NEW h \in Orders, BeginsWith(s, t, n, g)
  PROVE  /\ Len(Encode(t, n, g)) <= Len(s) =>
              /\ Decode(t, s, h).threw = FALSE
              /\ Decode(t, s, h).taken = Len(Encode(t, n, g))
              /\ Decode(t, s, h).number = Returned(t, n)
         /\ ~ (Len(Encode(t, n, g)) <= Len(s)) => Decode(t, s, h).threw = TRUE
<1> DEFINE m == Bits(t.type)
           u == Coded(t, n)
           e == Groups(u, m)
           l == Len(s)
           d == Decode(t, s, h)
<1>1. m \in Nat \ {0} /\ u \in Word(m) /\ Encode(t, n, g) = VarIntOf(u, m)
  BY TypeWidths, EncodesVarInt
<1> HIDE DEF m, u
<1>2. Len(Encode(t, n, g)) = e
  BY <1>1, VarIntOfType
<1>3. \A k \in 1 .. e : k <= l => s[k] = VarIntOf(u, m)[k]
  BY <1>1, <1>2 DEF BeginsWith
<1>4. /\ e <= l => /\ VarIntBytes(s, m) = e
                   /\ Terminated(s, e)
                   /\ Joined(s, e, m) = u
      /\ ~ (e <= l) => /\ VarIntBytes(s, m) = l
                       /\ ~ Terminated(s, l)
  BY <1>1, <1>3, ReadsVarInt
<1>5. Bytes(t, s) = VarIntBytes(s, m) /\ Enough(t, s) = Terminated(s, VarIntBytes(s, m))
      /\ ValueOf(t, s, h) = IF IsSigned(t.type) THEN UnZigZag(Joined(s, VarIntBytes(s, m), m), m)
                                                ELSE Joined(s, VarIntBytes(s, m), m)
  BY DEF Bytes, Enough, ValueOf, m
<1>6. /\ d.threw = ~ Enough(t, s)
      /\ d.taken = IF Enough(t, s) \/ t.codec = "VarInt" THEN Bytes(t, s) ELSE 0
      /\ d.number = IF Enough(t, s) THEN FromValue(t, ValueOf(t, s, h)) ELSE Zero(LongBits)
  BY DecodeIs
<1> HIDE DEF d, e, l
<1>7. ASSUME e <= l PROVE d.threw = FALSE /\ d.taken = e /\ d.number = Returned(t, n)
  <2> DEFINE v == ToValue(t, n)
  <2>1. v \in Word(m) /\ u = IF IsSigned(t.type) THEN ZigZag(v, m) ELSE v
    BY ValueTypes DEF Coded, m, u
  <2>2. ValueOf(t, s, h) = v
    <3>1. ValueOf(t, s, h) = IF IsSigned(t.type) THEN UnZigZag(u, m) ELSE u
      BY <1>4, <1>5, <1>7
    <3> HIDE DEF v
    <3> QED
      BY <1>1, <2>1, <3>1, ZigZagInverse
  <2>3. FromValue(t, v) = Cast(n, m, LongBits, IsSigned(t.type)) /\ t.type \notin {"float", "double"}
    BY EntryFacts, CastThrough DEF m
  <2>4. m = Stored(t) * CharBits
    BY StoredType, TypeWidths DEF m
  <2>5. FromValue(t, v) = Returned(t, n)
    BY <2>3, <2>4 DEF Returned
  <2> HIDE DEF v
  <2>6. Enough(t, s) /\ Bytes(t, s) = e
    BY <1>4, <1>5, <1>7
  <2>7. d.threw = FALSE /\ d.taken = e
    BY <1>6, <2>6
  <2>8. d.number = Returned(t, n)
    BY <1>6, <2>2, <2>5, <2>6
  <2> QED
    BY <2>7, <2>8
<1>8. ASSUME ~ (e <= l) PROVE d.threw = TRUE
  BY <1>4, <1>5, <1>6, <1>8
<1> QED
  BY <1>2, <1>7, <1>8 DEF d, l

(* So are the values of the other types, a float as its conversions say. *)
LEMMA FixedIsRead ==
  ASSUME NEW t \in Entries, t.codec # "VarInt", NEW n \in Word(LongBits), NEW s \in Seq(Byte),
         NEW g \in Orders, NEW h \in Orders, BeginsWith(s, t, n, g)
  PROVE  /\ Len(Encode(t, n, g)) <= Len(s) =>
              /\ Decode(t, s, h).threw = FALSE
              /\ Decode(t, s, h).taken = Len(Encode(t, n, g))
              /\ t.type # "float" => Decode(t, s, h).number = Returned(t, n)
              /\ t.type = "float" => Decode(t, s, h).number = FromValue(t, ToValue(t, n))
         /\ ~ (Len(Encode(t, n, g)) <= Len(s)) => Decode(t, s, h).threw = TRUE
<1> DEFINE e == Stored(t)
           l == Len(s)
           d == Decode(t, s, h)
           v == ToValue(t, n)
<1>1. Encode(t, n, g) = FixedBytes(t, v) /\ Len(Encode(t, n, g)) = e
  BY EncodesFixed, EncodeType
<1>2. \A k \in 1 .. e : k <= l => s[k] = FixedBytes(t, v)[k]
  BY <1>1 DEF BeginsWith
<1>3. /\ d.threw = ~ (e <= l) /\ d.taken = IF e <= l THEN e ELSE 0
      /\ d.number = IF e <= l THEN FromValue(t, FixedValue(t, s)) ELSE Zero(LongBits)
  BY DecodesFixed
<1>4. ASSUME e <= l, t.type # "float" PROVE FromValue(t, FixedValue(t, s)) = Returned(t, n)
  <2>1. e \in Nat /\ l \in Nat
    BY StoredType
  <2>2. \A k \in 1 .. e : s[k] = FixedBytes(t, v)[k]
    BY <1>2, <1>4, <2>1
  <2> QED
    BY <1>4, <2>2, FixedReturns DEF Returned
<1>7. ASSUME e <= l, t.type = "float" PROVE FixedValue(t, s) = v
  <2>1. e \in Nat /\ l \in Nat /\ v \in Word(Bits(t.type))
    BY StoredType, ValueTypes
  <2>2. \A k \in 1 .. e : s[k] = FixedBytes(t, v)[k]
    BY <1>2, <1>7, <2>1
  <2>3. t.codec \notin {"VarInt", "Int24"}
    BY <1>7, EntryFacts
  <2> QED
    BY <1>7, <2>1, <2>2, <2>3, FixedSame
<1> HIDE DEF e, l, d, v
<1>5. /\ e <= l => d.threw = FALSE /\ d.taken = e
      /\ ~ (e <= l) => d.threw = TRUE
  BY <1>3
<1>6. e <= l /\ t.type # "float" => d.number = Returned(t, n)
  BY <1>3, <1>4
<1>8. e <= l /\ t.type = "float" => d.number = FromValue(t, v)
  BY <1>3, <1>7
<1> QED
  BY <1>1, <1>5, <1>6, <1>8 DEF d, l, v

(* What was written on one machine and arrives on another is read, with    *)
(* its length and, if it is no float, its number; what is cut off is not.  *)
LEMMA ComesBack ==
  ASSUME NEW t \in Entries, NEW n \in Word(LongBits), NEW s \in Seq(Byte),
         NEW g \in Orders, NEW h \in Orders, BeginsWith(s, t, n, g)
  PROVE  /\ Len(Encode(t, n, g)) <= Len(s) =>
              /\ Decode(t, s, h).threw = FALSE
              /\ Decode(t, s, h).taken = Len(Encode(t, n, g))
              /\ t.type # "float" => Decode(t, s, h).number = Returned(t, n)
              /\ t.type = "float" => Decode(t, s, h).number = FromValue(t, ToValue(t, n))
         /\ ~ (Len(Encode(t, n, g)) <= Len(s)) => Decode(t, s, h).threw = TRUE
<1>1. CASE t.codec = "VarInt"
  <2>1. t.type # "float"
    BY <1>1, EntryFacts
  <2> QED
    BY <1>1, <2>1, VarIntComesBack
<1>2. CASE t.codec # "VarInt"
  BY <1>2, FixedIsRead
<1> QED
  BY <1>1, <1>2

(* Writing what was read with the same function gives the same bytes, or a *)
(* varint that is not longer, if the conversion of a float can be undone.  *)
LEMMA Repacked ==
  ASSUME NEW t \in Entries, NEW s \in Seq(Byte), NEW h \in Orders,
         Decode(t, s, h).threw = FALSE,
         t.type = "float" => ToValue(t, FromValue(t, FixedValue(t, s))) = FixedValue(t, s)
  PROVE  LET d == Decode(t, s, h)
             e == Encode(t, d.number, h)
         IN  IF t.codec = "VarInt" THEN Len(e) <= d.taken ELSE e = SubSeq(s, 1, d.taken)
<1> DEFINE d == Decode(t, s, h)
           e == Encode(t, d.number, h)
           m == Bits(t.type)
<1>1. CASE t.codec = "VarInt"
  <2> DEFINE k == VarIntBytes(s, m)
             u == Joined(s, k, m)
             v == IF IsSigned(t.type) THEN UnZigZag(u, m) ELSE u
  <2>1. m \in Nat \ {0} /\ MAX_BYTES(m) \in Nat /\ t.type \notin {"float", "double"}
    BY <1>1, TypeWidths, MaxBytesEnough, EntryFacts
  <2>2. Bytes(t, s) = k /\ Enough(t, s) = Terminated(s, k) /\ ValueOf(t, s, h) = v
    BY <1>1 DEF Bytes, Enough, ValueOf
  <2>3. Terminated(s, k) /\ d.taken = k /\ d.number = FromValue(t, v)
    BY <1>1, <2>2, DecodeIs
  <2>4. k \in 1 .. MAX_BYTES(m) /\ k <= Len(s) /\ k \in Nat
    <3>1. k \in 0 .. MAX_BYTES(m) /\ k <= Len(s)
      <4> HIDE DEF m
      <4> QED
        BY <2>1, VarIntBytesIs DEF StopsAt
    <3>2. k > 0
      BY <2>3 DEF Terminated
    <3> HIDE DEF k
    <3> QED
      BY <2>1, <3>1, <3>2
  <2>5. u \in Word(m)
    BY <2>1, <2>4, JoinedType
  <2>6. v \in Word(m) /\ u = IF IsSigned(t.type) THEN ZigZag(v, m) ELSE v
    <3> HIDE DEF u, m
    <3> QED
      BY <2>1, <2>5, ZigZagInverse
  <2> HIDE DEF v, d
  <2>7. d.number \in Word(LongBits) /\ ToValue(t, d.number) = v
    <3>1. v \in Word(m) /\ t.type # "float"
      BY <2>1, <2>6
    <3>2. FromValue(t, v) \in Word(LongBits) /\ ToValue(t, FromValue(t, v)) = v
      BY <3>1, ValueTypes, CastBack
    <3> QED
      BY <2>3, <3>2
  <2>8. Encode(t, d.number, h) = VarIntOf(u, m)
    <3>1. Coded(t, d.number) = u
      BY <2>6, <2>7 DEF Coded
    <3> HIDE DEF u
    <3> QED
      BY <1>1, <2>7, <3>1, EncodesVarInt
  <2>9. \A i \in 0 .. m - 1 : i >= k * BitsPerByte => u[i] = 0
    <3> DEFINE b == BitsPerByte
    <3>1. b \in Nat \ {0}
      BY WidthAssumption
    <3> SUFFICES ASSUME NEW i \in 0 .. m - 1, i >= k * b PROVE u[i] = 0
      OBVIOUS
    <3>2. u[i] = IF i \div b < k THEN s[1 + (i \div b)][i % b] ELSE 0
      BY DEF Joined
    <3> HIDE DEF k, m, u, b
    <3>3. i \in Nat
      BY <2>1
    <3>4. k * b \in Nat
      BY <2>4, <3>1, Multiples
    <3>5. ~ (i < k * b)
      <4> DEFINE a == k * b
      <4>1. i >= a /\ a \in Nat
        BY <3>4
      <4> HIDE DEF a
      <4>2. ~ (i < a)
        BY <3>3, <4>1
      <4> QED
        BY <4>2 DEF a
    <3>6. ~ (i \div b < k)
      BY <2>4, <3>1, <3>3, <3>5, QuotientBelow
    <3> QED
      BY <3>2, <3>6
  <2> HIDE DEF u, k, m
  <2>10. Len(VarIntOf(u, m)) = Groups(u, m) /\ Groups(u, m) <= k
    BY <2>1, <2>4, <2>5, <2>9, VarIntOfType, GroupsType
  <2>11. Len(Encode(t, d.number, h)) <= d.taken
    BY <2>3, <2>8, <2>10
  <2> QED
    BY <1>1, <2>11 DEF d
<1>2. CASE t.codec # "VarInt"
  <2>1. /\ Stored(t) <= Len(s) /\ d.taken = Stored(t)
        /\ d.number = FromValue(t, FixedValue(t, s))
    BY <1>2, DecodesFixed
  <2>2. Encode(t, FromValue(t, FixedValue(t, s)), h) = SubSeq(s, 1, Stored(t))
    BY <1>2, <2>1, FixedRepacks
  <2> HIDE DEF d
  <2>3. Encode(t, d.number, h) = SubSeq(s, 1, d.taken)
    BY <2>1, <2>2
  <2> QED
    BY <1>2, <2>3 DEF d
<1> QED
  BY <1>1, <1>2
=============================================================================
