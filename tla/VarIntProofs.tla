---------------------------- MODULE VarIntProofs ----------------------------
(***************************************************************************)
(* Theorems about VarInt: for every width of group and type, every number  *)
(* and every input, the writing loop returns with the shortest encoding,   *)
(* the reading loop takes one varint or throws, and what was written is    *)
(* read back.                                                              *)
(*                                                                         *)
(* The inductive invariant is IInv of VarInt.  It says what the groups     *)
(* stored or taken so far have to do with the number that is written or    *)
(* put together; the proof compares them bit by bit.                       *)
(***************************************************************************)
EXTENDS VarInt, TLAPS

(* MaxBytes groups are enough for a number of the type, and one less is    *)
(* not.                                                                    *)
LEMMA MaxBytesEnough ==
  /\ MaxBytes \in Nat \ {0}
  /\ TypeBits <= MaxBytes * BitsPerByte
  /\ (MaxBytes - 1) * BitsPerByte < TypeBits
<1> DEFINE q == TypeBits \div BitsPerByte
           r == TypeBits % BitsPerByte
<1>1. q \in Nat /\ r \in 0 .. BitsPerByte - 1 /\ TypeBits = q * BitsPerByte + r
  BY WidthAssumption
<1>2. q = 0 => r > 0
  BY <1>1, WidthAssumption
<1>3. (q + 1) * BitsPerByte = q * BitsPerByte + BitsPerByte
      /\ (q - 1) * BitsPerByte = q * BitsPerByte - BitsPerByte
  BY <1>1, WidthAssumption
<1>4. MaxBytes = IF r > 0 THEN q + 1 ELSE q
  BY <1>1 DEF MaxBytes, MAX_BYTES
<1> HIDE DEF q, r
<1>5. CASE r > 0
  BY <1>1, <1>3, <1>4, <1>5, WidthAssumption
<1>6. CASE r = 0
  BY <1>1, <1>2, <1>3, <1>4, <1>6, WidthAssumption
<1> QED
  BY <1>1, <1>5, <1>6

(* One group more is BitsPerByte bits more. *)
LEMMA NextGroup ==
  ASSUME NEW n \in Nat
  PROVE  /\ n * BitsPerByte \in Nat
         /\ (n + 1) * BitsPerByte = n * BitsPerByte + BitsPerByte
BY WidthAssumption

(* Fewer groups have fewer bits. *)
LEMMA FewerGroups ==
  ASSUME NEW m \in Nat, NEW n \in Nat, m <= n
  PROVE  m * BitsPerByte <= n * BitsPerByte
BY WidthAssumption

(* A bit lies in one group, at one place.                                  *)
LEMMA GroupOfBit ==
  ASSUME NEW i \in Nat
  PROVE  /\ i \div BitsPerByte \in Nat
         /\ i % BitsPerByte \in 0 .. BitsPerByte - 1
         /\ i = (i \div BitsPerByte) * BitsPerByte + (i % BitsPerByte)
<1> DEFINE q == i \div BitsPerByte
           r == i % BitsPerByte
<1>1. q \in Nat /\ r \in 0 .. BitsPerByte - 1 /\ i = q * BitsPerByte + r
  BY WidthAssumption
<1> QED
  BY <1>1

(* Words with the same bits are equal. *)
LEMMA SameBits ==
  ASSUME NEW n \in Int, NEW u \in Word(n), NEW v \in Word(n), \A i \in 0 .. n - 1 : u[i] = v[i]
  PROVE  u = v
BY DEF Word

(* The zigzag encoding stays in the width of the type, both ways. *)
LEMMA ZigZagType ==
  ASSUME NEW v \in Word(TypeBits)
  PROVE  /\ ZigZag(v, TypeBits) \in Word(TypeBits)
         /\ UnZigZag(v, TypeBits) \in Word(TypeBits)
BY WidthAssumption DEF Word, ZigZag, UnZigZag, Xor, Mask, ShiftLeft, ShiftRight

(* A bit of the zigzag encoding says whether the bit below it is the sign. *)
LEMMA ZigZagBits ==
  ASSUME NEW v \in Word(TypeBits), NEW i \in 0 .. TypeBits - 1
  PROVE  ZigZag(v, TypeBits)[i] = IF i = 0 THEN v[TypeBits - 1]
                        ELSE IF v[i - 1] = v[TypeBits - 1] THEN 0 ELSE 1
BY WidthAssumption DEF Word, ZigZag, Xor, Mask, ShiftLeft

(* The zigzag encoding is undone.                                          *)
LEMMA ZigZagInverse ==
  ASSUME NEW v \in Word(TypeBits) PROVE UnZigZag(ZigZag(v, TypeBits), TypeBits) = v
<1> DEFINE u == ZigZag(v, TypeBits)
<1>1. u \in Word(TypeBits)
  BY ZigZagType
<1>2. ASSUME NEW i \in 0 .. TypeBits - 1
      PROVE  UnZigZag(u, TypeBits)[i] = IF (IF i + 1 < TypeBits THEN u[i + 1] ELSE 0) = u[0] THEN 0 ELSE 1
  BY DEF UnZigZag, Xor, Mask, ShiftRight
<1>3. u[0] = v[TypeBits - 1]
  BY ZigZagBits, WidthAssumption
<1>4. ASSUME NEW i \in 0 .. TypeBits - 1, i + 1 < TypeBits
      PROVE  u[i + 1] = IF v[i] = v[TypeBits - 1] THEN 0 ELSE 1
  <2>1. i + 1 \in 0 .. TypeBits - 1 /\ i + 1 # 0 /\ (i + 1) - 1 = i
    BY <1>4, WidthAssumption
  <2> QED
    BY <2>1, ZigZagBits
<1> HIDE DEF u
<1>5. ASSUME NEW i \in 0 .. TypeBits - 1 PROVE UnZigZag(u, TypeBits)[i] = v[i]
  <2>1. v[i] \in {0, 1} /\ v[TypeBits - 1] \in {0, 1}
    BY WidthAssumption DEF Word
  <2>2. CASE i + 1 < TypeBits
    BY <1>2, <1>3, <1>4, <2>1, <2>2
  <2>3. CASE i = TypeBits - 1
    BY <1>2, <1>3, <2>1, <2>3, WidthAssumption
  <2> QED
    BY <2>2, <2>3, WidthAssumption
<1>6. UnZigZag(u, TypeBits) \in Word(TypeBits)
  BY <1>1, ZigZagType
<1>7. UnZigZag(u, TypeBits) = v
  BY <1>5, <1>6, SameBits, WidthAssumption
<1> QED
  BY <1>7 DEF u

(* The number that is written and the number that is returned have their   *)
(* widths.                                                                 *)
LEMMA CodedType ==
  ASSUME NEW n \in Word(LongBits), NEW u \in Word(TypeBits), signed \in BOOLEAN
  PROVE  /\ Encoded(n) \in Word(TypeBits)
         /\ Decoded(u) \in Word(LongBits)
<1>1. Cast(n, LongBits, TypeBits, FALSE) \in Word(TypeBits)
  BY WidthAssumption DEF Cast, Word
<1>2. \A v \in Word(TypeBits) : Cast(v, TypeBits, LongBits, signed) \in Word(LongBits)
  BY WidthAssumption DEF Cast, Word
<1> QED
  BY <1>1, <1>2, ZigZagType DEF Encoded, Decoded

(* A number that is cast to the type, encoded and decoded again is the     *)
(* number cast to the type.                                                *)
LEMMA CodedInverse ==
  ASSUME NEW n \in Word(LongBits), signed \in BOOLEAN
  PROVE  Decoded(Encoded(n)) = Cast(n, TypeBits, LongBits, signed)
<1> DEFINE v == Cast(n, LongBits, TypeBits, FALSE)
<1>1. v \in Word(TypeBits) /\ \A i \in 0 .. TypeBits - 1 : v[i] = n[i]
  BY WidthAssumption DEF Cast, Word
<1>2. Decoded(Encoded(n)) = Cast(v, TypeBits, LongBits, signed)
  <2>1. CASE signed
    BY <1>1, <2>1, ZigZagInverse DEF Encoded, Decoded
  <2>2. CASE ~ signed
    BY <2>2 DEF Encoded, Decoded
  <2> QED
    BY <2>1, <2>2
<1> HIDE DEF v
<1>3. Cast(v, TypeBits, LongBits, signed) = Cast(n, TypeBits, LongBits, signed)
  BY <1>1, WidthAssumption DEF Cast
<1> QED
  BY <1>2, <1>3

----------------------------------------------------------------------------
(* Type correctness.                                                       *)

(* The operators on words keep their width. *)
LEMMA WordTypes ==
  /\ Zero(TypeBits) \in Word(TypeBits)
  /\ \A v \in Word(TypeBits), k \in Nat : ShiftRight(v, TypeBits, k) \in Word(TypeBits)
  /\ \A u, v \in Word(TypeBits) : Or(u, v) \in Word(TypeBits)
BY WidthAssumption DEF Zero, Word, ShiftRight, Or

(* A group is a byte with the bits it is made of. *)
LEMMA GroupType ==
  ASSUME NEW v \in Word(TypeBits), NEW more \in {0, 1}
  PROVE  /\ Group(v, TypeBits, more) \in Byte
         /\ Group(v, TypeBits, more)[BitsPerByte] = more
         /\ \A j \in 0 .. BitsPerByte - 1 :
              Group(v, TypeBits, more)[j] = IF j < TypeBits THEN v[j] ELSE 0
<1>1. 0 .. (BitsPerByte + 1) - 1 = 0 .. BitsPerByte /\ BitsPerByte \in 0 .. BitsPerByte
  BY WidthAssumption
<1>2. Group(v, TypeBits, more) \in [0 .. BitsPerByte -> {0, 1}]
  BY WidthAssumption DEF Group, Word
<1> QED
  BY <1>1, <1>2, WidthAssumption DEF Group, Byte, Word

(* A group is shifted to its place within the width of the type. *)
LEMMA PayloadType ==
  ASSUME NEW byte \in Byte, NEW n \in Nat PROVE Payload(byte, n) \in Word(TypeBits)
BY WidthAssumption DEF Payload, Byte, Word

(* No step takes a variable out of its type: one step per action. *)
LEMMA TypeStep == TypeOK /\ [Next]_vars => TypeOK'
<1> SUFFICES ASSUME TypeOK, [Next]_vars PROVE TypeOK'
  OBVIOUS
<1> USE DEF TypeOK
<1>1. ASSUME NEW n \in Numbers, Write(n) PROVE TypeOK'
  <2>1. n \in Word(LongBits) /\ signed' \in BOOLEAN
    BY <1>1, NumbersAssumption DEF Write
  <2>2. remaining' \in Word(TypeBits)
    <3>1. Cast(n, LongBits, TypeBits, FALSE) \in Word(TypeBits)
      BY <2>1, WidthAssumption DEF Cast, Word
    <3> QED
      BY <1>1, <3>1, ZigZagType DEF Write, Encoded
  <2>3. 0 \in 0 .. Len(bytes') /\ 0 \in 0 .. TypeBits + BitsPerByte - 1 /\ bytes' \in Seq(Byte)
    BY <1>1, WidthAssumption DEF Write
  <2> QED
    BY <1>1, <2>1, <2>2, <2>3, WordTypes DEF Write
<1>2. CASE WriteGroup
  <2>1. \A more \in {0, 1} : Group(remaining, TypeBits, more) \in Byte
    BY GroupType
  <2>2. bytes' \in Seq(Byte) /\ offset \in 0 .. Len(bytes')
    BY <1>2, <2>1 DEF WriteGroup, LastGroup
  <2>3. remaining' \in Word(TypeBits) /\ phase' \in {"writing", "written", "lost"}
    BY <1>2, WordTypes, WidthAssumption DEF WriteGroup, LastGroup
  <2>4. UNCHANGED <<signed, number, offset, shift, result>> /\ phase = "writing"
    BY <1>2 DEF WriteGroup, LastGroup
  <2> QED
    BY <2>2, <2>3, <2>4
<1>3. ASSUME NEW f \in Followers, ReadBack(f) PROVE TypeOK'
  <2>1. bytes' \in Seq(Byte)
    BY <1>3, BytesAssumption DEF ReadBack
  <2>2. 0 \in 0 .. Len(bytes') /\ 0 \in 0 .. TypeBits + BitsPerByte - 1
    BY <2>1, WidthAssumption
  <2> QED
    BY <1>3, <2>1, <2>2, WordTypes DEF ReadBack, StartReading
<1>4. ASSUME NEW s \in Inputs, ReadInput(s) PROVE TypeOK'
  <2>1. bytes' \in Seq(Byte)
    BY <1>4, BytesAssumption DEF ReadInput
  <2>2. 0 \in 0 .. Len(bytes') /\ 0 \in 0 .. TypeBits + BitsPerByte - 1
    BY <2>1, WidthAssumption
  <2> QED
    BY <1>4, <2>1, <2>2, WordTypes DEF ReadInput, StartReading
<1>5. CASE ReadGroup
  <2>1. result \in Word(TypeBits) /\ UNCHANGED <<signed, number, remaining, bytes>>
    BY <1>5 DEF ReadGroup, GoesOn, NextShift
  <2>2. CASE shift < TypeBits /\ offset < Len(bytes) /\ offset' = offset + 1
    <3> DEFINE byte == bytes[offset + 1]
               u == Or(result, Payload(byte, shift))
    <3>1. byte \in Byte
      BY <2>2
    <3>2. u \in Word(TypeBits)
      BY <2>1, <3>1, PayloadType, WordTypes
    <3>3. Decoded(u) \in Word(LongBits)
      <4>1. \A v \in Word(TypeBits) : Cast(v, TypeBits, LongBits, signed) \in Word(LongBits)
        BY WidthAssumption DEF Cast, Word
      <4> QED
        BY <3>2, <4>1, ZigZagType DEF Decoded
    <3> HIDE DEF byte, u
    <3>4. \/ phase' = "returned" /\ result' = Decoded(u) /\ UNCHANGED shift
          \/ shift' = shift + BitsPerByte /\ result' = u /\ phase' = phase /\ phase = "reading"
      BY <1>5, <2>2 DEF ReadGroup, byte, u, GoesOn, NextShift
    <3>5. offset' \in 0 .. Len(bytes')
      BY <2>1, <2>2
    <3>6. shift' \in 0 .. TypeBits + BitsPerByte - 1
      BY <2>2, <3>4, WidthAssumption
    <3> QED
      BY <2>1, <3>2, <3>3, <3>4, <3>5, <3>6
  <2>3. CASE phase' = "threw" /\ UNCHANGED <<offset, shift, result>>
    BY <2>1, <2>3
  <2> QED
    BY <1>5, <2>2, <2>3 DEF ReadGroup, GoesOn, NextShift
<1>6. CASE UNCHANGED vars
  BY <1>6 DEF vars
<1> QED
  BY <1>1, <1>2, <1>3, <1>4, <1>5, <1>6 DEF Next

(* Whatever is written and whatever is read, the loops keep to the types   *)
(* of their variables, and the offset to the buffer.                       *)
THEOREM TypeCorrect == Spec => []TypeOK
<1>1. Init => TypeOK
  <2> SUFFICES ASSUME Init PROVE TypeOK
    OBVIOUS
  <2>1. 0 \in 0 .. Len(bytes) /\ 0 \in 0 .. TypeBits + BitsPerByte - 1 /\ bytes \in Seq(Byte)
    BY WidthAssumption DEF Init
  <2>2. signed \in BOOLEAN
    BY DEF Init
  <2>3. remaining \in Word(TypeBits) /\ result \in Word(TypeBits)
    BY WordTypes DEF Init
  <2> QED
    BY <2>1, <2>2, <2>3 DEF Init, TypeOK
<1> QED
  BY <1>1, TypeStep, PTL DEF Spec

----------------------------------------------------------------------------
(* The inductive invariant.                                                *)

(* A finished encoding read to its end gives back what was encoded.        *)
LEMMA CompleteTaken ==
  ASSUME TypeOK, number \in Numbers, Complete(offset) PROVE Taken = Encoded(number)
<1> DEFINE z == Encoded(number)
<1>1. z \in Word(TypeBits)
  <2>1. Cast(number, LongBits, TypeBits, FALSE) \in Word(TypeBits)
    BY NumbersAssumption, WidthAssumption DEF Cast, Word
  <2> QED
    BY <2>1, ZigZagType DEF Encoded
<1>2. offset \in Nat /\ offset \in 1 .. MaxBytes /\ Holds(offset, z)
      /\ \A i \in 0 .. TypeBits - 1 : i >= offset * BitsPerByte => z[i] = 0
  BY MaxBytesEnough DEF Complete
<1> HIDE DEF z
<1>3. ASSUME NEW i \in 0 .. TypeBits - 1 PROVE Taken[i] = z[i]
  <2> DEFINE q == i \div BitsPerByte
             r == i % BitsPerByte
  <2>1. q \in Nat /\ r \in 0 .. BitsPerByte - 1 /\ i = q * BitsPerByte + r
    BY GroupOfBit
  <2>2. Taken[i] = IF q < offset THEN bytes[1 + q][r] ELSE 0
    BY DEF Taken, Joined
  <2> HIDE DEF q, r
  <2>3. CASE q < offset
    <3>1. 1 + q \in 1 .. offset /\ (1 + q) - 1 = q
      BY <1>2, <2>1, <2>3
    <3>2. bytes[1 + q][r] = IF q * BitsPerByte + r < TypeBits THEN z[q * BitsPerByte + r] ELSE 0
      BY <1>2, <2>1, <3>1 DEF Holds
    <3>3. q * BitsPerByte + r < TypeBits
      BY <2>1, WidthAssumption
    <3>4. bytes[1 + q][r] = z[q * BitsPerByte + r]
      BY <3>2, <3>3
    <3> QED
      BY <2>1, <2>2, <2>3, <3>4
  <2>4. CASE q >= offset
    <3>1. offset * BitsPerByte <= q * BitsPerByte /\ q * BitsPerByte \in Nat
          /\ offset * BitsPerByte \in Nat
      BY <1>2, <2>1, <2>4, FewerGroups, NextGroup
    <3>2. i >= offset * BitsPerByte
      BY <2>1, <3>1, WidthAssumption
    <3> QED
      BY <1>2, <2>1, <2>2, <2>4, <3>2
  <2> QED
    BY <1>2, <2>1, <2>3, <2>4
<1>4. Taken = [i \in 0 .. TypeBits - 1 |-> Taken[i]]
  BY DEF Taken, Joined
<1>5. z = [i \in 0 .. TypeBits - 1 |-> z[i]]
  BY <1>1 DEF Word
<1>6. Taken = z
  BY <1>3, <1>4, <1>5
<1> QED
  BY <1>6 DEF z

(* One more group is taken.                                                *)
LEMMA TakeOneMore ==
  ASSUME TypeOK, offset < Len(bytes), shift = offset * BitsPerByte, result = Taken,
         bytes' = bytes, offset' = offset + 1
  PROVE  Or(result, Payload(bytes[offset + 1], shift)) = Taken'
<1> DEFINE byte == bytes[offset + 1]
           u == Or(result, Payload(byte, shift))
<1>1. offset \in Nat /\ shift \in Nat /\ byte \in Byte
  BY DEF TypeOK
<1>2. (offset + 1) * BitsPerByte = shift + BitsPerByte
  BY <1>1, NextGroup
<1>3. DOMAIN result = 0 .. TypeBits - 1
  BY DEF Taken, Joined
<1>4. ASSUME NEW i \in 0 .. TypeBits - 1 PROVE u[i] = Taken'[i]
  <2> DEFINE q == i \div BitsPerByte
             r == i % BitsPerByte
  <2>1. q \in Nat /\ r \in 0 .. BitsPerByte - 1 /\ i = q * BitsPerByte + r
    BY GroupOfBit
  <2>2. Taken[i] = IF q < offset THEN bytes[1 + q][r] ELSE 0
    BY DEF Taken, Joined
  <2>3. Taken'[i] = IF q < offset + 1 THEN bytes[1 + q][r] ELSE 0
    BY DEF Taken, Joined
  <2>4. u[i] = IF result[i] = 1 THEN 1
               ELSE IF i >= shift /\ i - shift < BitsPerByte THEN byte[i - shift] ELSE 0
    BY <1>3 DEF Or, Payload
  <2> HIDE DEF q, r, u
  <2>5. q * BitsPerByte \in Nat /\ (q + 1) * BitsPerByte = q * BitsPerByte + BitsPerByte
    BY <2>1, NextGroup
  <2>6. CASE q < offset
    <3>1. (q + 1) * BitsPerByte <= offset * BitsPerByte
      BY <1>1, <2>1, <2>6, FewerGroups
    <3>2. ~ (i >= shift)
      BY <1>1, <2>1, <2>5, <3>1, WidthAssumption
    <3>3. bytes[1 + q][r] \in {0, 1}
      BY <1>1, <2>1, <2>6, WidthAssumption DEF TypeOK, Byte, Word
    <3> QED
      BY <1>1, <2>1, <2>2, <2>3, <2>4, <2>6, <3>2, <3>3
  <2>7. CASE q = offset
    <3>1. i >= shift /\ i - shift = r /\ 1 + q = offset + 1
      BY <1>1, <2>1, <2>7, WidthAssumption
    <3>2. r < BitsPerByte
      BY <2>1, WidthAssumption
    <3> QED
      BY <1>1, <2>2, <2>3, <2>4, <2>7, <3>1, <3>2
  <2>8. CASE q > offset
    <3>1. (offset + 1) * BitsPerByte <= q * BitsPerByte
      BY <1>1, <2>1, <2>8, FewerGroups
    <3>2. i - shift >= BitsPerByte
      BY <1>1, <1>2, <2>1, <2>5, <3>1, WidthAssumption
    <3> QED
      BY <1>1, <2>1, <2>2, <2>3, <2>4, <2>8, <3>2, WidthAssumption
  <2> QED
    BY <1>1, <2>1, <2>6, <2>7, <2>8
<1>5. u = [i \in 0 .. TypeBits - 1 |-> u[i]]
  BY <1>3 DEF Or
<1>6. Taken' = [i \in 0 .. TypeBits - 1 |-> Taken'[i]]
  BY DEF Taken, Joined
<1> HIDE DEF u
<1>7. u = Taken'
  BY <1>4, <1>5, <1>6
<1> QED
  BY <1>7 DEF u

EncodedType == \A n \in Numbers : Encoded(n) \in Word(TypeBits)

(* Every number has an encoding of the width of the type. *)
LEMMA EncodedAlways == signed \in BOOLEAN => EncodedType
<1>1. \A n \in Numbers : Cast(n, LongBits, TypeBits, FALSE) \in Word(TypeBits)
  BY NumbersAssumption, WidthAssumption DEF Cast, Word
<1> QED
  BY <1>1, ZigZagType DEF EncodedType, Encoded

(* What remains after n + 1 groups is what remains after n, shifted.       *)
LEMMA ShiftTwice ==
  ASSUME NEW v \in Word(TypeBits), NEW n \in Nat
  PROVE  ShiftRight(ShiftRight(v, TypeBits, n * BitsPerByte), TypeBits, BitsPerByte)
           = ShiftRight(v, TypeBits, (n + 1) * BitsPerByte)
<1>1. n * BitsPerByte \in Nat /\ (n + 1) * BitsPerByte = n * BitsPerByte + BitsPerByte
  BY NextGroup
<1> DEFINE a == n * BitsPerByte
<1>2. a \in Nat /\ (n + 1) * BitsPerByte = a + BitsPerByte
  BY <1>1
<1> HIDE DEF a
<1>3. ASSUME NEW i \in 0 .. TypeBits - 1
      PROVE (IF i + BitsPerByte < TypeBits
               THEN ShiftRight(v, TypeBits, a)[i + BitsPerByte] ELSE 0)
            = IF i + (a + BitsPerByte) < TypeBits THEN v[i + (a + BitsPerByte)] ELSE 0
  <2>1. CASE i + BitsPerByte < TypeBits
    <3>1. i + BitsPerByte \in 0 .. TypeBits - 1 /\ (i + BitsPerByte) + a = i + (a + BitsPerByte)
      BY <1>2, <2>1, WidthAssumption
    <3>2. ShiftRight(v, TypeBits, a)[i + BitsPerByte]
            = IF (i + BitsPerByte) + a < TypeBits THEN v[(i + BitsPerByte) + a] ELSE 0
      BY <3>1 DEF ShiftRight
    <3> QED
      BY <2>1, <3>1, <3>2
  <2>2. CASE ~ (i + BitsPerByte < TypeBits)
    BY <1>2, <2>2, WidthAssumption
  <2> QED
    BY <2>1, <2>2
<1>4. ShiftRight(ShiftRight(v, TypeBits, a), TypeBits, BitsPerByte)
        = ShiftRight(v, TypeBits, a + BitsPerByte)
  BY <1>3 DEF ShiftRight
<1> QED
  BY <1>2, <1>4 DEF a

(* The group that is stored next holds the next bits of the number.        *)
LEMMA StoreGroup ==
  ASSUME NEW z \in Word(TypeBits), bytes \in Seq(Byte), NEW more \in {0, 1},
         remaining = ShiftRight(z, TypeBits, Len(bytes) * BitsPerByte),
         Holds(Len(bytes), z), \A k \in 1 .. Len(bytes) : bytes[k][BitsPerByte] = 1,
         bytes' = Append(bytes, Group(remaining, TypeBits, more))
  PROVE  /\ Len(bytes') = Len(bytes) + 1
         /\ Holds(Len(bytes), z)'
         /\ \A k \in 1 .. Len(bytes) + 1 :
              bytes'[k][BitsPerByte] = IF k <= Len(bytes) THEN 1 ELSE more
<1> DEFINE n == Len(bytes)
           a == n * BitsPerByte
<1>1. n \in Nat /\ a \in Nat
  BY NextGroup
<1>2. remaining \in Word(TypeBits)
  BY <1>1, WordTypes
<1>3. /\ Group(remaining, TypeBits, more) \in Byte
      /\ Group(remaining, TypeBits, more)[BitsPerByte] = more
      /\ \A j \in 0 .. BitsPerByte - 1 :
           Group(remaining, TypeBits, more)[j] = IF j < TypeBits THEN remaining[j] ELSE 0
  BY <1>2, GroupType
<1>4. /\ Len(bytes') = n + 1 /\ bytes'[n + 1] = Group(remaining, TypeBits, more)
      /\ \A k \in 1 .. n : bytes'[k] = bytes[k]
  BY <1>3
<1>5. ASSUME NEW j \in 0 .. BitsPerByte - 1
      PROVE  Group(remaining, TypeBits, more)[j] = IF a + j < TypeBits THEN z[a + j] ELSE 0
  <2>1. CASE j < TypeBits
    <3>1. j \in 0 .. TypeBits - 1 /\ j + a = a + j
      BY <1>1, <2>1, WidthAssumption
    <3>2. remaining[j] = IF j + a < TypeBits THEN z[j + a] ELSE 0
      BY <3>1 DEF ShiftRight
    <3> QED
      BY <1>3, <2>1, <3>1, <3>2
  <2>2. CASE ~ (j < TypeBits)
    BY <1>1, <1>3, <2>2, WidthAssumption
  <2> QED
    BY <2>1, <2>2
<1>6. Holds(Len(bytes), z)'
  <2> SUFFICES ASSUME NEW k \in 1 .. n + 1, NEW j \in 0 .. BitsPerByte - 1
               PROVE  bytes'[k][j] = IF (k - 1) * BitsPerByte + j < TypeBits
                                       THEN z[(k - 1) * BitsPerByte + j] ELSE 0
    BY <1>4 DEF Holds
  <2>1. CASE k = n + 1
    <3>1. (k - 1) * BitsPerByte = a
      BY <1>1, <2>1
    <3> QED
      BY <1>4, <1>5, <2>1, <3>1
  <2>2. CASE k # n + 1
    <3>1. k \in 1 .. n
      BY <1>1, <2>2
    <3> QED
      BY <1>4, <3>1 DEF Holds
  <2> QED
    BY <2>1, <2>2
<1>7. ASSUME NEW k \in 1 .. n + 1
      PROVE  bytes'[k][BitsPerByte] = IF k <= n THEN 1 ELSE more
  BY <1>1, <1>3, <1>4
<1> QED
  BY <1>4, <1>6, <1>7

(* A call of writeUnsignedVarInt or writeSignedVarInt begins in order. *)
LEMMA WriteStep ==
  ASSUME IInv, NEW n \in Numbers, Write(n) PROVE IInv'
<1>1. TypeOK'
  BY TypeStep DEF IInv, Next
<1>2. EncodedType'
  <2>1. signed' \in BOOLEAN
    BY <1>1 DEF TypeOK
  <2>2. \A m \in Numbers : Cast(m, LongBits, TypeBits, FALSE) \in Word(TypeBits)
    BY NumbersAssumption, WidthAssumption DEF Cast, Word
  <2> QED
    BY <2>1, <2>2, ZigZagType DEF EncodedType, Encoded
<1>3. /\ number' = n /\ bytes' = <<>> /\ Len(bytes') = 0 /\ offset' = 0
      /\ remaining' = Encoded(number)' /\ phase' = "writing"
  BY <1>1 DEF Write, Encoded
<1>4. remaining' = ShiftRight(Encoded(number)', TypeBits, Len(bytes') * BitsPerByte)
  <2>1. remaining' \in Word(TypeBits)
    BY <1>1 DEF TypeOK
  <2>2. Len(bytes') * BitsPerByte = 0
    BY <1>3, WidthAssumption
  <2>3. remaining' = ShiftRight(remaining', TypeBits, 0)
    BY <2>1, WidthAssumption DEF ShiftRight, Word
  <2> QED
    BY <1>3, <2>2, <2>3
<1>5. WritingInv'
  BY <1>3, <1>4, MaxBytesEnough DEF WritingInv, Holds
<1>6. TakesOneVarInt' /\ ReadsGroups'
  BY <1>3 DEF TakesOneVarInt, ReadsGroups
<1> QED
  BY <1>1, <1>3, <1>5, <1>6 DEF IInv

(* An iteration of the writing loop keeps the invariant and is never one   *)
(* too many.                                                               *)
LEMMA WriteGroupStep ==
  ASSUME IInv, WriteGroup PROVE IInv'
<1> DEFINE n == Len(bytes)
           next == ShiftRight(remaining, TypeBits, BitsPerByte)
<1>1. TypeOK /\ TypeOK' /\ WritingInv /\ phase = "writing" /\ offset = 0
  BY TypeStep DEF IInv, Next, WriteGroup, LastGroup
<1> PICK z \in Word(TypeBits) : z = Encoded(number)
  BY <1>1, EncodedAlways DEF WritingInv, TypeOK, EncodedType
<1>2. /\ n \in Nat /\ n < MaxBytes /\ bytes \in Seq(Byte)
      /\ remaining = ShiftRight(z, TypeBits, n * BitsPerByte)
      /\ number \in Numbers /\ Holds(n, z)
      /\ \A k \in 1 .. n : bytes[k][BitsPerByte] = 1
  BY <1>1 DEF WritingInv, TypeOK
<1>3. next = ShiftRight(z, TypeBits, (n + 1) * BitsPerByte)
  BY <1>2, ShiftTwice
<1>4. (n + 1) * BitsPerByte \in Nat /\ n * BitsPerByte \in Nat /\ (n + 1) - 1 = n
  BY <1>2, NextGroup
<1>5. Encoded(number)' = z /\ number' = number /\ offset' = 0
  BY <1>1 DEF WriteGroup, Encoded, LastGroup
<1>6. CASE next = Zero(TypeBits)
  <2>1. bytes' = Append(bytes, Group(remaining, TypeBits, 0)) /\ phase' = "written"
    BY <1>2, <1>6, MaxBytesEnough DEF WriteGroup, LastGroup
  <2>2. /\ Len(bytes') = n + 1
        /\ Holds(Len(bytes), z)'
        /\ \A k \in 1 .. n + 1 : bytes'[k][BitsPerByte] = IF k <= n THEN 1 ELSE 0
    <3>1. 0 \in {0, 1}
      OBVIOUS
    <3> QED
      BY <1>2, <2>1, <3>1, StoreGroup
  <2>3. ASSUME NEW i \in 0 .. TypeBits - 1, i >= (n + 1) * BitsPerByte PROVE z[i] = 0
    <3> DEFINE a == (n + 1) * BitsPerByte
    <3>0. a \in Nat /\ i >= a /\ next = ShiftRight(z, TypeBits, a)
      BY <1>3, <1>4, <2>3
    <3> HIDE DEF a, next
    <3>1. i - a \in 0 .. TypeBits - 1 /\ (i - a) + a = i
      BY <3>0, WidthAssumption
    <3>2. next[i - a] = 0
      BY <1>6, <3>1 DEF Zero
    <3>3. next[i - a] = z[i]
      BY <3>0, <3>1, WidthAssumption DEF ShiftRight
    <3> QED
      BY <3>2, <3>3
  <2>4. ASSUME n + 1 > 1
        PROVE  \E i \in 0 .. TypeBits - 1 : i >= ((n + 1) - 1) * BitsPerByte /\ z[i] # 0
    <3>1. remaining # Zero(TypeBits)
      BY <1>1, <1>2, <2>4 DEF WritingInv
    <3>2. PICK i \in 0 .. TypeBits - 1 : remaining[i] # 0
      BY <1>1, <3>1 DEF Zero, TypeOK, Word
    <3>3. i + n * BitsPerByte < TypeBits /\ remaining[i] = z[i + n * BitsPerByte]
      BY <1>2, <3>2 DEF ShiftRight
    <3>4. /\ i + n * BitsPerByte \in 0 .. TypeBits - 1
          /\ i + n * BitsPerByte >= ((n + 1) - 1) * BitsPerByte
      BY <1>4, <3>3, WidthAssumption
    <3> QED
      BY <3>2, <3>3, <3>4
  <2>5. n + 1 \in 1 .. MaxBytes /\ \A k \in 1 .. n + 1 : k <= n <=> k < n + 1
    BY <1>2, MaxBytesEnough
  <2>6. Complete(Len(bytes))'
    BY <1>5, <2>2, <2>3, <2>4, <2>5 DEF Complete
  <2>7. TakesOneVarInt' /\ ReadsGroups'
    BY <1>5, <2>1 DEF TakesOneVarInt, ReadsGroups
  <2> QED
    BY <1>1, <1>2, <1>5, <2>1, <2>6, <2>7 DEF IInv
<1>7. CASE next # Zero(TypeBits)
  <2>1. bytes' = Append(bytes, Group(remaining, TypeBits, 1)) /\ phase' = "writing" /\ remaining' = next
    BY <1>1, <1>2, <1>7, MaxBytesEnough DEF WriteGroup, LastGroup
  <2>2. /\ Len(bytes') = n + 1
        /\ Holds(Len(bytes), z)'
        /\ \A k \in 1 .. n + 1 : bytes'[k][BitsPerByte] = IF k <= n THEN 1 ELSE 1
    <3>1. 1 \in {0, 1}
      OBVIOUS
    <3> QED
      BY <1>2, <2>1, <3>1, StoreGroup
  <2>3. n + 1 < MaxBytes
    <3> SUFFICES ASSUME n + 1 = MaxBytes PROVE FALSE
      BY <1>2, MaxBytesEnough
    <3> DEFINE a == (n + 1) * BitsPerByte
    <3>1. a \in Nat /\ TypeBits <= a /\ next = ShiftRight(z, TypeBits, a)
      BY <1>3, <1>4, MaxBytesEnough
    <3> HIDE DEF a, next
    <3>2. next = Zero(TypeBits)
      BY <3>1, WidthAssumption DEF ShiftRight, Zero
    <3> QED
      BY <1>7, <3>2
  <2>4. WritingInv'
    BY <1>2, <1>3, <1>5, <1>7, <2>1, <2>2, <2>3 DEF WritingInv
  <2>5. TakesOneVarInt' /\ ReadsGroups'
    BY <1>5, <2>1 DEF TakesOneVarInt, ReadsGroups
  <2> QED
    BY <1>1, <1>2, <1>5, <2>1, <2>4, <2>5 DEF IInv
<1> QED
  BY <1>6, <1>7

(* Nothing has been taken at the beginning.                                *)
LEMMA NothingTaken ==
  ASSUME StartReading
  PROVE  /\ offset' = 0 /\ phase' = "reading" /\ shift' = offset' * BitsPerByte
         /\ result' = Taken'
<1>1. \A i \in 0 .. TypeBits - 1 : ~ (i \div BitsPerByte < 0)
  BY GroupOfBit
<1>2. Taken' = [i \in 0 .. TypeBits - 1 |-> 0]
  BY <1>1 DEF Taken, StartReading, Joined
<1> QED
  BY <1>2, WidthAssumption DEF StartReading, Zero

(* Reading what was written begins in order. *)
LEMMA ReadBackStep ==
  ASSUME IInv, NEW f \in Followers, ReadBack(f) PROVE IInv'
<1> DEFINE n == Len(bytes)
<1>1. TypeOK /\ TypeOK' /\ Complete(n) /\ f \in Seq(Byte) /\ bytes \in Seq(Byte)
  BY TypeStep, BytesAssumption DEF IInv, Next, ReadBack, TypeOK
<1>2. StartReading /\ bytes' = bytes \o f /\ UNCHANGED <<signed, number>>
  BY DEF ReadBack
<1>3. n \in Nat /\ n \in 1 .. MaxBytes /\ MaxBytes \in Nat
  BY <1>1, MaxBytesEnough DEF Complete
<1>4. /\ Len(bytes') = n + Len(f)
      /\ \A k \in 1 .. n : bytes'[k] = bytes[k]
      /\ SubSeq(bytes', n + 1, Len(bytes')) = f
  BY <1>1, <1>2
<1>5. Encoded(number)' = Encoded(number)
  BY <1>2 DEF Encoded
<1>6. \E m \in 1 .. MaxBytes :
        /\ Complete(m)'
        /\ SubSeq(bytes', m + 1, Len(bytes')) \in Followers
        /\ phase' = "returned" => offset' = m
  <2>1. Complete(n) /\ n <= Len(bytes')
    BY <1>1, <1>3, <1>4
  <2>2. ASSUME NEW m \in 1 .. MaxBytes, m = n PROVE Complete(m)'
    BY <1>4, <1>5, <2>1, <2>2 DEF Complete, Holds
  <2>3. phase' = "reading"
    BY <1>2 DEF StartReading
  <2> QED
    BY <1>3, <1>4, <2>2, <2>3
<1>7. ReadBackInv'
  BY <1>6 DEF ReadBackInv
<1>8. offset' = 0 /\ ReadingInv' /\ TakesOneVarInt' /\ ReadsGroups' /\ phase' = "reading"
  BY <1>2, <1>3, NothingTaken DEF ReadingInv, TakesOneVarInt, ReadsGroups
<1> QED
  BY <1>1, <1>7, <1>8 DEF IInv

(* Reading anything else begins in order. *)
LEMMA ReadInputStep ==
  ASSUME IInv, NEW s \in Inputs, ReadInput(s) PROVE IInv'
<1>1. TypeOK' /\ StartReading /\ number' = <<>> /\ MaxBytes \in Nat
  BY TypeStep, MaxBytesEnough DEF IInv, Next, ReadInput
<1>2. offset' = 0 /\ ReadingInv' /\ TakesOneVarInt' /\ ReadsGroups' /\ phase' = "reading"
  BY <1>1, NothingTaken DEF ReadingInv, TakesOneVarInt, ReadsGroups
<1> QED
  BY <1>1, <1>2 DEF IInv, ReadBackInv

(* As long as no byte has ended the varint, a finished encoding has more.  *)
LEMMA MoreToTake ==
  ASSUME TypeOK, ReadingInv, NEW n \in Nat, Complete(n)
  PROVE  /\ offset < n /\ offset < Len(bytes)
         /\ shift < TypeBits
         /\ bytes[offset + 1][BitsPerByte] = 0 <=> offset + 1 = n
<1>1. /\ n \in 1 .. MaxBytes /\ n <= Len(bytes) /\ offset \in Nat /\ MaxBytes \in Nat
      /\ \A k \in 1 .. n : bytes[k][BitsPerByte] = IF k < n THEN 1 ELSE 0
      /\ \A k \in 1 .. offset : bytes[k][BitsPerByte] = 1
      /\ Len(bytes) \in Nat
  BY MaxBytesEnough DEF TypeOK, ReadingInv, Complete
<1>2. offset < n
  BY <1>1
<1>3. offset <= MaxBytes - 1 /\ MaxBytes - 1 \in Nat
  BY <1>1, <1>2
<1>4. shift < TypeBits
  BY <1>1, <1>3, FewerGroups, MaxBytesEnough, NextGroup, WidthAssumption DEF ReadingInv
<1> QED
  BY <1>1, <1>2, <1>4

(* An iteration of the reading loop keeps the invariant. *)
LEMMA ReadGroupStep ==
  ASSUME IInv, ReadGroup PROVE IInv'
<1>1. /\ TypeOK /\ TypeOK' /\ phase = "reading" /\ ReadingInv /\ ReadBackInv
      /\ UNCHANGED <<signed, number, remaining, bytes>>
  BY TypeStep DEF IInv, Next, ReadGroup, GoesOn, NextShift
<1>2. /\ offset \in Nat /\ MaxBytes \in Nat /\ offset <= MaxBytes /\ offset <= Len(bytes)
      /\ shift \in Nat /\ Len(bytes) \in Nat /\ shift = offset * BitsPerByte /\ result = Taken
      /\ \A k \in 1 .. offset : bytes[k][BitsPerByte] = 1
  BY <1>1, MaxBytesEnough DEF TypeOK, ReadingInv
<1>3. \A m : Complete(m)' <=> Complete(m)
  BY <1>1 DEF Complete, Holds, Encoded
<1>4. CASE shift < TypeBits /\ offset < Len(bytes) /\ offset' = offset + 1
  <2> DEFINE byte == bytes[offset + 1]
             u == Or(result, Payload(byte, shift))
  <2>1. u = Taken'
    BY <1>1, <1>2, <1>4, TakeOneMore
  <2>2. offset < MaxBytes
    <3> SUFFICES ASSUME offset = MaxBytes PROVE FALSE
      BY <1>2
    <3> QED
      BY <1>2, <1>4, MaxBytesEnough, WidthAssumption
  <2>3. byte[BitsPerByte] \in {0, 1}
    BY <1>1, <1>2, <1>4, WidthAssumption DEF TypeOK, Byte, Word
  <2>4. ASSUME number # <<>>
        PROVE  \E n \in 1 .. MaxBytes :
                 /\ Complete(n)' /\ SubSeq(bytes', n + 1, Len(bytes')) \in Followers
                 /\ byte[BitsPerByte] = 0 <=> offset' = n
    <3>1. PICK n \in 1 .. MaxBytes : Complete(n) /\ SubSeq(bytes, n + 1, Len(bytes)) \in Followers
      BY <1>1, <2>4 DEF ReadBackInv
    <3>2. n \in Nat
      BY <1>2
    <3>3. bytes[offset + 1][BitsPerByte] = 0 <=> offset + 1 = n
      BY <1>1, <3>1, <3>2, MoreToTake
    <3> QED
      BY <1>1, <1>3, <1>4, <3>1, <3>3
  <2>5. CASE byte[BitsPerByte] = 0
    <3>1. phase' = "returned" /\ result' = Decoded(u)
      BY <1>2, <1>4, <2>5 DEF ReadGroup, GoesOn, NextShift
    <3>2. ReadBackInv'
      BY <1>1, <2>4, <2>5, <3>1 DEF ReadBackInv
    <3>3. ReadsGroups'
      BY <1>1, <2>1, <3>1 DEF ReadsGroups, Decoded
    <3>4. TakesOneVarInt'
      BY <1>1, <1>2, <1>4, <2>2, <2>5, <3>1 DEF TakesOneVarInt
    <3> QED
      BY <1>1, <3>1, <3>2, <3>3, <3>4 DEF IInv
  <2>6. CASE byte[BitsPerByte] = 1
    <3>1. phase' = "reading" /\ result' = u /\ shift' = shift + BitsPerByte
      BY <1>1, <1>2, <1>4, <2>6 DEF ReadGroup, GoesOn, NextShift
    <3>2. ReadBackInv'
      BY <1>1, <2>4, <3>1 DEF ReadBackInv
    <3>3. shift' = offset' * BitsPerByte /\ offset' <= MaxBytes
      BY <1>2, <1>4, <2>2, <3>1, NextGroup
    <3>4. \A k \in 1 .. offset' : bytes'[k][BitsPerByte] = 1
      BY <1>1, <1>2, <1>4, <2>6
    <3>5. ReadingInv'
      BY <2>1, <3>1, <3>3, <3>4 DEF ReadingInv
    <3>6. TakesOneVarInt' /\ ReadsGroups'
      BY <3>1, <3>4 DEF TakesOneVarInt, ReadsGroups
    <3> QED
      BY <1>1, <3>1, <3>2, <3>5, <3>6 DEF IInv
  <2> QED
    BY <2>3, <2>5, <2>6
<1>5. CASE /\ shift < TypeBits => offset >= Len(bytes)
           /\ phase' = "threw" /\ UNCHANGED <<offset, shift, result>>
  <2>1. number = <<>>
    <3> SUFFICES ASSUME number # <<>> PROVE FALSE
      OBVIOUS
    <3>1. PICK n \in 1 .. MaxBytes : Complete(n)
      BY <1>1 DEF ReadBackInv
    <3>2. offset < Len(bytes) /\ shift < TypeBits
      BY <1>1, <1>2, <3>1, MoreToTake
    <3> QED
      BY <1>2, <1>5, <3>2
  <2>2. offset \in {MaxBytes, Len(bytes)}
    <3>1. CASE shift < TypeBits
      BY <1>2, <1>5, <3>1
    <3>2. CASE ~ (shift < TypeBits)
      <4>1. SUFFICES ASSUME offset < MaxBytes PROVE FALSE
        BY <1>2
      <4>2. offset <= MaxBytes - 1 /\ MaxBytes - 1 \in Nat
        BY <1>2, <4>1
      <4> QED
        BY <1>2, <3>2, <4>2, FewerGroups, MaxBytesEnough, NextGroup, WidthAssumption
    <3> QED
      BY <3>1, <3>2
  <2>3. TakesOneVarInt' /\ ReadsGroups'
    BY <1>1, <1>2, <1>5, <2>2 DEF TakesOneVarInt, ReadsGroups
  <2> QED
    BY <1>1, <1>5, <2>1, <2>3 DEF IInv
<1> QED
  BY <1>1, <1>4, <1>5 DEF ReadGroup, GoesOn, NextShift

(* The invariant is inductive: one step per action. *)
LEMMA IInvInductive ==
  /\ Init => IInv
  /\ IInv /\ [Next]_vars => IInv'
<1>1. ASSUME Init PROVE IInv
  <2>1. TypeOK
    <3>1. 0 \in 0 .. Len(bytes) /\ 0 \in 0 .. TypeBits + BitsPerByte - 1 /\ bytes \in Seq(Byte)
      BY <1>1, WidthAssumption DEF Init
    <3>2. signed \in BOOLEAN
      BY <1>1 DEF Init
    <3>3. remaining \in Word(TypeBits) /\ result \in Word(TypeBits)
      BY <1>1, WordTypes DEF Init
    <3> QED
      BY <1>1, <3>1, <3>2, <3>3 DEF Init, TypeOK
  <2> QED
    BY <1>1, <2>1 DEF Init, IInv, TakesOneVarInt, ReadsGroups
<1>2. ASSUME IInv, UNCHANGED vars PROVE IInv'
  <2>1. UNCHANGED <<phase, signed, number, remaining, bytes, offset, shift, result>>
    BY <1>2 DEF vars
  <2>2. TypeOK' /\ Encoded(number)' = Encoded(number) /\ \A u : Decoded(u)' = Decoded(u)
    BY <1>2, <2>1, TypeStep DEF IInv, Encoded, Decoded
  <2>3. \A n : Complete(n)' <=> Complete(n)
    BY <2>1, <2>2 DEF Complete, Holds
  <2>4. (WritingInv => WritingInv') /\ (ReadBackInv => ReadBackInv')
    BY <2>1, <2>2, <2>3 DEF WritingInv, ReadBackInv, Holds
  <2>5. (ReadingInv => ReadingInv') /\ (TakesOneVarInt => TakesOneVarInt')
    BY <2>1 DEF ReadingInv, TakesOneVarInt, Taken, Joined
  <2>6. ReadsGroups => ReadsGroups'
    BY <2>1, <2>2 DEF ReadsGroups, Taken, Decoded, Joined
  <2> QED
    BY <1>2, <2>1, <2>2, <2>3, <2>4, <2>5, <2>6 DEF IInv
<1> QED
  BY <1>1, <1>2, WriteStep, WriteGroupStep, ReadBackStep, ReadInputStep, ReadGroupStep DEF Next

(* The inductive invariant holds in every state of every sequence of calls *)
(* of readUnsignedVarInt, readSignedVarInt and their counterparts.         *)
THEOREM IInvAlways == Spec => []IInv
<1>1. Init => IInv
  BY IInvInductive
<1>2. IInv /\ [Next]_vars => IInv'
  BY IInvInductive
<1> QED
  BY <1>1, <1>2, PTL DEF Spec

(* MAX_BYTES iterations suffice for every number of every width: the       *)
(* writing loop never falls through, and the bytes asked for are enough.   *)
THEOREM WriteReturnsAlways == Spec => []WriteReturns
<1>1. IInv => WriteReturns
  BY MaxBytesEnough DEF IInv, WriteReturns, WritingInv, Complete, TypeOK
<1> QED
  BY <1>1, IInvAlways, PTL

(* A number of any width and sign is read back as it was written, cast to  *)
(* the type, and what follows it in the buffer is left alone.              *)
THEOREM RoundTripAlways == Spec => []RoundTrip
<1>1. IInv => RoundTrip
  <2> SUFFICES ASSUME IInv, number # <<>>, phase = "returned"
               PROVE  /\ result = Cast(number, TypeBits, LongBits, signed)
                      /\ SubSeq(bytes, offset + 1, Len(bytes)) \in Followers
    BY DEF RoundTrip, IInv
  <2>1. /\ Complete(offset) /\ SubSeq(bytes, offset + 1, Len(bytes)) \in Followers
        /\ TypeOK /\ number \in Numbers /\ signed \in BOOLEAN /\ result = Decoded(Taken)
    BY DEF IInv, ReadBackInv, TypeOK, ReadsGroups
  <2>2. Taken = Encoded(number)
    BY <2>1, CompleteTaken
  <2>3. Decoded(Encoded(number)) = Cast(number, TypeBits, LongBits, signed)
    BY <2>1, CodedInverse, NumbersAssumption
  <2> QED
    BY <2>1, <2>2, <2>3
<1> QED
  BY <1>1, IInvAlways, PTL

(* The reading loop takes exactly one varint, or throws after it has       *)
(* looked at all the bytes it may look at.                                 *)
THEOREM TakesOneVarIntAlways == Spec => []TakesOneVarInt
<1>1. IInv => TakesOneVarInt
  BY DEF IInv
<1> QED
  BY <1>1, IInvAlways, PTL

(* Its result is what the groups say, bit for bit.                         *)
THEOREM ReadsGroupsAlways == Spec => []ReadsGroups
<1>1. IInv => ReadsGroups
  BY DEF IInv
<1> QED
  BY <1>1, IInvAlways, PTL

(* A number is written with as few groups as it fits in.                   *)
THEOREM ShortestAlways == Spec => []Shortest
<1>1. IInv => Shortest
  <2> SUFFICES ASSUME IInv, phase = "written"
               PROVE  /\ Fits(number, Len(bytes) * BitsPerByte)
                      /\ Len(bytes) > 1 => ~ Fits(number, (Len(bytes) - 1) * BitsPerByte)
    BY DEF Shortest
  <2> DEFINE l == Len(bytes)
             v == Cast(number, LongBits, TypeBits, FALSE)
             z == Encoded(number)
             top == TypeBits - 1
  <2>1. /\ Complete(l) /\ TypeOK /\ number \in Word(LongBits) /\ l \in Nat \ {0}
        /\ signed \in BOOLEAN
    BY NumbersAssumption, MaxBytesEnough DEF IInv, TypeOK, Complete
  <2>2. v \in Word(TypeBits) /\ \A i \in 0 .. top : v[i] = number[i]
    BY <2>1, WidthAssumption DEF Cast, Word
  <2>3. /\ \A i \in 0 .. top : i >= l * BitsPerByte => z[i] = 0
        /\ l > 1 => \E i \in 0 .. top : i >= (l - 1) * BitsPerByte /\ z[i] # 0
    BY <2>1 DEF Complete
  <2>4. l * BitsPerByte \in Nat \ {0} /\ (l > 1 => (l - 1) * BitsPerByte \in Nat \ {0})
    BY <2>1, WidthAssumption
  <2>5. CASE ~ signed
    <3>1. z = v
      BY <2>5 DEF Encoded
    <3> QED
      BY <2>2, <2>3, <2>5, <3>1 DEF Fits
  <2>6. CASE signed
    <3>1. z = ZigZag(v, TypeBits) /\ top \in 0 .. top
      BY <2>6, WidthAssumption DEF Encoded
    <3> HIDE DEF z, v
    <3>2. ASSUME NEW i \in 0 .. top, i > 0
          PROVE  z[i] = IF number[i - 1] = number[top] THEN 0 ELSE 1
      <4>1. z[i] = IF v[i - 1] = v[top] THEN 0 ELSE 1
        <5>1. i \in 0 .. TypeBits - 1 /\ i # 0
          BY <3>2, WidthAssumption
        <5>2. ZigZag(v, TypeBits)[i] = IF v[i - 1] = v[TypeBits - 1] THEN 0 ELSE 1
          BY <2>2, <5>1, ZigZagBits
        <5> QED
          BY <3>1, <5>2
      <4>2. i - 1 \in 0 .. top
        BY <3>2, WidthAssumption
      <4> QED
        BY <2>2, <3>1, <4>1, <4>2, WidthAssumption
    <3>3. ASSUME NEW i \in 0 .. top, i >= l * BitsPerByte - 1 PROVE number[i] = number[top]
      <4>1. CASE i < top
        <5>1. i + 1 \in 0 .. top /\ i + 1 > 0 /\ (i + 1) - 1 = i /\ i + 1 >= l * BitsPerByte
          BY <2>4, <3>3, <4>1, WidthAssumption
        <5> QED
          BY <2>3, <3>2, <5>1
      <4> QED
        BY <4>1, WidthAssumption
    <3>4. ASSUME l > 1
          PROVE  \E i \in 0 .. top : i >= (l - 1) * BitsPerByte - 1 /\ number[i] # number[top]
      <4>1. PICK i \in 0 .. top : i >= (l - 1) * BitsPerByte /\ z[i] # 0
        BY <2>3, <3>4
      <4>2. i > 0 /\ i - 1 \in 0 .. top /\ i - 1 >= (l - 1) * BitsPerByte - 1
        BY <2>4, <3>4, <4>1, WidthAssumption
      <4>3. number[i - 1] # number[top]
        BY <3>2, <4>1, <4>2
      <4> QED
        BY <4>2, <4>3
    <3> QED
      BY <2>6, <3>3, <3>4 DEF Fits
  <2> QED
    BY <2>1, <2>5, <2>6
<1> QED
  BY <1>1, IInvAlways, PTL

(* A finished encoding is the one that the format gives the number.        *)
LEMMA CompleteIsFormat ==
  ASSUME TypeOK, number \in Numbers, Complete(Len(bytes))
  PROVE  bytes = VarIntOf(Encoded(number), TypeBits)
<1> DEFINE l == Len(bytes)
           z == Encoded(number)
           Nothing(k) == ShiftRight(z, TypeBits, k * BitsPerByte) = Zero(TypeBits)
<1>1. z \in Word(TypeBits) /\ bytes \in Seq(Byte)
  BY CodedType, NumbersAssumption, WordTypes DEF TypeOK
<1>2. /\ l \in 1 .. MaxBytes /\ l \in Nat /\ Holds(l, z)
      /\ \A k \in 1 .. l : bytes[k][BitsPerByte] = IF k < l THEN 1 ELSE 0
      /\ \A i \in 0 .. TypeBits - 1 : i >= l * BitsPerByte => z[i] = 0
      /\ l > 1 => \E i \in 0 .. TypeBits - 1 : i >= (l - 1) * BitsPerByte /\ z[i] # 0
  BY MaxBytesEnough DEF Complete
<1>3. MaxBytes = MAX_BYTES(TypeBits) /\ MaxBytes \in Nat
  BY MaxBytesEnough DEF MaxBytes
<1> HIDE DEF z
<1>4. Nothing(l)
  <2>1. l * BitsPerByte \in Nat
    BY <1>2, NextGroup
  <2> DEFINE a == l * BitsPerByte
  <2> HIDE DEF a
  <2>2. a \in Nat /\ \A i \in 0 .. TypeBits - 1 : i >= a => z[i] = 0
    BY <1>2, <2>1 DEF a
  <2>3. ShiftRight(z, TypeBits, a) = Zero(TypeBits)
    BY <2>2, WidthAssumption DEF ShiftRight, Zero
  <2> QED
    BY <2>3 DEF a
<1>5. ASSUME NEW j \in 1 .. l - 1 PROVE ~ Nothing(j)
  <2>1. PICK i \in 0 .. TypeBits - 1 : i >= (l - 1) * BitsPerByte /\ z[i] # 0
    BY <1>2, <1>5
  <2> DEFINE a == j * BitsPerByte
  <2>2. a \in Nat /\ a <= (l - 1) * BitsPerByte /\ (l - 1) * BitsPerByte \in Nat
    <3>1. j \in Nat /\ l - 1 \in Nat /\ j <= l - 1
      BY <1>2, <1>5
    <3> QED
      BY <3>1, FewerGroups, NextGroup
  <2> HIDE DEF a
  <2>3. i - a \in 0 .. TypeBits - 1 /\ (i - a) + a = i
    BY <2>1, <2>2, WidthAssumption
  <2>4. ShiftRight(z, TypeBits, a)[i - a] = z[i]
    BY <2>3, WidthAssumption DEF ShiftRight
  <2>5. Zero(TypeBits)[i - a] = 0
    BY <2>3 DEF Zero
  <2>6. ShiftRight(z, TypeBits, a) # Zero(TypeBits)
    BY <2>1, <2>4, <2>5
  <2> QED
    BY <2>6 DEF a
<1>6. Groups(z, TypeBits) = l
  <2> DEFINE P(k) == Nothing(k) /\ \A j \in 1 .. k - 1 : ~ Nothing(j)
  <2>1. l \in 1 .. MAX_BYTES(TypeBits) /\ P(l)
    BY <1>2, <1>3, <1>4, <1>5
  <2>2. ASSUME NEW k \in 1 .. MAX_BYTES(TypeBits), P(k) PROVE k = l
    <3>1. k \in Nat /\ k >= 1
      BY <1>3, <2>2
    <3>2. ~ (k < l)
      BY <1>2, <1>5, <2>2, <3>1
    <3>3. ~ (l < k)
      BY <1>2, <1>4, <2>2, <3>1
    <3> QED
      BY <1>2, <3>1, <3>2, <3>3
  <2>3. Groups(z, TypeBits) = CHOOSE k \in 1 .. MAX_BYTES(TypeBits) : P(k)
    BY DEF Groups
  <2> HIDE DEF P
  <2> QED
    BY <2>1, <2>2, <2>3
<1> HIDE DEF Nothing
<1>7. ASSUME NEW k \in 1 .. l
      PROVE  bytes[k] = Group(ShiftRight(z, TypeBits, (k - 1) * BitsPerByte), TypeBits,
                              IF k < l THEN 1 ELSE 0)
  <2> DEFINE a == (k - 1) * BitsPerByte
             v == ShiftRight(z, TypeBits, a)
             more == IF k < l THEN 1 ELSE 0
  <2>1. a \in Nat /\ k \in Nat
    <3>1. k - 1 \in Nat /\ k \in Nat
      BY <1>2, <1>7
    <3> QED
      BY <3>1, NextGroup
  <2>2. v \in Word(TypeBits) /\ more \in {0, 1}
    BY <1>1, <2>1, WordTypes
  <2>3. Group(v, TypeBits, more) \in Byte /\ Group(v, TypeBits, more)[BitsPerByte] = more
    BY <2>2, GroupType
  <2>4. bytes[k] \in Byte /\ bytes[k][BitsPerByte] = more
    BY <1>1, <1>2, <1>7
  <2>5. ASSUME NEW j \in 0 .. BitsPerByte - 1 PROVE bytes[k][j] = Group(v, TypeBits, more)[j]
    <3>1. bytes[k][j] = IF a + j < TypeBits THEN z[a + j] ELSE 0
      BY <1>2, <1>7 DEF Holds
    <3>2. Group(v, TypeBits, more)[j] = IF j < TypeBits THEN v[j] ELSE 0
      BY <2>2, GroupType
    <3> HIDE DEF a, more
    <3>3. ASSUME j < TypeBits PROVE v[j] = IF j + a < TypeBits THEN z[j + a] ELSE 0
      BY <2>1, <3>3, WidthAssumption DEF ShiftRight
    <3> HIDE DEF v
    <3> QED
      BY <2>1, <3>1, <3>2, <3>3, WidthAssumption
  <2> HIDE DEF v, more
  <2>6. \A i \in 0 .. (BitsPerByte + 1) - 1 : bytes[k][i] = Group(v, TypeBits, more)[i]
    BY <2>3, <2>4, <2>5, WidthAssumption
  <2>7. bytes[k] = Group(v, TypeBits, more)
    BY <2>3, <2>4, <2>6, SameBits, WidthAssumption DEF Byte
  <2> QED
    BY <2>7 DEF v, more
<1>8. VarIntOf(z, TypeBits) =
        [k \in 1 .. l |-> Group(ShiftRight(z, TypeBits, (k - 1) * BitsPerByte), TypeBits,
                                IF k < l THEN 1 ELSE 0)]
  BY <1>6 DEF VarIntOf
<1>9. bytes = [k \in 1 .. l |-> bytes[k]]
  BY <1>1
<1>10. bytes = VarIntOf(z, TypeBits)
  BY <1>7, <1>8, <1>9
<1> QED
  BY <1>10 DEF z

(* The loops write and take what the format says, for every width, number  *)
(* and input, which is what module Codec builds on.                        *)
THEOREM MatchesFormatAlways == Spec => []MatchesFormat
<1>1. IInv => MatchesFormat
  <2> SUFFICES ASSUME IInv PROVE MatchesFormat
    OBVIOUS
  <2>1. phase = "written" => bytes = VarIntOf(Encoded(number), TypeBits)
    BY CompleteIsFormat DEF IInv
  <2>2. ASSUME phase \in {"returned", "threw"}
        PROVE  offset = VarIntBytes(bytes, TypeBits) /\ (phase = "returned" <=> Terminated(bytes, offset))
    <3> DEFINE P(k) == /\ k <= Len(bytes)
                       /\ \A i \in 1 .. k - 1 : ~ Ends(bytes[i])
                       /\ k \in {MAX_BYTES(TypeBits), Len(bytes)} \/ (k > 0 /\ Ends(bytes[k]))
    <3>1. /\ MaxBytes = MAX_BYTES(TypeBits) /\ MaxBytes \in Nat /\ Len(bytes) \in Nat
          /\ offset \in 0 .. Len(bytes)
          /\ \A i \in 1 .. offset : Ends(bytes[i]) => phase = "returned" /\ i = offset
          /\ phase = "returned" => offset \in 1 .. MaxBytes /\ Ends(bytes[offset])
          /\ phase = "threw" => offset \in {MaxBytes, Len(bytes)} /\ offset <= MaxBytes
      BY MaxBytesEnough DEF IInv, TypeOK, TakesOneVarInt, MaxBytes, Ends
    <3>2. offset \in 0 .. MAX_BYTES(TypeBits) /\ P(offset)
      BY <2>2, <3>1
    <3>3. ASSUME NEW k \in 0 .. MAX_BYTES(TypeBits), P(k) PROVE k = offset
      <4>1. ~ (k < offset)
        BY <3>1, <3>2, <3>3
      <4>2. ~ (offset < k)
        BY <3>1, <3>2, <3>3
      <4> QED
        BY <3>1, <4>1, <4>2
    <3>4. VarIntBytes(bytes, TypeBits) = CHOOSE k \in 0 .. MAX_BYTES(TypeBits) : P(k)
      BY DEF VarIntBytes
    <3>5. phase = "returned" <=> Terminated(bytes, offset)
      BY <3>1 DEF Terminated
    <3> HIDE DEF P
    <3> QED
      BY <3>2, <3>3, <3>4, <3>5
  <2> QED
    BY <2>1, <2>2 DEF MatchesFormat
<1> QED
  BY <1>1, IInvAlways, PTL
=============================================================================
