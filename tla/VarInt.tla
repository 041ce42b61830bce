------------------------------- MODULE VarInt -------------------------------
(***************************************************************************)
(* The four loops of Serializers.h that write and read varints, one        *)
(* iteration per step: a call stores a number of TypeBits bits as groups   *)
(* of BitsPerByte, the least significant first, each with a bit that says  *)
(* whether another follows; a signed number is zigzag encoded before.      *)
(* The numbers come from the script and go back to it as zend_long, of     *)
(* LongBits bits.  The memory behind the buffer is ByteBufferWriter's and  *)
(* ByteBufferReader's concern: here it is the sequence of its bytes.       *)
(***************************************************************************)
EXTENDS VarIntFormat

CONSTANTS
  TypeBits,     \* TYPE_BITS: 32 or 64 in the code
  LongBits,     \* the bits of a zend_long: 64 in the code
  StackSize,    \* the size of stackBuffer in packType: 16 in the code
  Numbers,      \* the numbers a script writes
  Followers,    \* what may stand behind a varint
  Inputs        \* byte strings that no writer has made

Byte == Word(BitsPerByte + 1)

MaxBytes == MAX_BYTES(TypeBits)

ASSUME WidthAssumption ==
  /\ BitsPerByte \in Nat \ {0} /\ TypeBits \in Nat \ {0} /\ LongBits \in Nat
  /\ TypeBits <= LongBits
ASSUME StackAssumption == MaxBytes <= StackSize
ASSUME NumbersAssumption == Numbers \subseteq Word(LongBits)
ASSUME BytesAssumption == Followers \subseteq Seq(Byte) /\ Inputs \subseteq Seq(Byte)

VARIABLES
  phase,      \* where the call is, or how the last one ended
  signed,     \* whether the functions are those for signed numbers
  number,     \* the zend_long that was written last
  remaining,  \* what writeUnsignedVarInt has still to write
  bytes,      \* the buffer
  offset,     \* readUnsignedVarInt's position in it
  shift,      \* and its shift
  result      \* and what it has put together; what is returned, in the end

vars == <<phase, signed, number, remaining, bytes, offset, shift, result>>

----------------------------------------------------------------------------
(* The conversions around the loops.                                       *)

(* The argument of writeUnsignedVarInt for the zend_long n. *)
Encoded(n) ==
  LET v == Cast(n, LongBits, TypeBits, FALSE)
  IN  IF signed THEN ZigZag(v, TypeBits) ELSE v

(* The zend_long that is made of the result u of readUnsignedVarInt. *)
Decoded(u) ==
  LET v == IF signed THEN UnZigZag(u, TypeBits) ELSE u
  IN  Cast(v, TypeBits, LongBits, signed)

----------------------------------------------------------------------------
(* writeUnsignedVarInt and writeSignedVarInt.                              *)

Write(n) ==
  /\ phase \notin {"writing", "reading"}
  /\ phase' = "writing"
  /\ signed' \in BOOLEAN
  /\ number' = n
  /\ remaining' = Encoded(n)'
  /\ bytes' = <<>>
  /\ offset' = 0
  /\ shift' = 0
  /\ result' = Zero(TypeBits)

(* Mutant of LastGroup: the loop ends when nothing was left before. *)
LastGroupPadded == remaining = Zero(TypeBits)

(* nextRemaining == 0 *)
LastGroup == ShiftRight(remaining, TypeBits, BitsPerByte) = Zero(TypeBits)

(* One iteration.  Behind the last one, the function would end without     *)
(* having moved the offset: what it has stored would be lost.              *)
WriteGroup ==
  /\ phase = "writing"
  /\ \/ /\ Len(bytes) < MaxBytes /\ LastGroup
        /\ bytes' = Append(bytes, Group(remaining, TypeBits, 0))
        /\ phase' = "written"
        /\ UNCHANGED remaining
     \/ /\ Len(bytes) < MaxBytes /\ ~ LastGroup
        /\ bytes' = Append(bytes, Group(remaining, TypeBits, 1))
        /\ remaining' = ShiftRight(remaining, TypeBits, BitsPerByte)
        /\ UNCHANGED phase
     \/ /\ Len(bytes) = MaxBytes
        /\ phase' = "lost"
        /\ UNCHANGED <<bytes, remaining>>
  /\ UNCHANGED <<signed, number, offset, shift, result>>

----------------------------------------------------------------------------
(* readUnsignedVarInt and readSignedVarInt.                                *)

StartReading ==
  /\ phase' = "reading"
  /\ offset' = 0
  /\ shift' = 0
  /\ result' = Zero(TypeBits)
  /\ UNCHANGED remaining

(* What was written is read by the function of the same name, with the     *)
(* bytes f behind it.                                                      *)
ReadBack(f) ==
  /\ phase = "written"
  /\ StartReading
  /\ bytes' = bytes \o f
  /\ UNCHANGED <<signed, number>>

(* Bytes that come from elsewhere are read: then number is empty. *)
ReadInput(s) ==
  /\ phase \notin {"writing", "reading"}
  /\ StartReading
  /\ bytes' = s
  /\ signed' \in BOOLEAN
  /\ number' = <<>>

(* (byte & VALUE_MASK) << shift, of TypeBits bits. *)
Payload(byte, n) ==
  [i \in 0 .. TypeBits - 1 |->
     IF i >= n /\ i - n < BitsPerByte THEN byte[i - n] ELSE 0]

(* Mutant of GoesOn: one iteration more. *)
GoesOnLong == shift < TypeBits + BitsPerByte

GoesOn == shift < TypeBits

(* Mutant of NextShift: the shift is not moved. *)
NextShiftSame == shift

NextShift == shift + BitsPerByte

(* Mutant of ReadGroup: an exhausted buffer is waited for. *)
ReadGroupWaiting ==
  /\ phase = "reading" /\ offset < Len(bytes)
  /\ \/ /\ GoesOn
        /\ offset' = offset + 1
        /\ LET byte == bytes[offset + 1]
               u    == Or(result, Payload(byte, shift))
           IN  IF byte[BitsPerByte] = 0
                 THEN phase' = "returned" /\ result' = Decoded(u) /\ UNCHANGED shift
                 ELSE shift' = NextShift /\ result' = u /\ UNCHANGED phase
     \/ /\ ~ GoesOn
        /\ phase' = "threw"
        /\ UNCHANGED <<offset, shift, result>>
  /\ UNCHANGED <<signed, number, remaining, bytes>>

(* One iteration.  The offset has moved when it throws. *)
ReadGroup ==
  /\ phase = "reading"
  /\ \/ /\ GoesOn /\ offset < Len(bytes)
        /\ offset' = offset + 1
        /\ LET byte == bytes[offset + 1]
               u    == Or(result, Payload(byte, shift))
           IN  IF byte[BitsPerByte] = 0
                 THEN phase' = "returned" /\ result' = Decoded(u) /\ UNCHANGED shift
                 ELSE shift' = NextShift /\ result' = u /\ UNCHANGED phase
     \/ /\ GoesOn => offset >= Len(bytes)
        /\ phase' = "threw"
        /\ UNCHANGED <<offset, shift, result>>
  /\ UNCHANGED <<signed, number, remaining, bytes>>

----------------------------------------------------------------------------

Init ==
  /\ phase = "idle"
  /\ signed = FALSE
  /\ number = <<>>
  /\ remaining = Zero(TypeBits)
  /\ bytes = <<>>
  /\ offset = 0
  /\ shift = 0
  /\ result = Zero(TypeBits)

Next ==
  \/ \E n \in Numbers : Write(n)
  \/ WriteGroup
  \/ \E f \in Followers : ReadBack(f)
  \/ \E s \in Inputs : ReadInput(s)
  \/ ReadGroup

Spec == Init /\ [][Next]_vars

(* A call that has begun goes on; nobody has to call. *)
FairSpec == Spec /\ WF_vars(WriteGroup) /\ WF_vars(ReadGroup)

----------------------------------------------------------------------------
(* Invariants.                                                             *)

(* The variables hold what the C++ variables can hold. *)
TypeOK ==
  /\ phase \in {"idle", "writing", "written", "lost", "reading", "returned", "threw"}
  /\ signed \in BOOLEAN
  /\ number \in Numbers \cup {<<>>}
  /\ remaining \in Word(TypeBits)
  /\ bytes \in Seq(Byte)
  /\ offset \in 0 .. Len(bytes)
  /\ shift \in 0 .. TypeBits + BitsPerByte - 1
  /\ result \in IF phase = "returned" THEN Word(LongBits) ELSE Word(TypeBits)

(* The writing loop returns from within, for every number: it never runs   *)
(* out of iterations, and never stores more than the bytes it has asked    *)
(* extendBuffer for.                                                       *)
WriteReturns ==
  /\ phase # "lost"
  /\ phase \in {"writing", "written"} => Len(bytes) <= MaxBytes

(* The number a varint stands for, of TypeBits bits, fits in k bits.       *)
Fits(n, k) ==
  IF signed THEN \A i \in 0 .. TypeBits - 1 : i >= k - 1 => n[i] = n[TypeBits - 1]
            ELSE \A i \in 0 .. TypeBits - 1 : i >= k => n[i] = 0

(* A number is written with the fewest groups it fits in; a signed number  *)
(* fits as two's complement, so that small negative numbers are short.     *)
Shortest ==
  phase = "written" =>
    /\ Fits(number, Len(bytes) * BitsPerByte)
    /\ Len(bytes) > 1 => ~ Fits(number, (Len(bytes) - 1) * BitsPerByte)

(* What was written is read back by the function of the same type, with    *)
(* whatever follows it left unread: the zend_long that is returned is the  *)
(* one that was written, cast to the type and back.                        *)
RoundTrip ==
  number # <<>> =>
    /\ phase # "threw"
    /\ phase = "returned" =>
         /\ result = Cast(number, TypeBits, LongBits, signed)
         /\ SubSeq(bytes, offset + 1, Len(bytes)) \in Followers

(* Whatever it is given, the reading loop returns when and only when one   *)
(* of the next MaxBytes bytes ends a varint, and leaves the offset behind  *)
(* it; otherwise it has passed over all of them.                           *)
TakesOneVarInt ==
  /\ \A i \in 1 .. offset :
       bytes[i][BitsPerByte] = 0 => phase = "returned" /\ i = offset
  /\ phase = "returned" => offset \in 1 .. MaxBytes /\ bytes[offset][BitsPerByte] = 0
  /\ phase = "threw" => offset \in {MaxBytes, Len(bytes)} /\ offset <= MaxBytes

(* What the groups taken so far say, bit for bit. *)
Taken == Joined(bytes, offset, TypeBits)

(* What readUnsignedVarInt has put together is what the groups it took     *)
(* say, whoever made them.                                                 *)
ReadsGroups == phase = "returned" => result = Decoded(Taken)

(* The loops write and take what the format says, for every number and     *)
(* every input: module Codec relies on it.                                 *)
MatchesFormat ==
  /\ phase = "written" => bytes = VarIntOf(Encoded(number), TypeBits)
  /\ phase \in {"returned", "threw"} =>
       /\ offset = VarIntBytes(bytes, TypeBits)
       /\ phase = "returned" <=> Terminated(bytes, offset)

(* What makes these invariants inductive.  Complete(n): the first n bytes  *)
(* of the buffer are the encoding of number, all of it and no more.        *)
Holds(n, u) ==
  \A k \in 1 .. n, j \in 0 .. BitsPerByte - 1 :
    LET i == (k - 1) * BitsPerByte + j
    IN  bytes[k][j] = IF i < TypeBits THEN u[i] ELSE 0

Complete(n) ==
  /\ n \in 1 .. MaxBytes /\ n <= Len(bytes)
  /\ Holds(n, Encoded(number))
  /\ \A k \in 1 .. n : bytes[k][BitsPerByte] = IF k < n THEN 1 ELSE 0
  /\ \A i \in 0 .. TypeBits - 1 : i >= n * BitsPerByte => Encoded(number)[i] = 0
  /\ n > 1 => \E i \in 0 .. TypeBits - 1 :
               i >= (n - 1) * BitsPerByte /\ Encoded(number)[i] # 0

WritingInv ==
  /\ number \in Numbers
  /\ Len(bytes) < MaxBytes
  /\ remaining = ShiftRight(Encoded(number), TypeBits, Len(bytes) * BitsPerByte)
  /\ Len(bytes) > 0 => remaining # Zero(TypeBits)
  /\ Holds(Len(bytes), Encoded(number))
  /\ \A k \in 1 .. Len(bytes) : bytes[k][BitsPerByte] = 1

ReadBackInv ==
  number # <<>> =>
    \E n \in 1 .. MaxBytes :
      /\ Complete(n)
      /\ SubSeq(bytes, n + 1, Len(bytes)) \in Followers
      /\ phase = "returned" => offset = n

ReadingInv ==
  /\ offset <= MaxBytes
  /\ shift = offset * BitsPerByte
  /\ result = Taken
  /\ \A k \in 1 .. offset : bytes[k][BitsPerByte] = 1

IInv ==
  /\ TypeOK
  /\ phase # "lost"
  /\ phase = "writing" => WritingInv
  /\ phase \in {"writing", "written"} => offset = 0
  /\ phase = "written" => number \in Numbers /\ Complete(Len(bytes))
  /\ phase = "reading" => ReadingInv
  /\ phase \in {"reading", "returned"} => ReadBackInv
  /\ phase = "threw" => number = <<>>
  /\ TakesOneVarInt /\ ReadsGroups

----------------------------------------------------------------------------
(* Liveness.                                                               *)

(* Every call ends, whatever it is given. *)
CallsEnd == phase \in {"writing", "reading"} ~> phase \notin {"writing", "reading"}
=============================================================================
