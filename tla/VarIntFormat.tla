---------------------------- MODULE VarIntFormat ----------------------------
(***************************************************************************)
(* The format of varints: groups of BitsPerByte bits, the least            *)
(* significant first, each with a bit that says whether another follows.   *)
(* Module VarInt shows that the loops of Serializers.h write and read it;  *)
(* n is the number of bits of the type throughout.                         *)
(***************************************************************************)
EXTENDS Integers, Sequences, Bits

CONSTANT BitsPerByte  \* BITS_PER_BYTE: 7 in the code

(* Mutant of MAX_BYTES: the incomplete group is forgotten. *)
MAX_BYTES_Floor(n) == n \div BitsPerByte

MAX_BYTES(n) == n \div BitsPerByte + (IF n % BitsPerByte > 0 THEN 1 ELSE 0)

(* mask: all ones or all zeros. *)
Mask(bit, n) == [i \in 0 .. n - 1 |-> bit]

ZigZag(v, n) == Xor(ShiftLeft(v, n, 1), Mask(v[n - 1], n))

(* Mutant of UnZigZag: the sign is looked for at the top. *)
UnZigZagTop(u, n) == Xor(ShiftRight(u, n, 1), Mask(u[n - 1], n))

UnZigZag(u, n) == Xor(ShiftRight(u, n, 1), Mask(u[0], n))

(* remaining & VALUE_MASK, with MSB_MASK added if more is set. *)
Group(v, n, more) ==
  [i \in 0 .. BitsPerByte |->
     IF i = BitsPerByte THEN more ELSE IF i < n THEN v[i] ELSE 0]

(* How many groups u takes: as many as leave nothing, and at least one. *)
Groups(u, n) ==
  CHOOSE k \in 1 .. MAX_BYTES(n) :
    /\ ShiftRight(u, n, k * BitsPerByte) = Zero(n)
    /\ \A j \in 1 .. k - 1 : ShiftRight(u, n, j * BitsPerByte) # Zero(n)

(* What writeUnsignedVarInt makes of u. *)
VarIntOf(u, n) ==
  LET m == Groups(u, n)
  IN  [k \in 1 .. m |->
         Group(ShiftRight(u, n, (k - 1) * BitsPerByte), n, IF k < m THEN 1 ELSE 0)]

(* The byte says that no other follows. *)
Ends(byte) == byte[BitsPerByte] = 0

(* How many bytes of s readUnsignedVarInt takes before it returns or       *)
(* throws.                                                                 *)
VarIntBytes(s, n) ==
  CHOOSE k \in 0 .. MAX_BYTES(n) :
    /\ k <= Len(s)
    /\ \A i \in 1 .. k - 1 : ~ Ends(s[i])
    /\ k \in {MAX_BYTES(n), Len(s)} \/ (k > 0 /\ Ends(s[k]))

(* Mutant of Terminated: a varint cut off by the end of the buffer ends.   *)
TerminatedOrCut(s, k) == k > 0

(* It returns when the last of those bytes ends the varint. *)
Terminated(s, k) == k > 0 /\ Ends(s[k])

(* The bits that the first k groups of s say; a bit of the last group for  *)
(* which the type has no room is dropped.                                  *)
Joined(s, k, n) ==
  [i \in 0 .. n - 1 |->
     IF i \div BitsPerByte < k
       THEN s[1 + (i \div BitsPerByte)][i % BitsPerByte] ELSE 0]
=============================================================================
