------------------------- MODULE MCByteBufferReader -------------------------
(***************************************************************************)
(* Small instances of ByteBufferReader for TLC.                            *)
(***************************************************************************)
EXTENDS ByteBufferReader, TLC

CONSTANTS
  x, y,     \* two byte values: x continues a varint, y ends it
  empty, l  \* two interned strings

LiteralText == (empty :> <<>>) @@ (l :> <<x, y>>)

OneData == {<<>>, <<x, y>>, <<x, x, y, y>>, <<y, x>>}
OneLengths == {-1, 0, 1, 3}
OneOffsets == {-1, 0, 1, 2, 4, 5}

PairData == {<<>>, <<x, y>>}
PairLengths == {0, 1}
PairOffsets == {1}

(* Offsets __serialize does not return, with a string of two bytes. *)
ForeignOffsets == {-1, 5}

SymmetryOfAddresses == Permutations(Cells)
SymmetryOfAll == Permutations(Cells) \cup Permutations(Readers)
=============================================================================
