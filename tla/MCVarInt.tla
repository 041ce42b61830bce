------------------------------ MODULE MCVarInt ------------------------------
(***************************************************************************)
(* An instance of VarInt for TLC: all numbers and all short inputs of a    *)
(* narrow type.                                                            *)
(***************************************************************************)
EXTENDS VarInt

AllNumbers == Word(LongBits)

AllInputs == UNION {[1 .. n -> Byte] : n \in 0 .. 3} \cup [1 .. 4 -> {[i \in 0 .. BitsPerByte |-> 1]}]

Pattern(bit, more) == [i \in 0 .. BitsPerByte |-> IF i = BitsPerByte THEN more ELSE bit]
Rest == {<<>>, <<Pattern(1, 1)>>, <<Pattern(0, 0), Pattern(1, 0)>>}
=============================================================================
