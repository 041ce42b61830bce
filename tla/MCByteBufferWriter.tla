------------------------- MODULE MCByteBufferWriter -------------------------
(***************************************************************************)
(* Small instances of ByteBufferWriter for TLC.                            *)
(***************************************************************************)
EXTENDS ByteBufferWriter, TLC

CONSTANTS a, b   \* two byte values

Str(s) == [type |-> "string", str |-> s, int |-> 0]
IntVal(n) == [type |-> "int", str |-> <<>>, int |-> n]
Nothing(type) == [type |-> type, str |-> <<>>, int |-> 0]
Array(x, y) == [buffer |-> x, offset |-> y]

OpsStrings == {<<>>, <<a>>, <<a, b>>, <<b, b, a>>}
OpsEncodings == {[bytes |-> <<b>>, room |-> 3], [bytes |-> <<a, a>>, room |-> 2]}
OpsOffsets == {-1, 0, 1, 2, 4}
OpsLengths == {-1, 0, 1, 3, 5}
OpsArrays == {
  Array(Str(<<a, b>>), IntVal(1)),
  Array(Str(<<>>), IntVal(0)),
  Array(Nothing("missing"), IntVal(0)),
  Array(Str(<<a>>), Nothing("null")) }

PairStrings == {<<>>, <<a>>, <<b>>}
PairEncodings == {[bytes |-> <<a>>, room |-> 2]}
PairOffsets == {0, 1}
PairLengths == {2}
PairArrays == {Array(Str(<<a>>), IntVal(1)), Array(IntVal(0), IntVal(0))}

(* Arrays no call of __serialize returns: the offset is outside the string. *)
ForeignArrays == {Array(Str(<<a>>), IntVal(2))}
AnyArrays == ForeignArrays \cup {Array(Str(<<a, b>>), IntVal(-1)), Array(Str(<<>>), Nothing("array"))}

Addresses == Permutations(Blocks)
Symmetry == Permutations(Blocks) \cup Permutations(Writers)
=============================================================================
