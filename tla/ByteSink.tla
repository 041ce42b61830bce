------------------------------ MODULE ByteSink ------------------------------
(***************************************************************************)
(* What a ByteBufferWriter promises to the script that uses it: a string   *)
(* of bytes that were all written, and a position in it.  A write replaces *)
(* the bytes from the position on and lengthens the string when it runs    *)
(* past its end.  There are no blocks, no capacity and no reallocation     *)
(* here: ByteBufferWriter is shown to implement this module.               *)
(*                                                                         *)
(* The promise ends when the request is aborted (the engine ran out of     *)
(* memory): `running' is then FALSE for ever and nothing more is said.     *)
(***************************************************************************)
EXTENDS Integers, Sequences

CONSTANTS
  Writers,   \* the objects
  Byte,      \* the values of a byte
  Strings,   \* the strings a script passes to __construct and writeByteArray
  Encoded,   \* the byte strings the typed write functions produce
  Offsets,   \* the arguments of setOffset
  Arrays     \* the arrays passed to __unserialize

VARIABLES
  running,   \* FALSE once the request has been aborted
  objects,   \* the writers that exist
  sink,      \* per writer: the bytes written, and the position
  ret        \* the last call: its name, its object, whether it threw, its result

vars == <<running, objects, sink, ret>>

Blank == [data |-> <<>>, pos |-> 0]

(* The string s after v has been written at position o. *)
Overwrite(s, o, v) ==
  [i \in 1 .. (IF o + Len(v) > Len(s) THEN o + Len(v) ELSE Len(s)) |->
     IF i > o /\ i <= o + Len(v) THEN v[i - o] ELSE s[i]]

Written(k, v) ==
  [data |-> Overwrite(k.data, k.pos, v), pos |-> k.pos + Len(v)]

Returns(op, w, str, num) ==
  ret' = [op |-> op, by |-> w, threw |-> FALSE, str |-> str, num |-> num]

Throws(op, w) ==
  ret' = [op |-> op, by |-> w, threw |-> TRUE, str |-> <<>>, num |-> 0]

Init ==
  /\ running = TRUE
  /\ objects = {}
  /\ sink = [w \in Writers |-> Blank]
  /\ \E w \in Writers :
       ret = [op |-> "none", by |-> w, threw |-> FALSE, str |-> <<>>, num |-> 0]

----------------------------------------------------------------------------

Become(op, w, k) ==
  /\ sink' = [sink EXCEPT ![w] = k]
  /\ Returns(op, w, <<>>, 0)

New(w) ==
  /\ w \notin objects
  /\ objects' = objects \cup {w}
  /\ Become("new", w, Blank)

(* A prefix counts as written: new ByteBufferWriter(s) is an empty writer  *)
(* followed by writeByteArray(s).                                          *)
Construct(w, s) == Become("__construct", w, Written(Blank, s)) /\ UNCHANGED objects

Clone(w, v) ==
  /\ v \notin objects
  /\ objects' = objects \cup {v}
  /\ Become("clone", v, sink[w])

Free(w) ==
  /\ objects' = objects \ {w}
  /\ Become("free", w, Blank)

Write(op, w, v) == Become(op, w, Written(sink[w], v)) /\ UNCHANGED objects

SetOffset(w, n) ==
  /\ IF n \in 0 .. Len(sink[w].data)
       THEN Become("setOffset", w, [sink[w] EXCEPT !.pos = n])
       ELSE Throws("setOffset", w) /\ UNCHANGED sink
  /\ UNCHANGED objects

Clear(w) == Become("clear", w, Blank) /\ UNCHANGED objects

Unserialize(w, a) ==
  /\ IF a.buffer.type = "string" /\ a.offset.type = "int"
       THEN Become("__unserialize", w, [data |-> a.buffer.str, pos |-> a.offset.int])
       ELSE Throws("__unserialize", w) /\ UNCHANGED sink
  /\ UNCHANGED objects

(* pack returns the bytes that the typed write would have written.         *)
Pack(v) == Returns("packType", ret.by, v, 0) /\ UNCHANGED <<objects, sink>>

(* The array a call of __serialize has just returned.                      *)
Returned ==
  IF ret.op = "__serialize"
    THEN {[buffer |-> [type |-> "string", str |-> ret.str, int |-> 0],
           offset |-> [type |-> "int", str |-> <<>>, int |-> ret.num]]}
    ELSE {}

(* The calls that change neither the bytes nor the position. *)
Observe(w) ==
  LET k == sink[w] IN
  /\ \/ Returns("getData", w, k.data, 0)
     \/ Returns("getOffset", w, <<>>, k.pos)
     \/ Returns("getUsedLength", w, <<>>, Len(k.data))
     \/ /\ ret'.num >= Len(k.data)
        /\ Returns("getReservedLength", w, <<>>, ret'.num)
     \/ Returns("__serialize", w, k.data, k.pos)
     \/ Returns("__debugInfo", w, k.data, k.pos)
     \/ Returns("reserve", w, <<>>, 0)
     \/ Throws("reserve", w)
     \/ Returns("trim", w, <<>>, 0)
     \/ \E v \in objects \ {w} :
          Returns("compare", w, <<>>, IF k = sink[v] THEN 0 ELSE 1)
  /\ UNCHANGED <<objects, sink>>

Call ==
  \/ \E w \in Writers : New(w)
  \/ \E v \in Encoded : Pack(v)
  \/ \E w \in objects :
       \/ \E s \in Strings : Construct(w, s) \/ Write("writeByteArray", w, s)
       \/ \E v \in Writers : Clone(w, v)
       \/ \E v \in Encoded : Write("writeType", w, v)
       \/ \E n \in Offsets : SetOffset(w, n)
       \/ \E a \in Arrays \cup Returned : Unserialize(w, a)
       \/ Free(w)
       \/ Clear(w)
       \/ Observe(w)

Next == running' => running /\ Call

Spec == Init /\ [][Next]_vars
=============================================================================
