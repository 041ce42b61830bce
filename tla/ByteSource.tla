----------------------------- MODULE ByteSource -----------------------------
(***************************************************************************)
(* What a ByteBufferReader promises to the script that uses it: a string   *)
(* that never changes and a position in it.  A read returns the bytes at   *)
(* the position and moves it behind them, or throws; only a varint that    *)
(* cannot be read may leave the position elsewhere.  There are no          *)
(* reference counts and no shared strings here: ByteBufferReader is shown  *)
(* to implement this module.                                               *)
(***************************************************************************)
EXTENDS Integers, Sequences

CONSTANTS
  Readers,      \* the objects
  Data,         \* the strings a script can have
  Last,         \* the bytes that end a varint
  Widths,       \* the sizes of the types of fixed size
  VarIntSizes,  \* the largest numbers of bytes of a varint
  Offsets,      \* the arguments of setOffset
  Lengths       \* the arguments of readByteArray

VARIABLES
  running,   \* FALSE once the request has been aborted
  objects,   \* the readers that exist
  source,    \* per reader: its string, and the position
  ret        \* the last call: its name, its object, whether it threw, its result

vars == <<running, objects, source, ret>>

Blank == [data |-> <<>>, pos |-> 0]

(* How many bytes the varint at the position has, 0 if it has no end among *)
(* its first m bytes.                                                      *)
VarIntSize(k, m) ==
  LET ends == {n \in 1 .. m : k.pos + n <= Len(k.data) /\ k.data[k.pos + n] \in Last}
  IN  IF ends = {} THEN 0 ELSE CHOOSE n \in ends : \A e \in ends : n <= e

Returns(op, r, str, num) ==
  ret' = [op |-> op, by |-> r, threw |-> FALSE, str |-> str, num |-> num]

Throws(op, r) ==
  ret' = [op |-> op, by |-> r, threw |-> TRUE, str |-> <<>>, num |-> 0]

Init ==
  /\ running = TRUE
  /\ objects = {}
  /\ source = [r \in Readers |-> Blank]
  /\ \E r \in Readers :
       ret = [op |-> "none", by |-> r, threw |-> FALSE, str |-> <<>>, num |-> 0]

----------------------------------------------------------------------------

Become(op, r, k) ==
  /\ source' = [source EXCEPT ![r] = k]
  /\ Returns(op, r, <<>>, 0)

New(r) ==
  /\ r \notin objects
  /\ objects' = objects \cup {r}
  /\ Become("new", r, Blank)

Clone(r, q) ==
  /\ q \notin objects
  /\ objects' = objects \cup {q}
  /\ Become("clone", q, source[r])

Free(r) ==
  /\ objects' = objects \ {r}
  /\ Become("free", r, Blank)

Construct(r, s) ==
  /\ Become("__construct", r, [data |-> s, pos |-> 0])
  /\ UNCHANGED objects

(* What __unserialize restores is a string and a position within it.       *)
Unserialize(r) ==
  /\ \/ \E s \in Data : \E n \in 0 .. Len(s) :
          Become("__unserialize", r, [data |-> s, pos |-> n])
     \/ Throws("__unserialize", r) /\ UNCHANGED source
  /\ UNCHANGED objects

SetOffset(r, n) ==
  /\ IF n \in 0 .. Len(source[r].data)
       THEN Become("setOffset", r, [source[r] EXCEPT !.pos = n])
       ELSE Throws("setOffset", r) /\ UNCHANGED source
  /\ UNCHANGED objects

(* n bytes, or an exception and no change. *)
Read(op, r, n) ==
  LET k == source[r] IN
  /\ IF n >= 0 /\ k.pos + n <= Len(k.data)
       THEN /\ source' = [source EXCEPT ![r].pos = @ + n]
            /\ Returns(op, r, SubSeq(k.data, k.pos + 1, k.pos + n), 0)
       ELSE Throws(op, r) /\ UNCHANGED source
  /\ UNCHANGED objects

ReadVarInt(r, m) ==
  LET k == source[r]
      n == VarIntSize(k, m)
  IN
  IF n > 0 THEN Read("readVarInt", r, n)
  ELSE /\ Throws("readVarInt", r)
       /\ \E p \in k.pos .. Len(k.data) : source' = [source EXCEPT ![r].pos = p]
       /\ UNCHANGED objects

(* unpack reads from the start of a string and moves no reader; n bytes,   *)
(* or as many as the varint has.                                           *)
Unpack(op, s, n) ==
  /\ IF n > 0 /\ n <= Len(s)
       THEN Returns(op, ret.by, SubSeq(s, 1, n), 0)
       ELSE Throws(op, ret.by)
  /\ UNCHANGED <<objects, source>>

(* The calls that change neither the string nor the position. *)
Observe(r) ==
  LET k == source[r] IN
  /\ \/ Returns("getData", r, k.data, 0)
     \/ Returns("getOffset", r, <<>>, k.pos)
     \/ Returns("getUnreadLength", r, <<>>, Len(k.data) - k.pos)
     \/ Returns("__serialize", r, k.data, k.pos)
     \/ Returns("__debugInfo", r, k.data, k.pos)
     \/ \E q \in objects \ {r} :
          Returns("compare", r, <<>>, IF k = source[q] THEN 0 ELSE 1)
  /\ UNCHANGED <<objects, source>>

Call ==
  \/ \E r \in Readers : New(r)
  \/ \E s \in Data :
       \/ \E n \in Widths : Unpack("unpackType", s, n)
       \/ \E m \in VarIntSizes :
            Unpack("unpackVarInt", s, VarIntSize([data |-> s, pos |-> 0], m))
  \/ \E r \in objects :
       \/ \E s \in Data : Construct(r, s)
       \/ Unserialize(r)
       \/ \E q \in Readers : Clone(r, q)
       \/ \E n \in Offsets : SetOffset(r, n)
       \/ \E n \in Lengths : Read("readByteArray", r, n)
       \/ \E n \in Widths : Read("readType", r, n)
       \/ \E m \in VarIntSizes : ReadVarInt(r, m)
       \/ Free(r)
       \/ Observe(r)

Next == running' => running /\ Call

Spec == Init /\ [][Next]_vars
=============================================================================
