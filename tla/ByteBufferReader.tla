-------------------------- MODULE ByteBufferReader --------------------------
(***************************************************************************)
(* The ByteBufferReader objects of one PHP request and the zend_strings    *)
(* they share with the script (classes/ByteBufferReader.cpp), with the     *)
(* read* and unpack* functions of classes/Types.cpp that move their        *)
(* offsets.                                                                *)
(*                                                                         *)
(* A zend_string is counted or interned.  A counted string is freed when   *)
(* its last reference is released; an interned one lives for ever and its  *)
(* count is never touched.  held[c] is the number of references that       *)
(* variables, arrays and temporaries of the script have to the string c:   *)
(* what a caller passes to a function, it holds until the call returns.    *)
(* A read is modelled by which bytes it takes and where it leaves the      *)
(* offset; Codec models what it makes of them.  An access   *)
(* outside a string, or to a freed one, ends the model: mode = "faulted".  *)
(***************************************************************************)
EXTENDS Integers, Sequences, FiniteSets, SizeT

CONSTANTS
  Readers,      \* the handles an object may have
  Cells,        \* the addresses of counted strings
  Literals,     \* the interned strings
  Text,         \* their characters
  EmptyString,  \* the interned string zend_empty_string
  Byte,         \* the values of a byte
  Last,         \* the bytes with MSB_MASK clear
  Data,         \* the strings a script can make
  MaxHeld,      \* the most references the script has to one string
  Widths,       \* the sizes of the types of fixed size, and of a triad
  VarIntSizes,  \* MAX_BYTES of the varint types
  Offsets,      \* arguments of setOffset
  Lengths,      \* arguments of readByteArray
  Foreign,      \* offsets passed to __unserialize that may lie outside the string
  Direct,       \* whether __unserialize is called on readers in use
  MayFail       \* whether the allocator may fail (memory_limit)

Types == {"missing", "null", "int", "string", "array"}
Calls == {"none", "new", "clone", "free", "compare", "__construct", "getData",
  "readByteArray", "getOffset", "setOffset", "getUnreadLength", "readType",
  "readVarInt", "unpackType", "unpackVarInt", "__serialize", "__unserialize",
  "__debugInfo"}
Words == {"ValueError", "DataDecodeException", "buffer", "offset", "type"} \cup Types

ASSUME LiteralsAssumption ==
  /\ Text \in [Literals -> Data]
  /\ EmptyString \in Literals /\ Text[EmptyString] = <<>>
  /\ Literals \cap Cells = {}
ASSUME DataAssumption ==
  /\ \A s \in Data : s \in Seq(Byte) /\ 2 * Len(s) < SizeMod
  /\ Last \subseteq Byte
ASSUME ReadersAssumption == IsFiniteSet(Readers)
ASSUME NumbersAssumption ==
  /\ SizeMod \in Nat /\ 1 \in Long /\ MaxHeld \in Nat \ {0}
  /\ Widths \subseteq Long \ {0} /\ VarIntSizes \subseteq Long \ {0}
  /\ \A n \in Widths \cup VarIntSizes : n > 0
  /\ Offsets \subseteq Long /\ Lengths \subseteq Long /\ Foreign \subseteq Long
  /\ Direct \in BOOLEAN /\ MayFail \in BOOLEAN

VARIABLES
  objects,  \* the readers in the engine's object store
  reader,   \* their byte_buffer_reader_t
  refs,     \* per counted string: its reference count, 0 if it is free
  chars,    \* and its characters
  held,     \* and how many of the references are the script's
  mode,     \* how far the request has come
  ret       \* the last call: name, object, exception, string and integer result

vars == <<objects, reader, refs, chars, held, mode, ret>>

Blank == [buffer |-> EmptyString, offset |-> 0]

----------------------------------------------------------------------------
(* Strings.                                                                *)

Live(p) == p \in Cells => refs[p] > 0

Chars(p) == IF p \in Literals THEN Text[p] ELSE chars[p]

(* A string the script can pass to a function. *)
Passable(p) == p \in Cells => held[p] > 0

(* The counts c after zend_string_addref and zend_string_release. *)
AddRef(c, p) == IF p \in Literals THEN c ELSE [c EXCEPT ![p] = @ + 1]
Release(c, p) == IF p \in Literals THEN c ELSE [c EXCEPT ![p] = @ - 1]

(* The counts become c; a string whose count has become 0 is freed. *)
Count(c) ==
  /\ refs' = c
  /\ chars' = [p \in Cells |-> IF c[p] = 0 THEN <<>> ELSE chars[p]]

(* Mutant of Unread: the offset is left out. *)
UnreadWhole(s, offset) == Len(s)

(* size_t from an offset, which may lie behind it, to the end of s. *)
Unread(s, offset) == Wrap(Len(s) - offset)

(* The n characters of s behind offset. *)
Slice(s, offset, n) == SubSeq(s, offset + 1, offset + n)

----------------------------------------------------------------------------
(* How a call ends.                                                        *)

Returns(op, r, str, num) ==
  /\ ret' = [op |-> op, by |-> r, exc |-> <<>>, str |-> str, num |-> num]
  /\ UNCHANGED mode

Untouched == UNCHANGED <<objects, reader, refs, chars, held>>

(* The engine's answer to a failed allocation: a fatal error that unwinds  *)
(* the call.  After a second one no more script runs.                      *)
Bailout ==
  /\ MayFail
  /\ mode' = IF mode = "running" THEN "shutdown" ELSE "ended"
  /\ UNCHANGED ret

(* The exception object is allocated, which may fail. *)
Raise(op, r, exc) ==
  \/ /\ ret' = [op |-> op, by |-> r, exc |-> exc, str |-> <<>>, num |-> 0]
     /\ UNCHANGED mode
  \/ Bailout

Throws(op, r, exc) == Untouched /\ Raise(op, r, exc)

Fault == mode' = "faulted" /\ Untouched /\ UNCHANGED ret

Update(r, k) == reader' = [reader EXCEPT ![r] = k]

Running == mode \in {"running", "shutdown"}

Callable(r) == Running /\ r \in objects

----------------------------------------------------------------------------
(* The script's own strings.                                               *)

MakeString(c, s) ==
  /\ Running /\ refs[c] = 0
  /\ refs' = [refs EXCEPT ![c] = 1]
  /\ chars' = [chars EXCEPT ![c] = s]
  /\ held' = [held EXCEPT ![c] = 1]
  /\ UNCHANGED <<objects, reader, mode, ret>>

DropString(c) ==
  /\ mode # "faulted" /\ held[c] > 0
  /\ Count(Release(refs, c))
  /\ held' = [held EXCEPT ![c] = @ - 1]
  /\ UNCHANGED <<objects, reader, mode, ret>>

----------------------------------------------------------------------------
(* Object handlers.                                                        *)

(* The reader gets the string p and a reference to it; what it had before, *)
(* c being the counts without that, is the caller's concern.               *)
ReaderInitProperties(op, r, c, p, offset) ==
  /\ Update(r, [buffer |-> p, offset |-> offset])
  /\ Count(AddRef(c, p))
  /\ Returns(op, r, <<>>, 0)
  /\ UNCHANGED held

(* alloc_custom_zend_object: the object is allocated, then entered in the  *)
(* object store.                                                           *)
Create(op, r, p, offset) ==
  \/ objects' = objects \cup {r} /\ ReaderInitProperties(op, r, refs, p, offset)
  \/ Bailout /\ Untouched

ReaderNew(r) ==
  /\ Running /\ r \notin objects
  /\ Create("new", r, EmptyString, 0)

(* Mutant of ReaderClone: the clone takes no reference to the string.      *)
ReaderCloneUncounted(r, q) ==
  /\ Callable(r) /\ q \notin objects
  /\ objects' = objects \cup {q}
  /\ Update(q, reader[r])
  /\ Returns("clone", q, <<>>, 0)
  /\ UNCHANGED <<refs, chars, held>>

(* The clone is a new reader first, whose empty string needs no release. *)
ReaderClone(r, q) ==
  /\ Callable(r) /\ q \notin objects
  /\ IF ~ Live(reader[r].buffer) THEN Fault
     ELSE Create("clone", q, reader[r].buffer, reader[r].offset)

ReaderFree(r) ==
  /\ mode # "faulted" /\ r \in objects
  /\ IF ~ Live(reader[r].buffer) THEN Fault
     ELSE /\ objects' = objects \ {r}
          /\ Update(r, Blank)
          /\ Count(Release(refs, reader[r].buffer))
          /\ Returns("free", r, <<>>, 0)
          /\ UNCHANGED held

ReaderCompareObjects(r, q) ==
  /\ Callable(r) /\ Callable(q) /\ q # r
  /\ \/ /\ reader[r].offset # reader[q].offset
        /\ Returns("compare", r, <<>>, 1)
        /\ Untouched
     \/ /\ reader[r].offset = reader[q].offset
        /\ IF Live(reader[r].buffer) /\ Live(reader[q].buffer)
             THEN /\ Returns("compare", r, <<>>,
                       IF Chars(reader[r].buffer) = Chars(reader[q].buffer) THEN 0 ELSE 1)
                  /\ Untouched
             ELSE Fault

----------------------------------------------------------------------------
(* Methods.                                                                *)

(* Mutant of Construct: the old buffer is not released.                    *)
ConstructLeaking(r, p) ==
  /\ Callable(r) /\ Passable(p)
  /\ ReaderInitProperties("__construct", r, refs, p, 0)
  /\ UNCHANGED objects

(* The old buffer is released before the new one is referenced.  They may  *)
(* be the same string: if it was freed by that, the reference is to a      *)
(* string that is gone.                                                    *)
Construct(r, p) ==
  LET released == Release(refs, reader[r].buffer) IN
  /\ Callable(r) /\ Passable(p)
  /\ IF ~ Live(reader[r].buffer) \/ (p \in Cells /\ released[p] = 0) THEN Fault
     ELSE /\ ReaderInitProperties("__construct", r, released, p, 0)
          /\ UNCHANGED objects

(* The reader's own string becomes a result, with num beside it: one more  *)
(* reference, which is the script's.                                       *)
Share(op, r, num) ==
  LET p == reader[r].buffer IN
  /\ Callable(r)
  /\ p \in Cells => held[p] < MaxHeld
  /\ IF ~ Live(p) THEN Fault
     ELSE /\ Returns(op, r, Chars(p), num)
          /\ Count(AddRef(refs, p))
          /\ held' = AddRef(held, p)
          /\ UNCHANGED <<objects, reader>>

(* The array of __serialize and __debugInfo is allocated before the string *)
(* is referenced, its first element after that.                            *)
ShareInArray(op, r) ==
  LET p == reader[r].buffer IN
  \/ Share(op, r, Signed(reader[r].offset))
  \/ /\ Callable(r) /\ Live(p) /\ Bailout
     /\ refs' \in {refs, AddRef(refs, p)}
     /\ UNCHANGED <<objects, reader, chars, held>>

GetData(r) == Share("getData", r, 0)
Serialize(r) == ShareInArray("__serialize", r)
DebugInfo(r) == ShareInArray("__debugInfo", r)

(* The n bytes at the offset, if the reader has as many; throws otherwise. *)
Take(op, r, n) ==
  LET p == reader[r].buffer
      o == reader[r].offset
  IN
  IF ~ Live(p) THEN Fault
  ELSE IF Unread(Chars(p), o) < n THEN Throws(op, r, <<"DataDecodeException">>)
  ELSE IF o + n > Len(Chars(p)) THEN Fault
  ELSE /\ Update(r, [buffer |-> p, offset |-> Wrap(o + n)])
       /\ Returns(op, r, Slice(Chars(p), o, n), 0)
       /\ UNCHANGED <<objects, refs, chars, held>>

(* The result is allocated before the offset moves. *)
ReadByteArray(r, n) ==
  /\ Callable(r)
  /\ \/ n < 0 /\ Throws("readByteArray", r, <<"ValueError">>)
     \/ n = 0 /\ Returns("readByteArray", r, <<>>, 0) /\ Untouched
     \/ n > 0 /\ Take("readByteArray", r, n)
     \/ n > 0 /\ Bailout /\ Untouched

GetOffset(r) ==
  /\ Callable(r)
  /\ Returns("getOffset", r, <<>>, Signed(reader[r].offset))
  /\ Untouched

(* Mutant of SetOffset: the end is taken to be one byte further. *)
SetOffsetPastEnd(r, n) ==
  /\ Callable(r)
  /\ IF n < 0 \/ n > Len(Chars(reader[r].buffer)) + 1
       THEN Throws("setOffset", r, <<"ValueError">>)
     ELSE /\ Update(r, [reader[r] EXCEPT !.offset = n])
          /\ Returns("setOffset", r, <<>>, 0)
          /\ UNCHANGED <<objects, refs, chars, held>>

SetOffset(r, n) ==
  /\ Callable(r)
  /\ IF ~ Live(reader[r].buffer) THEN Fault
     ELSE IF n < 0 \/ n > Len(Chars(reader[r].buffer))
       THEN Throws("setOffset", r, <<"ValueError">>)
     ELSE /\ Update(r, [reader[r] EXCEPT !.offset = n])
          /\ Returns("setOffset", r, <<>>, 0)
          /\ UNCHANGED <<objects, refs, chars, held>>

GetUnreadLength(r) ==
  /\ Callable(r)
  /\ IF ~ Live(reader[r].buffer) THEN Fault
     ELSE /\ Returns("getUnreadLength", r, <<>>,
                Signed(Unread(Chars(reader[r].buffer), reader[r].offset)))
          /\ Untouched

(* The exception fetch_serialized_property throws, if any, with the types  *)
(* in the order of its message "should be of type %s, but have %s".        *)
FetchSerializedProperty(got, name, type) ==
  IF got = "missing" THEN <<"missing", name>>
  ELSE IF got # type THEN <<"type", name, got, type>>
  ELSE <<>>

(* The array has entries of the types x and y; if those are right, they    *)
(* may be any string and offset.  The buffer the reader had is not         *)
(* released, and the offset is taken as it comes.                          *)
Unserialize(r, x, y) ==
  LET bufferExc == FetchSerializedProperty(x, "buffer", "string")
      offsetExc == FetchSerializedProperty(y, "offset", "int")
  IN
  /\ Callable(r)
  /\ Direct \/ reader[r].buffer = EmptyString
  /\ IF bufferExc # <<>> THEN Throws("__unserialize", r, bufferExc)
     ELSE IF offsetExc # <<>> THEN Throws("__unserialize", r, offsetExc)
     ELSE \E p \in Cells \cup Literals :
            /\ Passable(p)
            /\ \E n \in (0 .. Len(Chars(p))) \cup Foreign :
                 ReaderInitProperties("__unserialize", r, refs, p, Wrap(n))
            /\ UNCHANGED objects

----------------------------------------------------------------------------
(* The functions of Byte, BE, LE and VarInt.                               *)

(* readByte, readFixedSizeType and readInt24, of n bytes. *)
ReadType(r, n) == Callable(r) /\ Take("readType", r, n)

(* How many bytes readUnsignedVarInt takes of the string s at offset o     *)
(* before it returns or throws, and whether it returns: it goes on until a *)
(* byte ends the varint, m bytes are taken or the string is at its end.    *)
VarIntBytes(s, o, m) ==
  CHOOSE n \in 0 .. m :
    /\ \A i \in 1 .. n : o + i <= Len(s)
    /\ \A i \in 1 .. n - 1 : s[o + i] \notin Last
    /\ n = m \/ o + n >= Len(s) \/ (n > 0 /\ s[o + n] \in Last)

Terminated(s, o, n) == n > 0 /\ s[o + n] \in Last

(* Mutant of ReadVarInt: a varint without an end is returned. *)
ReadVarIntUnended(r, m) ==
  LET p == reader[r].buffer
      o == reader[r].offset
      n == VarIntBytes(Chars(p), o, m)
  IN
  /\ Callable(r)
  /\ Update(r, [buffer |-> p, offset |-> o + n])
  /\ Returns("readVarInt", r, Slice(Chars(p), o, n), 0)
  /\ UNCHANGED <<objects, refs, chars, held>>

(* The offset has moved over the bytes it has taken, also when it throws. *)
ReadVarInt(r, m) ==
  LET p == reader[r].buffer
      o == reader[r].offset
      n == VarIntBytes(Chars(p), o, m)
  IN
  /\ Callable(r)
  /\ IF ~ Live(p) THEN Fault
     ELSE /\ Update(r, [buffer |-> p, offset |-> o + n])
          /\ IF Terminated(Chars(p), o, n)
               THEN Returns("readVarInt", r, Slice(Chars(p), o, n), 0)
               ELSE Raise("readVarInt", r, <<"DataDecodeException">>)
          /\ UNCHANGED <<objects, refs, chars, held>>

(* unpack* reads with a reader of its own, on the stack, at offset 0; what *)
(* follows the value is ignored.                                           *)
UnpackType(p, n) ==
  /\ Running /\ Passable(p)
  /\ Untouched
  /\ IF Len(Chars(p)) < n
       THEN Raise("unpackType", ret.by, <<"DataDecodeException">>)
       ELSE Returns("unpackType", ret.by, Slice(Chars(p), 0, n), 0)

UnpackVarInt(p, m) ==
  LET n == VarIntBytes(Chars(p), 0, m) IN
  /\ Running /\ Passable(p)
  /\ Untouched
  /\ IF Terminated(Chars(p), 0, n)
       THEN Returns("unpackVarInt", ret.by, Slice(Chars(p), 0, n), 0)
       ELSE Raise("unpackVarInt", ret.by, <<"DataDecodeException">>)

----------------------------------------------------------------------------

Init ==
  /\ objects = {}
  /\ reader = [r \in Readers |-> Blank]
  /\ refs = [c \in Cells |-> 0]
  /\ chars = [c \in Cells |-> <<>>]
  /\ held = [c \in Cells |-> 0]
  /\ mode = "running"
  /\ \E r \in Readers :
       ret = [op |-> "none", by |-> r, exc |-> <<>>, str |-> <<>>, num |-> 0]

Next ==
  \/ \E c \in Cells, s \in Data : MakeString(c, s)
  \/ \E c \in Cells : DropString(c)
  \/ \E r \in Readers : ReaderNew(r)
  \/ \E r, q \in Readers : ReaderClone(r, q)
  \/ \E r, q \in Readers : ReaderCompareObjects(r, q)
  \/ \E r \in Readers : ReaderFree(r)
  \/ \E r \in Readers, p \in Cells \cup Literals : Construct(r, p)
  \/ \E r \in Readers : GetData(r)
  \/ \E r \in Readers : Serialize(r)
  \/ \E r \in Readers : DebugInfo(r)
  \/ \E r \in Readers, n \in Lengths : ReadByteArray(r, n)
  \/ \E r \in Readers : GetOffset(r)
  \/ \E r \in Readers, n \in Offsets : SetOffset(r, n)
  \/ \E r \in Readers : GetUnreadLength(r)
  \/ \E r \in Readers, x, y \in Types : Unserialize(r, x, y)
  \/ \E r \in Readers, n \in Widths : ReadType(r, n)
  \/ \E r \in Readers, m \in VarIntSizes : ReadVarInt(r, m)
  \/ \E p \in Cells \cup Literals, n \in Widths : UnpackType(p, n)
  \/ \E p \in Cells \cup Literals, m \in VarIntSizes : UnpackVarInt(p, m)

Spec == Init /\ [][Next]_vars

----------------------------------------------------------------------------
(* Invariants.                                                             *)

(* The variables hold what the C++ members and the engine can hold. *)
TypeOK ==
  /\ objects \subseteq Readers
  /\ reader \in [Readers -> [buffer : Cells \cup Literals, offset : Size]]
  /\ refs \in [Cells -> Nat]
  /\ chars \in [Cells -> Data \cup {<<>>}]
  /\ held \in [Cells -> 0 .. MaxHeld]
  /\ mode \in {"running", "shutdown", "ended", "faulted"}
  /\ ret \in [op : Calls, by : Readers, exc : Seq(Words), str : Seq(Byte), num : Long]

Holders(c) == held[c] + Cardinality({r \in objects : reader[r].buffer = c})

(* No string is freed while a reader or the script still refers to it,     *)
(* whatever is cloned, shared by getData and __serialize, reassigned by    *)
(* __construct or freed, and in whatever order, also after an abort.       *)
RefsCover == mode # "faulted" => \A c \in Cells : refs[c] >= Holders(c)

(* Until the request is aborted no reference is leaked: a string nobody    *)
(* refers to any more is freed.                                            *)
NoLeak == mode = "running" => \A c \in Cells : refs[c] = Holders(c)

(* What makes these invariants inductive: an object that does not exist    *)
(* refers to no counted string.                                            *)
IInv ==
  /\ TypeOK
  /\ \A r \in Readers \ objects : reader[r] = Blank
  /\ RefsCover

(* The offset of a reader never lies behind the end of its string, also    *)
(* when a read has thrown; the tests `used - offset < SIZE' of the read    *)
(* functions rely on it.                                                   *)
OffsetInString == \A r \in objects : reader[r].offset <= Len(Chars(reader[r].buffer))

(* No call reads outside a string or touches one that has been freed. *)
NeverFaults == mode # "faulted"

(* Every array passed to __unserialize has its offset within its string,   *)
(* as in the arrays __serialize returns.  The code does not check it.      *)
RestoresInString == Foreign = {}

----------------------------------------------------------------------------
(* Action properties.                                                      *)

(* Whatever offsets were restored, and also after a fatal error, a call    *)
(* goes wrong only where a reader already stands behind the end of its     *)
(* string, so that what is left to read is computed as a huge size_t; and  *)
(* even then all strings are still there.                                  *)
FaultsOnlyBehindEnd ==
  [][mode # "faulted" /\ mode' = "faulted" =>
       /\ \A r \in objects : Live(reader[r].buffer)
       /\ \E r \in objects : reader[r].offset > Len(Chars(reader[r].buffer))]_vars

----------------------------------------------------------------------------
(* Refinement: the readers implement byte sources.                         *)

Abstraction(r) ==
  IF mode = "running" /\ r \in objects
    THEN [data |-> Chars(reader[r].buffer), pos |-> reader[r].offset]
    ELSE [data |-> <<>>, pos |-> 0]

Source == INSTANCE ByteSource WITH
  running <- mode = "running",
  source  <- [r \in Readers |-> Abstraction(r)],
  ret     <- [op |-> ret.op, by |-> ret.by, threw |-> ret.exc # <<>>,
              str |-> ret.str, num |-> ret.num]

(* Every call has the effect and the result that ByteSource promises: no   *)
(* call on one reader moves or changes another that shares its string.     *)
ImplementsSource == Source!Spec
=============================================================================
