-------------------------- MODULE ByteBufferWriter --------------------------
(***************************************************************************)
(* The ByteBufferWriter objects of one PHP request and the heap blocks     *)
(* they own (classes/ByteBufferWriter.cpp), with extendBuffer of           *)
(* Serializers.h and the write* functions of classes/Types.cpp that grow   *)
(* the same blocks.                                                        *)
(*                                                                         *)
(* A block is the sequence of its bytes; a byte that nobody has stored yet *)
(* is Uninit.  size_t and zend_long have the width SizeMod = 2^w.  The     *)
(* allocator may fail, which ends the script with a fatal error; the       *)
(* functions registered with register_shutdown_function still run after    *)
(* that and may call the same objects, and every object is still freed.    *)
(* An access outside an allocated block ends the model: mode = "faulted".  *)
(***************************************************************************)
EXTENDS Integers, Sequences, SizeT

CONSTANTS
  Writers,      \* the handles an object may have
  Blocks,       \* the addresses emalloc and erealloc may return
  Wild,         \* the value of a pointer nobody has assigned
  Byte,         \* the values of a byte
  Uninit,       \* the content of a byte nobody has stored
  Prealloc,     \* preallocSize: 16 in the code
  StackSize,    \* the size of stackBuffer in packType: 16 in the code
  MaxCapacity,  \* the largest block the process can be given
  MayFail,      \* whether the allocator may fail (memory_limit)
  Strings,      \* arguments of __construct and writeByteArray
  Encodings,    \* per typed write: the bytes stored, and the bytes asked for
  Offsets,      \* arguments of setOffset
  Lengths,      \* arguments of reserve
  Arrays        \* arguments of __unserialize, besides what __serialize returns

Content == Byte \cup {Uninit}
Types == {"missing", "null", "int", "string", "array"}
Entry == [type : Types, str : Seq(Byte), int : Int]
Calls == {"none", "new", "clone", "free", "compare", "__construct", "getData",
  "writeByteArray", "writeType", "packType", "getOffset", "setOffset", "getUsedLength",
  "getReservedLength", "reserve", "trim", "clear", "__serialize",
  "__unserialize", "__debugInfo"}
Words == {"ValueError", "buffer", "offset", "type"} \cup Types

ASSUME ByteAssumption == Uninit \notin Byte
ASSUME WildAssumption == Wild \notin Blocks
ASSUME SizeAssumption ==
  /\ SizeMod \in Nat
  /\ Prealloc \in 1 .. MaxCapacity
  /\ StackSize \in Size
  /\ MaxCapacity \in Nat
  /\ 2 * MaxCapacity < SizeMod
  /\ MayFail \in BOOLEAN
ASSUME StringsAssumption ==
  \A s \in Strings : s \in Seq(Byte) /\ Len(s) <= MaxCapacity
ASSUME EncodingsAssumption ==
  \A e \in Encodings :
    /\ e \in [bytes : Seq(Byte), room : Nat]
    /\ Len(e.bytes) <= e.room
    /\ e.room <= MaxCapacity
ASSUME ArgumentsAssumption ==
  /\ \A n \in Offsets \cup Lengths : n \in Long
  /\ \A a \in Arrays :
       /\ a \in [buffer : Entry, offset : Entry]
       /\ Len(a.buffer.str) <= MaxCapacity
       /\ a.offset.int \in Long

VARIABLES
  objects,    \* the writers in the engine's object store
  writer,     \* their byte_buffer_writer_t
  allocated,  \* the blocks that are allocated
  heap,       \* what they hold
  mode,       \* how far the request has come
  ret         \* the last call: name, object, exception, string and integer result

vars == <<objects, writer, allocated, heap, mode, ret>>

Blank == [buffer |-> Wild, length |-> 0, offset |-> 0, used |-> 0]

----------------------------------------------------------------------------
(* Growing a buffer, and the allocator.                                    *)

Larger(m, n) == IF m > n THEN m ELSE n

(* Mutant of Grows: a block one byte too short is not grown. *)
GrowsLate(length, offset, usedBytes) == length + 1 < Wrap(offset + usedBytes)

(* extendBuffer: whether a block of the recorded length must grow to hold  *)
(* usedBytes more at offset, and the length it then gets.                  *)
Grows(length, offset, usedBytes) == length < Wrap(offset + usedBytes)

(* Mutant of Extended: the block grows to what is needed and no more. *)
ExtendedExactly(length, offset, usedBytes) ==
  IF Grows(length, offset, usedBytes) THEN Wrap(offset + usedBytes) ELSE length

Extended(length, offset, usedBytes) ==
  IF Grows(length, offset, usedBytes)
    THEN Larger(Wrap(2 * length), Wrap(offset + usedBytes))
    ELSE length

(* A block of n bytes that begins like s: what erealloc keeps of s. *)
Resized(s, n) == [i \in 1 .. n |-> IF i <= Len(s) THEN s[i] ELSE Uninit]

(* The block s after the bytes v were copied to index o (counted from 0). *)
Stored(s, o, v) ==
  [i \in 1 .. Len(s) |-> IF i > o /\ i <= o + Len(v) THEN v[i - o] ELSE s[i]]

(* Reading or writing n bytes from the start of block b is defined.  No    *)
(* byte of the block is touched when n = 0.                                *)
Accessible(b, n) == n = 0 \/ (b \in allocated /\ n <= Len(heap[b]))

(* Where erealloc may put the block b: where it is, or elsewhere. *)
Places(b) == {b} \cup (Blocks \ allocated)

(* The block b is replaced by the block c, which holds s. *)
Replace(b, c, s) ==
  /\ allocated' = (allocated \ {b}) \cup {c}
  /\ heap' = [d \in Blocks |-> IF d = c THEN s ELSE IF d = b THEN <<>> ELSE heap[d]]

(* The first n bytes of a block. *)
Prefix(b, n) == IF n = 0 THEN <<>> ELSE SubSeq(heap[b], 1, n)

Contents(w) == Prefix(writer[w].buffer, writer[w].used)

Readable(w) == Accessible(writer[w].buffer, writer[w].used)

----------------------------------------------------------------------------
(* How a call ends.                                                        *)

Returns(op, w, str, num) ==
  /\ ret' = [op |-> op, by |-> w, exc |-> <<>>, str |-> str, num |-> num]
  /\ UNCHANGED mode

Untouched == UNCHANGED <<objects, writer, allocated, heap>>

(* The engine's answer to a failed allocation: a fatal error that unwinds  *)
(* the call where it stands.  After a second one no more script runs.      *)
Bailout ==
  /\ MayFail
  /\ mode' = IF mode = "running" THEN "shutdown" ELSE "ended"
  /\ UNCHANGED ret

(* The exception object is allocated, which may fail. *)
Throws(op, w, exc) ==
  /\ Untouched
  /\ \/ /\ ret' = [op |-> op, by |-> w, exc |-> exc, str |-> <<>>, num |-> 0]
        /\ UNCHANGED mode
     \/ Bailout

(* An access outside the allocated blocks. *)
Fault == mode' = "faulted" /\ Untouched /\ UNCHANGED ret

Update(w, r) == writer' = [writer EXCEPT ![w] = r]

(* The script can call a method of w.  An object whose creation failed is  *)
(* in the object store, but no variable of the script refers to it.        *)
Callable(w) ==
  /\ mode \in {"running", "shutdown"}
  /\ w \in objects
  /\ writer[w].buffer # Wild

----------------------------------------------------------------------------
(* Object handlers.                                                        *)

InitialBlock(s) == IF s = <<>> THEN Resized(<<>>, Prealloc) ELSE s

(* The block of w, if it has one, is freed and w gets a block that holds   *)
(* s.  The sizes are assigned before emalloc, the pointer after it.        *)
WriterInitProperties(op, w, s, o) ==
  LET r     == writer[w]
      block == InitialBlock(s)
  IN
  \/ /\ \E b \in Blocks \ (allocated \ {r.buffer}) :
          /\ Replace(r.buffer, b, block)
          /\ Update(w, [buffer |-> b, length |-> Len(block), offset |-> o, used |-> Len(s)])
     /\ Returns(op, w, <<>>, 0)
  \/ /\ Bailout
     /\ allocated' = allocated \ {r.buffer}
     /\ heap' = [d \in Blocks |-> IF d = r.buffer THEN <<>> ELSE heap[d]]
     /\ Update(w, [r EXCEPT !.length = Len(s), !.offset = o, !.used = Len(s)])

(* alloc_custom_zend_object: the object is allocated and entered in the    *)
(* object store, then its block is allocated.                              *)
Create(op, w, s, o) ==
  \/ objects' = objects \cup {w} /\ WriterInitProperties(op, w, s, o)
  \/ Bailout /\ Untouched

WriterNew(w) ==
  /\ mode \in {"running", "shutdown"}
  /\ w \notin objects
  /\ Create("new", w, <<>>, 0)

(* Mutant of WriterClone: the clone continues at the end. *)
WriterCloneAtEnd(w, v) ==
  /\ Callable(w) /\ v \notin objects
  /\ IF Readable(w) THEN Create("clone", v, Contents(w), writer[w].used) ELSE Fault

(* Reserved memory is not copied: the block of the clone is as long as the *)
(* written part of the original.                                           *)
WriterClone(w, v) ==
  /\ Callable(w) /\ v \notin objects
  /\ IF Readable(w) THEN Create("clone", v, Contents(w), writer[w].offset) ELSE Fault

(* Mutant of WriterFree: the block is not freed. *)
WriterFreeLeaking(w) ==
  /\ mode # "faulted" /\ w \in objects
  /\ objects' = objects \ {w}
  /\ Update(w, Blank)
  /\ Returns("free", w, <<>>, 0)
  /\ UNCHANGED <<allocated, heap>>

WriterFree(w) ==
  LET block == writer[w].buffer IN
  /\ mode # "faulted" /\ w \in objects
  /\ IF block \in allocated
       THEN /\ objects' = objects \ {w}
            /\ Update(w, Blank)
            /\ allocated' = allocated \ {block}
            /\ heap' = [heap EXCEPT ![block] = <<>>]
            /\ Returns("free", w, <<>>, 0)
       ELSE Fault

(* What memcmp may find: 0 when the strings may be equal, 1 when they may  *)
(* differ.  A byte nobody has stored may have any value.                   *)
Comparisons(s, t) ==
  {d \in {0, 1} :
     IF d = 0 THEN \A i \in DOMAIN s : s[i] = t[i] \/ Uninit \in {s[i], t[i]}
              ELSE \E i \in DOMAIN s : s[i] # t[i] \/ s[i] = Uninit}

WriterCompareObjects(w, v) ==
  /\ Callable(w) /\ Callable(v) /\ v # w
  /\ \/ /\ <<writer[w].offset, writer[w].used>> # <<writer[v].offset, writer[v].used>>
        /\ Returns("compare", w, <<>>, 1)
        /\ Untouched
     \/ /\ <<writer[w].offset, writer[w].used>> = <<writer[v].offset, writer[v].used>>
        /\ IF Readable(w) /\ Readable(v)
             THEN /\ \E d \in Comparisons(Contents(w), Contents(v)) :
                       Returns("compare", w, <<>>, d)
                  /\ Untouched
             ELSE Fault

----------------------------------------------------------------------------
(* Methods.                                                                *)

(* Mutant of Construct: the write position of a new writer is 0. *)
ConstructAtStart(w, s) ==
  /\ Callable(w)
  /\ IF writer[w].buffer \in allocated
       THEN WriterInitProperties("__construct", w, s, 0) /\ UNCHANGED objects
       ELSE Fault

(* The write position of a new writer is the end of its prefix. *)
Construct(w, s) ==
  /\ Callable(w)
  /\ IF writer[w].buffer \in allocated
       THEN WriterInitProperties("__construct", w, s, Len(s)) /\ UNCHANGED objects
       ELSE Fault

(* Mutant of ExtendFails: the offset has moved before the buffer grows. *)
ExtendFailsLate(w, length) ==
  /\ Bailout
  /\ Update(w, [writer[w] EXCEPT !.length = length, !.offset = length])
  /\ UNCHANGED <<objects, allocated, heap>>

(* erealloc fails in extendBuffer: the length has been assigned already. *)
ExtendFails(w, length) ==
  /\ Bailout
  /\ Update(w, [writer[w] EXCEPT !.length = length])
  /\ UNCHANGED <<objects, allocated, heap>>

(* Stores the bytes v at the offset, after asking for room bytes there. *)
Store(op, w, v, room) ==
  LET r      == writer[w]
      grows  == Grows(r.length, r.offset, room)
      length == Extended(r.length, r.offset, room)
      block  == IF grows THEN Resized(heap[r.buffer], length) ELSE heap[r.buffer]
      end    == Wrap(r.offset + Len(v))
  IN
  /\ Callable(w)
  /\ IF r.buffer \notin allocated THEN Fault ELSE
     \/ grows /\ ExtendFails(w, length)
     \/ /\ grows => length <= MaxCapacity
        /\ IF v = <<>> \/ r.offset + Len(v) <= Len(block)
             THEN /\ \E b \in IF grows THEN Places(r.buffer) ELSE {r.buffer} :
                       /\ Replace(r.buffer, b, Stored(block, r.offset, v))
                       /\ Update(w, [buffer |-> b, length |-> length,
                                     offset |-> end, used |-> Larger(end, r.used)])
                  /\ Returns(op, w, <<>>, 0)
                  /\ UNCHANGED objects
             ELSE Fault

WriteByteArray(w, s) == Store("writeByteArray", w, s, Len(s))

(* Mutant of WriteType: the offset moves by the room, not by the bytes.    *)
WriteTypeRoom(w, e) ==
  Store("writeType", w, e.bytes \o [i \in 1 .. e.room - Len(e.bytes) |-> Uninit], e.room)

(* zif_writeType of Types.cpp.  A varint asks for the room of the longest  *)
(* encoding of its type and may use less of it.                            *)
WriteType(w, e) == Store("writeType", w, e.bytes, e.room)

(* zif_packType: the value is written to a buffer on the stack, which      *)
(* erealloc may not be given.                                              *)
PackType(e) ==
  /\ mode \in {"running", "shutdown"}
  /\ IF Grows(StackSize, 0, e.room) THEN Fault
     ELSE \/ Returns("packType", ret.by, e.bytes, 0) /\ Untouched
          \/ Bailout /\ Untouched

(* Mutant of SetOffset: the offset is compared with the reserved length.   *)
SetOffsetReserved(w, n) ==
  /\ Callable(w)
  /\ IF n < 0 \/ n > writer[w].length
       THEN Throws("setOffset", w, <<"ValueError">>)
       ELSE /\ Update(w, [writer[w] EXCEPT !.offset = n])
            /\ Returns("setOffset", w, <<>>, 0)
            /\ UNCHANGED <<objects, allocated, heap>>

SetOffset(w, n) ==
  /\ Callable(w)
  /\ IF n < 0 \/ n > writer[w].used
       THEN Throws("setOffset", w, <<"ValueError">>)
       ELSE /\ Update(w, [writer[w] EXCEPT !.offset = n])
            /\ Returns("setOffset", w, <<>>, 0)
            /\ UNCHANGED <<objects, allocated, heap>>

Reserve(w, n) ==
  LET r      == writer[w]
      grows  == Grows(r.length, n, 0)
      length == Extended(r.length, n, 0)
  IN
  /\ Callable(w)
  /\ IF n <= 0 THEN Throws("reserve", w, <<"ValueError">>)
     ELSE IF ~grows THEN Returns("reserve", w, <<>>, 0) /\ Untouched
     ELSE IF r.buffer \notin allocated THEN Fault
     ELSE \/ ExtendFails(w, length)
          \/ /\ length <= MaxCapacity
             /\ \E b \in Places(r.buffer) :
                  /\ Replace(r.buffer, b, Resized(heap[r.buffer], length))
                  /\ Update(w, [r EXCEPT !.buffer = b, !.length = length])
             /\ Returns("reserve", w, <<>>, 0)
             /\ UNCHANGED objects

(* Here the pointer and then the length are assigned after erealloc. *)
Trim(w) ==
  LET r == writer[w] IN
  /\ Callable(w)
  /\ IF r.length <= r.used THEN Returns("trim", w, <<>>, 0) /\ Untouched
     ELSE IF r.buffer \notin allocated THEN Fault
     ELSE \/ Bailout /\ Untouched
          \/ /\ \E b \in Places(r.buffer) :
                  /\ Replace(r.buffer, b, Resized(heap[r.buffer], r.used))
                  /\ Update(w, [r EXCEPT !.buffer = b, !.length = r.used])
             /\ Returns("trim", w, <<>>, 0)
             /\ UNCHANGED objects

Clear(w) ==
  /\ Callable(w)
  /\ Update(w, [writer[w] EXCEPT !.offset = 0, !.used = 0])
  /\ Returns("clear", w, <<>>, 0)
  /\ UNCHANGED <<objects, allocated, heap>>

(* The methods that return the written bytes, with or without the offset;  *)
(* the engine allocates their results.                                     *)
Dump(op, w, num) ==
  /\ Callable(w)
  /\ IF Readable(w)
       THEN \/ Returns(op, w, Contents(w), num) /\ Untouched
            \/ Bailout /\ Untouched
       ELSE Fault

GetData(w) == Dump("getData", w, 0)
Serialize(w) == Dump("__serialize", w, Signed(writer[w].offset))
DebugInfo(w) == Dump("__debugInfo", w, Signed(writer[w].offset))

GetNumber(op, w, n) == Callable(w) /\ Returns(op, w, <<>>, Signed(n)) /\ Untouched

GetOffset(w) == GetNumber("getOffset", w, writer[w].offset)
GetUsedLength(w) == GetNumber("getUsedLength", w, writer[w].used)
GetReservedLength(w) == GetNumber("getReservedLength", w, writer[w].length)

(* The exception fetch_serialized_property throws, if any: the two type    *)
(* names stand in the order in which its message prints them, "should be   *)
(* of type %s, but have %s".                                               *)
FetchSerializedProperty(entry, name, type) ==
  IF entry.type = "missing" THEN <<"missing", name>>
  ELSE IF entry.type # type THEN <<"type", name, entry.type, type>>
  ELSE <<>>

(* Both entries are checked before the object is touched.  The offset is   *)
(* taken as it comes.                                                      *)
Unserialize(w, a) ==
  LET bufferExc == FetchSerializedProperty(a.buffer, "buffer", "string")
      offsetExc == FetchSerializedProperty(a.offset, "offset", "int")
  IN
  /\ Callable(w)
  /\ IF bufferExc # <<>> THEN Throws("__unserialize", w, bufferExc)
     ELSE IF offsetExc # <<>> THEN Throws("__unserialize", w, offsetExc)
     ELSE IF writer[w].buffer \in allocated
       THEN /\ WriterInitProperties("__unserialize", w, a.buffer.str, Wrap(a.offset.int))
            /\ UNCHANGED objects
       ELSE Fault

(* The array that the last call, if it was __serialize, returned: what     *)
(* unserialize(serialize($writer)) passes on.  Only stored bytes can be    *)
(* passed on with a known value.                                           *)
Returned ==
  IF ret.op = "__serialize" /\ Uninit \notin {ret.str[i] : i \in DOMAIN ret.str}
    THEN {[buffer |-> [type |-> "string", str |-> ret.str, int |-> 0],
           offset |-> [type |-> "int", str |-> <<>>, int |-> ret.num]]}
    ELSE {}

----------------------------------------------------------------------------

Init ==
  /\ objects = {}
  /\ writer = [w \in Writers |-> Blank]
  /\ allocated = {}
  /\ heap = [b \in Blocks |-> <<>>]
  /\ mode = "running"
  /\ \E w \in Writers :
       ret = [op |-> "none", by |-> w, exc |-> <<>>, str |-> <<>>, num |-> 0]

Next ==
  \/ \E w \in Writers : WriterNew(w)
  \/ \E w, v \in Writers : WriterClone(w, v)
  \/ \E w, v \in Writers : WriterCompareObjects(w, v)
  \/ \E w \in Writers : WriterFree(w)
  \/ \E w \in Writers, s \in Strings : Construct(w, s)
  \/ \E w \in Writers, s \in Strings : WriteByteArray(w, s)
  \/ \E w \in Writers, e \in Encodings : WriteType(w, e)
  \/ \E e \in Encodings : PackType(e)
  \/ \E w \in Writers, n \in Offsets : SetOffset(w, n)
  \/ \E w \in Writers, n \in Lengths : Reserve(w, n)
  \/ \E w \in Writers : Trim(w)
  \/ \E w \in Writers : Clear(w)
  \/ \E w \in Writers : GetData(w)
  \/ \E w \in Writers : Serialize(w)
  \/ \E w \in Writers : DebugInfo(w)
  \/ \E w \in Writers : GetOffset(w)
  \/ \E w \in Writers : GetUsedLength(w)
  \/ \E w \in Writers : GetReservedLength(w)
  \/ \E w \in Writers, a \in Arrays \cup Returned : Unserialize(w, a)

Spec == Init /\ [][Next]_vars

----------------------------------------------------------------------------
(* Invariants.                                                             *)

(* The variables hold what the C++ members and the engine can hold. *)
TypeOK ==
  /\ objects \subseteq Writers
  /\ writer \in [Writers -> [buffer : Blocks \cup {Wild},
                            length : Size, offset : Size, used : Size]]
  /\ allocated \subseteq Blocks
  /\ heap \in [Blocks -> Seq(Content)]
  /\ mode \in {"running", "shutdown", "ended", "faulted"}
  /\ ret \in [op : Calls, by : Writers, exc : Seq(Words), str : Seq(Content), num : Long]
  /\ Len(ret.str) \in Size

(* Until the request is aborted, the offset of every writer lies within    *)
(* its written part, the written part within the recorded length, and that *)
(* length is the size of its block, whatever sequence of writes, seeks,    *)
(* reserve, trim, clear and clone led there.                               *)
WellFormed ==
  mode = "running" =>
    \A w \in objects :
      /\ writer[w].buffer \in allocated
      /\ writer[w].length = Len(heap[writer[w].buffer])
      /\ writer[w].used <= writer[w].length
      /\ writer[w].offset <= writer[w].used

(* Until the request is aborted, every allocated block is owned by exactly *)
(* one writer: clones share nothing, and re-initialisation, reallocation   *)
(* and destruction leak nothing.                                           *)
OneOwner ==
  mode = "running" =>
    /\ allocated = {writer[w].buffer : w \in objects}
    /\ \A w, v \in objects : writer[w].buffer = writer[v].buffer => w = v

(* No byte of reserved memory that nobody has stored becomes part of the   *)
(* written bytes, which is what getData, __serialize and __debugInfo show. *)
WrittenBytesOnly ==
  mode = "running" => \A w \in objects : Contents(w) \in Seq(Byte)

(* What makes these invariants inductive.  A writer in order also has a    *)
(* block no larger than MaxCapacity, so that no sum of sizes wraps; an     *)
(* object that does not exist has no block; and an array that __serialize  *)
(* returned has its offset within its string.                              *)
InOrder(w) ==
  /\ writer[w].buffer \in allocated
  /\ writer[w].length = Len(heap[writer[w].buffer])
  /\ writer[w].length <= MaxCapacity
  /\ writer[w].used <= writer[w].length
  /\ writer[w].offset <= writer[w].used
  /\ \A i \in 1 .. writer[w].used : heap[writer[w].buffer][i] \in Byte

ReturnedInOrder ==
  ret.op = "__serialize" => Len(ret.str) <= MaxCapacity /\ ret.num \in 0 .. Len(ret.str)

RunningInv ==
  /\ \A w \in objects : InOrder(w)
  /\ \A w \in Writers \ objects : writer[w] = Blank
  /\ \A b \in allocated : \E w \in objects : writer[w].buffer = b
  /\ \A w, v \in objects : writer[w].buffer = writer[v].buffer => w = v
  /\ ReturnedInOrder

IInv == TypeOK /\ (mode = "running" => RunningInv)

(* The offset of every array passed to __unserialize lies in its string,   *)
(* as in the arrays __serialize returns.  The code does not check it.      *)
RestoresInOrder ==
  \A a \in Arrays :
    a.buffer.type = "string" /\ a.offset.type = "int" =>
      a.offset.int \in 0 .. Len(a.buffer.str)

(* No type asks pack* for more than its buffer on the stack has.  The      *)
(* comment at that buffer says so, and no line of the code checks it.      *)
PackFits == \A e \in Encodings : e.room <= StackSize

----------------------------------------------------------------------------
(* Action properties.                                                      *)

(* No call makes an access outside the allocated blocks while the request  *)
(* is running, in any order of calls on any number of writers.             *)
RunningNeverFaults == [][mode = "running" => mode' # "faulted"]_vars

(* The capacity of a writer grows only by doubling or more, so that n      *)
(* bytes cost a number of reallocations logarithmic in n; it shrinks only  *)
(* in trim, __construct and __unserialize, never below the written part.   *)
CapacityPolicy ==
  [][\A w \in objects \cap objects' :
       mode' = "running" /\ writer'[w].length # writer[w].length =>
         \/ ret'.op \in {"__construct", "__unserialize"}
         \/ writer'[w].length >= 2 * writer[w].length
         \/ ret'.op = "trim" /\ writer'[w].length = writer'[w].used]_vars

(* A call that dies for lack of memory while it grows or trims a buffer    *)
(* loses nothing that was written before: a shutdown function that reads   *)
(* the writer still finds the bytes and the position.                      *)
AbortKeepsContents ==
  [][mode = "running" /\ mode' = "shutdown" =>
       \A w \in objects :
         writer'[w].buffer \in allocated' =>
           /\ Contents(w)' = Contents(w)
           /\ writer'[w].offset = writer[w].offset]_vars

----------------------------------------------------------------------------
(* Statements of the stubs and of the code's messages that the code does   *)
(* not meet in every case; the README says where each comes from.          *)

(* setOffset accepts every offset from 0 to the reserved length.           *)
SetOffsetUpToReserved ==
  [][\A w \in Writers, n \in Offsets :
       SetOffset(w, n) /\ n \in 0 .. writer[w].length => ret'.exc = <<>>]_vars

(* "should be of type X, but have Y" names the required type as X.         *)
TypeErrorNamesRequired ==
  ret.exc # <<>> /\ ret.exc[1] = "type" =>
    ret.exc[3] = IF ret.exc[2] = "buffer" THEN "string" ELSE "int"

----------------------------------------------------------------------------
(* Refinement: the writers implement byte sinks.                           *)

Abstraction(w) ==
  IF mode = "running" /\ w \in objects
    THEN [data |-> Contents(w), pos |-> writer[w].offset]
    ELSE [data |-> <<>>, pos |-> 0]

Sink == INSTANCE ByteSink WITH
  running <- mode = "running",
  sink    <- [w \in Writers |-> Abstraction(w)],
  ret     <- [op |-> ret.op, by |-> ret.by, threw |-> ret.exc # <<>>,
              str |-> ret.str, num |-> ret.num],
  Encoded <- {e.bytes : e \in Encodings}

(* Every call has the effect and the result that ByteSink promises.        *)
ImplementsSink == Sink!Spec

=============================================================================
