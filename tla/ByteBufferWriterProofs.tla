----------------------- MODULE ByteBufferWriterProofs -----------------------
(***************************************************************************)
(* Theorems about ByteBufferWriter: type correctness, and the safety of    *)
(* every sequence of calls for any number of writers and blocks and any    *)
(* sizes.                                                                  *)
(*                                                                         *)
(* The inductive invariant is IInv of ByteBufferWriter.  The first part of *)
(* the module proves TypeOK, which needs no assumption on what             *)
(* __unserialize is given; the second part proves that a call on writers   *)
(* in order leaves them in order, one lemma per handler, and draws the     *)
(* conclusions.                                                            *)
(***************************************************************************)
EXTENDS ByteBufferWriter, SequenceTheorems, TLAPS

(* What erealloc makes of a block: its length, and which bytes are kept. *)
LEMMA ResizedType ==
  ASSUME NEW s \in Seq(Content), NEW n \in Nat
  PROVE  /\ Resized(s, n) \in Seq(Content)
         /\ Len(Resized(s, n)) = n
         /\ \A i \in 1 .. n : Resized(s, n)[i] = IF i <= Len(s) THEN s[i] ELSE Uninit
BY DEF Resized, Content

(* What memcpy makes of a block: its length, and which bytes are changed. *)
LEMMA StoredType ==
  ASSUME NEW s \in Seq(Content), NEW o \in Nat, NEW v \in Seq(Byte)
  PROVE  /\ Stored(s, o, v) \in Seq(Content)
         /\ Len(Stored(s, o, v)) = Len(s)
         /\ \A i \in 1 .. Len(s) :
              Stored(s, o, v)[i] = IF i > o /\ i <= o + Len(v) THEN v[i - o] ELSE s[i]
BY DEF Stored, Content

(* The first n bytes of a block. *)
LEMMA PrefixType ==
  ASSUME NEW s \in Seq(Content), NEW n \in 1..Len(s)
  PROVE  /\ SubSeq(s, 1, n) \in Seq(Content)
         /\ Len(SubSeq(s, 1, n)) = n
         /\ \A i \in 1 .. n : SubSeq(s, 1, n)[i] = s[i]
BY SubSeqProperties

(* extendBuffer computes a size_t, and a larger one when it grows the      *)
(* block.                                                                  *)
LEMMA ExtendedType ==
  ASSUME NEW length \in Size, NEW o \in Size, NEW n \in Size
  PROVE  /\ Extended(length, o, n) \in Size
         /\ Wrap(o + n) \in Size
         /\ Grows(length, o, n) => Extended(length, o, n) > length
BY SizeAssumption DEF Extended, Grows, Wrap, Larger, Size

----------------------------------------------------------------------------
(* Type correctness.                                                       *)

(* The conversions between zend_long and size_t stay in range. *)
LEMMA WrapType ==
  /\ \A n \in Long : Wrap(n) \in Size
  /\ \A n \in Size : Signed(n) \in Long /\ n \in Int
BY SizeAssumption DEF Wrap, Signed, Size, Long

(* The written bytes of a writer, where reading them is defined. *)
LEMMA ReadType ==
  ASSUME TypeOK, NEW w \in Writers, Readable(w)
  PROVE  /\ Contents(w) \in Seq(Content)
         /\ Len(Contents(w)) = writer[w].used
         /\ \A i \in 1 .. writer[w].used : Contents(w)[i] = heap[writer[w].buffer][i]
<1>1. writer[w].used \in Nat /\ allocated \subseteq Blocks /\ heap \in [Blocks -> Seq(Content)]
  BY DEF TypeOK, Size
<1>2. CASE writer[w].used = 0
  BY <1>2 DEF Contents, Prefix
<1>3. CASE writer[w].used # 0
  <2>1. writer[w].buffer \in Blocks /\ writer[w].used \in 1 .. Len(heap[writer[w].buffer])
    BY <1>1, <1>3 DEF Readable, Accessible
  <2> QED
    BY <1>1, <1>3, <2>1, PrefixType DEF Contents, Prefix
<1> QED
  BY <1>2, <1>3

(* A result of the right type keeps the request and ret in their types. *)
LEMMA ReturnsType ==
  ASSUME TypeOK, NEW op \in Calls, NEW w \in Writers, NEW str \in Seq(Content),
         Len(str) \in Size, NEW num \in Long, Returns(op, w, str, num)
  PROVE  /\ mode' \in {"running", "shutdown", "ended", "faulted"}
         /\ ret' \in [op : Calls, by : Writers, exc : Seq(Words), str : Seq(Content), num : Long]
         /\ Len(ret.str)' \in Size
<1>1. <<>> \in Seq(Words)
  OBVIOUS
<1> QED
  BY <1>1 DEF TypeOK, Returns

(* The empty string and the small numbers have the types asked for. *)
LEMMA Empty == /\ <<>> \in Seq(Content) /\ Len(<<>>) = 0
               /\ 0 \in Size /\ 0 \in Long /\ 1 \in Long
BY SizeAssumption DEF Size, Long

(* writer_init_properties, when it returns and when emalloc fails. *)
LEMMA InitPropertiesType ==
  ASSUME TypeOK, NEW op \in Calls, NEW w \in Writers,
         NEW s \in Seq(Content), Len(s) \in Size, NEW o \in Size,
         WriterInitProperties(op, w, s, o), objects' \subseteq Writers
  PROVE  TypeOK'
<1> DEFINE block == InitialBlock(s)
<1>1. block \in Seq(Content) /\ Len(block) \in Size
  BY ResizedType, SizeAssumption DEF InitialBlock, Size, Content
<1>2. ASSUME NEW b \in Blocks \ (allocated \ {writer[w].buffer}),
             Replace(writer[w].buffer, b, block),
             Update(w, [buffer |-> b, length |-> Len(block), offset |-> o, used |-> Len(s)]),
             Returns(op, w, <<>>, 0)
      PROVE TypeOK'
  <2>1. allocated' \subseteq Blocks /\ heap' \in [Blocks -> Seq(Content)]
    BY <1>1, <1>2 DEF TypeOK, Replace
  <2>2. writer' \in [Writers -> [buffer : Blocks \cup {Wild},
                            length : Size, offset : Size, used : Size]]
    BY <1>1, <1>2 DEF TypeOK, Update
  <2> QED
    BY <1>2, <2>1, <2>2, ReturnsType, Empty DEF TypeOK
<1>3. ASSUME Bailout, allocated' = allocated \ {writer[w].buffer},
             heap' = [d \in Blocks |-> IF d = writer[w].buffer THEN <<>> ELSE heap[d]],
             Update(w, [writer[w] EXCEPT !.length = Len(s), !.offset = o, !.used = Len(s)])
      PROVE TypeOK'
  <2>1. allocated' \subseteq Blocks /\ heap' \in [Blocks -> Seq(Content)]
    BY <1>3 DEF TypeOK
  <2>2. writer' \in [Writers -> [buffer : Blocks \cup {Wild},
                            length : Size, offset : Size, used : Size]]
    BY <1>3 DEF TypeOK, Update
  <2> QED
    BY <1>3, <2>1, <2>2 DEF TypeOK, Bailout
<1> QED
  BY <1>2, <1>3 DEF WriterInitProperties

(* A failed erealloc leaves a size_t in the length. *)
LEMMA ExtendFailsType ==
  ASSUME TypeOK, NEW w \in Writers, NEW n \in Size, ExtendFails(w, n)
  PROVE  TypeOK'
BY DEF TypeOK, ExtendFails, Bailout, Update

(* Every write, whether its block grows, stays or cannot grow. *)
LEMMA StoreType ==
  ASSUME TypeOK, NEW op \in Calls, NEW w \in Writers,
         NEW v \in Seq(Byte), NEW room \in Size, Len(v) \in Size, Store(op, w, v, room)
  PROVE  TypeOK'
<1> DEFINE r == writer[w]
           grows == Grows(r.length, r.offset, room)
           length == Extended(r.length, r.offset, room)
           block == IF grows THEN Resized(heap[r.buffer], length) ELSE heap[r.buffer]
           end == Wrap(r.offset + Len(v))
<1>1. r.length \in Size /\ r.offset \in Size /\ r.used \in Size /\ r.offset \in Nat /\ Size \subseteq Nat
  BY DEF TypeOK, Size
<1>2. length \in Size /\ end \in Size /\ Larger(end, r.used) \in Size
  BY <1>1, ExtendedType DEF Larger
<1>3. CASE Fault
  BY <1>3 DEF TypeOK, Fault, Untouched
<1>4. CASE ExtendFails(w, length)
  BY <1>2, <1>4, ExtendFailsType
<1>5. ASSUME r.buffer \in allocated, NEW b \in Blocks,
             Replace(r.buffer, b, Stored(block, r.offset, v)),
             Update(w, [buffer |-> b, length |-> length,
                        offset |-> end, used |-> Larger(end, r.used)]),
             Returns(op, w, <<>>, 0), UNCHANGED objects
      PROVE TypeOK'
  <2>1. heap[r.buffer] \in Seq(Content)
    BY <1>5 DEF TypeOK
  <2>2. block \in Seq(Content)
    BY <1>1, <1>2, <2>1, ResizedType
  <2>3. Stored(block, r.offset, v) \in Seq(Content)
    BY <1>1, <2>2, StoredType
  <2>4. allocated' \subseteq Blocks /\ heap' \in [Blocks -> Seq(Content)]
    BY <1>5, <2>3 DEF TypeOK, Replace
  <2>5. writer' \in [Writers -> [buffer : Blocks \cup {Wild},
                            length : Size, offset : Size, used : Size]]
    BY <1>2, <1>5 DEF TypeOK, Update
  <2> QED
    BY <1>5, <2>4, <2>5, ReturnsType, Empty DEF TypeOK
<1>6. r.buffer \in allocated => Places(r.buffer) \subseteq Blocks /\ r.buffer \in Blocks
  BY DEF TypeOK, Places
<1> HIDE DEF grows, length, block, end
<1>7. \/ Fault
      \/ ExtendFails(w, length)
      \/ /\ r.buffer \in allocated
         /\ \E b \in IF grows THEN Places(r.buffer) ELSE {r.buffer} :
              /\ Replace(r.buffer, b, Stored(block, r.offset, v))
              /\ Update(w, [buffer |-> b, length |-> length,
                            offset |-> end, used |-> Larger(end, r.used)])
         /\ Returns(op, w, <<>>, 0)
         /\ UNCHANGED objects
  BY DEF Store, grows, length, block, end
<1> QED
  BY <1>3, <1>4, <1>5, <1>6, <1>7

(* getData, __serialize and __debugInfo. *)
LEMMA DumpType ==
  ASSUME TypeOK, NEW op \in Calls, NEW w \in Writers, NEW n \in Long, Dump(op, w, n)
  PROVE  TypeOK'
<1>1. CASE Fault \/ (Bailout /\ Untouched)
  BY <1>1 DEF TypeOK, Fault, Untouched, Bailout
<1>2. CASE Readable(w) /\ Returns(op, w, Contents(w), n) /\ Untouched
  <2>1. Contents(w) \in Seq(Content) /\ Len(Contents(w)) \in Size
    BY <1>2, ReadType DEF TypeOK
  <2> QED
    BY <1>2, <2>1, ReturnsType DEF TypeOK, Untouched
<1> QED
  BY <1>1, <1>2 DEF Dump

(* The methods that return a number. *)
LEMMA GetNumberType ==
  ASSUME TypeOK, NEW op \in Calls, NEW w \in Writers, NEW n \in Size, GetNumber(op, w, n)
  PROVE  TypeOK'
<1>1. Signed(n) \in Long
  BY WrapType
<1> QED
  BY <1>1, Empty, ReturnsType DEF TypeOK, GetNumber, Untouched

(* The names of the calls are names of calls. *)
LEMMA Names ==
  /\ "none" \in Calls
  /\ "new" \in Calls
  /\ "clone" \in Calls
  /\ "free" \in Calls
  /\ "compare" \in Calls
  /\ "__construct" \in Calls
  /\ "getData" \in Calls
  /\ "writeByteArray" \in Calls
  /\ "writeType" \in Calls
  /\ "packType" \in Calls
  /\ "getOffset" \in Calls
  /\ "setOffset" \in Calls
  /\ "getUsedLength" \in Calls
  /\ "getReservedLength" \in Calls
  /\ "reserve" \in Calls
  /\ "trim" \in Calls
  /\ "clear" \in Calls
  /\ "__serialize" \in Calls
  /\ "__unserialize" \in Calls
  /\ "__debugInfo" \in Calls
  /\ "buffer" \in Words /\ "offset" \in Words /\ "string" \in Types /\ "int" \in Types
  /\ <<"ValueError">> \in Seq(Words)
BY DEF Calls, Words, Types

(* A call that throws, or dies throwing. *)
LEMMA ThrowsType ==
  ASSUME TypeOK, NEW op \in Calls, NEW w \in Writers, NEW exc \in Seq(Words),
         Throws(op, w, exc)
  PROVE  TypeOK'
<1>1. CASE Bailout /\ Untouched
  BY <1>1 DEF TypeOK, Bailout, Untouched
<1>2. CASE /\ ret' = [op |-> op, by |-> w, exc |-> exc, str |-> <<>>, num |-> 0]
           /\ UNCHANGED mode /\ Untouched
  BY <1>2, Empty DEF TypeOK, Untouched
<1> QED
  BY <1>1, <1>2 DEF Throws

(* A call that leaves its blocks changes nothing else. *)
LEMMA FaultType == ASSUME TypeOK, Fault PROVE TypeOK'
BY DEF TypeOK, Fault, Untouched

(* What __unserialize may be given. *)
LEMMA ArraysType ==
  ASSUME TypeOK, NEW a \in Arrays \cup Returned
  PROVE  /\ a.buffer.str \in Seq(Content) /\ Len(a.buffer.str) \in Size
         /\ a.offset.int \in Long
         /\ a.buffer.type \in Types /\ a.offset.type \in Types
<1>1. CASE a \in Arrays
  <2>1. /\ a.buffer \in Entry /\ a.offset \in Entry
        /\ Len(a.buffer.str) <= MaxCapacity /\ a.offset.int \in Long
    BY <1>1, ArgumentsAssumption
  <2>2. /\ a.buffer.str \in Seq(Byte) /\ a.buffer.type \in Types /\ a.offset.type \in Types
    BY <2>1 DEF Entry
  <2> QED
    BY <2>1, <2>2, SizeAssumption DEF Types, Content, Size
<1>2. CASE a \in Returned
  BY <1>2 DEF Returned, TypeOK, Types
<1> QED
  BY <1>1, <1>2

(* What fetch_serialized_property throws names types and entries. *)
LEMMA FetchType ==
  ASSUME NEW e, NEW name \in Words, NEW type \in Types, e.type \in Types
  PROVE  FetchSerializedProperty(e, name, type) \in Seq(Words)
<1>1. /\ "missing" \in Words /\ "type" \in Words
      /\ type \in Words /\ e.type \in Words
  BY DEF Words, Types
<1>2. /\ <<"missing", name>> \in Seq(Words)
      /\ <<"type", name, e.type, type>> \in Seq(Words)
      /\ <<>> \in Seq(Words)
  BY <1>1
<1> QED
  BY <1>2 DEF FetchSerializedProperty

(* No call takes a variable out of its type: one step per action. *)
LEMMA TypeStep == TypeOK /\ [Next]_vars => TypeOK'
<1> SUFFICES ASSUME TypeOK, [Next]_vars PROVE TypeOK'
  OBVIOUS
<1>1. ASSUME NEW w \in Writers, WriterNew(w) PROVE TypeOK'
  <2>1. CASE objects' = objects \cup {w} /\ WriterInitProperties("new", w, <<>>, 0)
    <3>1. objects' \subseteq Writers
      BY <2>1 DEF TypeOK
    <3> QED
      BY <2>1, <3>1, InitPropertiesType, Empty, Names
  <2>2. CASE Bailout /\ Untouched
    BY <2>2 DEF TypeOK, Bailout, Untouched
  <2> QED
    BY <1>1, <2>1, <2>2 DEF WriterNew, Create
<1>2. ASSUME NEW w \in Writers, NEW v \in Writers, WriterClone(w, v) PROVE TypeOK'
  <2>1. CASE Fault
    BY <2>1, FaultType
  <2>2. CASE /\ Readable(w)
             /\ objects' = objects \cup {v}
             /\ WriterInitProperties("clone", v, Contents(w), writer[w].offset)
    <3>1. objects' \subseteq Writers
      BY <2>2 DEF TypeOK
    <3>2. Contents(w) \in Seq(Content) /\ Len(Contents(w)) \in Size /\ writer[w].offset \in Size
      BY <2>2, ReadType DEF TypeOK
    <3> QED
      BY <2>2, <3>1, <3>2, InitPropertiesType, Names
  <2>3. CASE Bailout /\ Untouched
    BY <2>3 DEF TypeOK, Bailout, Untouched
  <2> QED
    BY <1>2, <2>1, <2>2, <2>3 DEF WriterClone, Create
<1>3. ASSUME NEW w \in Writers, NEW v \in Writers, WriterCompareObjects(w, v) PROVE TypeOK'
  <2>1. CASE Fault
    BY <2>1, FaultType
  <2>2. ASSUME NEW d \in {0, 1}, Returns("compare", w, <<>>, d), Untouched PROVE TypeOK'
    <3>1. d \in Long
      BY Empty
    <3> QED
      BY <2>2, <3>1, ReturnsType, Empty, Names DEF TypeOK, Untouched
  <2> QED
    BY <1>3, <2>1, <2>2 DEF WriterCompareObjects, Comparisons
<1>4. ASSUME NEW w \in Writers, WriterFree(w) PROVE TypeOK'
  <2>1. CASE Fault
    BY <2>1, FaultType
  <2>2. CASE /\ objects' = objects \ {w}
             /\ Update(w, Blank)
             /\ allocated' = allocated \ {writer[w].buffer}
             /\ heap' = [heap EXCEPT ![writer[w].buffer] = <<>>]
             /\ Returns("free", w, <<>>, 0)
    <3>1. Blank \in [buffer : Blocks \cup {Wild}, length : Size, offset : Size, used : Size]
      BY Empty DEF Blank
    <3>2. writer' \in [Writers -> [buffer : Blocks \cup {Wild},
                                  length : Size, offset : Size, used : Size]]
      BY <2>2, <3>1 DEF TypeOK, Update
    <3>3. heap' \in [Blocks -> Seq(Content)]
      BY <2>2, Empty DEF TypeOK
    <3> QED
      BY <2>2, <3>2, <3>3, ReturnsType, Empty, Names DEF TypeOK
  <2> QED
    BY <1>4, <2>1, <2>2 DEF WriterFree
<1>5. ASSUME NEW w \in Writers, NEW s \in Strings, Construct(w, s) PROVE TypeOK'
  <2>1. s \in Seq(Content) /\ Len(s) \in Size
    BY StringsAssumption, SizeAssumption DEF Content, Size
  <2>2. CASE Fault
    BY <2>2, FaultType
  <2>3. CASE WriterInitProperties("__construct", w, s, Len(s)) /\ UNCHANGED objects
    BY <2>1, <2>3, InitPropertiesType, Names DEF TypeOK
  <2> QED
    BY <1>5, <2>2, <2>3 DEF Construct
<1>6. ASSUME NEW w \in Writers, NEW s \in Strings, WriteByteArray(w, s) PROVE TypeOK'
  <2>1. s \in Seq(Byte) /\ Len(s) \in Size
    BY StringsAssumption, SizeAssumption DEF Size
  <2> QED
    BY <1>6, <2>1, StoreType, Names DEF WriteByteArray
<1>7. ASSUME NEW w \in Writers, NEW e \in Encodings, WriteType(w, e) PROVE TypeOK'
  <2>1. e.bytes \in Seq(Byte) /\ Len(e.bytes) \in Size /\ e.room \in Size
    BY EncodingsAssumption, SizeAssumption DEF Size
  <2> QED
    BY <1>7, <2>1, StoreType, Names DEF WriteType
<1>8. ASSUME NEW w \in Writers, NEW n \in Offsets, SetOffset(w, n) PROVE TypeOK'
  <2>1. n \in Int
    BY ArgumentsAssumption DEF Long
  <2>2. CASE Throws("setOffset", w, <<"ValueError">>)
    BY <2>2, ThrowsType, Names
  <2>3. CASE /\ ~ (n < 0 \/ n > writer[w].used)
             /\ Update(w, [writer[w] EXCEPT !.offset = n])
             /\ Returns("setOffset", w, <<>>, 0)
             /\ UNCHANGED <<objects, allocated, heap>>
    <3>1. n \in Size
      BY <2>1, <2>3, SizeAssumption DEF TypeOK, Size
    <3>2. writer' \in [Writers -> [buffer : Blocks \cup {Wild},
                                  length : Size, offset : Size, used : Size]]
      BY <2>3, <3>1 DEF TypeOK, Update
    <3> QED
      BY <2>3, <3>2, ReturnsType, Empty, Names DEF TypeOK
  <2> QED
    BY <1>8, <2>2, <2>3 DEF SetOffset
<1>9. ASSUME NEW w \in Writers, NEW n \in Lengths, Reserve(w, n) PROVE TypeOK'
  <2> DEFINE r == writer[w]
             length == Extended(r.length, n, 0)
  <2>1. CASE Throws("reserve", w, <<"ValueError">>)
    BY <2>1, ThrowsType, Names
  <2>2. CASE Returns("reserve", w, <<>>, 0) /\ Untouched
    BY <2>2, ReturnsType, Empty, Names DEF TypeOK, Untouched
  <2>3. CASE Fault
    BY <2>3, FaultType
  <2>4. CASE n > 0 /\ ExtendFails(w, length)
    <3>1. n \in Size
      BY <2>4, ArgumentsAssumption, SizeAssumption DEF Long, Size
    <3> QED
      BY <2>4, <3>1, ExtendedType, Empty, ExtendFailsType DEF TypeOK
  <2>5. ASSUME n > 0, r.buffer \in allocated, NEW b \in Places(r.buffer),
               Replace(r.buffer, b, Resized(heap[r.buffer], length)),
               Update(w, [r EXCEPT !.buffer = b, !.length = length]),
               Returns("reserve", w, <<>>, 0), UNCHANGED objects
        PROVE TypeOK'
    <3>1. n \in Size
      BY <2>5, ArgumentsAssumption, SizeAssumption DEF Long, Size
    <3>2. length \in Size
      BY <3>1, ExtendedType, Empty DEF TypeOK
    <3>7. length \in Nat
      BY <3>2, SizeAssumption DEF Size
    <3>3. b \in Blocks /\ heap[r.buffer] \in Seq(Content)
      BY <2>5 DEF Places, TypeOK
    <3>4. Resized(heap[r.buffer], length) \in Seq(Content)
      BY <3>3, <3>7, ResizedType
    <3>5. allocated' \subseteq Blocks /\ heap' \in [Blocks -> Seq(Content)]
      BY <2>5, <3>3, <3>4 DEF TypeOK, Replace
    <3>6. writer' \in [Writers -> [buffer : Blocks \cup {Wild},
                                  length : Size, offset : Size, used : Size]]
      BY <2>5, <3>2, <3>3 DEF TypeOK, Update
    <3> QED
      BY <2>5, <3>5, <3>6, ReturnsType, Empty, Names DEF TypeOK
  <2>6. n <= 0 \/ n > 0
    BY ArgumentsAssumption DEF Long
  <2> HIDE DEF length
  <2>7. \/ Throws("reserve", w, <<"ValueError">>)
        \/ Returns("reserve", w, <<>>, 0) /\ Untouched
        \/ Fault
        \/ n > 0 /\ ExtendFails(w, length)
        \/ /\ n > 0 /\ r.buffer \in allocated
           /\ \E b \in Places(r.buffer) :
                /\ Replace(r.buffer, b, Resized(heap[r.buffer], length))
                /\ Update(w, [r EXCEPT !.buffer = b, !.length = length])
           /\ Returns("reserve", w, <<>>, 0)
           /\ UNCHANGED objects
    <3>1. CASE n <= 0
      BY <1>9, <3>1 DEF Reserve
    <3>2. CASE n > 0 /\ ~ (n <= 0)
      BY <1>9, <3>2, Zenon DEF Reserve, length
    <3> QED
      BY <2>6, <3>1, <3>2, ArgumentsAssumption DEF Long
  <2> QED
    BY <2>1, <2>2, <2>3, <2>4, <2>5, <2>7
<1>10. ASSUME NEW w \in Writers, Trim(w) PROVE TypeOK'
  <2> DEFINE r == writer[w]
  <2>1. CASE Returns("trim", w, <<>>, 0) /\ Untouched
    BY <2>1, ReturnsType, Empty, Names DEF TypeOK, Untouched
  <2>2. CASE Fault
    BY <2>2, FaultType
  <2>3. CASE Bailout /\ Untouched
    BY <2>3 DEF TypeOK, Bailout, Untouched
  <2>4. ASSUME r.buffer \in allocated, NEW b \in Places(r.buffer),
               Replace(r.buffer, b, Resized(heap[r.buffer], r.used)),
               Update(w, [r EXCEPT !.buffer = b, !.length = r.used]),
               Returns("trim", w, <<>>, 0), UNCHANGED objects
        PROVE TypeOK'
    <3>1. b \in Blocks /\ heap[r.buffer] \in Seq(Content) /\ r.used \in Nat
      BY <2>4 DEF Places, TypeOK, Size
    <3>2. Resized(heap[r.buffer], r.used) \in Seq(Content)
      BY <3>1, ResizedType
    <3>3. allocated' \subseteq Blocks /\ heap' \in [Blocks -> Seq(Content)]
      BY <2>4, <3>1, <3>2 DEF TypeOK, Replace
    <3>4. writer' \in [Writers -> [buffer : Blocks \cup {Wild},
                                  length : Size, offset : Size, used : Size]]
      BY <2>4, <3>1 DEF TypeOK, Update
    <3> QED
      BY <2>4, <3>3, <3>4, ReturnsType, Empty, Names DEF TypeOK
  <2> QED
    BY <1>10, <2>1, <2>2, <2>3, <2>4 DEF Trim
<1>11. ASSUME NEW w \in Writers, Clear(w) PROVE TypeOK'
  <2>1. writer' \in [Writers -> [buffer : Blocks \cup {Wild},
                                length : Size, offset : Size, used : Size]]
    BY <1>11, Empty DEF TypeOK, Clear, Update
  <2> QED
    BY <1>11, <2>1, ReturnsType, Empty, Names DEF TypeOK, Clear
<1>12. ASSUME NEW w \in Writers, GetData(w) \/ Serialize(w) \/ DebugInfo(w) PROVE TypeOK'
  <2>1. Signed(writer[w].offset) \in Long
    BY WrapType DEF TypeOK
  <2> QED
    BY <1>12, <2>1, DumpType, Empty, Names DEF GetData, Serialize, DebugInfo
<1>13. ASSUME NEW w \in Writers, GetOffset(w) \/ GetUsedLength(w) \/ GetReservedLength(w)
       PROVE TypeOK'
  <2>1. writer[w].offset \in Size /\ writer[w].used \in Size /\ writer[w].length \in Size
    BY DEF TypeOK
  <2> QED
    BY <1>13, <2>1, GetNumberType, Names DEF GetOffset, GetUsedLength, GetReservedLength
<1>14. ASSUME NEW w \in Writers, NEW a \in Arrays \cup Returned, Unserialize(w, a)
       PROVE TypeOK'
  <2> DEFINE bufferExc == FetchSerializedProperty(a.buffer, "buffer", "string")
             offsetExc == FetchSerializedProperty(a.offset, "offset", "int")
  <2>1. bufferExc \in Seq(Words) /\ offsetExc \in Seq(Words)
    BY ArraysType, FetchType, Names
  <2>2. CASE Throws("__unserialize", w, bufferExc) \/ Throws("__unserialize", w, offsetExc)
    BY <2>1, <2>2, ThrowsType, Names
  <2>3. CASE Fault
    BY <2>3, FaultType
  <2>4. CASE /\ WriterInitProperties("__unserialize", w, a.buffer.str, Wrap(a.offset.int))
             /\ UNCHANGED objects
    BY <2>4, ArraysType, WrapType, InitPropertiesType, Names DEF TypeOK
  <2> QED
    BY <1>14, <2>2, <2>3, <2>4 DEF Unserialize
<1>15. ASSUME NEW e \in Encodings, PackType(e) PROVE TypeOK'
  <2>1. e.bytes \in Seq(Content) /\ Len(e.bytes) \in Size /\ ret.by \in Writers
    BY EncodingsAssumption, SizeAssumption DEF Size, Content, TypeOK
  <2>2. CASE Fault
    BY <2>2, FaultType
  <2>3. CASE Returns("packType", ret.by, e.bytes, 0) /\ Untouched
    BY <2>1, <2>3, ReturnsType, Empty, Names DEF TypeOK, Untouched
  <2>4. CASE Bailout /\ Untouched
    BY <2>4 DEF TypeOK, Bailout, Untouched
  <2> QED
    BY <1>15, <2>2, <2>3, <2>4 DEF PackType
<1>16. CASE UNCHANGED vars
  BY <1>16 DEF TypeOK, vars
<1> QED
  BY <1>1, <1>2, <1>3, <1>4, <1>5, <1>6, <1>7, <1>8, <1>9, <1>10, <1>11, <1>12, <1>13,
     <1>14, <1>15, <1>16 DEF Next

(* Whatever calls a script makes, before and after the memory runs out, the *)
(* members of every writer stay values of their C++ types.                  *)
THEOREM TypeCorrect == Spec => []TypeOK
<1>1. Init => TypeOK
  <2> SUFFICES ASSUME Init PROVE TypeOK
    OBVIOUS
  <2>1. Blank \in [buffer : Blocks \cup {Wild}, length : Size, offset : Size, used : Size]
    BY Empty DEF Blank
  <2> QED
    BY <2>1, Empty, Names DEF Init, TypeOK
<1> QED
  BY <1>1, TypeStep, PTL DEF Spec

----------------------------------------------------------------------------
(* The inductive invariant.                                                *)

Fields == [buffer : Blocks \cup {Wild}, length : Size, offset : Size, used : Size]

(* What a step of a running request must establish. *)
StaysInOrder == mode' # "faulted" /\ (mode' = "running" => RunningInv')

(* The members of a writer in order, and of an object that does not exist. *)
LEMMA OwnerType ==
  ASSUME TypeOK, RunningInv, NEW w \in Writers
  PROVE  /\ w \in objects => /\ writer[w].buffer \in Blocks /\ writer[w].buffer # Wild
                             /\ writer[w].length \in 0 .. MaxCapacity
                             /\ writer[w].used \in 0 .. writer[w].length
                             /\ writer[w].offset \in 0 .. writer[w].used
                             /\ Readable(w)
         /\ w \notin objects => writer[w] = Blank /\ writer[w].buffer \notin allocated
         /\ Wild \notin allocated
<1>1. Wild \notin allocated
  BY WildAssumption DEF TypeOK
<1>2. ASSUME w \in objects
      PROVE  /\ writer[w].buffer \in Blocks /\ writer[w].buffer # Wild
             /\ writer[w].length \in 0 .. MaxCapacity
             /\ writer[w].used \in 0 .. writer[w].length
             /\ writer[w].offset \in 0 .. writer[w].used
             /\ Readable(w)
  BY <1>2, WildAssumption, SizeAssumption DEF RunningInv, InOrder, TypeOK, Size, Readable, Accessible
<1>3. ASSUME w \notin objects
      PROVE  writer[w] = Blank /\ writer[w].buffer \notin allocated
  BY <1>1, <1>3 DEF RunningInv, Blank
<1> QED
  BY <1>1, <1>2, <1>3

(* The writer w comes out of a call in order, with the block c that holds  *)
(* s in place of the block it had.                                         *)
LEMMA Installed ==
  ASSUME TypeOK, RunningInv, NEW w \in Writers, NEW c \in Blocks,
         NEW s \in Seq(Content), NEW r \in Fields,
         c \notin allocated \ {writer[w].buffer},
         Replace(writer[w].buffer, c, s), Update(w, r), objects' = objects \cup {w},
         r.buffer = c, r.length = Len(s), r.length <= MaxCapacity,
         r.used <= r.length, r.offset <= r.used, \A i \in 1 .. r.used : s[i] \in Byte,
         ReturnedInOrder'
  PROVE  RunningInv'
<1>1. writer'[w] = r /\ \A v \in Writers \ {w} : writer'[v] = writer[v]
  BY DEF Update, TypeOK
<1>2. heap'[c] = s /\ c \in allocated'
  BY DEF Replace
<1>3. ASSUME NEW v \in objects, v # w
      PROVE  /\ writer[v].buffer \in allocated /\ writer[v].buffer \in Blocks
             /\ writer[v].buffer # writer[w].buffer
             /\ writer[v].buffer # c
             /\ heap'[writer[v].buffer] = heap[writer[v].buffer]
             /\ writer[v].buffer \in allocated'
  <2>1. writer[v].buffer \in allocated /\ writer[v].buffer \in Blocks /\ v \in Writers
    BY DEF RunningInv, InOrder, TypeOK
  <2>2. writer[v].buffer # writer[w].buffer
    <3>1. CASE w \in objects
      BY <1>3, <3>1 DEF RunningInv
    <3>2. CASE w \notin objects
      BY <2>1, <3>2, OwnerType
    <3> QED
      BY <3>1, <3>2
  <2>3. writer[v].buffer # c
    BY <2>1, <2>2
  <2> QED
    BY <2>1, <2>2, <2>3 DEF Replace
<1>4. ASSUME NEW v \in objects' PROVE InOrder(v)'
  <2>1. CASE v = w
    BY <1>1, <1>2, <2>1 DEF InOrder
  <2>2. CASE v # w
    <3>1. v \in objects /\ v \in Writers /\ InOrder(v)
      BY <2>2 DEF RunningInv, TypeOK
    <3> QED
      BY <1>1, <1>3, <2>2, <3>1 DEF InOrder
  <2> QED
    BY <2>1, <2>2
<1>5. \A v \in Writers \ objects' : writer'[v] = Blank
  BY <1>1 DEF RunningInv
<1>6. ASSUME NEW b \in allocated' PROVE \E v \in objects' : writer'[v].buffer = b
  <2>1. CASE b = c
    BY <1>1, <2>1
  <2>2. CASE b # c
    <3>1. b \in allocated /\ b # writer[w].buffer
      BY <2>2 DEF Replace
    <3>2. PICK v \in objects : writer[v].buffer = b
      BY <3>1 DEF RunningInv
    <3> QED
      BY <1>1, <3>1, <3>2 DEF TypeOK
  <2> QED
    BY <2>1, <2>2
<1>7. ASSUME NEW u \in objects', NEW v \in objects', writer'[u].buffer = writer'[v].buffer
      PROVE  u = v
  <2>1. CASE u = w \/ v = w
    BY <1>1, <1>3, <1>7, <2>1 DEF TypeOK
  <2>2. CASE u # w /\ v # w
    BY <1>1, <1>7, <2>2 DEF RunningInv, TypeOK
  <2> QED
    BY <2>1, <2>2
<1> QED
  BY <1>4, <1>5, <1>6, <1>7 DEF RunningInv

(* Only the positions of w move, backwards from what is written. *)
LEMMA Repositioned ==
  ASSUME TypeOK, RunningInv, NEW w \in objects, NEW r \in Fields,
         Update(w, r), UNCHANGED <<objects, allocated, heap>>,
         r.buffer = writer[w].buffer, r.length = writer[w].length,
         r.used <= writer[w].used, r.offset <= r.used,
         ReturnedInOrder'
  PROVE  RunningInv'
<1>1. w \in Writers /\ writer'[w] = r /\ \A v \in Writers \ {w} : writer'[v] = writer[v]
  BY DEF Update, TypeOK
<1>2. InOrder(w)'
  <2>1. InOrder(w) /\ writer[w].used \in Nat /\ writer[w].length \in Nat /\ r.used \in Nat /\ r.offset \in Nat
    BY <1>1 DEF RunningInv, TypeOK, Size, Fields
  <2> QED
    BY <1>1, <2>1 DEF InOrder
<1>3. ASSUME NEW v \in objects', v # w PROVE InOrder(v)'
  <2>1. InOrder(v) /\ writer'[v] = writer[v]
    BY <1>1, <1>3 DEF RunningInv, TypeOK
  <2> QED
    BY <2>1 DEF InOrder
<1>4. /\ \A v \in Writers : writer'[v].buffer = writer[v].buffer
      /\ objects' = objects /\ allocated' = allocated /\ objects \subseteq Writers
  BY <1>1 DEF TypeOK
<1>5. \A v \in Writers \ objects' : writer'[v] = Blank
  BY <1>1, <1>4 DEF RunningInv
<1>6. \A b \in allocated' : \E v \in objects' : writer'[v].buffer = b
  BY <1>4 DEF RunningInv
<1>7. \A u, v \in objects' : writer'[u].buffer = writer'[v].buffer => u = v
  BY <1>4 DEF RunningInv
<1>8. \A v \in objects' : InOrder(v)'
  BY <1>2, <1>3
<1> QED
  BY <1>5, <1>6, <1>7, <1>8 DEF RunningInv

(* A call that changes no object keeps them in order. *)
LEMMA Still ==
  ASSUME RunningInv, Untouched, ReturnedInOrder' PROVE RunningInv'
BY DEF RunningInv, Untouched, InOrder

(* Only __serialize has a result that __unserialize may be given later. *)
LEMMA OtherCall ==
  ASSUME NEW op, NEW w, NEW str, NEW num, op # "__serialize", Returns(op, w, str, num)
  PROVE  ReturnedInOrder' /\ mode' = mode
BY DEF Returns, ReturnedInOrder

(* What a fatal error leaves behind is not in question. *)
LEMMA Aborted == ASSUME mode = "running", Bailout PROVE StaysInOrder
BY DEF Bailout, StaysInOrder

(* A call that throws keeps all objects in order. *)
LEMMA Thrown ==
  ASSUME RunningInv, mode = "running", NEW op, NEW w, NEW exc,
         op # "__serialize", Throws(op, w, exc)
  PROVE  StaysInOrder
<1>1. CASE Bailout
  BY <1>1, Aborted
<1>2. CASE Untouched /\ ret'.op = op /\ mode' = mode
  BY <1>2, Still DEF StaysInOrder, ReturnedInOrder
<1> QED
  BY <1>1, <1>2 DEF Throws

(* Within MaxCapacity no sum of sizes wraps: extendBuffer gives what is    *)
(* asked for and loses nothing.                                            *)
LEMMA CapacityType ==
  ASSUME NEW length \in 0 .. MaxCapacity, NEW o \in 0 .. length, NEW n \in 0 .. MaxCapacity
  PROVE  /\ Wrap(o + n) = o + n
         /\ Extended(length, o, n) >= o + n
         /\ Extended(length, o, n) >= length
         /\ ~ Grows(length, o, n) => Extended(length, o, n) = length
         /\ Extended(length, o, n) \in Nat
BY SizeAssumption DEF Wrap, Extended, Grows, Larger

(* Creation, copying, __construct and __unserialize.                       *)
LEMMA InitPropertiesInOrder ==
  ASSUME TypeOK, RunningInv, mode = "running", NEW op \in Calls, op # "__serialize",
         NEW w \in Writers, NEW s \in Seq(Byte), Len(s) <= MaxCapacity,
         NEW o \in 0 .. Len(s), WriterInitProperties(op, w, s, o),
         objects' = objects \cup {w}
  PROVE  StaysInOrder
<1> DEFINE block == InitialBlock(s)
<1>1. /\ block \in Seq(Content) /\ Len(block) <= MaxCapacity /\ Len(s) <= Len(block)
      /\ Len(block) \in Size /\ Len(s) \in Size /\ o \in Size
      /\ \A i \in 1 .. Len(s) : block[i] \in Byte
  <2>1. CASE s = <<>>
    <3>1. block = Resized(<<>>, Prealloc) /\ Prealloc \in Nat
      BY <2>1, SizeAssumption DEF InitialBlock
    <3>2. block \in Seq(Content) /\ Len(block) = Prealloc
      BY <3>1, ResizedType, Empty
    <3> QED
      BY <2>1, <3>2, SizeAssumption DEF Size
  <2>2. CASE s # <<>>
    BY <2>2, SizeAssumption DEF InitialBlock, Content, Size
  <2> QED
    BY <2>1, <2>2
<1>2. CASE Bailout
  BY <1>2, Aborted
<1>3. ASSUME NEW b \in Blocks \ (allocated \ {writer[w].buffer}),
             Replace(writer[w].buffer, b, block),
             Update(w, [buffer |-> b, length |-> Len(block), offset |-> o, used |-> Len(s)]),
             Returns(op, w, <<>>, 0)
      PROVE StaysInOrder
  <2> DEFINE r == [buffer |-> b, length |-> Len(block), offset |-> o, used |-> Len(s)]
  <2>1. r \in Fields
    BY <1>1 DEF Fields
  <2>2. ReturnedInOrder' /\ mode' = "running"
    BY <1>3, OtherCall
  <2>3. RunningInv'
    <3> HIDE DEF block
    <3> QED
      BY <1>1, <1>3, <2>1, <2>2, Installed
  <2> QED
    BY <2>2, <2>3 DEF StaysInOrder
<1> QED
  BY <1>2, <1>3 DEF WriterInitProperties

(* The written bytes of a writer in order were all stored by a call. *)
LEMMA ReadInOrder ==
  ASSUME TypeOK, RunningInv, NEW w \in objects
  PROVE  /\ Contents(w) \in Seq(Byte)
         /\ Len(Contents(w)) = writer[w].used
         /\ Len(Contents(w)) <= MaxCapacity
         /\ writer[w].offset \in 0 .. Len(Contents(w))
<1>1. w \in Writers /\ Readable(w) /\ InOrder(w)
  BY OwnerType DEF TypeOK, RunningInv
<1>2. /\ Contents(w) \in Seq(Content)
      /\ Len(Contents(w)) = writer[w].used
      /\ \A i \in 1 .. writer[w].used : Contents(w)[i] \in Byte
  BY <1>1, ReadType DEF InOrder
<1>3. Contents(w) \in Seq(Byte)
  BY <1>2
<1>4. writer[w].length \in Nat /\ writer[w].used \in Nat /\ writer[w].offset \in Nat
  BY <1>1, OwnerType DEF Size
<1>5. writer[w].used <= MaxCapacity /\ writer[w].offset \in 0 .. writer[w].used
  BY <1>1, <1>4, SizeAssumption DEF InOrder
<1> QED
  BY <1>2, <1>3, <1>5

(* A new writer gets a block no other has. *)
LEMMA NewInOrder ==
  ASSUME IInv, mode = "running", NEW w \in Writers, WriterNew(w) PROVE StaysInOrder
<1>1. <<>> \in Seq(Byte) /\ Len(<<>>) = 0 /\ 0 \in 0 .. 0 /\ 0 <= MaxCapacity
  BY SizeAssumption
<1>2. CASE objects' = objects \cup {w} /\ WriterInitProperties("new", w, <<>>, 0)
  BY <1>1, <1>2, InitPropertiesInOrder, Names DEF IInv
<1>3. CASE Bailout
  BY <1>3, Aborted
<1> QED
  BY <1>2, <1>3 DEF WriterNew, Create

(* A clone copies the written bytes into a block of its own. *)
LEMMA CloneInOrder ==
  ASSUME IInv, mode = "running", NEW w \in Writers, NEW v \in Writers, WriterClone(w, v)
  PROVE  StaysInOrder
<1>1. TypeOK /\ RunningInv /\ w \in objects
  BY DEF IInv, WriterClone, Callable
<1>2. Readable(w)
  BY <1>1, OwnerType
<1>3. CASE objects' = objects \cup {v}
             /\ WriterInitProperties("clone", v, Contents(w), writer[w].offset)
  BY <1>1, <1>3, ReadInOrder, InitPropertiesInOrder, Names
<1>4. CASE Bailout
  BY <1>4, Aborted
<1> QED
  BY <1>2, <1>3, <1>4 DEF WriterClone, Create

(* __construct frees the block of the same writer before it takes one. *)
LEMMA ConstructInOrder ==
  ASSUME IInv, mode = "running", NEW w \in Writers, NEW s \in Strings, Construct(w, s)
  PROVE  StaysInOrder
<1>1. TypeOK /\ RunningInv /\ w \in objects
  BY DEF IInv, Construct, Callable
<1>2. s \in Seq(Byte) /\ Len(s) <= MaxCapacity /\ Len(s) \in 0 .. Len(s)
  BY StringsAssumption
<1>3. WriterInitProperties("__construct", w, s, Len(s)) /\ objects' = objects \cup {w}
  BY <1>1 DEF Construct, RunningInv, InOrder
<1> QED
  BY <1>1, <1>2, <1>3, InitPropertiesInOrder, Names

(* __unserialize keeps the order if the offset lies in the string: an      *)
(* array from __serialize has it there, any other by RestoresInOrder.      *)
LEMMA UnserializeInOrder ==
  ASSUME RestoresInOrder, IInv, mode = "running", NEW w \in Writers,
         NEW a \in Arrays \cup Returned, Unserialize(w, a)
  PROVE  StaysInOrder
<1> DEFINE bufferExc == FetchSerializedProperty(a.buffer, "buffer", "string")
           offsetExc == FetchSerializedProperty(a.offset, "offset", "int")
<1>1. TypeOK /\ RunningInv /\ w \in objects
  BY DEF IInv, Unserialize, Callable
<1>2. CASE Throws("__unserialize", w, bufferExc) \/ Throws("__unserialize", w, offsetExc)
  BY <1>1, <1>2, Thrown
<1>3. CASE /\ bufferExc = <<>> /\ offsetExc = <<>>
           /\ WriterInitProperties("__unserialize", w, a.buffer.str, Wrap(a.offset.int))
           /\ UNCHANGED objects
  <2>1. a.buffer.type = "string" /\ a.offset.type = "int"
    BY <1>3 DEF FetchSerializedProperty
  <2>2. /\ a.buffer.str \in Seq(Byte) /\ Len(a.buffer.str) <= MaxCapacity
        /\ a.offset.int \in 0 .. Len(a.buffer.str)
    <3>1. CASE a \in Arrays
      BY <2>1, <3>1, ArgumentsAssumption DEF RestoresInOrder, Entry
    <3>2. CASE a \in Returned
      <4>1. /\ a.buffer.str = ret.str /\ a.offset.int = ret.num
            /\ ret.op = "__serialize"
            /\ Uninit \notin {ret.str[i] : i \in DOMAIN ret.str}
        BY <3>2 DEF Returned
      <4>2. ret.str \in Seq(Byte)
        <5>1. ret.str \in Seq(Content)
          BY <1>1 DEF TypeOK
        <5>2. \A i \in 1 .. Len(ret.str) : ret.str[i] \in Byte
          BY <4>1, <5>1 DEF Content
        <5> QED
          BY <5>1, <5>2
      <4> QED
        BY <1>1, <4>1, <4>2 DEF RunningInv, ReturnedInOrder
    <3> QED
      BY <3>1, <3>2
  <2>3. Wrap(a.offset.int) = a.offset.int
    BY <2>2, SizeAssumption DEF Wrap
  <2>4. objects' = objects \cup {w}
    BY <1>1, <1>3
  <2> QED
    BY <1>1, <1>3, <2>2, <2>3, <2>4, InitPropertiesInOrder, Names
<1> QED
  BY <1>1, <1>2, <1>3 DEF Unserialize, RunningInv, InOrder

(* Writes, whose bytes end within the length the block has been given.     *)
LEMMA StoreInOrder ==
  ASSUME TypeOK, RunningInv, mode = "running", NEW op \in Calls, op # "__serialize",
         NEW w \in Writers, NEW v \in Seq(Byte), NEW room \in 0 .. MaxCapacity,
         Len(v) <= room, Store(op, w, v, room)
  PROVE  StaysInOrder
<1> DEFINE r == writer[w]
           grows == Grows(r.length, r.offset, room)
           length == Extended(r.length, r.offset, room)
           block == IF grows THEN Resized(heap[r.buffer], length) ELSE heap[r.buffer]
           end == Wrap(r.offset + Len(v))
           stored == Stored(block, r.offset, v)
           new(b) == [buffer |-> b, length |-> length, offset |-> end,
                      used |-> Larger(end, r.used)]
<1>1. w \in objects /\ InOrder(w)
  BY DEF Store, Callable, RunningInv
<1>2. /\ r.buffer \in Blocks /\ r.buffer \in allocated
      /\ r.length \in 0 .. MaxCapacity /\ r.used \in 0 .. r.length /\ r.offset \in 0 .. r.used
      /\ r.offset \in 0 .. r.length
      /\ Len(heap[r.buffer]) = r.length /\ heap[r.buffer] \in Seq(Content)
      /\ \A i \in 1 .. r.used : heap[r.buffer][i] \in Byte
  BY <1>1, OwnerType, SizeAssumption DEF InOrder, TypeOK
<1>3. Len(v) \in Nat /\ Len(v) \in 0 .. MaxCapacity
  BY SizeAssumption
<1>4. /\ end = r.offset + Len(v)
      /\ length \in Nat /\ length >= r.offset + room /\ length >= r.length
      /\ ~ grows => length = r.length
  BY <1>2, <1>3, CapacityType
<1>5. /\ block \in Seq(Content) /\ Len(block) = length
      /\ \A i \in 1 .. r.used : block[i] \in Byte
  <2>1. CASE grows
    <3>1. /\ block \in Seq(Content) /\ Len(block) = length
          /\ \A i \in 1 .. length :
               block[i] = IF i <= Len(heap[r.buffer]) THEN heap[r.buffer][i] ELSE Uninit
      BY <1>2, <1>4, <2>1, ResizedType
    <3> HIDE DEF block, length
    <3>2. ASSUME NEW i \in 1 .. r.used PROVE block[i] \in Byte
      <4>1. i \in 1 .. length /\ i <= Len(heap[r.buffer])
        BY <1>2, <1>4, SizeAssumption
      <4> QED
        BY <1>2, <3>1, <4>1
    <3> QED
      BY <3>1, <3>2
  <2>2. CASE ~ grows
    BY <1>2, <1>4, <2>2
  <2> QED
    BY <2>1, <2>2
<1>6. /\ stored \in Seq(Content) /\ Len(stored) = length
      /\ \A i \in 1 .. length :
           stored[i] = IF i > r.offset /\ i <= r.offset + Len(v) THEN v[i - r.offset] ELSE block[i]
  <2>1. r.offset \in Nat
    BY <1>2
  <2> HIDE DEF block, length
  <2> QED
    BY <1>5, <2>1, StoredType
<1> HIDE DEF grows, length, block, end, stored
<1>7. /\ Larger(end, r.used) \in 0 .. length
      /\ end \in 0 .. Larger(end, r.used)
      /\ \A i \in 1 .. Larger(end, r.used) : stored[i] \in Byte
  <2>1. Larger(end, r.used) \in 0 .. length /\ end \in 0 .. Larger(end, r.used)
    BY <1>2, <1>3, <1>4, SizeAssumption DEF Larger
  <2>2. ASSUME NEW i \in 1 .. Larger(end, r.used) PROVE stored[i] \in Byte
    <3>1. i \in 1 .. length
      BY <1>4, <2>1
    <3>2. CASE i > r.offset /\ i <= r.offset + Len(v)
      <4>1. stored[i] = v[i - r.offset]
        BY <1>6, <3>1, <3>2
      <4>2. i - r.offset \in 1 .. Len(v)
        BY <1>2, <1>3, <3>2, SizeAssumption
      <4> QED
        BY <4>1, <4>2
    <3>3. CASE ~ (i > r.offset /\ i <= r.offset + Len(v))
      <4>1. stored[i] = block[i]
        BY <1>6, <3>1, <3>3
      <4>2. i \in 1 .. r.used
        BY <1>2, <1>3, <1>4, <3>3, SizeAssumption DEF Larger
      <4> QED
        BY <1>5, <4>1, <4>2
    <3> QED
      BY <3>2, <3>3
  <2> QED
    BY <2>1, <2>2
<1>8. v = <<>> \/ r.offset + Len(v) <= Len(block)
  BY <1>2, <1>3, <1>4, <1>5, SizeAssumption
<1>9. CASE ExtendFails(w, length)
  BY <1>9, Aborted DEF ExtendFails
<1>10. ASSUME grows => length <= MaxCapacity,
              NEW b \in IF grows THEN Places(r.buffer) ELSE {r.buffer},
              Replace(r.buffer, b, stored), Update(w, new(b)),
              Returns(op, w, <<>>, 0), UNCHANGED objects
       PROVE StaysInOrder
  <2>1. b \in Blocks /\ b \notin allocated \ {r.buffer}
    BY <1>2, <1>10 DEF Places
  <2>2. length <= MaxCapacity /\ length \in Size /\ end \in Size /\ Larger(end, r.used) \in Size
    BY <1>2, <1>4, <1>7, <1>10, SizeAssumption DEF Size
  <2>3. new(b) \in Fields
    BY <2>1, <2>2 DEF Fields
  <2>4. ReturnedInOrder' /\ mode' = "running"
    BY <1>10, OtherCall
  <2>5. objects' = objects \cup {w}
    BY <1>1, <1>10
  <2>6. Larger(end, r.used) <= length /\ end <= Larger(end, r.used)
    BY <1>7
  <2>7. RunningInv'
    BY <1>6, <1>7, <1>10, <2>1, <2>2, <2>3, <2>4, <2>5, <2>6, Installed
  <2> QED
    BY <2>4, <2>7 DEF StaysInOrder
<1>11. \/ ExtendFails(w, length)
       \/ /\ grows => length <= MaxCapacity
          /\ \E b \in IF grows THEN Places(r.buffer) ELSE {r.buffer} :
               /\ Replace(r.buffer, b, stored)
               /\ Update(w, new(b))
          /\ Returns(op, w, <<>>, 0)
          /\ UNCHANGED objects
  BY <1>2, <1>8 DEF Store, grows, length, block, end, stored
<1> QED
  BY <1>9, <1>10, <1>11

(* writeByteArray and the typed writes. *)
LEMMA WriteInOrder ==
  ASSUME IInv, mode = "running", NEW w \in Writers,
         \/ \E s \in Strings : WriteByteArray(w, s)
         \/ \E e \in Encodings : WriteType(w, e)
  PROVE  StaysInOrder
<1>1. ASSUME NEW s \in Strings, WriteByteArray(w, s) PROVE StaysInOrder
  <2>1. s \in Seq(Byte) /\ Len(s) \in 0 .. MaxCapacity /\ Len(s) <= Len(s)
    BY StringsAssumption, SizeAssumption
  <2> QED
    BY <1>1, <2>1, StoreInOrder, Names DEF WriteByteArray, IInv
<1>2. ASSUME NEW e \in Encodings, WriteType(w, e) PROVE StaysInOrder
  <2>1. e.bytes \in Seq(Byte) /\ e.room \in 0 .. MaxCapacity /\ Len(e.bytes) <= e.room
    BY EncodingsAssumption, SizeAssumption
  <2> QED
    BY <1>2, <2>1, StoreInOrder, Names DEF WriteType, IInv
<1> QED
  BY <1>1, <1>2

(* setOffset only moves back to what is written. *)
LEMMA SetOffsetInOrder ==
  ASSUME IInv, mode = "running", NEW w \in Writers, NEW n \in Offsets, SetOffset(w, n)
  PROVE  StaysInOrder
<1>1. TypeOK /\ RunningInv /\ w \in objects /\ n \in Int
  BY ArgumentsAssumption DEF IInv, SetOffset, Callable, Long
<1>2. CASE n < 0 \/ n > writer[w].used
  BY <1>1, <1>2, Thrown DEF SetOffset
<1>3. CASE ~ (n < 0 \/ n > writer[w].used)
  <2> DEFINE r == [writer[w] EXCEPT !.offset = n]
  <2>1. /\ Update(w, r) /\ UNCHANGED <<objects, allocated, heap>>
        /\ Returns("setOffset", w, <<>>, 0)
    BY <1>3 DEF SetOffset
  <2>2. n \in Size /\ n <= writer[w].used /\ writer[w].used <= writer[w].used
    BY <1>1, <1>3, SizeAssumption DEF TypeOK, Size
  <2>3. /\ r \in Fields /\ r.buffer = writer[w].buffer /\ r.length = writer[w].length
        /\ r.used <= writer[w].used /\ r.offset <= r.used
    BY <1>1, <2>2 DEF TypeOK, Fields
  <2>4. ReturnedInOrder' /\ mode' = "running"
    BY <2>1, OtherCall
  <2>5. RunningInv'
    BY <1>1, <2>1, <2>3, <2>4, Repositioned
  <2> QED
    BY <2>4, <2>5 DEF StaysInOrder
<1> QED
  BY <1>2, <1>3

(* clear gives up what is written, not the block. *)
LEMMA ClearInOrder ==
  ASSUME IInv, mode = "running", NEW w \in Writers, Clear(w) PROVE StaysInOrder
<1> DEFINE r == [writer[w] EXCEPT !.offset = 0, !.used = 0]
<1>1. TypeOK /\ RunningInv /\ w \in objects
  BY DEF IInv, Clear, Callable
<1>2. /\ Update(w, r) /\ UNCHANGED <<objects, allocated, heap>>
      /\ Returns("clear", w, <<>>, 0)
  BY DEF Clear
<1>3. /\ r \in Fields /\ r.buffer = writer[w].buffer /\ r.length = writer[w].length
      /\ r.used = 0 /\ r.offset = 0
  BY <1>1, Empty DEF TypeOK, Fields
<1>4. r.used <= writer[w].used /\ r.offset <= r.used
  BY <1>1, <1>3 DEF TypeOK, Size
<1>5. ReturnedInOrder' /\ mode' = "running"
  BY <1>2, OtherCall
<1>6. RunningInv'
  BY <1>1, <1>2, <1>3, <1>4, <1>5, Repositioned
<1> QED
  BY <1>5, <1>6 DEF StaysInOrder

(* The block keeps the written bytes and gets another length.              *)
LEMMA ReallocatedInOrder ==
  ASSUME TypeOK, RunningInv, mode = "running", NEW op \in Calls, op # "__serialize",
         NEW w \in objects, NEW b \in Places(writer[w].buffer),
         NEW n \in Nat, writer[w].used <= n, n <= MaxCapacity,
         Replace(writer[w].buffer, b, Resized(heap[writer[w].buffer], n)),
         Update(w, [writer[w] EXCEPT !.buffer = b, !.length = n]),
         Returns(op, w, <<>>, 0), UNCHANGED objects
  PROVE  StaysInOrder
<1> DEFINE r == [writer[w] EXCEPT !.buffer = b, !.length = n]
           s == Resized(heap[writer[w].buffer], n)
<1>1. /\ w \in Writers /\ InOrder(w) /\ writer[w].buffer \in Blocks
      /\ heap[writer[w].buffer] \in Seq(Content)
      /\ writer[w].used \in 0 .. writer[w].length
      /\ writer[w].offset \in 0 .. writer[w].used
  BY OwnerType DEF RunningInv, TypeOK
<1>2. b \in Blocks /\ b \notin allocated \ {writer[w].buffer}
  BY <1>1 DEF Places
<1>3. n \in Size
  BY SizeAssumption DEF Size
<1>4. /\ r \in Fields /\ r.buffer = b /\ r.length = n
      /\ r.used = writer[w].used /\ r.offset = writer[w].offset
  BY <1>1, <1>2, <1>3 DEF TypeOK, Fields
<1>5. /\ s \in Seq(Content) /\ Len(s) = n
      /\ \A i \in 1 .. n : s[i] = IF i <= Len(heap[writer[w].buffer])
                                    THEN heap[writer[w].buffer][i] ELSE Uninit
  BY <1>1, ResizedType
<1> HIDE DEF r, s
<1>6. ASSUME NEW i \in 1 .. r.used PROVE s[i] \in Byte
  <2>1. i \in 1 .. n /\ i \in 1 .. writer[w].used /\ i <= Len(heap[writer[w].buffer])
    BY <1>1, <1>4, SizeAssumption DEF InOrder
  <2> QED
    BY <1>1, <1>5, <2>1 DEF InOrder
<1>7. r.length = Len(s) /\ r.length <= MaxCapacity /\ r.used <= r.length /\ r.offset <= r.used
  BY <1>1, <1>4, <1>5
<1>8. ReturnedInOrder' /\ mode' = "running"
  BY OtherCall
<1>9. Replace(writer[w].buffer, b, s) /\ Update(w, r) /\ objects' = objects \cup {w}
  BY DEF r, s
<1>10. RunningInv'
  BY <1>1, <1>2, <1>4, <1>5, <1>6, <1>7, <1>8, <1>9, Installed
<1> QED
  BY <1>8, <1>10 DEF StaysInOrder

(* reserve keeps what is written in a longer block. *)
LEMMA ReserveInOrder ==
  ASSUME IInv, mode = "running", NEW w \in Writers, NEW n \in Lengths, Reserve(w, n)
  PROVE  StaysInOrder
<1> DEFINE r == writer[w]
           grows == Grows(r.length, n, 0)
           length == Extended(r.length, n, 0)
<1>1. TypeOK /\ RunningInv /\ w \in objects /\ n \in Int
  BY ArgumentsAssumption DEF IInv, Reserve, Callable, Long
<1>2. CASE n <= 0
  BY <1>1, <1>2, Thrown DEF Reserve
<1>3. CASE ~ (n <= 0)
  <2>1. r.length \in 0 .. MaxCapacity /\ r.used \in 0 .. r.length /\ r.buffer \in allocated
    BY <1>1, OwnerType DEF RunningInv, InOrder
  <2>2. grows => length \in Nat /\ r.used <= length
    <3>1. Wrap(n + 0) = n /\ Wrap(2 * r.length) = 2 * r.length
      BY <1>1, <1>3, <2>1, ArgumentsAssumption, SizeAssumption DEF Wrap, Long
    <3>2. 0 + n = n /\ n \in Nat
      BY <1>1, <1>3
    <3> QED
      BY <2>1, <3>1, <3>2, SizeAssumption DEF Extended, Grows, Larger
  <2> HIDE DEF grows, length
  <2>3. \/ Returns("reserve", w, <<>>, 0) /\ Untouched
        \/ grows /\ ExtendFails(w, length)
        \/ /\ grows /\ length <= MaxCapacity
           /\ \E b \in Places(r.buffer) :
                /\ Replace(r.buffer, b, Resized(heap[r.buffer], length))
                /\ Update(w, [r EXCEPT !.buffer = b, !.length = length])
           /\ Returns("reserve", w, <<>>, 0)
           /\ UNCHANGED objects
    BY <1>3, <2>1, Zenon DEF Reserve, grows, length
  <2>4. CASE Returns("reserve", w, <<>>, 0) /\ Untouched
    BY <1>1, <2>4, OtherCall, Still DEF StaysInOrder
  <2>5. CASE ExtendFails(w, length)
    BY <2>5, Aborted DEF ExtendFails
  <2>6. ASSUME grows, length <= MaxCapacity, NEW b \in Places(r.buffer),
               Replace(r.buffer, b, Resized(heap[r.buffer], length)),
               Update(w, [r EXCEPT !.buffer = b, !.length = length]),
               Returns("reserve", w, <<>>, 0), UNCHANGED objects
        PROVE StaysInOrder
    BY <1>1, <2>2, <2>6, ReallocatedInOrder, Names
  <2> QED
    BY <2>3, <2>4, <2>5, <2>6
<1> QED
  BY <1>2, <1>3

(* trim keeps what is written in a shorter block. *)
LEMMA TrimInOrder ==
  ASSUME IInv, mode = "running", NEW w \in Writers, Trim(w) PROVE StaysInOrder
<1> DEFINE r == writer[w]
<1>1. TypeOK /\ RunningInv /\ w \in objects
  BY DEF IInv, Trim, Callable
<1>2. r.length \in 0 .. MaxCapacity /\ r.used \in 0 .. r.length /\ r.buffer \in allocated
  BY <1>1, OwnerType DEF RunningInv, InOrder
<1>3. r.used \in Nat /\ r.used <= r.used /\ r.used <= MaxCapacity
  BY <1>2, SizeAssumption
<1>4. CASE Returns("trim", w, <<>>, 0) /\ Untouched
  BY <1>1, <1>4, OtherCall, Still DEF StaysInOrder
<1>5. CASE Bailout
  BY <1>5, Aborted
<1>6. ASSUME NEW b \in Places(r.buffer),
             Replace(r.buffer, b, Resized(heap[r.buffer], r.used)),
             Update(w, [r EXCEPT !.buffer = b, !.length = r.used]),
             Returns("trim", w, <<>>, 0), UNCHANGED objects
      PROVE StaysInOrder
  BY <1>1, <1>3, <1>6, ReallocatedInOrder, Names
<1> QED
  BY <1>2, <1>4, <1>5, <1>6 DEF Trim

(* What is shown was written, and the offset beside it lies in it. *)
LEMMA DumpInOrder ==
  ASSUME TypeOK, RunningInv, mode = "running", NEW op \in Calls, NEW w \in Writers,
         NEW num, num = writer[w].offset \/ op # "__serialize", Dump(op, w, num)
  PROVE  StaysInOrder
<1>1. w \in objects /\ Readable(w)
  BY OwnerType DEF Dump, Callable
<1>2. CASE Bailout
  BY <1>2, Aborted
<1>3. CASE Returns(op, w, Contents(w), num) /\ Untouched
  <2>1. ReturnedInOrder'
    BY <1>1, <1>3, ReadInOrder DEF ReturnedInOrder, Returns
  <2> QED
    BY <1>3, <2>1, Still DEF StaysInOrder, Returns
<1> QED
  BY <1>1, <1>2, <1>3 DEF Dump

(* The methods that only show a writer. *)
LEMMA ShowInOrder ==
  ASSUME IInv, mode = "running", NEW w \in Writers,
         \/ GetData(w) \/ Serialize(w) \/ DebugInfo(w)
         \/ GetOffset(w) \/ GetUsedLength(w) \/ GetReservedLength(w)
  PROVE  StaysInOrder
<1>1. TypeOK /\ RunningInv /\ w \in objects
  BY DEF IInv, GetData, Serialize, DebugInfo, GetOffset, GetUsedLength, GetReservedLength,
         GetNumber, Dump, Callable
<1>2. CASE GetData(w) \/ DebugInfo(w)
  BY <1>1, <1>2, DumpInOrder, Names DEF GetData, DebugInfo
<1>3. CASE Serialize(w)
  <2>1. Signed(writer[w].offset) = writer[w].offset
    BY <1>1, OwnerType, SizeAssumption DEF Signed
  <2> QED
    BY <1>1, <1>3, <2>1, DumpInOrder, Names DEF Serialize
<1>4. ASSUME NEW op, NEW n, op # "__serialize", GetNumber(op, w, n) PROVE StaysInOrder
  BY <1>1, <1>4, OtherCall, Still DEF GetNumber, StaysInOrder
<1> QED
  BY <1>2, <1>3, <1>4 DEF GetOffset, GetUsedLength, GetReservedLength

(* Comparison changes nothing and reads only what is written. *)
LEMMA CompareInOrder ==
  ASSUME IInv, mode = "running", NEW w \in Writers, NEW v \in Writers,
         WriterCompareObjects(w, v)
  PROVE  StaysInOrder
<1>1. TypeOK /\ RunningInv /\ w \in objects /\ v \in objects
  BY DEF IInv, WriterCompareObjects, Callable
<1>2. Readable(w) /\ Readable(v)
  BY <1>1, OwnerType
<1>3. ASSUME NEW d, Returns("compare", w, <<>>, d), Untouched PROVE StaysInOrder
  BY <1>1, <1>3, OtherCall, Still DEF StaysInOrder
<1> QED
  BY <1>2, <1>3 DEF WriterCompareObjects

(* The block of a freed writer was nobody else's.                          *)
LEMMA FreeInOrder ==
  ASSUME IInv, mode = "running", NEW w \in Writers, WriterFree(w) PROVE StaysInOrder
<1>1. TypeOK /\ RunningInv /\ w \in objects /\ writer[w].buffer \in allocated
  BY DEF IInv, WriterFree, RunningInv, InOrder
<1>2. /\ objects' = objects \ {w} /\ Update(w, Blank)
      /\ allocated' = allocated \ {writer[w].buffer}
      /\ heap' = [heap EXCEPT ![writer[w].buffer] = <<>>]
      /\ ReturnedInOrder' /\ mode' = "running"
  BY <1>1, OtherCall DEF WriterFree
<1>3. writer'[w] = Blank /\ \A v \in Writers \ {w} : writer'[v] = writer[v]
  BY <1>1, <1>2 DEF Update, TypeOK
<1>4. ASSUME NEW v \in objects' PROVE InOrder(v)'
  <2>1. v \in objects /\ v # w /\ v \in Writers
    BY <1>1, <1>2 DEF TypeOK
  <2>2. InOrder(v) /\ writer[v].buffer # writer[w].buffer /\ writer'[v] = writer[v]
    BY <1>1, <1>3, <2>1 DEF RunningInv
  <2>3. heap'[writer[v].buffer] = heap[writer[v].buffer] /\ writer[v].buffer \in allocated'
    BY <1>1, <1>2, <2>2 DEF InOrder, TypeOK
  <2> QED
    BY <2>2, <2>3 DEF InOrder
<1>5. \A v \in Writers \ objects' : writer'[v] = Blank
  BY <1>1, <1>2, <1>3 DEF RunningInv
<1>6. ASSUME NEW b \in allocated' PROVE \E v \in objects' : writer'[v].buffer = b
  <2>1. PICK v \in objects : writer[v].buffer = b
    BY <1>1, <1>2 DEF RunningInv
  <2> QED
    BY <1>1, <1>2, <1>3, <2>1 DEF TypeOK
<1>7. \A u, v \in objects' : writer'[u].buffer = writer'[v].buffer => u = v
  BY <1>1, <1>2, <1>3 DEF RunningInv, TypeOK
<1>8. RunningInv'
  BY <1>2, <1>4, <1>5, <1>6, <1>7 DEF RunningInv
<1> QED
  BY <1>2, <1>8 DEF StaysInOrder

(* pack* touches no writer, and does not fault where the buffer on the     *)
(* stack is large enough for every type.                                   *)
LEMMA PackInOrder ==
  ASSUME PackFits \/ mode' = "running", IInv, mode = "running",
         NEW e \in Encodings, PackType(e)
  PROVE  StaysInOrder
<1>1. ASSUME PackFits PROVE ~ Grows(StackSize, 0, e.room)
  <2>1. e.room \in Nat /\ e.room <= StackSize
    BY <1>1, EncodingsAssumption DEF PackFits
  <2>2. Wrap(0 + e.room) = e.room
    BY <2>1, SizeAssumption DEF Wrap, Size
  <2> QED
    BY <2>1, <2>2, SizeAssumption DEF Grows, Size
<1>2. ~ Fault \/ ~ Grows(StackSize, 0, e.room)
  BY <1>1 DEF Fault
<1>3. CASE Returns("packType", ret.by, e.bytes, 0) /\ Untouched
  BY <1>3, OtherCall, Still DEF IInv, StaysInOrder
<1>4. CASE Bailout
  BY <1>4, Aborted
<1> QED
  BY <1>2, <1>3, <1>4 DEF PackType

(* Every call on writers in order keeps them in order and stays within     *)
(* their blocks: one step per action.  Only pack* needs to be told that it *)
(* has not faulted, where nothing is known of the buffer on the stack.     *)
LEMMA StepInOrder ==
  ASSUME RestoresInOrder, PackFits \/ mode' = "running",
         IInv, mode = "running", [Next]_vars
  PROVE  StaysInOrder
<1>1. CASE UNCHANGED vars
  BY <1>1, Still DEF vars, IInv, StaysInOrder, RunningInv, ReturnedInOrder, Untouched
<1>2. CASE Next
  BY <1>2, NewInOrder, CloneInOrder, CompareInOrder, FreeInOrder, ConstructInOrder,
     WriteInOrder, PackInOrder, SetOffsetInOrder, ReserveInOrder, TrimInOrder, ClearInOrder,
     ShowInOrder, UnserializeInOrder DEF Next
<1> QED
  BY <1>1, <1>2

(* A request that has left "running" never returns to it.                  *)
LEMMA NeverResumes == ASSUME [Next]_vars, mode' = "running" PROVE mode = "running"
BY DEF Next, vars, Create, WriterNew, WriterClone, WriterCompareObjects, WriterFree,
       Construct,
       WriteByteArray, WriteType, PackType, Untouched, Store, SetOffset, Reserve, Trim, Clear, GetData,
       Serialize, DebugInfo, Dump, GetOffset, GetUsedLength, GetReservedLength, GetNumber,
       Unserialize, WriterInitProperties, ExtendFails, Returns, Throws, Bailout, Fault

(* The invariant is inductive, and no step from it faults if types fit the *)
(* buffer of pack*.                                                        *)
LEMMA IInvInductive ==
  ASSUME RestoresInOrder
  PROVE  /\ Init => IInv
         /\ IInv /\ [Next]_vars => IInv'
         /\ PackFits => (IInv /\ [Next]_vars => (mode = "running" => mode' # "faulted"))
<1>1. Init => IInv
  <2> SUFFICES ASSUME Init PROVE IInv
    OBVIOUS
  <2>1. Blank \in [buffer : Blocks \cup {Wild}, length : Size, offset : Size, used : Size]
    BY Empty DEF Blank
  <2>2. TypeOK
    BY <2>1, Empty, Names DEF Init, TypeOK
  <2>3. RunningInv
    BY DEF Init, RunningInv, ReturnedInOrder
  <2> QED
    BY <2>2, <2>3 DEF IInv
<1>2. ASSUME IInv, [Next]_vars PROVE IInv'
  <2>1. TypeOK'
    BY <1>2, TypeStep DEF IInv
  <2>2. ASSUME mode' = "running" PROVE RunningInv'
    BY <1>2, <2>2, NeverResumes, StepInOrder DEF StaysInOrder
  <2> QED
    BY <2>1, <2>2 DEF IInv
<1>3. ASSUME PackFits, IInv, [Next]_vars, mode = "running" PROVE mode' # "faulted"
  BY <1>3, StepInOrder DEF StaysInOrder
<1> QED
  BY <1>1, <1>2, <1>3

(* The inductive invariant holds, if every array that a script passes to   *)
(* __unserialize has its offset within its string.                         *)
THEOREM InOrderAlways ==
  ASSUME RestoresInOrder PROVE Spec => []IInv
<1>1. Init => IInv
  BY IInvInductive
<1>2. IInv /\ [Next]_vars => IInv'
  BY IInvInductive
<1> QED
  BY <1>1, <1>2, PTL DEF Spec

(* offset <= used <= length = the size of the block, after every sequence  *)
(* of calls on any number of writers.                                      *)
THEOREM WellFormedAlways ==
  ASSUME RestoresInOrder PROVE Spec => []WellFormed
<1>1. IInv => WellFormed
  BY DEF IInv, RunningInv, InOrder, WellFormed
<1> QED
  BY <1>1, InOrderAlways, PTL

(* Every allocated block belongs to exactly one writer.                    *)
THEOREM OneOwnerAlways ==
  ASSUME RestoresInOrder PROVE Spec => []OneOwner
<1>1. IInv => OneOwner
  BY DEF IInv, RunningInv, InOrder, OneOwner
<1> QED
  BY <1>1, InOrderAlways, PTL

(* getData, __serialize and __debugInfo never show a byte nobody stored.   *)
THEOREM WrittenBytesOnlyAlways ==
  ASSUME RestoresInOrder PROVE Spec => []WrittenBytesOnly
<1>1. IInv => WrittenBytesOnly
  <2> SUFFICES ASSUME IInv, mode = "running", NEW w \in objects
               PROVE  Contents(w) \in Seq(Byte)
    BY DEF WrittenBytesOnly
  <2> QED
    BY ReadInOrder DEF IInv
<1> QED
  BY <1>1, InOrderAlways, PTL

(* No call of a running request reads, writes or frees outside the blocks  *)
(* that are allocated, if pack* can do with its buffer on the stack.       *)
THEOREM RunningNeverFaultsAlways ==
  ASSUME RestoresInOrder, PackFits PROVE Spec => RunningNeverFaults
<1>1. IInv /\ [Next]_vars => [mode = "running" => mode' # "faulted"]_vars
  BY IInvInductive
<1> QED
  BY <1>1, InOrderAlways, PTL DEF Spec, RunningNeverFaults
=============================================================================
