--------------------- MODULE ByteBufferReaderRefinement ---------------------
(***************************************************************************)
(* The theorem that ByteBufferReader implements ByteSource: one lemma per  *)
(* call, which names the call of ByteSource that it is.                    *)
(***************************************************************************)
EXTENDS ByteBufferReaderProofs

(* The variables of ByteSource. *)
AbstractSource == [r \in Readers |-> Abstraction(r)]
AbstractRet ==
  [op |-> ret.op, by |-> ret.by, threw |-> ret.exc # <<>>, str |-> ret.str, num |-> ret.num]

(* A call of a request that is still running when it is over. *)
Step == IInv /\ OffsetInString /\ [Next]_vars /\ mode' = "running"

(* What a step starts from. *)
LEMMA StepFacts ==
  ASSUME Step
  PROVE  /\ TypeOK /\ Blanks /\ mode = "running"
         /\ \A r \in objects : /\ Live(reader[r].buffer)
                               /\ reader[r].buffer \in Cells \cup Literals
                               /\ reader[r].offset \in Nat
                               /\ reader[r].offset <= Len(Chars(reader[r].buffer))
                               /\ r \in Readers
                               /\ AbstractSource[r] = [data |-> Chars(reader[r].buffer),
                                                       pos |-> reader[r].offset]
<1>1. mode = "running" /\ TypeOK /\ Blanks /\ \A r \in objects : Live(reader[r].buffer)
  BY ModeStep, Alive DEF Step, IInv, Blanks
<1> QED
  BY <1>1, Numbers DEF Step, TypeOK, OffsetInString, AbstractSource, Abstraction

(* A call that leaves the readers alone leaves what ByteSource sees of     *)
(* them alone.                                                             *)
LEMMA SourceStill ==
  ASSUME Step, UNCHANGED <<objects, reader>>
  PROVE  AbstractSource' = AbstractSource
<1>1. mode = "running"
  BY StepFacts
<1>2. \A r \in objects : Chars(reader[r].buffer)' = Chars(reader[r].buffer)
  BY CharsStay DEF Step
<1> QED
  BY <1>1, <1>2 DEF Step, AbstractSource, Abstraction

(* One reader gets the string p and the offset o. *)
LEMMA SourceMoved ==
  ASSUME Step, NEW r \in Readers, NEW p, NEW o,
         objects' = objects \cup {r}, Update(r, [buffer |-> p, offset |-> o])
  PROVE  AbstractSource' = [AbstractSource EXCEPT ![r] = [data |-> Chars(p), pos |-> o]]
<1>1. mode = "running" /\ mode' = "running"
  BY StepFacts DEF Step
<1>2. /\ reader'[r] = [buffer |-> p, offset |-> o]
      /\ \A q \in Readers \ {r} : reader'[q] = reader[q]
  BY StepFacts DEF Update, TypeOK
<1>3. \A q \in objects' : Chars(reader[q].buffer)' = Chars(reader'[q].buffer)
  BY <1>1, CharsStay DEF Step
<1>4. Abstraction(r)' = [data |-> Chars(p), pos |-> o]
  BY <1>1, <1>2, <1>3 DEF Abstraction
<1>5. \A q \in Readers \ {r} : Abstraction(q)' = Abstraction(q)
  BY <1>1, <1>2, <1>3 DEF Abstraction
<1> QED
  BY <1>4, <1>5 DEF AbstractSource

(* Results and exceptions are those of ByteSource. *)
LEMMA SourceReturns ==
  ASSUME NEW op, NEW r, NEW str, NEW num, Returns(op, r, str, num)
  PROVE  Source!Returns(op, r, str, num)
BY DEF Returns, Source!Returns

(* An exception is an exception of ByteSource.                             *)
LEMMA SourceThrows ==
  ASSUME NEW op, NEW r, NEW exc, exc # <<>>, Raise(op, r, exc), mode' = "running"
  PROVE  Source!Throws(op, r)
<1>1. ret' = [op |-> op, by |-> r, exc |-> exc, str |-> <<>>, num |-> 0]
  BY DEF Raise, Bailout
<1>2. /\ ret'.op = op /\ ret'.by = r /\ ret'.str = <<>> /\ ret'.num = 0
      /\ (ret'.exc # <<>>) = TRUE
  BY <1>1
<1> QED
  BY <1>2 DEF Source!Throws

(* readUnsignedVarInt finds the end of the varint, if there is one.        *)
LEMMA VarIntSizeIs ==
  ASSUME NEW s \in Seq(Byte), NEW o \in Nat, NEW m \in Nat
  PROVE  Source!VarIntSize([data |-> s, pos |-> o], m) =
           LET n == VarIntBytes(s, o, m) IN IF Terminated(s, o, n) THEN n ELSE 0
<1> DEFINE n == VarIntBytes(s, o, m)
           ends == {e \in 1 .. m : o + e <= Len(s) /\ s[o + e] \in Last}
<1>1. /\ n \in 0 .. m
      /\ \A i \in 1 .. n : o + i <= Len(s)
      /\ \A i \in 1 .. n - 1 : s[o + i] \notin Last
      /\ n = m \/ o + n >= Len(s) \/ (n > 0 /\ s[o + n] \in Last)
  BY VarIntBytesType
<1> HIDE DEF n
<1>2. Source!VarIntSize([data |-> s, pos |-> o], m) =
        IF ends = {} THEN 0 ELSE CHOOSE e \in ends : \A d \in ends : e <= d
  BY DEF Source!VarIntSize
<1>3. ASSUME NEW e \in ends PROVE e >= n
  <2>1. e \in 1 .. m /\ s[o + e] \in Last
    OBVIOUS
  <2>2. ~ (e \in 1 .. n - 1)
    BY <1>1, <2>1
  <2> QED
    BY <1>1, <2>1, <2>2
<1>4. CASE Terminated(s, o, n)
  <2>1. n \in ends
    BY <1>1, <1>4 DEF Terminated
  <2>2. ends \in SUBSET Nat
    OBVIOUS
  <2> HIDE DEF ends
  <2>3. \A e \in ends : (\A d \in ends : e <= d) => e = n
    <3> TAKE e \in ends
    <3> HAVE \A d \in ends : e <= d
    <3>1. e <= n /\ e >= n /\ e \in Nat /\ n \in Nat
      BY <1>3, <2>1, <2>2
    <3> QED
      BY <3>1
  <2>4. \A d \in ends : n <= d
    BY <1>1, <1>3, <2>2
  <2>5. (CHOOSE e \in ends : \A d \in ends : e <= d) = n
    BY <2>1, <2>3, <2>4
  <2> QED
    BY <1>2, <1>4, <2>1, <2>5 DEF n
<1>5. CASE ~ Terminated(s, o, n)
  <2>1. ASSUME NEW e \in ends PROVE FALSE
    <3>1. e \in 1 .. m /\ s[o + e] \in Last /\ o + e <= Len(s) /\ e >= n /\ Len(s) \in Nat
      BY <1>3
    <3>2. ~ (n > 0 /\ s[o + n] \in Last)
      BY <1>5 DEF Terminated
    <3>3. n = m \/ o + n >= Len(s)
      BY <1>1, <3>2
    <3>4. e = n
      BY <1>1, <3>1, <3>3
    <3> QED
      BY <3>1, <3>2, <3>4
  <2> QED
    BY <1>2, <1>5, <2>1 DEF n
<1> QED
  BY <1>4, <1>5

----------------------------------------------------------------------------
(* The calls.                                                              *)

(* reader_init_properties. *)
LEMMA InitIs ==
  ASSUME Step, NEW op, NEW r \in Readers, NEW f, NEW p, NEW o,
         ReaderInitProperties(op, r, f, p, o), objects' = objects \cup {r}
  PROVE  Source!Become(op, r, [data |-> Chars(p), pos |-> o])
<1>1. Update(r, [buffer |-> p, offset |-> o]) /\ Returns(op, r, <<>>, 0)
  BY DEF ReaderInitProperties
<1>2. AbstractSource' = [AbstractSource EXCEPT ![r] = [data |-> Chars(p), pos |-> o]]
  BY <1>1, SourceMoved
<1> QED
  BY <1>1, <1>2, SourceReturns DEF Source!Become, AbstractSource

(* A reader that is made has the string and the offset it is made with.    *)
LEMMA CreateIs ==
  ASSUME Step, NEW op, NEW r \in Readers, NEW p, NEW o, Create(op, r, p, o)
  PROVE  /\ objects' = objects \cup {r}
         /\ Source!Become(op, r, [data |-> Chars(p), pos |-> o])
<1>1. ~ Bailout
  BY DEF Step, Bailout
<1> QED
  BY <1>1, InitIs DEF Create

(* The create_object handler is New.                                       *)
LEMMA NewIs == ASSUME Step, NEW r \in Readers, ReaderNew(r) PROVE Source!New(r)
<1>1. Chars(EmptyString) = <<>>
  BY LiteralsAssumption DEF Chars
<1> QED
  BY <1>1, CreateIs DEF ReaderNew, Source!New, Source!Blank

(* The clone_obj handler is Clone.                                         *)
LEMMA CloneIs ==
  ASSUME Step, NEW r \in Readers, NEW q \in Readers, ReaderClone(r, q)
  PROVE  r \in objects /\ Source!Clone(r, q)
<1>1. r \in objects /\ q \notin objects /\ Create("clone", q, reader[r].buffer, reader[r].offset)
  BY StepFacts DEF ReaderClone, Callable
<1>2. AbstractSource[r] = [data |-> Chars(reader[r].buffer), pos |-> reader[r].offset]
  BY <1>1, StepFacts
<1> QED
  BY <1>1, <1>2, CreateIs DEF Source!Clone, AbstractSource

(* The free_obj handler is Free.                                           *)
LEMMA FreeIs ==
  ASSUME Step, NEW r \in Readers, ReaderFree(r)
  PROVE  r \in objects /\ Source!Free(r)
<1>1. /\ r \in objects /\ objects' = objects \ {r} /\ Update(r, Blank)
      /\ Returns("free", r, <<>>, 0)
  BY StepFacts DEF ReaderFree
<1>2. mode = "running" /\ mode' = "running"
  BY StepFacts DEF Step
<1>3. \A q \in Readers \ {r} : reader'[q] = reader[q]
  BY <1>1, StepFacts DEF Update, TypeOK
<1>4. \A q \in objects' : Chars(reader[q].buffer)' = Chars(reader'[q].buffer)
  BY <1>2, CharsStay DEF Step
<1>5. Abstraction(r)' = Source!Blank
  BY <1>1 DEF Abstraction, Source!Blank
<1>6. \A q \in Readers \ {r} : Abstraction(q)' = Abstraction(q)
  BY <1>1, <1>2, <1>3, <1>4 DEF Abstraction
<1> QED
  BY <1>1, <1>5, <1>6, SourceReturns DEF Source!Free, Source!Become

(* __construct is Construct, also on a reader that had a string.           *)
LEMMA ConstructIs ==
  ASSUME Step, NEW r \in Readers, NEW p \in Cells \cup Literals, Construct(r, p)
  PROVE  r \in objects /\ \E s \in Data : Source!Construct(r, s)
<1>1. /\ r \in objects /\ UNCHANGED objects
      /\ ReaderInitProperties("__construct", r, Release(refs, reader[r].buffer), p, 0)
  BY DEF Step, Construct, Callable, Fault
<1>2. objects' = objects \cup {r}
  BY <1>1
<1>3. Source!Construct(r, Chars(p))
  BY <1>1, <1>2, InitIs DEF Source!Construct
<1> QED
  BY <1>1, <1>3, StepFacts, StringType

(* __unserialize is Unserialize, whatever is in the array.                 *)
LEMMA UnserializeIs ==
  ASSUME RestoresInString, Step, NEW r \in Readers, NEW x, NEW y, Unserialize(r, x, y)
  PROVE  r \in objects /\ Source!Unserialize(r)
<1>1. r \in objects
  BY DEF Unserialize, Callable
<1>2. ASSUME NEW exc, exc # <<>>, Throws("__unserialize", r, exc) PROVE Source!Unserialize(r)
  <2>1. Source!Throws("__unserialize", r)
    BY <1>2, SourceThrows DEF Throws, Step
  <2>2. AbstractSource' = AbstractSource /\ UNCHANGED objects
    BY <1>2, SourceStill DEF Throws, Untouched
  <2> QED
    BY <2>1, <2>2 DEF Source!Unserialize, AbstractSource
<1>3. ASSUME NEW p \in Cells \cup Literals, NEW n \in 0 .. Len(Chars(p)),
             ReaderInitProperties("__unserialize", r, refs, p, Wrap(n)), UNCHANGED objects
      PROVE  Source!Unserialize(r)
  <2>1. Chars(p) \in Data /\ Wrap(n) = n
    BY StepFacts, StringType, Numbers DEF Wrap, Size
  <2>2. objects' = objects \cup {r}
    BY <1>1, <1>3
  <2>3. Source!Become("__unserialize", r, [data |-> Chars(p), pos |-> n])
    BY <1>3, <2>1, <2>2, InitIs
  <2> QED
    BY <1>3, <2>1, <2>3 DEF Source!Unserialize
<1> QED
  BY <1>1, <1>2, <1>3 DEF Unserialize, RestoresInString

(* A read that moves the reader to the offset e. *)
LEMMA MovedIs ==
  ASSUME Step, NEW r \in objects, NEW e,
         Update(r, [buffer |-> reader[r].buffer, offset |-> e]), UNCHANGED objects
  PROVE  AbstractSource' = [AbstractSource EXCEPT ![r].pos = e]
<1>1. r \in Readers /\ objects' = objects \cup {r}
  BY StepFacts
<1>2. AbstractSource' = [AbstractSource EXCEPT ![r] = [data |-> Chars(reader[r].buffer), pos |-> e]]
  BY <1>1, SourceMoved
<1>3. AbstractSource[r] = [data |-> Chars(reader[r].buffer), pos |-> reader[r].offset]
  BY StepFacts
<1>4. [AbstractSource[r] EXCEPT !.pos = e] = [data |-> Chars(reader[r].buffer), pos |-> e]
  BY <1>3
<1> QED
  BY <1>2, <1>4

(* What Source!Read, Source!ReadVarInt and Source!Observe say of           *)
(* AbstractSource.                                                         *)
LEMMA ReadMeans ==
  ASSUME NEW op, NEW r, NEW n
  PROVE  LET k == AbstractSource[r] IN
         Source!Read(op, r, n) <=>
           /\ IF n >= 0 /\ k.pos + n <= Len(k.data)
                THEN /\ AbstractSource' = [AbstractSource EXCEPT ![r].pos = AbstractSource[r].pos + n]
                     /\ Source!Returns(op, r, SubSeq(k.data, k.pos + 1, k.pos + n), 0)
                ELSE Source!Throws(op, r) /\ AbstractSource' = AbstractSource
           /\ UNCHANGED objects
BY DEF Source!Read, AbstractSource

(* ReadVarInt of ByteSource, in terms of the readers.                      *)
LEMMA ReadVarIntMeans ==
  ASSUME NEW r, NEW m
  PROVE  LET k == AbstractSource[r]
             n == Source!VarIntSize(k, m)
         IN
         Source!ReadVarInt(r, m) <=>
           IF n > 0 THEN Source!Read("readVarInt", r, n)
           ELSE /\ Source!Throws("readVarInt", r)
                /\ \E e \in k.pos .. Len(k.data) :
                     AbstractSource' = [AbstractSource EXCEPT ![r].pos = e]
                /\ UNCHANGED objects
BY DEF Source!ReadVarInt, AbstractSource

(* A read that returns the n characters behind the offset.                 *)
LEMMA ReadIs ==
  ASSUME NEW op, NEW r, NEW s, NEW o \in Nat, NEW n \in Nat,
         AbstractSource[r] = [data |-> s, pos |-> o], o + n <= Len(s),
         AbstractSource' = [AbstractSource EXCEPT ![r].pos = o + n], UNCHANGED objects,
         Returns(op, r, SubSeq(s, o + 1, o + n), 0)
  PROVE  Source!Read(op, r, n)
<1>1. AbstractSource[r].pos = o /\ AbstractSource[r].data = s /\ n >= 0
  OBVIOUS
<1>2. Source!Returns(op, r, SubSeq(s, o + 1, o + n), 0)
  BY SourceReturns
<1>3. AbstractSource' = [AbstractSource EXCEPT ![r].pos = AbstractSource[r].pos + n]
  BY <1>1
<1> QED
  BY <1>1, <1>2, <1>3, ReadMeans

(* A call that throws and has moved nothing. *)
LEMMA ThrownIs ==
  ASSUME Step, NEW op, NEW r, NEW exc, exc # <<>>, Throws(op, r, exc)
  PROVE  Source!Throws(op, r) /\ AbstractSource' = AbstractSource /\ UNCHANGED objects
BY SourceThrows, SourceStill DEF Throws, Untouched, Step

(* setOffset is SetOffset.                                                 *)
LEMMA SetOffsetIs ==
  ASSUME Step, NEW r \in Readers, NEW n \in Offsets, SetOffset(r, n)
  PROVE  r \in objects /\ Source!SetOffset(r, n)
<1> DEFINE s == Chars(reader[r].buffer)
<1>1. r \in objects /\ Live(reader[r].buffer) /\ reader[r].buffer \in Cells \cup Literals
      /\ AbstractSource[r] = [data |-> s, pos |-> reader[r].offset]
  BY StepFacts DEF SetOffset, Callable
<1>2. n \in Int /\ Len(s) \in Nat
  BY <1>1, StepFacts, StringType, NumbersAssumption DEF Long
<1>3. CASE n \in 0 .. Len(s)
  <2>1. /\ Update(r, [reader[r] EXCEPT !.offset = n]) /\ UNCHANGED objects
        /\ Returns("setOffset", r, <<>>, 0)
    BY <1>1, <1>2, <1>3 DEF SetOffset
  <2>2. [reader[r] EXCEPT !.offset = n] = [buffer |-> reader[r].buffer, offset |-> n]
    BY StepFacts DEF TypeOK
  <2>3. AbstractSource' = [AbstractSource EXCEPT ![r].pos = n]
    BY <1>1, <2>1, <2>2, MovedIs
  <2>4. AbstractSource' = [AbstractSource EXCEPT ![r] = [AbstractSource[r] EXCEPT !.pos = n]]
    BY <2>3
  <2> QED
    BY <1>1, <1>3, <2>1, <2>4, SourceReturns DEF Source!SetOffset, Source!Become, AbstractSource
<1>4. CASE n \notin 0 .. Len(s)
  <2>1. Throws("setOffset", r, <<"ValueError">>)
    BY <1>1, <1>2, <1>4 DEF SetOffset
  <2>2. <<"ValueError">> # <<>>
    OBVIOUS
  <2>3. Source!Throws("setOffset", r) /\ AbstractSource' = AbstractSource /\ UNCHANGED objects
    BY <2>1, <2>2, ThrownIs
  <2> QED
    BY <1>1, <1>4, <2>3 DEF Source!SetOffset, AbstractSource
<1> QED
  BY <1>1, <1>3, <1>4

(* A read of n bytes returns those bytes or throws. *)
LEMMA TakeIs ==
  ASSUME Step, NEW op, NEW r \in objects, NEW n \in Nat, Take(op, r, n)
  PROVE  Source!Read(op, r, n)
<1> DEFINE p == reader[r].buffer
           o == reader[r].offset
<1>1. /\ TypeOK /\ Live(p) /\ p \in Cells \cup Literals /\ o \in Nat /\ o <= Len(Chars(p))
      /\ AbstractSource[r] = [data |-> Chars(p), pos |-> o] /\ r \in Readers
  BY StepFacts
<1>2. Len(Chars(p)) \in Size /\ Len(Chars(p)) \in Nat /\ Chars(p) \in Seq(Byte)
      /\ Unread(Chars(p), o) = Len(Chars(p)) - o
  BY <1>1, StringType, UnreadType DEF TypeOK
<1>3. CASE o + n > Len(Chars(p))
  <2>1. Throws(op, r, <<"DataDecodeException">>)
    BY <1>1, <1>2, <1>3 DEF Take
  <2>2. <<"DataDecodeException">> # <<>>
    OBVIOUS
  <2>3. Source!Throws(op, r) /\ AbstractSource' = AbstractSource /\ UNCHANGED objects
    BY <2>1, <2>2, ThrownIs
  <2>4. ~ (n >= 0 /\ o + n <= Len(Chars(p)))
    BY <1>1, <1>2, <1>3
  <2> QED
    BY <1>1, <2>3, <2>4 DEF Source!Read, AbstractSource
<1>4. CASE o + n <= Len(Chars(p))
  <2>1. Wrap(o + n) = o + n
    BY <1>1, <1>2, <1>4, Numbers DEF Wrap, Size
  <2>2. ~ (Unread(Chars(p), o) < n) /\ ~ (o + n > Len(Chars(p)))
    BY <1>1, <1>2, <1>4
  <2>3. /\ Update(r, [buffer |-> p, offset |-> o + n]) /\ UNCHANGED objects
        /\ Returns(op, r, SubSeq(Chars(p), o + 1, o + n), 0)
    BY <1>1, <2>1, <2>2 DEF Take, Slice
  <2>4. AbstractSource' = [AbstractSource EXCEPT ![r].pos = o + n]
    BY <2>3, MovedIs
  <2> QED
    BY <1>1, <1>4, <2>3, <2>4, ReadIs
<1> QED
  BY <1>1, <1>2, <1>3, <1>4

(* readByteArray is a Read of as many bytes as it is asked for.            *)
LEMMA ReadByteArrayIs ==
  ASSUME Step, NEW r \in Readers, NEW n \in Lengths, ReadByteArray(r, n)
  PROVE  r \in objects /\ Source!Read("readByteArray", r, n)
<1>1. r \in objects /\ n \in Int /\ ~ Bailout
  BY NumbersAssumption DEF ReadByteArray, Callable, Long, Step, Bailout
<1>2. CASE n > 0 /\ Take("readByteArray", r, n)
  BY <1>1, <1>2, TakeIs
<1>3. CASE n < 0 /\ Throws("readByteArray", r, <<"ValueError">>)
  <2>1. <<"ValueError">> # <<>>
    OBVIOUS
  <2>2. /\ Source!Throws("readByteArray", r) /\ AbstractSource' = AbstractSource
        /\ UNCHANGED objects /\ ~ (n >= 0)
    BY <1>1, <1>3, <2>1, ThrownIs
  <2> QED
    BY <1>1, <2>2 DEF Source!Read, AbstractSource
<1>4. CASE n = 0 /\ Returns("readByteArray", r, <<>>, 0) /\ Untouched
  <2>1. AbstractSource' = AbstractSource /\ UNCHANGED objects
    BY <1>4, SourceStill DEF Untouched
  <2>2. /\ AbstractSource[r] = [data |-> Chars(reader[r].buffer), pos |-> reader[r].offset]
        /\ reader[r].offset \in Nat /\ reader[r].offset <= Len(Chars(reader[r].buffer))
        /\ Chars(reader[r].buffer) \in Seq(Byte)
    BY <1>1, StepFacts, StringType
  <2>3. AbstractSource' = [AbstractSource EXCEPT ![r].pos = reader[r].offset + n]
    <3>1. [AbstractSource[r] EXCEPT !.pos = reader[r].offset + n] = AbstractSource[r]
      BY <1>4, <2>2
    <3>2. [AbstractSource EXCEPT ![r] = AbstractSource[r]] = AbstractSource
      BY DEF AbstractSource
    <3> QED
      BY <2>1, <3>1, <3>2
  <2>4. SubSeq(Chars(reader[r].buffer), reader[r].offset + 1, reader[r].offset + n) = <<>>
    BY <1>4, <2>2
  <2>5. reader[r].offset + n <= Len(Chars(reader[r].buffer)) /\ n \in Nat
    BY <1>4, <2>2
  <2>6. Returns("readByteArray", r,
          SubSeq(Chars(reader[r].buffer), reader[r].offset + 1, reader[r].offset + n), 0)
    BY <1>4, <2>4
  <2> QED
    BY <1>1, <2>1, <2>2, <2>3, <2>5, <2>6, ReadIs
<1> QED
  BY <1>1, <1>2, <1>3, <1>4 DEF ReadByteArray

(* The reads of varints are ReadVarInt: the loop takes the bytes up to the *)
(* first that ends one.                                                    *)
LEMMA ReadVarIntIs ==
  ASSUME Step, NEW r \in Readers, NEW m \in VarIntSizes, ReadVarInt(r, m)
  PROVE  r \in objects /\ Source!ReadVarInt(r, m)
<1> DEFINE p == reader[r].buffer
           o == reader[r].offset
           n == VarIntBytes(Chars(p), o, m)
<1>1. /\ r \in objects /\ TypeOK /\ Live(p) /\ p \in Cells \cup Literals
      /\ o \in Nat /\ o \in Size /\ o <= Len(Chars(p))
      /\ AbstractSource[r] = [data |-> Chars(p), pos |-> o] /\ r \in Readers
      /\ Chars(p) \in Seq(Byte)
  BY StepFacts, StringType DEF ReadVarInt, Callable, TypeOK
<1>2. m \in Nat /\ n \in Nat /\ (n > 0 => o + n <= Len(Chars(p)))
  BY <1>1, VarIntOffset
<1>3. Source!VarIntSize(AbstractSource[r], m) = IF Terminated(Chars(p), o, n) THEN n ELSE 0
  BY <1>1, <1>2, VarIntSizeIs
<1>4. /\ Update(r, [buffer |-> p, offset |-> o + n]) /\ UNCHANGED objects
      /\ IF Terminated(Chars(p), o, n)
           THEN Returns("readVarInt", r, Slice(Chars(p), o, n), 0)
           ELSE Raise("readVarInt", r, <<"DataDecodeException">>)
  BY <1>1 DEF ReadVarInt
<1> HIDE DEF n
<1>5. AbstractSource' = [AbstractSource EXCEPT ![r].pos = o + n]
  BY <1>1, <1>4, MovedIs
<1>6. CASE Terminated(Chars(p), o, n)
  <2>1. n > 0 /\ o + n <= Len(Chars(p)) /\ Source!VarIntSize(AbstractSource[r], m) = n
    BY <1>2, <1>3, <1>6 DEF Terminated
  <2>2. Returns("readVarInt", r, SubSeq(Chars(p), o + 1, o + n), 0) /\ UNCHANGED objects
    BY <1>4, <1>6 DEF Slice
  <2>3. Source!Read("readVarInt", r, n)
    BY <1>1, <1>2, <1>5, <2>1, <2>2, ReadIs
  <2> QED
    BY <1>1, <2>1, <2>3, ReadVarIntMeans
<1>7. CASE ~ Terminated(Chars(p), o, n)
  <2>1. Source!VarIntSize(AbstractSource[r], m) = 0
    BY <1>3, <1>7
  <2>2. <<"DataDecodeException">> # <<>>
    OBVIOUS
  <2>3. Source!Throws("readVarInt", r) /\ UNCHANGED objects
    BY <1>4, <1>7, <2>2, SourceThrows DEF Step
  <2>4. o + n \in AbstractSource[r].pos .. Len(AbstractSource[r].data)
    BY <1>1, <1>2
  <2>5. ~ (Source!VarIntSize(AbstractSource[r], m) > 0)
    BY <2>1
  <2> QED
    BY <1>1, <1>5, <2>3, <2>4, <2>5, ReadVarIntMeans
<1> QED
  BY <1>1, <1>6, <1>7

(* The calls that only look at a reader.                                   *)
LEMMA ObserveMeans ==
  ASSUME NEW r
  PROVE  LET k == AbstractSource[r] IN
         Source!Observe(r) <=>
           /\ \/ Source!Returns("getData", r, k.data, 0)
              \/ Source!Returns("getOffset", r, <<>>, k.pos)
              \/ Source!Returns("getUnreadLength", r, <<>>, Len(k.data) - k.pos)
              \/ Source!Returns("__serialize", r, k.data, k.pos)
              \/ Source!Returns("__debugInfo", r, k.data, k.pos)
              \/ \E q \in objects \ {r} :
                   Source!Returns("compare", r, <<>>, IF k = AbstractSource[q] THEN 0 ELSE 1)
           /\ UNCHANGED objects /\ AbstractSource' = AbstractSource
BY DEF Source!Observe, AbstractSource

(* Signed does not change the numbers a reader returns.                    *)
LEMMA Plain ==
  ASSUME Step, NEW r \in objects
  PROVE  /\ Signed(reader[r].offset) = reader[r].offset
         /\ Signed(Unread(Chars(reader[r].buffer), reader[r].offset)) =
              Len(Chars(reader[r].buffer)) - reader[r].offset
<1> DEFINE l == Len(Chars(reader[r].buffer))
           o == reader[r].offset
<1>1. /\ TypeOK /\ reader[r].buffer \in Cells \cup Literals /\ o \in Size
      /\ o \in Nat /\ o <= l
  BY StepFacts DEF TypeOK
<1>2. l \in Nat /\ 2 * l < SizeMod /\ SizeMod \in Nat
      /\ Unread(Chars(reader[r].buffer), o) = l - o
  BY <1>1, StringType, UnreadType, Numbers
<1> HIDE DEF l, o
<1>3. \A n \in 0 .. l : 2 * n < SizeMod
  BY <1>2
<1>4. \A n \in 0 .. l : Signed(n) = n
  BY <1>2, <1>3 DEF Signed
<1>5. o \in 0 .. l /\ l - o \in 0 .. l
  BY <1>1, <1>2
<1> QED
  BY <1>2, <1>4, <1>5 DEF l, o

(* A call that hands the string out returns it and changes nothing.        *)
LEMMA ShareIs ==
  ASSUME Step, NEW op, NEW r \in Readers, NEW num, Share(op, r, num)
  PROVE  /\ r \in objects /\ UNCHANGED objects /\ AbstractSource' = AbstractSource
         /\ Source!Returns(op, r, AbstractSource[r].data, num)
<1>1. r \in objects /\ UNCHANGED <<objects, reader>>
      /\ Returns(op, r, Chars(reader[r].buffer), num)
  BY StepFacts DEF Share, Callable
<1>2. AbstractSource[r] = [data |-> Chars(reader[r].buffer), pos |-> reader[r].offset]
  BY <1>1, StepFacts
<1> QED
  BY <1>1, <1>2, SourceStill, SourceReturns

(* getData, __serialize and __debugInfo only observe.                      *)
LEMMA SharesIs ==
  ASSUME Step, NEW r \in Readers, GetData(r) \/ Serialize(r) \/ DebugInfo(r)
  PROVE  r \in objects /\ Source!Observe(r)
<1>1. ~ Bailout
  BY DEF Step, Bailout
<1>2. CASE GetData(r)
  BY <1>2, ShareIs, ObserveMeans DEF GetData
<1>3. ASSUME NEW op, op \in {"__serialize", "__debugInfo"}, ShareInArray(op, r)
      PROVE  r \in objects /\ Source!Observe(r)
  <2>1. Share(op, r, Signed(reader[r].offset))
    BY <1>1, <1>3 DEF ShareInArray
  <2>2. /\ r \in objects /\ UNCHANGED objects /\ AbstractSource' = AbstractSource
        /\ Source!Returns(op, r, AbstractSource[r].data, Signed(reader[r].offset))
    BY <2>1, ShareIs
  <2>3. Signed(reader[r].offset) = AbstractSource[r].pos
    <3>1. AbstractSource[r] = [data |-> Chars(reader[r].buffer), pos |-> reader[r].offset]
      BY <2>2, StepFacts
    <3> QED
      BY <2>2, <3>1, Plain
  <2> QED
    BY <1>3, <2>2, <2>3, ObserveMeans
<1> QED
  BY <1>2, <1>3 DEF Serialize, DebugInfo

(* getOffset and getUnreadLength only observe.                             *)
LEMMA OffsetsAre ==
  ASSUME Step, NEW r \in Readers, GetOffset(r) \/ GetUnreadLength(r)
  PROVE  r \in objects /\ Source!Observe(r)
<1>1. /\ r \in objects /\ Live(reader[r].buffer)
      /\ AbstractSource[r] = [data |-> Chars(reader[r].buffer), pos |-> reader[r].offset]
  BY StepFacts DEF GetOffset, GetUnreadLength, Callable
<1>2. /\ Untouched
      /\ \/ Returns("getOffset", r, <<>>, reader[r].offset)
         \/ Returns("getUnreadLength", r, <<>>,
                    Len(Chars(reader[r].buffer)) - reader[r].offset)
  BY <1>1, Plain DEF GetOffset, GetUnreadLength
<1>3. UNCHANGED objects /\ AbstractSource' = AbstractSource
  BY <1>2, SourceStill DEF Untouched
<1>4. \/ Source!Returns("getOffset", r, <<>>, AbstractSource[r].pos)
      \/ Source!Returns("getUnreadLength", r, <<>>,
                        Len(AbstractSource[r].data) - AbstractSource[r].pos)
  BY <1>1, <1>2, SourceReturns
<1> QED
  BY <1>1, <1>3, <1>4, ObserveMeans

(* The compare handler only observes.                                      *)
LEMMA CompareIs ==
  ASSUME Step, NEW r \in Readers, NEW q \in Readers, ReaderCompareObjects(r, q)
  PROVE  r \in objects /\ Source!Observe(r)
<1> DEFINE num == IF AbstractSource[r] = AbstractSource[q] THEN 0 ELSE 1
<1>1. r \in objects /\ q \in objects \ {r}
  BY DEF ReaderCompareObjects, Callable
<1>2. /\ AbstractSource[r] = [data |-> Chars(reader[r].buffer), pos |-> reader[r].offset]
      /\ AbstractSource[q] = [data |-> Chars(reader[q].buffer), pos |-> reader[q].offset]
      /\ Live(reader[r].buffer) /\ Live(reader[q].buffer)
  BY <1>1, StepFacts
<1>3. AbstractSource[r] = AbstractSource[q] <=>
        /\ reader[r].offset = reader[q].offset
        /\ Chars(reader[r].buffer) = Chars(reader[q].buffer)
  BY <1>2
<1>4. CASE reader[r].offset # reader[q].offset
  <2>1. Returns("compare", r, <<>>, 1) /\ Untouched /\ num = 1
    BY <1>3, <1>4 DEF ReaderCompareObjects
  <2>2. UNCHANGED objects /\ AbstractSource' = AbstractSource
    BY <2>1, SourceStill DEF Untouched
  <2>3. Source!Returns("compare", r, <<>>, num)
    BY <2>1, SourceReturns
  <2> QED
    BY <1>1, <2>2, <2>3, ObserveMeans
<1>5. CASE reader[r].offset = reader[q].offset
  <2>1. Returns("compare", r, <<>>, num) /\ Untouched
    BY <1>2, <1>3, <1>5 DEF ReaderCompareObjects
  <2>2. UNCHANGED objects /\ AbstractSource' = AbstractSource
    BY <2>1, SourceStill DEF Untouched
  <2>3. Source!Returns("compare", r, <<>>, num)
    BY <2>1, SourceReturns
  <2> QED
    BY <1>1, <2>2, <2>3, ObserveMeans
<1> QED
  BY <1>4, <1>5

(* unpack* moves no reader.                                                *)
LEMMA UnpackIs ==
  ASSUME Step, NEW op, NEW s \in Seq(Byte), NEW n \in Nat, NEW k, Untouched,
         IF k THEN Returns(op, ret.by, SubSeq(s, 1, n), 0)
         ELSE Raise(op, ret.by, <<"DataDecodeException">>)
  PROVE  (k <=> n > 0 /\ n <= Len(s)) => Source!Unpack(op, s, n)
<1> SUFFICES ASSUME k <=> n > 0 /\ n <= Len(s) PROVE Source!Unpack(op, s, n)
  OBVIOUS
<1>1. UNCHANGED objects /\ AbstractSource' = AbstractSource
  BY SourceStill DEF Untouched
<1>2. <<"DataDecodeException">> # <<>>
  OBVIOUS
<1>3. IF n > 0 /\ n <= Len(s) THEN Source!Returns(op, ret.by, SubSeq(s, 1, n), 0)
      ELSE Source!Throws(op, ret.by)
  BY <1>2, SourceReturns, SourceThrows DEF Step
<1> QED
  BY <1>1, <1>3 DEF Source!Unpack, AbstractSource

(* unpack of a type of fixed size is Unpack.                               *)
LEMMA UnpackTypeIs ==
  ASSUME Step, NEW p \in Cells \cup Literals, NEW n \in Widths, UnpackType(p, n)
  PROVE  \E s \in Data : Source!Unpack("unpackType", s, n)
<1> DEFINE s == Chars(p)
<1>1. /\ s \in Data /\ s \in Seq(Byte) /\ Len(s) \in Nat /\ n \in Nat /\ n > 0
  BY StepFacts, StringType, NumbersAssumption DEF Long
<1>2. /\ Untouched
      /\ IF n > 0 /\ n <= Len(s) THEN Returns("unpackType", ret.by, SubSeq(s, 1, n), 0)
         ELSE Raise("unpackType", ret.by, <<"DataDecodeException">>)
  <2>1. Slice(s, 0, n) = SubSeq(s, 1, n)
    BY <1>1 DEF Slice
  <2>2. Len(s) < n <=> ~ (n > 0 /\ n <= Len(s))
    BY <1>1
  <2> HIDE DEF s
  <2> QED
    BY <2>1, <2>2 DEF UnpackType, s
<1> HIDE DEF s
<1>3. Source!Unpack("unpackType", s, n)
  BY <1>1, <1>2, UnpackIs
<1> QED
  BY <1>1, <1>3

(* unpack of a varint is Unpack of as many bytes as the varint has.        *)
LEMMA UnpackVarIntIs ==
  ASSUME Step, NEW p \in Cells \cup Literals, NEW m \in VarIntSizes, UnpackVarInt(p, m)
  PROVE  \E s \in Data :
           Source!Unpack("unpackVarInt", s, Source!VarIntSize([data |-> s, pos |-> 0], m))
<1> DEFINE s == Chars(p)
           n == VarIntBytes(s, 0, m)
           k == Source!VarIntSize([data |-> s, pos |-> 0], m)
<1>1. TypeOK /\ s \in Data /\ s \in Seq(Byte) /\ Len(s) \in Nat /\ 0 \in Size /\ 0 <= Len(s)
  BY StepFacts, StringType, Numbers
<1>2. m \in Nat /\ n \in Nat /\ (n > 0 => 0 + n <= Len(s))
  BY <1>1, VarIntOffset
<1>3. k = IF Terminated(s, 0, n) THEN n ELSE 0
  BY <1>1, <1>2, VarIntSizeIs
<1>4. /\ Untouched
      /\ IF Terminated(s, 0, n) THEN Returns("unpackVarInt", ret.by, Slice(s, 0, n), 0)
         ELSE Raise("unpackVarInt", ret.by, <<"DataDecodeException">>)
  BY DEF UnpackVarInt
<1> HIDE DEF s, n, k
<1>5. /\ k \in Nat
      /\ Terminated(s, 0, n) <=> k > 0 /\ k <= Len(s)
      /\ Terminated(s, 0, n) => Slice(s, 0, n) = SubSeq(s, 1, k)
  BY <1>1, <1>2, <1>3 DEF Terminated, Slice
<1>6. IF Terminated(s, 0, n) THEN Returns("unpackVarInt", ret.by, SubSeq(s, 1, k), 0)
      ELSE Raise("unpackVarInt", ret.by, <<"DataDecodeException">>)
  BY <1>4, <1>5
<1>7. Source!Unpack("unpackVarInt", s, k)
  BY <1>1, <1>4, <1>5, <1>6, UnpackIs
<1> QED
  BY <1>1, <1>7 DEF k

----------------------------------------------------------------------------
(* The theorem.                                                            *)

(* Every step of a reader is a call of ByteSource, or changes nothing that *)
(* it sees.                                                                *)
LEMMA StepIs ==
  ASSUME RestoresInString, Step
  PROVE  [Source!Call]_(Source!vars)
<1>1. ASSUME Source!Call PROVE [Source!Call]_(Source!vars)
  BY <1>1
<1>2. CASE UNCHANGED <<objects, reader, mode, ret>>
  <2>1. AbstractSource' = AbstractSource
    BY <1>2, SourceStill
  <2> QED
    BY <1>2, <2>1 DEF Source!vars, AbstractSource
<1>3. CASE \/ \E c \in Cells, s \in Data : MakeString(c, s)
           \/ \E c \in Cells : DropString(c)
  BY <1>2, <1>3 DEF MakeString, DropString
<1>4. ASSUME NEW r \in Readers, ReaderNew(r) PROVE Source!Call
  BY <1>4, NewIs DEF Source!Call
<1>5. ASSUME NEW r \in Readers, NEW q \in Readers, ReaderClone(r, q) PROVE Source!Call
  BY <1>5, CloneIs DEF Source!Call
<1>6. ASSUME NEW r \in Readers, ReaderFree(r) PROVE Source!Call
  BY <1>6, FreeIs DEF Source!Call
<1>7. ASSUME NEW r \in Readers, NEW p \in Cells \cup Literals, Construct(r, p) PROVE Source!Call
  BY <1>7, ConstructIs DEF Source!Call
<1>8. ASSUME NEW r \in Readers, NEW x, NEW y, Unserialize(r, x, y) PROVE Source!Call
  BY <1>8, UnserializeIs DEF Source!Call
<1>9. ASSUME NEW r \in Readers, NEW n \in Lengths, ReadByteArray(r, n) PROVE Source!Call
  BY <1>9, ReadByteArrayIs DEF Source!Call
<1>10. ASSUME NEW r \in Readers, NEW n \in Offsets, SetOffset(r, n) PROVE Source!Call
  BY <1>10, SetOffsetIs DEF Source!Call
<1>11. ASSUME NEW r \in Readers, NEW n \in Widths, ReadType(r, n) PROVE Source!Call
  <2>1. r \in objects /\ n \in Nat /\ Take("readType", r, n)
    BY <1>11, NumbersAssumption DEF ReadType, Callable, Long
  <2>2. Source!Read("readType", r, n)
    BY <2>1, TakeIs
  <2> QED
    BY <2>1, <2>2 DEF Source!Call
<1>12. ASSUME NEW r \in Readers, NEW m \in VarIntSizes, ReadVarInt(r, m) PROVE Source!Call
  BY <1>12, ReadVarIntIs DEF Source!Call
<1>13. ASSUME NEW r \in Readers,
              \/ GetData(r) \/ Serialize(r) \/ DebugInfo(r) \/ GetOffset(r) \/ GetUnreadLength(r)
              \/ \E q \in Readers : ReaderCompareObjects(r, q)
       PROVE  Source!Call
  <2>1. r \in objects /\ Source!Observe(r)
    BY <1>13, SharesIs, OffsetsAre, CompareIs
  <2> QED
    BY <2>1 DEF Source!Call
<1>14. ASSUME NEW p \in Cells \cup Literals, NEW n \in Widths, UnpackType(p, n) PROVE Source!Call
  BY <1>14, UnpackTypeIs DEF Source!Call
<1>15. ASSUME NEW p \in Cells \cup Literals, NEW m \in VarIntSizes, UnpackVarInt(p, m)
       PROVE  Source!Call
  BY <1>15, UnpackVarIntIs DEF Source!Call
<1> QED
  <2>1. CASE UNCHANGED vars
    BY <1>2, <2>1 DEF vars
  <2>2. CASE Next
    BY <1>1, <1>3, <1>4, <1>5, <1>6, <1>7, <1>8, <1>9, <1>10, <1>11, <1>12, <1>13, <1>14, <1>15,
       <2>2 DEF Next
  <2> QED
    BY <2>1, <2>2 DEF Step

(* Every call has the effect and the result that ByteSource promises: a    *)
(* read returns the bytes at the reader's own offset and moves it behind   *)
(* them, or throws and moves nothing; no call moves or changes another     *)
(* reader that shares the string.  The offsets passed to __unserialize     *)
(* must lie within their strings.                                          *)
THEOREM ImplementsSourceAlways ==
  ASSUME RestoresInString PROVE Spec => ImplementsSource
<1>1. Init => Source!Init
  <2> SUFFICES ASSUME Init PROVE Source!Init
    OBVIOUS
  <2>1. AbstractSource = [r \in Readers |-> Source!Blank] /\ objects = {} /\ mode = "running"
    BY DEF Init, AbstractSource, Abstraction, Source!Blank
  <2>2. PICK r \in Readers :
          ret = [op |-> "none", by |-> r, exc |-> <<>>, str |-> <<>>, num |-> 0]
    BY DEF Init
  <2>3. /\ ret.op = "none" /\ ret.by = r /\ ret.str = <<>> /\ ret.num = 0
        /\ (ret.exc # <<>>) = FALSE
    BY <2>2
  <2>4. [op |-> ret.op, by |-> ret.by, threw |-> ret.exc # <<>>,
         str |-> ret.str, num |-> ret.num] =
          [op |-> "none", by |-> r, threw |-> FALSE, str |-> <<>>, num |-> 0]
    BY <2>3
  <2> QED
    BY <2>1, <2>4 DEF Source!Init, AbstractSource
<1>2. ASSUME IInv, OffsetInString, [Next]_vars PROVE [Source!Next]_(Source!vars)
  <2>1. CASE mode' = "running"
    <3>1. Step /\ mode = "running"
      BY <1>2, <2>1, ModeStep DEF Step
    <3>2. [Source!Call]_(Source!vars)
      BY <3>1, StepIs
    <3> QED
      BY <2>1, <3>1, <3>2 DEF Source!Next
  <2>2. CASE mode' # "running"
    BY <2>2 DEF Source!Next
  <2> QED
    BY <2>1, <2>2
<1> QED
  BY <1>1, <1>2, IInvAlways, OffsetInStringAlways, PTL DEF Spec, Source!Spec, ImplementsSource
=============================================================================
