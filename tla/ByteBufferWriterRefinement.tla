--------------------- MODULE ByteBufferWriterRefinement ---------------------
(***************************************************************************)
(* What a call of ByteBufferWriter does to the capacity of the writers and *)
(* to what an aborted request leaves behind, and the theorem that          *)
(* ByteBufferWriter implements ByteSink: one lemma per call, which names   *)
(* the call of ByteSink that it is.                                        *)
(***************************************************************************)
EXTENDS ByteBufferWriterProofs

----------------------------------------------------------------------------
(* Capacity.                                                               *)

(* What CapacityPolicy says of a step. *)
Policy ==
  \A w \in objects \cap objects' :
     mode' = "running" /\ writer'[w].length # writer[w].length =>
       \/ ret'.op \in {"__construct", "__unserialize"}
       \/ writer'[w].length >= 2 * writer[w].length
       \/ ret'.op = "trim" /\ writer'[w].length = writer'[w].used

(* A call that leaves the writers alone changes no capacity.               *)
LEMMA PolicyStill == ASSUME UNCHANGED writer PROVE Policy
BY DEF Policy

(* A call that changes one writer, in one of the four ways.                *)
LEMMA PolicyUpdate ==
  ASSUME TypeOK, NEW w \in Writers, NEW r, Update(w, r),
         w \in objects /\ mode' = "running" =>
           \/ ret'.op \in {"__construct", "__unserialize"}
           \/ r.length = writer[w].length
           \/ r.length >= 2 * writer[w].length
           \/ ret'.op = "trim" /\ r.length = r.used
  PROVE  Policy
<1>1. writer'[w] = r /\ \A v \in Writers \ {w} : writer'[v] = writer[v]
  BY DEF Update, TypeOK
<1>2. objects \subseteq Writers
  BY DEF TypeOK
<1> QED
  BY <1>1, <1>2 DEF Policy

(* extendBuffer doubles the length, or more, or leaves it.                 *)
LEMMA Doubles ==
  ASSUME NEW length \in 0 .. MaxCapacity, NEW o \in Size, NEW n \in Size
  PROVE  \/ Extended(length, o, n) = length
         \/ Extended(length, o, n) >= 2 * length
<1>1. Wrap(2 * length) = 2 * length /\ Wrap(o + n) \in Nat
  BY ExtendedType, SizeAssumption DEF Wrap, Size
<1> QED
  BY <1>1, SizeAssumption DEF Extended, Larger

(* writer_init_properties, in a call that is none of those CapacityPolicy  *)
(* excepts only if the object is new.                                      *)
LEMMA PolicyInit ==
  ASSUME TypeOK, mode = "running", NEW op, NEW w \in Writers, NEW s, NEW o,
         WriterInitProperties(op, w, s, o),
         op \in {"__construct", "__unserialize"} \/ w \notin objects
  PROVE  Policy
<1>1. CASE Bailout
  BY <1>1 DEF Bailout, Policy
<1>2. ASSUME NEW r, Update(w, r), Returns(op, w, <<>>, 0) PROVE Policy
  <2>1. ret'.op = op
    BY <1>2 DEF Returns
  <2> QED
    BY <1>2, <2>1, PolicyUpdate
<1> QED
  BY <1>1, <1>2 DEF WriterInitProperties

(* A write lets the capacity grow, and never a little.                     *)
LEMMA PolicyStore ==
  ASSUME TypeOK, RunningInv, NEW op, NEW w \in Writers, NEW v \in Seq(Byte), NEW room \in Size,
         Store(op, w, v, room)
  PROVE  Policy
<1> DEFINE r == writer[w]
           length == Extended(r.length, r.offset, room)
<1>1. w \in objects /\ r.length \in 0 .. MaxCapacity /\ r.offset \in Size
  BY OwnerType DEF Store, Callable, TypeOK
<1>2. length = r.length \/ length >= 2 * r.length
  BY <1>1, Doubles
<1> HIDE DEF length
<1>3. CASE UNCHANGED writer
  BY <1>3, PolicyStill
<1>4. ASSUME NEW k, Update(w, k), k.length = length PROVE Policy
  BY <1>2, <1>4, PolicyUpdate
<1>5. [r EXCEPT !.length = length].length = length
  BY DEF TypeOK
<1> QED
  BY <1>3, <1>4, <1>5 DEF Store, length, ExtendFails, Fault, Untouched

(* So does reserve.                                                        *)
LEMMA PolicyReserve ==
  ASSUME TypeOK, RunningInv, NEW w \in Writers, NEW n \in Lengths, Reserve(w, n)
  PROVE  Policy
<1> DEFINE r == writer[w]
           length == Extended(r.length, n, 0)
<1>1. w \in objects /\ r.length \in 0 .. MaxCapacity /\ n \in Int
  BY OwnerType, ArgumentsAssumption DEF Reserve, Callable, TypeOK, Long
<1>2. n > 0 => length = r.length \/ length >= 2 * r.length
  <2>1. n > 0 => n \in Size /\ 0 \in Size
    BY <1>1, ArgumentsAssumption, SizeAssumption DEF Size, Long
  <2> QED
    BY <1>1, <2>1, Doubles
<1> HIDE DEF length
<1>3. CASE UNCHANGED writer
  BY <1>3, PolicyStill
<1>4. ASSUME n > 0, NEW k, Update(w, k), k.length = length PROVE Policy
  BY <1>2, <1>4, PolicyUpdate
<1>5. /\ [r EXCEPT !.length = length].length = length
      /\ \A b : [r EXCEPT !.buffer = b, !.length = length].length = length
  BY DEF TypeOK
<1>6. CASE n <= 0
  BY <1>3, <1>6 DEF Reserve, Throws, Untouched
<1>7. CASE n > 0
  <2>1. ~ (n <= 0)
    BY <1>1, <1>7
  <2>2. \/ UNCHANGED writer
        \/ Update(w, [r EXCEPT !.length = length])
        \/ \E b : Update(w, [r EXCEPT !.buffer = b, !.length = length])
    BY <2>1, Zenon DEF Reserve, length, ExtendFails, Fault, Untouched
  <2> QED
    BY <1>3, <1>4, <1>5, <1>7, <2>2
<1> QED
  BY <1>1, <1>6, <1>7

(* trim is where a capacity may shrink.                                    *)
LEMMA PolicyTrim ==
  ASSUME TypeOK, NEW w \in Writers, Trim(w) PROVE Policy
<1> DEFINE r == writer[w]
<1>1. CASE UNCHANGED writer
  BY <1>1, PolicyStill
<1>2. ASSUME NEW b, Update(w, [r EXCEPT !.buffer = b, !.length = r.used]),
             Returns("trim", w, <<>>, 0)
      PROVE  Policy
  <2>1. [r EXCEPT !.buffer = b, !.length = r.used].length = r.used
        /\ [r EXCEPT !.buffer = b, !.length = r.used].used = r.used
    BY DEF TypeOK
  <2>2. ret'.op = "trim"
    BY <1>2 DEF Returns
  <2> QED
    BY <1>2, <2>1, <2>2, PolicyUpdate
<1> QED
  BY <1>1, <1>2 DEF Trim, Untouched, Fault

(* setOffset and clear move positions only.                                *)
LEMMA PolicyMove ==
  ASSUME TypeOK, NEW w \in Writers, Clear(w) \/ \E n \in Offsets : SetOffset(w, n) PROVE Policy
<1>1. CASE UNCHANGED writer
  BY <1>1, PolicyStill
<1>2. ASSUME NEW r, Update(w, r), r.length = writer[w].length PROVE Policy
  BY <1>2, PolicyUpdate
<1>3. /\ [writer[w] EXCEPT !.offset = 0, !.used = 0].length = writer[w].length
      /\ \A n : [writer[w] EXCEPT !.offset = n].length = writer[w].length
  BY DEF TypeOK
<1> QED
  BY <1>1, <1>2, <1>3 DEF Clear, SetOffset, Throws, Untouched

(* Objects are created and freed.                                          *)
LEMMA PolicyObjects ==
  ASSUME TypeOK, mode = "running", NEW w \in Writers,
         WriterNew(w) \/ WriterFree(w) \/ \E v \in Writers : WriterClone(v, w)
  PROVE  Policy
<1>1. CASE UNCHANGED writer
  BY <1>1, PolicyStill
<1>2. ASSUME NEW op, NEW s, NEW o, Create(op, w, s, o), w \notin objects PROVE Policy
  BY <1>1, <1>2, PolicyInit DEF Create, Untouched
<1>3. ASSUME objects' = objects \ {w}, Update(w, Blank) PROVE Policy
  BY <1>3 DEF Policy, Update, TypeOK
<1> QED
  BY <1>1, <1>2, <1>3 DEF WriterNew, WriterFree, WriterClone, Fault, Untouched

(* No other call changes a capacity, but for those that make the buffer    *)
(* anew.                                                                   *)
LEMMA PolicyStep == ASSUME IInv, mode = "running", [Next]_vars PROVE Policy
<1>1. TypeOK /\ RunningInv
  BY DEF IInv
<1>2. CASE UNCHANGED writer
  BY <1>2, PolicyStill
<1>3. ASSUME NEW w \in Writers, NEW s \in Strings, WriteByteArray(w, s) PROVE Policy
  <2>1. s \in Seq(Byte) /\ Len(s) \in Size
    BY StringsAssumption, SizeAssumption DEF Size
  <2> QED
    BY <1>1, <1>3, <2>1, PolicyStore DEF WriteByteArray
<1>4. ASSUME NEW w \in Writers, NEW e \in Encodings, WriteType(w, e) PROVE Policy
  <2>1. e.bytes \in Seq(Byte) /\ e.room \in Size
    BY EncodingsAssumption, SizeAssumption DEF Size
  <2> QED
    BY <1>1, <1>4, <2>1, PolicyStore DEF WriteType
<1>5. ASSUME NEW w \in Writers, NEW s \in Strings, Construct(w, s) PROVE Policy
  BY <1>1, <1>2, <1>5, PolicyInit DEF Construct, Fault, Untouched
<1>6. ASSUME NEW w \in Writers, NEW a \in Arrays \cup Returned, Unserialize(w, a) PROVE Policy
  BY <1>1, <1>2, <1>6, PolicyInit DEF Unserialize, Fault, Throws, Untouched
<1>7. ASSUME NEW w \in Writers,
             \/ GetData(w) \/ Serialize(w) \/ DebugInfo(w)
             \/ GetOffset(w) \/ GetUsedLength(w) \/ GetReservedLength(w)
             \/ \E v \in Writers : WriterCompareObjects(w, v)
      PROVE  UNCHANGED writer
  BY <1>7 DEF GetData, Serialize, DebugInfo, Dump, GetOffset, GetUsedLength, GetReservedLength,
              GetNumber, WriterCompareObjects, Fault, Untouched
<1>8. ASSUME NEW e \in Encodings, PackType(e) PROVE UNCHANGED writer
  BY <1>8 DEF PackType, Fault, Untouched
<1>9. CASE Next
  BY <1>1, <1>2, <1>3, <1>4, <1>5, <1>6, <1>7, <1>8, <1>9, PolicyReserve, PolicyTrim, PolicyMove,
     PolicyObjects DEF Next
<1> QED
  BY <1>2, <1>9 DEF vars

(* The capacity of a writer changes only by doubling or more, by trim to   *)
(* the written part, or by __construct and __unserialize, which replace    *)
(* the block: for writers and sizes of any number.                         *)
THEOREM CapacityPolicyAlways ==
  ASSUME RestoresInOrder PROVE Spec => CapacityPolicy
<1>1. IInv /\ [Next]_vars => Policy
  <2> SUFFICES ASSUME IInv, [Next]_vars PROVE Policy
    OBVIOUS
  <2>1. CASE mode' = "running"
    BY <2>1, NeverResumes, PolicyStep
  <2>2. CASE mode' # "running"
    BY <2>2 DEF Policy
  <2> QED
    BY <2>1, <2>2
<1>2. IInv /\ [Next]_vars => [Policy]_vars
  BY <1>1
<1>3. [][Policy]_vars => CapacityPolicy
  BY PTL DEF Policy, CapacityPolicy
<1> QED
  BY <1>2, <1>3, InOrderAlways, PTL DEF Spec

----------------------------------------------------------------------------
(* What an aborted request leaves behind.                                  *)

(* What AbortKeepsContents says of a step. *)
KeepsContents ==
  mode = "running" /\ mode' = "shutdown" =>
    \A w \in objects :
      writer'[w].buffer \in allocated' =>
        /\ Contents(w)' = Contents(w)
        /\ writer'[w].offset = writer[w].offset

(* A call that does not die, or dies before it has changed anything.       *)
LEMMA KeepsStill == ASSUME UNCHANGED mode \/ Fault \/ Untouched PROVE KeepsContents
BY DEF KeepsContents, Untouched, Fault, Contents, Prefix

(* extendBuffer dies with a new length and the old block.                  *)
LEMMA KeepsExtend ==
  ASSUME TypeOK, NEW w \in Writers, NEW n, ExtendFails(w, n) PROVE KeepsContents
<1>1. /\ writer'[w].buffer = writer[w].buffer /\ writer'[w].used = writer[w].used
      /\ writer'[w].offset = writer[w].offset
      /\ \A v \in Writers \ {w} : writer'[v] = writer[v]
      /\ heap' = heap /\ objects \subseteq Writers
  BY DEF ExtendFails, Update, TypeOK
<1>2. ASSUME NEW v \in objects
      PROVE  /\ writer'[v].buffer = writer[v].buffer /\ writer'[v].used = writer[v].used
             /\ writer'[v].offset = writer[v].offset
  BY <1>1
<1> QED
  BY <1>1, <1>2 DEF KeepsContents, Contents, Prefix

(* writer_init_properties dies when it has freed the block of w, which is  *)
(* no other writer's.                                                      *)
LEMMA KeepsInit ==
  ASSUME IInv, NEW op, NEW w \in Writers, NEW t, NEW o, WriterInitProperties(op, w, t, o)
  PROVE  KeepsContents
<1> DEFINE b == writer[w].buffer
<1>1. SUFFICES ASSUME mode = "running", mode' = "shutdown", NEW v \in objects,
                      writer'[v].buffer \in allocated'
               PROVE  Contents(v)' = Contents(v) /\ writer'[v].offset = writer[v].offset
  BY DEF KeepsContents
<1>2. TypeOK /\ RunningInv /\ v \in Writers
  BY <1>1 DEF IInv, TypeOK
<1>3. /\ allocated' = allocated \ {b}
      /\ heap' = [d \in Blocks |-> IF d = b THEN <<>> ELSE heap[d]]
      /\ Update(w, [writer[w] EXCEPT !.length = Len(t), !.offset = o, !.used = Len(t)])
  BY <1>1 DEF WriterInitProperties, Returns
<1>4. writer'[w].buffer = b /\ \A u \in Writers \ {w} : writer'[u] = writer[u]
  BY <1>2, <1>3 DEF Update, TypeOK
<1>5. v # w
  BY <1>1, <1>3, <1>4
<1>6. writer'[v] = writer[v] /\ writer[v].buffer # b /\ writer[v].buffer \in Blocks
  BY <1>1, <1>2, <1>3, <1>4, <1>5, OwnerType
<1>7. heap'[writer[v].buffer] = heap[writer[v].buffer]
  BY <1>3, <1>6
<1> QED
  BY <1>6, <1>7 DEF Contents, Prefix

(* A call that dies has not changed what was written.                      *)
LEMMA KeepsStep == ASSUME IInv, [Next]_vars PROVE KeepsContents
<1>1. TypeOK
  BY DEF IInv
<1>2. CASE UNCHANGED mode \/ Fault \/ Untouched
  BY <1>2, KeepsStill
<1>3. ASSUME NEW op, NEW w, NEW exc, Throws(op, w, exc) PROVE Untouched
  BY <1>3 DEF Throws
<1>4. ASSUME NEW op, NEW w, NEW t, NEW num, Returns(op, w, t, num) PROVE UNCHANGED mode
  BY <1>4 DEF Returns
<1>5. ASSUME NEW op, NEW w \in Writers, NEW t, NEW o, Create(op, w, t, o) PROVE KeepsContents
  BY <1>2, <1>5, KeepsInit DEF Create
<1>6. ASSUME NEW op, NEW w \in Writers, NEW v, NEW room, Store(op, w, v, room)
      PROVE  KeepsContents
  BY <1>1, <1>2, <1>4, <1>6, KeepsExtend DEF Store
<1>7. ASSUME NEW w \in Writers, NEW n \in Lengths, Reserve(w, n) PROVE KeepsContents
  BY <1>1, <1>2, <1>3, <1>4, <1>7, KeepsExtend DEF Reserve
<1>8. ASSUME NEW w \in Writers,
             \/ \E s \in Strings : Construct(w, s)
             \/ \E a \in Arrays \cup Returned : Unserialize(w, a)
      PROVE  KeepsContents
  BY <1>2, <1>3, <1>8, KeepsInit DEF Construct, Unserialize
<1>9. ASSUME NEW w \in Writers,
             \/ GetData(w) \/ Serialize(w) \/ DebugInfo(w) \/ GetOffset(w) \/ GetUsedLength(w)
             \/ GetReservedLength(w) \/ Trim(w) \/ Clear(w) \/ WriterFree(w)
             \/ \E v \in Writers : WriterCompareObjects(w, v)
             \/ \E n \in Offsets : SetOffset(w, n)
      PROVE  UNCHANGED mode \/ Fault \/ Untouched
  BY <1>3, <1>4, <1>9 DEF GetData, Serialize, DebugInfo, Dump, GetOffset, GetUsedLength,
     GetReservedLength, GetNumber, Trim, Clear, WriterFree, WriterCompareObjects, SetOffset
<1>10. ASSUME NEW e \in Encodings, PackType(e) PROVE UNCHANGED mode \/ Fault \/ Untouched
  BY <1>4, <1>10 DEF PackType
<1>11. CASE Next
  BY <1>2, <1>5, <1>6, <1>7, <1>8, <1>9, <1>10, <1>11
     DEF Next, WriterNew, WriterClone, WriteByteArray, WriteType
<1>12. CASE UNCHANGED vars
  BY <1>2, <1>12 DEF vars
<1> QED
  BY <1>11, <1>12

(* A request that dies for lack of memory leaves every writer that still   *)
(* has a block with the bytes and the position it had, so that a shutdown  *)
(* function can read them: whichever call it was, of how many writers.     *)
THEOREM AbortKeepsContentsAlways ==
  ASSUME RestoresInOrder PROVE Spec => AbortKeepsContents
<1>1. IInv /\ [Next]_vars => [KeepsContents]_vars
  BY KeepsStep
<1>2. [][KeepsContents]_vars => AbortKeepsContents
  BY PTL DEF KeepsContents, AbortKeepsContents
<1> QED
  BY <1>1, <1>2, InOrderAlways, PTL DEF Spec

----------------------------------------------------------------------------
(* Refinement.                                                             *)

(* The variable of ByteSink that it does not share. *)
AbstractSink == [w \in Writers |-> Abstraction(w)]

(* A call of a request that is still running when it is over. *)
Step == IInv /\ [Next]_vars /\ mode' = "running"

(* What a step starts from. *)
LEMMA StepFacts ==
  ASSUME Step
  PROVE  /\ TypeOK /\ RunningInv /\ mode = "running"
         /\ \A w \in objects :
              /\ w \in Writers /\ InOrder(w) /\ Readable(w)
              /\ writer[w].buffer \in allocated /\ writer[w].buffer \in Blocks
              /\ writer[w].buffer # Wild
              /\ writer[w].length \in 0 .. MaxCapacity
              /\ writer[w].used \in 0 .. writer[w].length
              /\ writer[w].offset \in 0 .. writer[w].used
              /\ Contents(w) \in Seq(Byte) /\ Len(Contents(w)) = writer[w].used
              /\ \A i \in 1 .. writer[w].used : Contents(w)[i] = heap[writer[w].buffer][i]
              /\ AbstractSink[w] = [data |-> Contents(w), pos |-> writer[w].offset]
<1>1. TypeOK /\ RunningInv /\ mode = "running"
  BY NeverResumes DEF Step, IInv
<1>2. ASSUME NEW w \in objects PROVE w \in Writers /\ InOrder(w) /\ Readable(w)
  BY <1>1, OwnerType DEF TypeOK, RunningInv
<1>3. ASSUME NEW w \in objects
      PROVE  AbstractSink[w] = [data |-> Contents(w), pos |-> writer[w].offset]
  BY <1>1, <1>2 DEF AbstractSink, Abstraction
<1> QED
  BY <1>1, <1>2, <1>3, OwnerType, ReadInOrder, ReadType DEF InOrder

(* A call that leaves the writers alone leaves what ByteSink sees of them  *)
(* alone.                                                                  *)
LEMMA SinkStill == ASSUME Step, Untouched PROVE AbstractSink' = AbstractSink
BY StepFacts DEF Step, AbstractSink, Abstraction, Contents, Prefix, Untouched

(* The written bytes of a writer are d if its block begins with d. *)
LEMMA ContentsAre ==
  ASSUME NEW t \in Seq(Content), NEW d \in Seq(Content), Len(d) <= Len(t),
         \A i \in 1 .. Len(d) : t[i] = d[i]
  PROVE  (IF Len(d) = 0 THEN <<>> ELSE SubSeq(t, 1, Len(d))) = d
<1>1. CASE Len(d) = 0
  BY <1>1
<1>2. CASE Len(d) # 0
  <2>1. Len(d) \in 1 .. Len(t)
    BY <1>2
  <2>2. /\ SubSeq(t, 1, Len(d)) \in Seq(Content) /\ Len(SubSeq(t, 1, Len(d))) = Len(d)
        /\ \A i \in 1 .. Len(d) : SubSeq(t, 1, Len(d))[i] = t[i]
    BY <2>1, PrefixType
  <2>3. SubSeq(t, 1, Len(d)) = d
    BY <2>2, SeqEqual
  <2> QED
    BY <1>2, <2>3
<1> QED
  BY <1>1, <1>2

(* One writer gets the record k, and its block begins with d; the blocks   *)
(* of the others stay as they are.                                         *)
LEMMA SinkMoved ==
  ASSUME Step, NEW w \in Writers, NEW k, NEW d \in Seq(Byte), NEW t \in Seq(Content),
         objects' = objects \cup {w}, Update(w, k), heap'[k.buffer] = t,
         k.used = Len(d), Len(d) <= Len(t), \A i \in 1 .. Len(d) : t[i] = d[i],
         \A v \in objects \ {w} : heap'[writer[v].buffer] = heap[writer[v].buffer]
  PROVE  AbstractSink' = [AbstractSink EXCEPT ![w] = [data |-> d, pos |-> k.offset]]
<1>1. mode = "running" /\ mode' = "running" /\ objects \subseteq Writers
  BY StepFacts DEF Step
<1>2. writer'[w] = k /\ \A v \in Writers \ {w} : writer'[v] = writer[v]
  BY StepFacts DEF Update, TypeOK
<1>3. d \in Seq(Content)
  BY DEF Content
<1>4. Contents(w)' = d
  BY <1>2, <1>3, ContentsAre DEF Contents, Prefix
<1>5. Abstraction(w)' = [data |-> d, pos |-> k.offset]
  BY <1>1, <1>2, <1>4 DEF Abstraction
<1>6. ASSUME NEW v \in Writers \ {w} PROVE Abstraction(v)' = Abstraction(v)
  BY <1>1, <1>2 DEF Abstraction, Contents, Prefix
<1> QED
  BY <1>5, <1>6 DEF AbstractSink

(* A new block c takes the place of the block of w. *)
LEMMA SinkReplaced ==
  ASSUME Step, NEW w \in Writers, NEW k, NEW d \in Seq(Byte), NEW t \in Seq(Content),
         NEW c \in Blocks, c \notin allocated \ {writer[w].buffer},
         objects' = objects \cup {w}, Update(w, k), Replace(writer[w].buffer, c, t),
         k.buffer = c, k.used = Len(d), Len(d) <= Len(t), \A i \in 1 .. Len(d) : t[i] = d[i]
  PROVE  AbstractSink' = [AbstractSink EXCEPT ![w] = [data |-> d, pos |-> k.offset]]
<1>1. heap'[c] = t
  BY DEF Replace
<1>2. ASSUME NEW v \in objects, v # w
      PROVE  heap'[writer[v].buffer] = heap[writer[v].buffer]
  <2>1. writer[v].buffer \in allocated /\ writer[v].buffer \in Blocks
    BY StepFacts
  <2>2. writer[v].buffer # writer[w].buffer
    <3>1. CASE w \in objects
      BY <1>2, <3>1, StepFacts DEF RunningInv
    <3>2. CASE w \notin objects
      BY <2>1, <3>2, StepFacts, OwnerType
    <3> QED
      BY <3>1, <3>2
  <2> QED
    BY <2>1, <2>2 DEF Replace
<1> QED
  BY <1>1, <1>2, SinkMoved

(* Results and exceptions are those of ByteSink. *)
LEMMA SinkReturns ==
  ASSUME NEW op, NEW w, NEW str, NEW num, Returns(op, w, str, num)
  PROVE  Sink!Returns(op, w, str, num)
BY DEF Returns, Sink!Returns

(* An exception is an exception of ByteSink.                               *)
LEMMA SinkThrows ==
  ASSUME Step, NEW op, NEW w, NEW exc, exc # <<>>, Throws(op, w, exc)
  PROVE  Sink!Throws(op, w) /\ AbstractSink' = AbstractSink /\ UNCHANGED objects
<1>1. ret' = [op |-> op, by |-> w, exc |-> exc, str |-> <<>>, num |-> 0]
  BY DEF Throws, Bailout, Step
<1>2. /\ ret'.op = op /\ ret'.by = w /\ ret'.str = <<>> /\ ret'.num = 0
      /\ (ret'.exc # <<>>) = TRUE
  BY <1>1
<1>3. Sink!Throws(op, w)
  BY <1>2 DEF Sink!Throws
<1> QED
  BY <1>3, SinkStill DEF Throws, Untouched

(* No allocation failed if the request is still running. *)
LEMMA NoBailout == ASSUME Step PROVE ~ Bailout /\ ~ Fault
BY DEF Step, Bailout, Fault

----------------------------------------------------------------------------
(* What the operators of ByteSink say of AbstractSink.                     *)

(* Become of ByteSink, in terms of the writers.                            *)
LEMMA BecomeMeans ==
  ASSUME NEW op, NEW w, NEW k
  PROVE  Sink!Become(op, w, k) <=>
           /\ AbstractSink' = [AbstractSink EXCEPT ![w] = k]
           /\ Sink!Returns(op, w, <<>>, 0)
BY DEF Sink!Become, AbstractSink

(* Observe of ByteSink, in terms of the writers.                           *)
LEMMA ObserveMeans ==
  ASSUME NEW w
  PROVE  LET k == AbstractSink[w] IN
         Sink!Observe(w) <=>
           /\ \/ Sink!Returns("getData", w, k.data, 0)
              \/ Sink!Returns("getOffset", w, <<>>, k.pos)
              \/ Sink!Returns("getUsedLength", w, <<>>, Len(k.data))
              \/ /\ ret'.num >= Len(k.data)
                 /\ Sink!Returns("getReservedLength", w, <<>>, ret'.num)
              \/ Sink!Returns("__serialize", w, k.data, k.pos)
              \/ Sink!Returns("__debugInfo", w, k.data, k.pos)
              \/ Sink!Returns("reserve", w, <<>>, 0)
              \/ Sink!Throws("reserve", w)
              \/ Sink!Returns("trim", w, <<>>, 0)
              \/ \E v \in objects \ {w} :
                   Sink!Returns("compare", w, <<>>, IF k = AbstractSink[v] THEN 0 ELSE 1)
           /\ UNCHANGED objects /\ AbstractSink' = AbstractSink
<1>1. ret'.num = [op |-> ret.op, by |-> ret.by, threw |-> ret.exc # <<>>,
                  str |-> ret.str, num |-> ret.num]'.num
  OBVIOUS
<1> QED
  BY <1>1 DEF Sink!Observe, AbstractSink

(* Overwrite, element by element. *)
LEMMA OverwriteType ==
  ASSUME NEW s \in Seq(Byte), NEW o \in 0 .. Len(s), NEW v \in Seq(Byte)
  PROVE  LET t == Sink!Overwrite(s, o, v)
             n == Larger(o + Len(v), Len(s))
         IN
         /\ t \in Seq(Byte) /\ Len(t) = n
         /\ \A i \in 1 .. n : t[i] = IF i > o /\ i <= o + Len(v) THEN v[i - o] ELSE s[i]
<1> DEFINE n == Larger(o + Len(v), Len(s))
           e(i) == IF i > o /\ i <= o + Len(v) THEN v[i - o] ELSE s[i]
<1>1. n \in Nat
  BY DEF Larger
<1>2. Sink!Overwrite(s, o, v) = [i \in 1 .. n |-> e(i)]
  BY DEF Sink!Overwrite, Larger
<1>3. ASSUME NEW i \in 1 .. n PROVE e(i) \in Byte
  <2>1. i > o /\ i <= o + Len(v) => i - o \in 1 .. Len(v)
    OBVIOUS
  <2>2. ~ (i > o /\ i <= o + Len(v)) => i \in 1 .. Len(s)
    BY DEF Larger
  <2> QED
    BY <2>1, <2>2
<1> HIDE DEF n, e
<1>4. [i \in 1 .. n |-> e(i)] \in Seq(Byte) /\ Len([i \in 1 .. n |-> e(i)]) = n
  BY <1>1, <1>3
<1> QED
  BY <1>2, <1>4 DEF n, e

----------------------------------------------------------------------------
(* The calls.                                                              *)

(* writer_init_properties. *)
LEMMA InitIs ==
  ASSUME Step, NEW op, NEW w \in Writers, NEW s \in Seq(Byte), NEW o,
         WriterInitProperties(op, w, s, o), objects' = objects \cup {w}
  PROVE  Sink!Become(op, w, [data |-> s, pos |-> o])
<1> DEFINE block == InitialBlock(s)
<1>1. block \in Seq(Content) /\ Len(s) <= Len(block) /\ \A i \in 1 .. Len(s) : block[i] = s[i]
  <2>1. CASE s = <<>>
    <3>1. block = Resized(<<>>, Prealloc) /\ Prealloc \in Nat
      BY <2>1, SizeAssumption DEF InitialBlock
    <3>2. block \in Seq(Content) /\ Len(block) = Prealloc
      BY <3>1, ResizedType, Empty
    <3> QED
      BY <2>1, <3>1, <3>2
  <2>2. CASE s # <<>>
    BY <2>2 DEF InitialBlock, Content
  <2> QED
    BY <2>1, <2>2
<1> HIDE DEF block
<1>2. PICK b \in Blocks \ (allocated \ {writer[w].buffer}) :
        /\ Replace(writer[w].buffer, b, block)
        /\ Update(w, [buffer |-> b, length |-> Len(block), offset |-> o, used |-> Len(s)])
        /\ Returns(op, w, <<>>, 0)
  BY NoBailout DEF WriterInitProperties, block
<1> DEFINE k == [buffer |-> b, length |-> Len(block), offset |-> o, used |-> Len(s)]
<1>3. k.buffer = b /\ k.used = Len(s) /\ k.offset = o /\ Update(w, k)
  BY <1>2
<1> HIDE DEF k
<1>4. AbstractSink' = [AbstractSink EXCEPT ![w] = [data |-> s, pos |-> k.offset]]
  BY <1>1, <1>2, <1>3, SinkReplaced
<1> QED
  BY <1>2, <1>3, <1>4, SinkReturns, BecomeMeans

(* A writer that is made has the bytes and the position it is made with.   *)
LEMMA CreateIs ==
  ASSUME Step, NEW op, NEW w \in Writers, NEW s \in Seq(Byte), NEW o, Create(op, w, s, o)
  PROVE  objects' = objects \cup {w} /\ Sink!Become(op, w, [data |-> s, pos |-> o])
BY InitIs, NoBailout DEF Create

(* The create_object handler is New.                                       *)
LEMMA NewIs == ASSUME Step, NEW w \in Writers, WriterNew(w) PROVE Sink!New(w)
<1>1. <<>> \in Seq(Byte)
  OBVIOUS
<1> QED
  BY <1>1, CreateIs DEF WriterNew, Sink!New, Sink!Blank

(* The clone_obj handler, which copies the block, is Clone.                *)
LEMMA CloneIs ==
  ASSUME Step, NEW w \in Writers, NEW v \in Writers, WriterClone(w, v)
  PROVE  w \in objects /\ Sink!Clone(w, v)
<1>1. /\ w \in objects /\ v \notin objects /\ Contents(w) \in Seq(Byte)
      /\ Create("clone", v, Contents(w), writer[w].offset)
      /\ AbstractSink[w] = [data |-> Contents(w), pos |-> writer[w].offset]
  BY StepFacts DEF WriterClone, Callable
<1>2. objects' = objects \cup {v} /\ Sink!Become("clone", v, AbstractSink[w])
  BY <1>1, CreateIs
<1> QED
  BY <1>1, <1>2 DEF Sink!Clone, AbstractSink

(* The free_obj handler is Free.                                           *)
LEMMA FreeIs ==
  ASSUME Step, NEW w \in Writers, WriterFree(w)
  PROVE  w \in objects /\ Sink!Free(w)
<1>1. /\ w \in objects /\ objects' = objects \ {w} /\ Update(w, Blank)
      /\ heap' = [heap EXCEPT ![writer[w].buffer] = <<>>]
      /\ Returns("free", w, <<>>, 0)
  BY StepFacts DEF WriterFree
<1>2. mode = "running" /\ mode' = "running" /\ objects \subseteq Writers
  BY StepFacts DEF Step
<1>3. \A v \in Writers \ {w} : writer'[v] = writer[v]
  BY <1>1, StepFacts DEF Update, TypeOK
<1>4. ASSUME NEW v \in objects' PROVE heap'[writer[v].buffer] = heap[writer[v].buffer]
  <2>1. v \in objects /\ v # w
    BY <1>1
  <2>2. writer[v].buffer # writer[w].buffer
    BY <1>1, <2>1, StepFacts DEF RunningInv
  <2> QED
    BY <1>1, <2>1, <2>2, StepFacts DEF TypeOK
<1>5. Abstraction(w)' = Sink!Blank
  BY <1>1 DEF Abstraction, Sink!Blank
<1>6. ASSUME NEW v \in Writers \ {w} PROVE Abstraction(v)' = Abstraction(v)
  BY <1>1, <1>2, <1>3, <1>4 DEF Abstraction, Contents, Prefix
<1>7. AbstractSink' = [AbstractSink EXCEPT ![w] = Sink!Blank]
  BY <1>5, <1>6 DEF AbstractSink
<1>8. Sink!Become("free", w, Sink!Blank)
  BY <1>1, <1>7, SinkReturns, BecomeMeans
<1> QED
  BY <1>1, <1>8 DEF Sink!Free

(* A prefix counts as written. *)
LEMMA ConstructIs ==
  ASSUME Step, NEW w \in Writers, NEW s \in Strings, Construct(w, s)
  PROVE  w \in objects /\ Sink!Construct(w, s)
<1>1. w \in objects /\ UNCHANGED objects /\ objects' = objects \cup {w} /\ s \in Seq(Byte)
      /\ WriterInitProperties("__construct", w, s, Len(s))
  BY StepFacts, StringsAssumption DEF Construct, Callable
<1>2. Sink!Become("__construct", w, [data |-> s, pos |-> Len(s)])
  BY <1>1, InitIs
<1>3. Sink!Written(Sink!Blank, s) = [data |-> s, pos |-> Len(s)]
  <2>1. ASSUME NEW e \in Seq(Byte), Len(e) = 0 PROVE Sink!Overwrite(e, 0, s) = s
    <3> DEFINE t == Sink!Overwrite(e, 0, s)
    <3>1. 0 \in 0 .. Len(e) /\ Larger(0 + Len(s), Len(e)) = Len(s)
      BY <1>1, <2>1 DEF Larger
    <3>2. /\ t \in Seq(Byte) /\ Len(t) = Len(s)
          /\ \A i \in 1 .. Len(s) : t[i] = IF i > 0 /\ i <= 0 + Len(s) THEN s[i - 0] ELSE e[i]
      BY <1>1, <3>1, OverwriteType
    <3> HIDE DEF t
    <3>3. \A i \in 1 .. Len(s) : t[i] = s[i]
      BY <1>1, <3>2
    <3>4. t = s
      BY <1>1, <3>2, <3>3, SeqEqual
    <3> QED
      BY <3>4 DEF t
  <2>2. <<>> \in Seq(Byte) /\ Len(<<>>) = 0 /\ 0 + Len(s) = Len(s)
    BY <1>1
  <2>3. Sink!Overwrite(<<>>, 0, s) = s
    BY <2>1, <2>2
  <2> QED
    BY <2>2, <2>3 DEF Sink!Written, Sink!Blank
<1> QED
  BY <1>1, <1>2, <1>3 DEF Sink!Construct

(* __unserialize is Unserialize.                                           *)
LEMMA UnserializeIs ==
  ASSUME RestoresInOrder, Step, NEW w \in Writers, NEW a \in Arrays \cup Returned,
         Unserialize(w, a)
  PROVE  w \in objects /\ \E b \in Arrays \cup Sink!Returned : Sink!Unserialize(w, b)
<1> DEFINE bufferExc == FetchSerializedProperty(a.buffer, "buffer", "string")
           offsetExc == FetchSerializedProperty(a.offset, "offset", "int")
           restores == a.buffer.type = "string" /\ a.offset.type = "int"
<1>1. w \in objects
  BY DEF Unserialize, Callable
<1>2. a \in Arrays \cup Sink!Returned
  BY DEF Returned, Sink!Returned
<1>3. restores <=> bufferExc = <<>> /\ offsetExc = <<>>
  <2>1. \A name, got, type : <<"missing", name>> # <<>> /\ <<"type", name, got, type>> # <<>>
    OBVIOUS
  <2>2. "missing" # "string" /\ "missing" # "int"
    OBVIOUS
  <2> QED
    BY <2>1, <2>2 DEF FetchSerializedProperty
<1>4. CASE ~ restores
  <2>1. PICK exc : exc # <<>> /\ Throws("__unserialize", w, exc)
    BY <1>3, <1>4 DEF Unserialize
  <2>2. Sink!Throws("__unserialize", w) /\ AbstractSink' = AbstractSink /\ UNCHANGED objects
    BY <2>1, SinkThrows
  <2> QED
    BY <1>1, <1>2, <1>4, <2>2 DEF Sink!Unserialize, AbstractSink
<1>5. CASE restores
  <2>1. /\ WriterInitProperties("__unserialize", w, a.buffer.str, Wrap(a.offset.int))
        /\ UNCHANGED objects
    BY <1>1, <1>3, <1>5, StepFacts DEF Unserialize
  <2>2. /\ a.buffer.str \in Seq(Byte) /\ Len(a.buffer.str) <= MaxCapacity
        /\ a.offset.int \in 0 .. Len(a.buffer.str)
    <3>1. CASE a \in Arrays
      BY <1>5, <3>1, ArgumentsAssumption DEF RestoresInOrder, Entry
    <3>2. CASE a \in Returned
      <4>1. /\ a.buffer.str = ret.str /\ a.offset.int = ret.num
            /\ ret.op = "__serialize"
            /\ Uninit \notin {ret.str[i] : i \in DOMAIN ret.str}
        BY <3>2 DEF Returned
      <4>2. ret.str \in Seq(Content)
        BY StepFacts DEF TypeOK
      <4>3. \A i \in 1 .. Len(ret.str) : ret.str[i] \in Byte
        BY <4>1, <4>2 DEF Content
      <4>4. ret.str \in Seq(Byte)
        BY <4>2, <4>3
      <4> QED
        BY <4>1, <4>4, StepFacts DEF RunningInv, ReturnedInOrder
    <3> QED
      BY <3>1, <3>2
  <2>3. Wrap(a.offset.int) = a.offset.int
    BY <2>2, SizeAssumption DEF Wrap
  <2>4. Sink!Become("__unserialize", w, [data |-> a.buffer.str, pos |-> a.offset.int])
    BY <1>1, <2>1, <2>2, <2>3, InitIs
  <2> QED
    BY <1>1, <1>2, <1>5, <2>1, <2>4 DEF Sink!Unserialize
<1> QED
  BY <1>4, <1>5

(* Writes replace the bytes at the offset, and no others.                  *)
LEMMA StoreIs ==
  ASSUME Step, NEW op, NEW w \in Writers, NEW v \in Seq(Byte), NEW room \in 0 .. MaxCapacity,
         Len(v) <= room, Store(op, w, v, room)
  PROVE  w \in objects /\ Sink!Write(op, w, v)
<1> DEFINE r == writer[w]
           grows == Grows(r.length, r.offset, room)
           length == Extended(r.length, r.offset, room)
           block == IF grows THEN Resized(heap[r.buffer], length) ELSE heap[r.buffer]
           end == Wrap(r.offset + Len(v))
           stored == Stored(block, r.offset, v)
           new(b) == [buffer |-> b, length |-> length, offset |-> end,
                      used |-> Larger(end, r.used)]
           data == Contents(w)
           d == Sink!Overwrite(data, r.offset, v)
<1>1. w \in objects
  BY DEF Store, Callable
<1>2. /\ r.buffer \in Blocks /\ r.buffer \in allocated
      /\ r.length \in 0 .. MaxCapacity /\ r.used \in 0 .. r.length /\ r.offset \in 0 .. r.used
      /\ r.offset \in 0 .. r.length
      /\ Len(heap[r.buffer]) = r.length /\ heap[r.buffer] \in Seq(Content)
      /\ data \in Seq(Byte) /\ Len(data) = r.used
      /\ \A i \in 1 .. r.used : data[i] = heap[r.buffer][i]
      /\ AbstractSink[w] = [data |-> data, pos |-> r.offset]
  BY <1>1, StepFacts, SizeAssumption DEF InOrder, TypeOK
<1>3. Len(v) \in Nat /\ Len(v) \in 0 .. MaxCapacity
  BY SizeAssumption
<1>4. /\ end = r.offset + Len(v)
      /\ length \in Nat /\ length >= r.offset + room /\ length >= r.length
      /\ ~ grows => length = r.length
  BY <1>2, <1>3, CapacityType
<1>5. /\ block \in Seq(Content) /\ Len(block) = length
      /\ \A i \in 1 .. r.used : block[i] = data[i]
  <2>1. CASE grows
    <3>1. /\ block \in Seq(Content) /\ Len(block) = length
          /\ \A i \in 1 .. length :
               block[i] = IF i <= Len(heap[r.buffer]) THEN heap[r.buffer][i] ELSE Uninit
      BY <1>2, <1>4, <2>1, ResizedType
    <3> HIDE DEF block, length, data
    <3>2. ASSUME NEW i \in 1 .. r.used PROVE block[i] = data[i]
      <4>1. i \in 1 .. length /\ i <= Len(heap[r.buffer])
        BY <1>2, <1>4, SizeAssumption
      <4> QED
        BY <1>2, <3>1, <4>1
    <3> QED
      BY <3>1, <3>2
  <2>2. CASE ~ grows
    BY <1>2, <1>4, <2>2
  <2> QED
    BY <2>1, <2>2
<1>6. /\ stored \in Seq(Content) /\ Len(stored) = length
      /\ \A i \in 1 .. length :
           stored[i] = IF i > r.offset /\ i <= r.offset + Len(v) THEN v[i - r.offset] ELSE block[i]
  <2>1. r.offset \in Nat
    BY <1>2
  <2> HIDE DEF block, length
  <2> QED
    BY <1>5, <2>1, StoredType
<1>7. r.offset \in 0 .. Len(data) /\ Larger(r.offset + Len(v), Len(data)) = Larger(end, r.used)
  BY <1>2, <1>4
<1>8. /\ d \in Seq(Byte) /\ Len(d) = Larger(end, r.used)
      /\ \A i \in 1 .. Larger(end, r.used) :
           d[i] = IF i > r.offset /\ i <= r.offset + Len(v) THEN v[i - r.offset] ELSE data[i]
  <2> DEFINE n == Larger(r.offset + Len(v), Len(data))
  <2>1. data \in Seq(Byte) /\ r.offset \in 0 .. Len(data) /\ n = Larger(end, r.used)
    BY <1>2, <1>7
  <2> HIDE DEF data, end
  <2>2. /\ d \in Seq(Byte) /\ Len(d) = n
        /\ \A i \in 1 .. n :
             d[i] = IF i > r.offset /\ i <= r.offset + Len(v) THEN v[i - r.offset] ELSE data[i]
    BY <2>1, OverwriteType
  <2> HIDE DEF n, d
  <2> QED
    BY <2>1, <2>2
<1> HIDE DEF grows, length, block, end, stored, data, d
<1>9. Larger(end, r.used) \in 0 .. length
  <2>1. /\ r.used \in Nat /\ r.length \in Nat /\ r.offset \in Nat /\ room \in Nat
        /\ r.used <= r.length
    BY <1>2, SizeAssumption
  <2>2. end \in Nat /\ end <= length /\ r.used <= length /\ length \in Nat
    BY <1>3, <1>4, <2>1
  <2> QED
    BY <2>1, <2>2 DEF Larger
<1>10. ASSUME NEW i \in 1 .. Len(d) PROVE stored[i] = d[i]
  <2>1. i \in 1 .. length /\ i \in 1 .. Larger(end, r.used)
    BY <1>4, <1>8, <1>9
  <2>2. ~ (i > r.offset /\ i <= r.offset + Len(v)) => i \in 1 .. r.used
    BY <1>2, <1>3, <1>4, <2>1, SizeAssumption DEF Larger
  <2> QED
    BY <1>5, <1>6, <1>8, <2>1, <2>2
<1>11. v = <<>> \/ r.offset + Len(v) <= Len(block)
  BY <1>2, <1>3, <1>4, <1>5, SizeAssumption
<1>12. PICK b \in IF grows THEN Places(r.buffer) ELSE {r.buffer} :
         /\ Replace(r.buffer, b, stored) /\ Update(w, new(b))
         /\ Returns(op, w, <<>>, 0) /\ UNCHANGED objects
  BY <1>2, <1>11, NoBailout DEF Store, ExtendFails, grows, length, block, end, stored
<1>13. b \in Blocks /\ b \notin allocated \ {r.buffer}
  BY <1>2 DEF Places
<1>14. /\ new(b).buffer = b /\ new(b).used = Len(d) /\ new(b).offset = end
       /\ objects' = objects \cup {w} /\ Len(d) <= Len(stored)
  BY <1>1, <1>6, <1>8, <1>9, <1>12
<1> HIDE DEF new
<1>15. AbstractSink' = [AbstractSink EXCEPT ![w] = [data |-> d, pos |-> new(b).offset]]
  BY <1>6, <1>8, <1>10, <1>12, <1>13, <1>14, SinkReplaced
<1>16. Sink!Become(op, w, [data |-> d, pos |-> r.offset + Len(v)])
  BY <1>4, <1>12, <1>14, <1>15, SinkReturns, BecomeMeans
<1>17. Sink!Written(AbstractSink[w], v) = [data |-> d, pos |-> r.offset + Len(v)]
  BY <1>2 DEF Sink!Written, d
<1> QED
  BY <1>1, <1>12, <1>16, <1>17 DEF Sink!Write, AbstractSink

(* The write functions are Write, whether they had to grow the block or    *)
(* not.                                                                    *)
LEMMA WriteIs ==
  ASSUME Step, NEW w \in Writers
  PROVE  /\ \A s \in Strings : WriteByteArray(w, s) =>
                                 w \in objects /\ Sink!Write("writeByteArray", w, s)
         /\ \A e \in Encodings : WriteType(w, e) =>
                                 w \in objects /\ Sink!Write("writeType", w, e.bytes)
<1>1. ASSUME NEW s \in Strings, WriteByteArray(w, s)
      PROVE  w \in objects /\ Sink!Write("writeByteArray", w, s)
  <2>1. s \in Seq(Byte) /\ Len(s) \in 0 .. MaxCapacity /\ Len(s) <= Len(s)
    BY StringsAssumption, SizeAssumption
  <2> QED
    BY <1>1, <2>1, StoreIs DEF WriteByteArray
<1>2. ASSUME NEW e \in Encodings, WriteType(w, e)
      PROVE  w \in objects /\ Sink!Write("writeType", w, e.bytes)
  <2>1. e.bytes \in Seq(Byte) /\ e.room \in 0 .. MaxCapacity /\ Len(e.bytes) <= e.room
    BY EncodingsAssumption, SizeAssumption
  <2> QED
    BY <1>2, <2>1, StoreIs DEF WriteType
<1> QED
  BY <1>1, <1>2

(* pack* touches no writer. *)
LEMMA PackIs ==
  ASSUME Step, NEW e \in Encodings, PackType(e)
  PROVE  Sink!Pack(e.bytes)
<1>1. Returns("packType", ret.by, e.bytes, 0) /\ Untouched
  BY NoBailout DEF PackType
<1> QED
  BY <1>1, SinkStill, SinkReturns DEF Sink!Pack, AbstractSink, Untouched

(* A writer keeps its block, of which n bytes are written. *)
LEMMA MovedIs ==
  ASSUME Step, NEW op, NEW w \in objects, NEW k, NEW d \in Seq(Byte),
         Update(w, k), UNCHANGED <<objects, allocated, heap>>, Returns(op, w, <<>>, 0),
         k.buffer = writer[w].buffer, k.used = Len(d), Len(d) <= writer[w].used,
         \A i \in 1 .. Len(d) : Contents(w)[i] = d[i]
  PROVE  Sink!Become(op, w, [data |-> d, pos |-> k.offset])
<1> DEFINE t == heap[writer[w].buffer]
<1>1. /\ w \in Writers /\ t \in Seq(Content) /\ writer[w].used \in Nat
      /\ writer[w].used <= Len(t) /\ heap'[k.buffer] = t /\ objects' = objects \cup {w}
      /\ \A i \in 1 .. writer[w].used : Contents(w)[i] = t[i]
  <2>1. /\ w \in Writers /\ InOrder(w) /\ writer[w].buffer \in Blocks
        /\ writer[w].used \in 0 .. writer[w].length
        /\ \A i \in 1 .. writer[w].used : Contents(w)[i] = t[i]
    BY StepFacts
  <2>2. t \in Seq(Content) /\ writer[w].length = Len(t)
    BY <2>1, StepFacts DEF InOrder, TypeOK
  <2> QED
    BY <2>1, <2>2
<1> HIDE DEF t
<1>2. Len(d) <= Len(t) /\ \A i \in 1 .. Len(d) : t[i] = d[i]
  BY <1>1
<1>3. AbstractSink' = [AbstractSink EXCEPT ![w] = [data |-> d, pos |-> k.offset]]
  BY <1>1, <1>2, SinkMoved
<1> QED
  BY <1>3, SinkReturns, BecomeMeans

(* setOffset is SetOffset.                                                 *)
LEMMA SetOffsetIs ==
  ASSUME Step, NEW w \in Writers, NEW n \in Offsets, SetOffset(w, n)
  PROVE  w \in objects /\ Sink!SetOffset(w, n)
<1>1. /\ w \in objects /\ n \in Int /\ writer[w].used \in Nat
      /\ Contents(w) \in Seq(Byte) /\ Len(Contents(w)) = writer[w].used
      /\ AbstractSink[w] = [data |-> Contents(w), pos |-> writer[w].offset]
  BY StepFacts, ArgumentsAssumption DEF SetOffset, Callable, Long
<1>2. CASE n \in 0 .. writer[w].used
  <2> DEFINE k == [writer[w] EXCEPT !.offset = n]
  <2>1. /\ Update(w, k) /\ UNCHANGED <<objects, allocated, heap>>
        /\ Returns("setOffset", w, <<>>, 0)
    BY <1>1, <1>2 DEF SetOffset
  <2>2. k.buffer = writer[w].buffer /\ k.used = writer[w].used /\ k.offset = n
    BY StepFacts DEF TypeOK
  <2> HIDE DEF k
  <2>3. Sink!Become("setOffset", w, [data |-> Contents(w), pos |-> n])
    BY <1>1, <2>1, <2>2, MovedIs
  <2>4. [AbstractSink[w] EXCEPT !.pos = n] = [data |-> Contents(w), pos |-> n]
    BY <1>1
  <2>5. n \in 0 .. Len(AbstractSink[w].data)
    BY <1>1, <1>2
  <2> QED
    BY <1>1, <2>1, <2>3, <2>4, <2>5 DEF Sink!SetOffset, AbstractSink
<1>3. CASE n \notin 0 .. writer[w].used
  <2>1. Throws("setOffset", w, <<"ValueError">>) /\ <<"ValueError">> # <<>>
    BY <1>1, <1>3 DEF SetOffset
  <2>2. Sink!Throws("setOffset", w) /\ AbstractSink' = AbstractSink /\ UNCHANGED objects
    BY <2>1, SinkThrows
  <2>3. n \notin 0 .. Len(AbstractSink[w].data)
    BY <1>1, <1>3
  <2> QED
    BY <1>1, <2>2, <2>3 DEF Sink!SetOffset, AbstractSink
<1> QED
  BY <1>2, <1>3

(* clear is Clear, and keeps its block.                                    *)
LEMMA ClearIs ==
  ASSUME Step, NEW w \in Writers, Clear(w)
  PROVE  w \in objects /\ Sink!Clear(w)
<1> DEFINE k == [writer[w] EXCEPT !.offset = 0, !.used = 0]
<1>1. /\ w \in objects /\ Update(w, k) /\ UNCHANGED <<objects, allocated, heap>>
      /\ Returns("clear", w, <<>>, 0)
  BY DEF Clear, Callable
<1>2. k.buffer = writer[w].buffer /\ k.used = 0 /\ k.offset = 0
  BY StepFacts DEF TypeOK
<1> DEFINE d == <<>>
<1>3. d \in Seq(Byte) /\ Len(d) = 0
  OBVIOUS
<1>4. 0 <= writer[w].used
  <2>1. writer[w].used \in 0 .. writer[w].length
    BY <1>1, StepFacts
  <2> QED
    BY <2>1
<1> HIDE DEF k, d
<1>5. Len(d) <= writer[w].used /\ \A i \in 1 .. Len(d) : Contents(w)[i] = d[i]
  BY <1>3, <1>4
<1>6. Sink!Become("clear", w, [data |-> d, pos |-> k.offset])
  BY <1>1, <1>2, <1>3, <1>5, MovedIs
<1> QED
  BY <1>1, <1>2, <1>6 DEF Sink!Clear, Sink!Blank, d

(* A call that shows a writer, or changes only its capacity. *)
LEMMA WatchIs ==
  ASSUME Step, NEW w \in objects, UNCHANGED objects, AbstractSink' = AbstractSink,
         \/ Returns("getData", w, Contents(w), 0)
         \/ Returns("getOffset", w, <<>>, writer[w].offset)
         \/ Returns("getUsedLength", w, <<>>, writer[w].used)
         \/ Returns("getReservedLength", w, <<>>, writer[w].length)
         \/ Returns("__serialize", w, Contents(w), writer[w].offset)
         \/ Returns("__debugInfo", w, Contents(w), writer[w].offset)
         \/ Returns("reserve", w, <<>>, 0)
         \/ Returns("trim", w, <<>>, 0)
  PROVE  Sink!Observe(w)
<1>1. /\ AbstractSink[w] = [data |-> Contents(w), pos |-> writer[w].offset]
      /\ Len(Contents(w)) = writer[w].used
      /\ writer[w].used \in 0 .. writer[w].length /\ writer[w].length \in 0 .. MaxCapacity
  BY StepFacts
<1>2. writer[w].length >= Len(AbstractSink[w].data)
  BY <1>1, SizeAssumption
<1>3. ASSUME Returns("getReservedLength", w, <<>>, writer[w].length)
      PROVE  /\ ret'.num >= Len(AbstractSink[w].data)
             /\ Sink!Returns("getReservedLength", w, <<>>, ret'.num)
  <2>1. ret'.num = writer[w].length
    BY <1>3 DEF Returns
  <2> QED
    BY <1>2, <1>3, <2>1, SinkReturns
<1>4. AbstractSink[w].data = Contents(w) /\ AbstractSink[w].pos = writer[w].offset
      /\ Len(AbstractSink[w].data) = writer[w].used
  BY <1>1
<1> QED
  BY <1>3, <1>4, SinkReturns, ObserveMeans

(* reserve and trim: another block that begins with the same bytes.        *)
LEMMA ReallocatedIs ==
  ASSUME Step, NEW w \in objects, NEW b \in Places(writer[w].buffer),
         NEW n \in Nat, writer[w].used <= n,
         Replace(writer[w].buffer, b, Resized(heap[writer[w].buffer], n)),
         Update(w, [writer[w] EXCEPT !.buffer = b, !.length = n]), UNCHANGED objects
  PROVE  AbstractSink' = AbstractSink
<1> DEFINE r == writer[w]
           k == [r EXCEPT !.buffer = b, !.length = n]
           s == heap[r.buffer]
           t == Resized(s, n)
           d == Contents(w)
<1>1. /\ w \in Writers /\ InOrder(w) /\ r.buffer \in Blocks
      /\ r.used \in 0 .. r.length /\ d \in Seq(Byte) /\ Len(d) = r.used
      /\ \A i \in 1 .. r.used : d[i] = s[i]
      /\ AbstractSink[w] = [data |-> d, pos |-> r.offset]
  BY StepFacts
<1>2. s \in Seq(Content) /\ Len(s) = r.length
  BY <1>1, StepFacts DEF InOrder, TypeOK
<1>3. t \in Seq(Content) /\ Len(t) = n /\ \A i \in 1 .. n : t[i] = IF i <= Len(s) THEN s[i] ELSE Uninit
  BY <1>2, ResizedType
<1>4. k.buffer = b /\ k.used = r.used /\ k.offset = r.offset
  BY StepFacts, <1>1 DEF TypeOK
<1>5. b \in Blocks /\ b \notin allocated \ {r.buffer} /\ objects' = objects \cup {w}
  BY <1>1 DEF Places
<1>6. Update(w, k) /\ Replace(r.buffer, b, t)
  OBVIOUS
<1> HIDE DEF k, s, t, d
<1>7. Len(d) <= Len(t) /\ \A i \in 1 .. Len(d) : t[i] = d[i]
  <2>1. Len(d) \in Nat /\ Len(d) = r.used /\ r.used <= Len(s)
    BY <1>1, <1>2
  <2> QED
    BY <1>1, <1>3, <2>1
<1>8. AbstractSink' = [AbstractSink EXCEPT ![w] = [data |-> d, pos |-> k.offset]]
  BY <1>1, <1>3, <1>4, <1>5, <1>6, <1>7, SinkReplaced
<1>9. [AbstractSink EXCEPT ![w] = AbstractSink[w]] = AbstractSink
  BY DEF AbstractSink
<1> QED
  BY <1>1, <1>4, <1>8, <1>9

(* reserve changes nothing that ByteSink sees, also where the block is     *)
(* moved.                                                                  *)
LEMMA ReserveIs ==
  ASSUME Step, NEW w \in Writers, NEW n \in Lengths, Reserve(w, n)
  PROVE  w \in objects /\ Sink!Observe(w)
<1> DEFINE r == writer[w]
           grows == Grows(r.length, n, 0)
           length == Extended(r.length, n, 0)
<1>1. /\ w \in objects /\ n \in Int /\ r.length \in 0 .. MaxCapacity /\ r.used \in 0 .. r.length
      /\ r.buffer \in allocated
  BY StepFacts, ArgumentsAssumption DEF Reserve, Callable, Long
<1>2. CASE n <= 0
  <2>1. Throws("reserve", w, <<"ValueError">>) /\ <<"ValueError">> # <<>>
    BY <1>1, <1>2 DEF Reserve
  <2>2. Sink!Throws("reserve", w) /\ AbstractSink' = AbstractSink /\ UNCHANGED objects
    BY <2>1, SinkThrows
  <2> QED
    BY <1>1, <2>2, ObserveMeans
<1>3. CASE ~ (n <= 0)
  <2>1. grows => length \in Nat /\ r.used <= length
    <3>1. Wrap(n + 0) = n /\ Wrap(2 * r.length) = 2 * r.length
      BY <1>1, <1>3, ArgumentsAssumption, SizeAssumption DEF Wrap, Long
    <3>2. n \in Nat
      BY <1>1, <1>3
    <3> QED
      BY <1>1, <3>1, <3>2, SizeAssumption DEF Extended, Grows, Larger
  <2> HIDE DEF grows, length
  <2>2. /\ Returns("reserve", w, <<>>, 0)
        /\ UNCHANGED objects
        /\ \/ Untouched
           \/ /\ grows
              /\ \E b \in Places(r.buffer) :
                   /\ Replace(r.buffer, b, Resized(heap[r.buffer], length))
                   /\ Update(w, [r EXCEPT !.buffer = b, !.length = length])
    BY <1>1, <1>3, NoBailout, Zenon DEF Reserve, ExtendFails, Untouched, grows, length
  <2>3. AbstractSink' = AbstractSink
    BY <1>1, <2>1, <2>2, SinkStill, ReallocatedIs
  <2> QED
    BY <1>1, <2>2, <2>3, WatchIs
<1> QED
  BY <1>2, <1>3

(* Nor does trim.                                                          *)
LEMMA TrimIs ==
  ASSUME Step, NEW w \in Writers, Trim(w)
  PROVE  w \in objects /\ Sink!Observe(w)
<1> DEFINE r == writer[w]
<1>1. /\ w \in objects /\ r.buffer \in allocated
      /\ r.length \in 0 .. MaxCapacity /\ r.used \in 0 .. r.length
  BY StepFacts DEF Trim, Callable
<1>2. r.used \in Nat /\ r.used <= r.used
  BY <1>1
<1>3. /\ Returns("trim", w, <<>>, 0) /\ UNCHANGED objects
      /\ \/ Untouched
         \/ \E b \in Places(r.buffer) :
              /\ Replace(r.buffer, b, Resized(heap[r.buffer], r.used))
              /\ Update(w, [r EXCEPT !.buffer = b, !.length = r.used])
  BY <1>1, NoBailout, Zenon DEF Trim, Untouched
<1>4. AbstractSink' = AbstractSink
  BY <1>1, <1>2, <1>3, SinkStill, ReallocatedIs
<1> QED
  BY <1>1, <1>3, <1>4, WatchIs

(* The numbers a writer shows fit into a zend_long.                        *)
LEMMA Plain ==
  ASSUME Step, NEW w \in objects
  PROVE  /\ Signed(writer[w].offset) = writer[w].offset
         /\ Signed(writer[w].used) = writer[w].used
         /\ Signed(writer[w].length) = writer[w].length
<1>1. \A n \in 0 .. MaxCapacity : Signed(n) = n
  BY SizeAssumption DEF Signed
<1>2. /\ writer[w].length \in 0 .. MaxCapacity
      /\ writer[w].used \in 0 .. MaxCapacity
      /\ writer[w].offset \in 0 .. MaxCapacity
  <2>1. /\ writer[w].length \in 0 .. MaxCapacity
        /\ writer[w].used \in 0 .. writer[w].length
        /\ writer[w].offset \in 0 .. writer[w].used
    BY StepFacts
  <2> QED
    BY <2>1, SizeAssumption
<1> QED
  BY <1>1, <1>2

(* The functions that show something of a writer only observe.             *)
LEMMA ShowIs ==
  ASSUME Step, NEW w \in Writers,
         \/ GetData(w) \/ Serialize(w) \/ DebugInfo(w)
         \/ GetOffset(w) \/ GetUsedLength(w) \/ GetReservedLength(w)
  PROVE  w \in objects /\ Sink!Observe(w)
<1>1. w \in objects
  BY DEF GetData, Serialize, DebugInfo, GetOffset, GetUsedLength, GetReservedLength, GetNumber,
         Dump, Callable
<1>2. Readable(w)
  BY <1>1, StepFacts
<1>3. /\ Untouched
      /\ \/ Returns("getData", w, Contents(w), 0)
         \/ Returns("getOffset", w, <<>>, writer[w].offset)
         \/ Returns("getUsedLength", w, <<>>, writer[w].used)
         \/ Returns("getReservedLength", w, <<>>, writer[w].length)
         \/ Returns("__serialize", w, Contents(w), writer[w].offset)
         \/ Returns("__debugInfo", w, Contents(w), writer[w].offset)
  BY <1>1, <1>2, NoBailout, Plain
     DEF GetData, Serialize, DebugInfo, GetOffset, GetUsedLength, GetReservedLength, GetNumber, Dump
<1>4. AbstractSink' = AbstractSink /\ UNCHANGED objects
  BY <1>3, SinkStill DEF Untouched
<1> QED
  BY <1>1, <1>3, <1>4, WatchIs

(* The compare handler only observes.                                      *)
LEMMA CompareIs ==
  ASSUME Step, NEW w \in Writers, NEW v \in Writers, WriterCompareObjects(w, v)
  PROVE  w \in objects /\ Sink!Observe(w)
<1> DEFINE num == IF AbstractSink[w] = AbstractSink[v] THEN 0 ELSE 1
           s == Contents(w)
           t == Contents(v)
<1>1. w \in objects /\ v \in objects \ {w}
  BY DEF WriterCompareObjects, Callable
<1>2. /\ AbstractSink[w] = [data |-> s, pos |-> writer[w].offset]
      /\ AbstractSink[v] = [data |-> t, pos |-> writer[v].offset]
      /\ s \in Seq(Byte) /\ Len(s) = writer[w].used
      /\ t \in Seq(Byte) /\ Len(t) = writer[v].used
      /\ Readable(w) /\ Readable(v)
  BY <1>1, StepFacts
<1>3. AbstractSink[w] = AbstractSink[v] <=> writer[w].offset = writer[v].offset /\ s = t
  BY <1>2
<1> HIDE DEF s, t
<1>4. /\ Untouched
      /\ Returns("compare", w, <<>>, num)
  <2>1. CASE <<writer[w].offset, writer[w].used>> # <<writer[v].offset, writer[v].used>>
    <3>1. Returns("compare", w, <<>>, 1) /\ Untouched
      BY <2>1 DEF WriterCompareObjects
    <3>2. num = 1
      BY <1>2, <1>3, <2>1
    <3> QED
      BY <3>1, <3>2
  <2>2. CASE <<writer[w].offset, writer[w].used>> = <<writer[v].offset, writer[v].used>>
    <3>1. writer[w].offset = writer[v].offset /\ writer[w].used = writer[v].used
      BY <2>2
    <3>2. PICK d \in Comparisons(s, t) : Returns("compare", w, <<>>, d) /\ Untouched
      BY <1>2, <2>2 DEF WriterCompareObjects, s, t
    <3>3. \A i \in 1 .. Len(s) : s[i] # Uninit /\ t[i] # Uninit
      BY <1>2, <3>1, ByteAssumption
    <3>4. d = IF \A i \in 1 .. Len(s) : s[i] = t[i] THEN 0 ELSE 1
      <4>1. DOMAIN s = 1 .. Len(s)
        BY <1>2
      <4>2. d \in {0, 1}
        BY <3>2 DEF Comparisons
      <4>3. d = 0 => \A i \in 1 .. Len(s) : s[i] = t[i]
        BY <3>2, <3>3, <4>1 DEF Comparisons
      <4>4. d = 1 => \E i \in 1 .. Len(s) : s[i] # t[i]
        BY <3>2, <3>3, <4>1 DEF Comparisons
      <4> QED
        BY <4>2, <4>3, <4>4
    <3>5. (\A i \in 1 .. Len(s) : s[i] = t[i]) <=> s = t
      BY <1>2, <3>1, SeqEqual
    <3>6. d = num
      BY <1>3, <3>1, <3>4, <3>5
    <3> QED
      BY <3>2, <3>6
  <2> QED
    BY <2>1, <2>2
<1>5. UNCHANGED objects /\ AbstractSink' = AbstractSink
  BY <1>4, SinkStill DEF Untouched
<1>6. Sink!Returns("compare", w, <<>>, num)
  BY <1>4, SinkReturns
<1> QED
  BY <1>1, <1>5, <1>6, ObserveMeans

----------------------------------------------------------------------------
(* The theorem.                                                            *)

(* Every step of a writer is a call of ByteSink, or changes nothing that   *)
(* it sees.                                                                *)
LEMMA StepIs ==
  ASSUME RestoresInOrder, Step
  PROVE  [Sink!Call]_(Sink!vars)
<1>1. CASE UNCHANGED vars
  <2>1. AbstractSink' = AbstractSink /\ UNCHANGED <<objects, ret, mode>>
    BY <1>1, SinkStill DEF vars, Untouched
  <2> QED
    BY <2>1 DEF Sink!vars, AbstractSink
<1>2. ASSUME NEW w \in Writers, WriterNew(w) PROVE Sink!Call
  BY <1>2, NewIs DEF Sink!Call
<1>3. ASSUME NEW w \in Writers, NEW v \in Writers, WriterClone(w, v) PROVE Sink!Call
  BY <1>3, CloneIs DEF Sink!Call
<1>4. ASSUME NEW w \in Writers, WriterFree(w) PROVE Sink!Call
  BY <1>4, FreeIs DEF Sink!Call
<1>5. ASSUME NEW w \in Writers, NEW s \in Strings, Construct(w, s) PROVE Sink!Call
  BY <1>5, ConstructIs DEF Sink!Call
<1>6. ASSUME NEW w \in Writers, NEW s \in Strings, WriteByteArray(w, s) PROVE Sink!Call
  BY <1>6, WriteIs DEF Sink!Call
<1>7. ASSUME NEW w \in Writers, NEW e \in Encodings, WriteType(w, e) PROVE Sink!Call
  BY <1>7, WriteIs DEF Sink!Call
<1>8. ASSUME NEW e \in Encodings, PackType(e) PROVE Sink!Call
  BY <1>8, PackIs DEF Sink!Call
<1>9. ASSUME NEW w \in Writers, NEW n \in Offsets, SetOffset(w, n) PROVE Sink!Call
  BY <1>9, SetOffsetIs DEF Sink!Call
<1>10. ASSUME NEW w \in Writers, Clear(w) PROVE Sink!Call
  BY <1>10, ClearIs DEF Sink!Call
<1>11. ASSUME NEW w \in Writers, NEW a \in Arrays \cup Returned, Unserialize(w, a) PROVE Sink!Call
  BY <1>11, UnserializeIs DEF Sink!Call
<1>12. ASSUME NEW w \in Writers,
              \/ GetData(w) \/ Serialize(w) \/ DebugInfo(w)
              \/ GetOffset(w) \/ GetUsedLength(w) \/ GetReservedLength(w) \/ Trim(w)
              \/ \E n \in Lengths : Reserve(w, n)
              \/ \E v \in Writers : WriterCompareObjects(w, v)
       PROVE  Sink!Call
  <2>1. w \in objects /\ Sink!Observe(w)
    BY <1>12, ShowIs, TrimIs, ReserveIs, CompareIs
  <2> QED
    BY <2>1 DEF Sink!Call
<1>13. CASE Next
  <2>1. Sink!Call
    BY <1>2, <1>3, <1>4, <1>5, <1>6, <1>7, <1>8, <1>9, <1>10, <1>11, <1>12, <1>13 DEF Next
  <2> QED
    BY <2>1
<1> QED
  BY <1>1, <1>13 DEF Step

(* Every call has the effect and the result that ByteSink promises: a      *)
(* write replaces the bytes at the position and no others, whatever the    *)
(* capacity was and wherever the block is moved; reserve and trim change   *)
(* nothing that a script can read; and no call on one writer changes       *)
(* another.                                                                *)
THEOREM ImplementsSinkAlways ==
  ASSUME RestoresInOrder PROVE Spec => ImplementsSink
<1>1. Init => Sink!Init
  <2> SUFFICES ASSUME Init PROVE Sink!Init
    OBVIOUS
  <2>1. AbstractSink = [w \in Writers |-> Sink!Blank] /\ objects = {} /\ mode = "running"
    BY DEF Init, AbstractSink, Abstraction, Sink!Blank
  <2>2. PICK w \in Writers :
          ret = [op |-> "none", by |-> w, exc |-> <<>>, str |-> <<>>, num |-> 0]
    BY DEF Init
  <2>3. /\ ret.op = "none" /\ ret.by = w /\ ret.str = <<>> /\ ret.num = 0
        /\ (ret.exc # <<>>) = FALSE
    BY <2>2
  <2>4. [op |-> ret.op, by |-> ret.by, threw |-> ret.exc # <<>>,
         str |-> ret.str, num |-> ret.num] =
          [op |-> "none", by |-> w, threw |-> FALSE, str |-> <<>>, num |-> 0]
    BY <2>3
  <2> QED
    BY <2>1, <2>4 DEF Sink!Init, AbstractSink
<1>2. ASSUME IInv, [Next]_vars PROVE [Sink!Next]_(Sink!vars)
  <2>1. CASE mode' = "running"
    <3>1. Step /\ mode = "running"
      BY <1>2, <2>1, NeverResumes DEF Step
    <3>2. [Sink!Call]_(Sink!vars)
      BY <3>1, StepIs
    <3> QED
      BY <2>1, <3>1, <3>2 DEF Sink!Next
  <2>2. CASE mode' # "running"
    BY <2>2 DEF Sink!Next
  <2> QED
    BY <2>1, <2>2
<1> QED
  BY <1>1, <1>2, InOrderAlways, PTL DEF Spec, Sink!Spec, ImplementsSink
=============================================================================
