---------------------------- MODULE StreamProofs ----------------------------
(***************************************************************************)
(* The theorems about streams.  They start from what CodecProofs says of   *)
(* single functions: what was written at a place is read there, on every   *)
(* machine, whatever stands around it.                                     *)
(***************************************************************************)
EXTENDS Stream, CodecProofs

(* The table is not empty. *)
LEMMA NoReadType ==
  /\ NoRead.entry \in Entries /\ NoRead.number \in Word(LongBits)
  /\ NoRead.at = -1 /\ NoRead.threw \in BOOLEAN /\ ~ NoRead.threw
<1>1. Entry("Byte", "Unsigned", "none", "uint8_t", "Byte", "none") \in Entries
  BY DEF Entries, IntEntries
<1>2. (CHOOSE t \in Entries : TRUE) \in Entries
  BY <1>1
<1> QED
  BY <1>2 DEF NoRead, Zero, Word

(* What overwriting leaves and what it changes. *)
LEMMA Overwritten ==
  ASSUME NEW d \in Seq(Byte), NEW o \in 0 .. Len(d), NEW s \in Seq(Byte)
  PROVE  LET r == Writer!Overwrite(d, o, s)
         IN  /\ r \in Seq(Byte)
             /\ o + Len(s) <= Len(r) /\ Len(d) <= Len(r)
             /\ \A k \in 1 .. Len(s) : r[o + k] = s[k]
             /\ \A k \in 1 .. Len(d) : k <= o \/ k > o + Len(s) => r[k] = d[k]
<1> DEFINE n == IF o + Len(s) > Len(d) THEN o + Len(s) ELSE Len(d)
           r == [i \in 1 .. n |-> IF i > o /\ i <= o + Len(s) THEN s[i - o] ELSE d[i]]
<1>1. Writer!Overwrite(d, o, s) = r
  BY DEF Writer!Overwrite
<1>2. n \in Nat /\ o + Len(s) <= n /\ Len(d) <= n
  OBVIOUS
<1>3. \A i \in 1 .. n : r[i] = IF i > o /\ i <= o + Len(s) THEN s[i - o] ELSE d[i]
  OBVIOUS
<1>4. ASSUME NEW i \in 1 .. n PROVE r[i] \in Byte
  <2>1. CASE i > o /\ i <= o + Len(s)
    <3>1. i - o \in 1 .. Len(s)
      BY <2>1, <1>2
    <3> QED
      BY <2>1, <3>1
  <2>2. CASE ~ (i > o /\ i <= o + Len(s))
    <3>1. i \in 1 .. Len(d)
      BY <2>2, <1>2
    <3> QED
      BY <2>2, <3>1
  <2> QED
    BY <2>1, <2>2
<1>5. r \in Seq(Byte) /\ Len(r) = n
  <2>1. r \in [1 .. n -> Byte]
    BY <1>4
  <2> HIDE DEF n
  <2> QED
    BY <2>1, <1>2
<1> HIDE DEF r, n
<1>6. ASSUME NEW k \in 1 .. Len(s) PROVE r[o + k] = s[k]
  BY <1>2, <1>3
<1>7. ASSUME NEW k \in 1 .. Len(d), k <= o \/ k > o + Len(s) PROVE r[k] = d[k]
  BY <1>2, <1>3, <1>7
<1> QED
  BY <1>1, <1>2, <1>5, <1>6, <1>7

(* What stands in a string stands in its beginning, as far as that goes.   *)
LEMMA StandsInPart ==
  ASSUME NEW d \in Seq(Byte), NEW n \in 0 .. Len(d), NEW v, v.at \in Nat, StandsIn(d, v),
         v.entry \in Entries, v.number \in Word(LongBits), host.writer \in Orders
  PROVE  StandsIn(SubSeq(d, 1, n), v)
<1> DEFINE s == Encode(v.entry, v.number, host.writer)
           e == SubSeq(d, 1, n)
<1>1. Len(e) = n /\ \A k \in 1 .. n : e[k] = d[k]
  OBVIOUS
<1>2. Len(s) \in Nat
  BY EncodeType
<1>3. \A k \in 1 .. Len(s) : v.at + k <= Len(d) => d[v.at + k] = s[k]
  BY DEF StandsIn
<1> HIDE DEF s, e
<1>4. ASSUME NEW k \in 1 .. Len(s), v.at + k <= Len(e) PROVE e[v.at + k] = s[k]
  <2>1. v.at + k \in 1 .. n
    BY <1>1, <1>2, <1>4
  <2>2. v.at + k <= Len(d)
    BY <2>1
  <2> QED
    BY <1>1, <1>3, <2>1, <2>2
<1> QED
  BY <1>4 DEF StandsIn, s, e

(* What a write has spared stands where it stood.                          *)
LEMMA StandsAfter ==
  ASSUME NEW d \in Seq(Byte), NEW o \in 0 .. Len(d), NEW s \in Seq(Byte),
         NEW v, v.at \in Nat, v.length = Len(Encode(v.entry, v.number, host.writer)),
         v.entry \in Entries, v.number \in Word(LongBits), host.writer \in Orders,
         v.at + v.length <= Len(d), StandsIn(d, v),
         v.at + v.length <= o \/ v.at >= o + Len(s)
  PROVE  StandsIn(Writer!Overwrite(d, o, s), v)
<1> DEFINE e == Encode(v.entry, v.number, host.writer)
           r == Writer!Overwrite(d, o, s)
<1>1. \A k \in 1 .. Len(d) : k <= o \/ k > o + Len(s) => r[k] = d[k]
  BY Overwritten
<1>2. Len(e) \in Nat /\ v.length = Len(e)
  BY EncodeType
<1>3. \A k \in 1 .. Len(e) : v.at + k <= Len(d) => d[v.at + k] = e[k]
  BY DEF StandsIn
<1> HIDE DEF e, r
<1>4. ASSUME NEW k \in 1 .. Len(e) PROVE r[v.at + k] = e[k]
  <2>1. v.at + k \in 1 .. Len(d)
    BY <1>2
  <2>2. v.at + k <= o \/ v.at + k > o + Len(s)
    BY <1>2
  <2> QED
    BY <1>1, <1>3, <2>1, <2>2
<1> QED
  BY <1>4 DEF StandsIn, e, r

----------------------------------------------------------------------------
(* The inductive invariant.                                                *)

(* At first nothing is written and nothing read.                           *)
LEMMA InitIInv == Init => IInv
<1> SUFFICES ASSUME Init PROVE IInv
  OBVIOUS
<1> DEFINE d == <<>>
<1>1. d \in Seq(Byte) /\ Len(d) = 0
  OBVIOUS
<1> HIDE DEF d
<1>2. sink = [data |-> d, pos |-> 0] /\ source = [data |-> d, pos |-> 0]
  BY DEF Init, Empty, d
<1>3. TypeOK
  <2>1. /\ host \in [writer : Orders, reader : Orders] /\ phase = "writing"
        /\ values = {} /\ sent = {} /\ ret = NoRead
    BY DEF Init
  <2>2. /\ sink.data = d /\ sink.pos = 0 /\ source.data = d /\ source.pos = 0
        /\ {sink, source} \subseteq [data : Seq(Byte), pos : Nat]
    BY <1>1, <1>2
  <2>3. /\ ret.entry \in Entries /\ ret.number \in Word(LongBits)
        /\ ret.at = -1 /\ ret.threw \in BOOLEAN
    BY <2>1, NoReadType
  <2> QED
    BY <1>1, <2>1, <2>2, <2>3 DEF TypeOK
<1> QED
  BY <1>3, NoReadType DEF Init, IInv

(* The values that a script writes have a place in the table.              *)
LEMMA Values ==
  ASSUME TypeOK
  PROVE  /\ \A v \in values \cup sent : v.entry \in Entries /\ v.number \in Word(LongBits)
         /\ host.writer \in Orders /\ host.reader \in Orders
<1>1. host.writer \in Orders /\ host.reader \in Orders
  BY DEF TypeOK
<1>2. ASSUME NEW v \in values \cup sent PROVE v.entry \in Entries /\ v.number \in Word(LongBits)
  <2>1. <<v.entry, v.number>> \in Entries \X Word(LongBits)
    BY UsedAssumption DEF TypeOK
  <2> QED
    BY <2>1
<1> QED
  BY <1>1, <1>2

(* A write puts its value in place and takes those out of account that it  *)
(* hit.                                                                    *)
LEMMA WriteKeeps ==
  ASSUME IInv, NEW w \in Writes, Write(w[1], w[2])
  PROVE  IInv'
<1> DEFINE t == w[1]
           n == w[2]
           s == Encode(t, n, host.writer)
           d == sink.data
           o == sink.pos
           r == Writer!Overwrite(d, o, s)
           new == [at |-> o, length |-> Len(s), entry |-> t, number |-> n]
<1>1. t \in Entries /\ n \in Word(LongBits) /\ host.writer \in Orders /\ w = <<t, n>>
  BY UsedAssumption DEF IInv, TypeOK
<1>2. s \in Seq(Byte) /\ Len(s) \in Nat
  BY <1>1, EncodeType
<1>3. d \in Seq(Byte) /\ o \in 0 .. Len(d)
  BY DEF IInv, TypeOK
<1> DEFINE m == o + Len(s)
<1>4. /\ sink' = [data |-> r, pos |-> m]
      /\ values' = Spared(o, m) \cup {new}
      /\ phase = "writing"
      /\ host' = host /\ phase' = phase /\ source' = source /\ sent' = sent /\ ret' = ret
  BY DEF Write, Writer!Written
<1>5. /\ r \in Seq(Byte) /\ m <= Len(r) /\ Len(d) <= Len(r)
      /\ \A k \in 1 .. Len(s) : r[o + k] = s[k]
  BY <1>2, <1>3, Overwritten
<1>6. m \in 0 .. Len(r)
  BY <1>2, <1>3, <1>5
<1>7. \A v \in Spared(o, m) : v \in values /\ (v.at + v.length <= o \/ v.at >= m)
  BY DEF Spared
<1> HIDE DEF m, s, r
<1>8. TypeOK'
  <2>1. ASSUME NEW v \in values' \cup sent' PROVE <<v.entry, v.number>> \in Writes
    <3>1. CASE v = new
      BY <3>1, <1>1
    <3>2. CASE v \in values \cup sent
      BY <3>2 DEF IInv, TypeOK
    <3> QED
      BY <3>1, <3>2, <1>4, <1>7
  <2>2. sink'.data = r /\ sink'.pos = m
    BY <1>4
  <2> QED
    BY <2>1, <2>2, <1>4, <1>5, <1>6 DEF IInv, TypeOK
<1>9. ASSUME NEW v \in values' \cup sent'
      PROVE  v.at \in Nat /\ v.length = Len(Encode(v.entry, v.number, host.writer))
  <2>1. CASE v = new
    BY <2>1, <1>3 DEF s
  <2>2. CASE v \in values \cup sent
    BY <2>2 DEF IInv
  <2> QED
    BY <2>1, <2>2, <1>4, <1>7
<1>10. ASSUME NEW v \in values'
       PROVE  v.at + v.length <= Len(r) /\ StandsIn(r, v)
  <2>1. CASE v = new
    <3>1. v.at = o /\ v.length = Len(s) /\ s = Encode(v.entry, v.number, host.writer)
      BY <2>1 DEF s
    <3> QED
      BY <3>1, <1>5 DEF StandsIn, m
  <2>2. CASE v \in Spared(o, m)
    <3>1. v \in values /\ (v.at + v.length <= o \/ v.at >= m)
      BY <2>2, <1>7
    <3>2. /\ v.at \in Nat /\ v.length = Len(Encode(v.entry, v.number, host.writer))
          /\ v.at + v.length <= Len(d) /\ StandsIn(d, v)
      BY <3>1 DEF IInv
    <3>3. v.entry \in Entries /\ v.number \in Word(LongBits)
      BY <3>1, Values DEF IInv
    <3>4. StandsIn(r, v)
      BY <1>1, <1>2, <1>3, <3>1, <3>2, <3>3, StandsAfter DEF m, r
    <3>5. v.length \in Nat
      BY <3>2, <3>3, <1>1, EncodeType
    <3> QED
      BY <3>2, <3>4, <3>5, <1>3, <1>5
  <2> QED
    BY <2>1, <2>2, <1>4
<1>11. host'.writer = host.writer /\ sink'.data = r
  BY <1>4
<1>12. \A v \in values' : v.at + v.length <= Len(sink'.data) /\ StandsIn(sink.data, v)'
  BY <1>4, <1>10, <1>11 DEF StandsIn
<1>13. \A v \in sent' : StandsIn(source.data, v)'
  BY <1>4 DEF IInv, StandsIn
<1>14. phase' = "writing" => ret'.at < 0
  BY <1>4 DEF IInv
<1>15. ~ (ret'.at >= 0)
  BY <1>4, <1>14 DEF IInv, TypeOK
<1> QED
  BY <1>4, <1>8, <1>9, <1>12, <1>13, <1>14, <1>15 DEF IInv

(* setOffset of the writer changes no byte.                                *)
LEMMA SetWriteOffsetKeeps ==
  ASSUME IInv, NEW n \in Seeks, SetWriteOffset(n)
  PROVE  IInv'
<1>1. sink' = [sink EXCEPT !.pos = n] /\ n \in 0 .. Len(sink.data)
  BY BoundsAssumption DEF SetWriteOffset, IInv, TypeOK
<1>2. sink'.data = sink.data /\ sink'.pos = n
  BY <1>1 DEF SetWriteOffset
<1>3. /\ host' = host /\ phase' = phase /\ values' = values /\ source' = source
      /\ sent' = sent /\ ret' = ret
  BY DEF SetWriteOffset
<1>4. TypeOK'
  BY <1>1, <1>2, <1>3 DEF IInv, TypeOK
<1>5. \A v \in values' : v.at + v.length <= Len(sink'.data) /\ StandsIn(sink.data, v)'
  BY <1>2, <1>3 DEF IInv, StandsIn
<1>6. \A v \in sent' : StandsIn(source.data, v)'
  BY <1>3 DEF IInv, StandsIn
<1> QED
  BY <1>3, <1>4, <1>5, <1>6 DEF IInv

(* Bytes that are lost are lost at the end.                                *)
LEMMA SendKeeps ==
  ASSUME IInv, NEW n \in Cuts, Send(n)
  PROVE  IInv'
<1> DEFINE d == sink.data
           m == Len(d) - n
           e == SubSeq(d, 1, m)
           b == <<>>
<1>1. /\ phase = "writing" /\ phase' = "reading"
      /\ sink' = [data |-> b, pos |-> 0] /\ values' = {}
      /\ source' = [data |-> e, pos |-> 0] /\ sent' = values
      /\ host' = host /\ ret' = ret
  BY DEF Send, Empty
<1>2. d \in Seq(Byte) /\ m \in 0 .. Len(d)
  BY BoundsAssumption DEF Send, IInv, TypeOK
<1>3. b \in Seq(Byte) /\ Len(b) = 0
  OBVIOUS
<1>4. e \in Seq(Byte) /\ Len(e) = m
  BY <1>2
<1> HIDE DEF b, m
<1>5. sink'.data = b /\ sink'.pos = 0 /\ source'.data = e /\ source'.pos = 0
  BY <1>1
<1>6. ret'.at = -1
  BY <1>1 DEF IInv, TypeOK
<1>7. TypeOK'
  <2>1. \A v \in values' \cup sent' : <<v.entry, v.number>> \in Writes
    BY <1>1 DEF IInv, TypeOK
  <2>2. sink'.data \in Seq(Byte) /\ sink'.pos \in 0 .. Len(sink'.data)
    BY <1>3, <1>5
  <2>3. source'.data \in Seq(Byte) /\ source'.pos \in 0 .. Len(source'.data)
    BY <1>2, <1>4, <1>5
  <2> QED
    BY <1>1, <1>6, <2>1, <2>2, <2>3 DEF IInv, TypeOK
<1>8. ASSUME NEW v \in values PROVE StandsIn(e, v)
  <2>1. v.at \in Nat /\ StandsIn(d, v)
    BY DEF IInv
  <2>2. v.entry \in Entries /\ v.number \in Word(LongBits) /\ host.writer \in Orders
    BY Values DEF IInv
  <2> QED
    BY <1>2, <2>1, <2>2, StandsInPart
<1>9. \A v \in sent' : StandsIn(source.data, v)'
  BY <1>1, <1>5, <1>8 DEF StandsIn
<1>10. \A v \in values' \cup sent' :
         v.at \in Nat /\ v.length = Len(Encode(v.entry, v.number, host.writer))
  BY <1>1 DEF IInv
<1> QED
  BY <1>1, <1>6, <1>7, <1>9, <1>10 DEF IInv

(* What is left behind a position. *)
LEMMA Rest ==
  ASSUME NEW d \in Seq(Byte), NEW o \in 0 .. Len(d)
  PROVE  /\ SubSeq(d, o + 1, Len(d)) \in Seq(Byte)
         /\ Len(SubSeq(d, o + 1, Len(d))) = Len(d) - o
         /\ \A k \in 1 .. Len(d) - o : SubSeq(d, o + 1, Len(d))[k] = d[o + k]
<1> DEFINE a == o + 1
           b == Len(d)
           s == SubSeq(d, a, b)
<1>1. a \in 1 .. b + 1 /\ b \in Nat /\ (b - a) + 1 = b - o
  OBVIOUS
<1>2. \A k \in 1 .. b - o : k + (a - 1) = o + k /\ o + k \in 1 .. b
  OBVIOUS
<1> HIDE DEF a
<1>3. Len(s) = (b - a) + 1
  BY <1>1
<1>4. \A k \in 1 .. b - o : s[k] = d[o + k]
  BY <1>1, <1>2
<1>5. s \in Seq(Byte)
  BY <1>1
<1> QED
  BY <1>1, <1>3, <1>4, <1>5 DEF a

(* A read is what Decode makes of the bytes behind the position.           *)
LEMMA ReadKeeps ==
  ASSUME IInv, NEW t \in Used, Read(t)
  PROVE  IInv'
<1> DEFINE s == SubSeq(source.data, source.pos + 1, Len(source.data))
           d == Decode(t, s, host.reader)
           o == source.pos
           m == o + d.taken
<1>1. t \in Entries /\ host.reader \in Orders
  BY UsedAssumption, Values DEF IInv
<1>2. source.data \in Seq(Byte) /\ o \in 0 .. Len(source.data)
  BY DEF IInv, TypeOK
<1>3. s \in Seq(Byte) /\ Len(s) = Len(source.data) - o
  BY <1>2, Rest
<1>4. d.threw \in BOOLEAN /\ d.taken \in 0 .. Len(s) /\ d.number \in Word(LongBits)
  BY <1>1, <1>3, DecodeType
<1>5. /\ source' = [source EXCEPT !.pos = m]
      /\ ret' = [entry |-> t, at |-> o, threw |-> d.threw, end |-> m, number |-> d.number]
      /\ phase = "reading"
      /\ host' = host /\ phase' = phase /\ sink' = sink /\ values' = values /\ sent' = sent
  BY DEF Read, Unread
<1>6. m \in o .. Len(source.data)
  BY <1>2, <1>3, <1>4
<1>7. /\ source'.data = source.data /\ source'.pos = m
      /\ source' \in [data : Seq(Byte), pos : Nat]
  <2>1. source \in [data : Seq(Byte), pos : Nat] /\ m \in Nat
    BY <1>2, <1>6 DEF IInv, TypeOK
  <2> HIDE DEF m
  <2> QED
    BY <1>5, <2>1
<1>8. /\ ret'.entry = t /\ ret'.at = o /\ ret'.threw = d.threw /\ ret'.end = m
      /\ ret'.number = d.number
  BY <1>5
<1>9. TypeOK'
  BY <1>1, <1>2, <1>4, <1>5, <1>6, <1>7, <1>8 DEF IInv, TypeOK
<1>10. d = Decode(ret'.entry, SubSeq(source'.data, ret'.at + 1, Len(source'.data)), host'.reader)
  BY <1>5, <1>7, <1>8
<1>11. (\A v \in values : StandsIn(sink.data, v))' /\ (\A v \in sent : StandsIn(source.data, v))'
  BY <1>5, <1>7 DEF IInv, StandsIn
<1> HIDE DEF d
<1>12. /\ ret'.at >= 0 =>
            LET e == Decode(ret'.entry, SubSeq(source'.data, ret'.at + 1, Len(source'.data)), host'.reader)
            IN  ret'.threw = e.threw /\ ret'.end = ret'.at + e.taken /\ ret'.number = e.number
       /\ phase' = "writing" => ret'.at < 0
  BY <1>5, <1>8, <1>10
<1>13. /\ \A v \in values' \cup sent' :
            v.at \in Nat /\ v.length = Len(Encode(v.entry, v.number, host'.writer))
       /\ \A v \in values' : v.at + v.length <= Len(sink'.data)
  BY <1>5 DEF IInv
<1> QED
  BY <1>9, <1>11, <1>12, <1>13 DEF IInv

(* setOffset of the reader makes the last read forgotten.                  *)
LEMMA SetReadOffsetKeeps ==
  ASSUME IInv, NEW n \in Seeks, SetReadOffset(n)
  PROVE  IInv'
<1>1. source' = [source EXCEPT !.pos = n] /\ n \in 0 .. Len(source.data)
  BY BoundsAssumption DEF SetReadOffset, IInv, TypeOK
<1>2. source'.data = source.data /\ source'.pos = n
  BY <1>1 DEF SetReadOffset
<1>3. /\ host' = host /\ phase' = phase /\ values' = values /\ sink' = sink
      /\ sent' = sent /\ ret' = NoRead
  BY DEF SetReadOffset
<1>4. /\ ret'.entry \in Entries /\ ret'.number \in Word(LongBits)
      /\ ret'.at = -1 /\ ret'.threw \in BOOLEAN
  BY <1>3, NoReadType
<1>5. TypeOK'
  BY <1>1, <1>2, <1>3, <1>4 DEF IInv, TypeOK
<1>6. (\A v \in values : StandsIn(sink.data, v))' /\ (\A v \in sent : StandsIn(source.data, v))'
  BY <1>2, <1>3 DEF IInv, StandsIn
<1> QED
  BY <1>3, <1>4, <1>5, <1>6 DEF IInv

(* The inductive invariant of streams: the bytes of every value stand      *)
(* where it was written, on the writer's side and on the reader's, and the *)
(* last read was made of the bytes that are still there.                   *)
THEOREM IInvAlways == Spec => []IInv
<1>1. IInv /\ [Next]_vars => IInv'
  <2> SUFFICES ASSUME IInv, [Next]_vars PROVE IInv'
    OBVIOUS
  <2>1. ASSUME NEW w \in Writes, Write(w[1], w[2]) PROVE IInv'
    BY <2>1, WriteKeeps
  <2>2. ASSUME NEW n \in Seeks, SetWriteOffset(n) PROVE IInv'
    BY <2>2, SetWriteOffsetKeeps
  <2>3. ASSUME NEW n \in Cuts, Send(n) PROVE IInv'
    BY <2>3, SendKeeps
  <2>4. ASSUME NEW t \in Used, Read(t) PROVE IInv'
    BY <2>4, ReadKeeps
  <2>5. ASSUME NEW n \in Seeks, SetReadOffset(n) PROVE IInv'
    BY <2>5, SetReadOffsetKeeps
  <2>6. CASE UNCHANGED vars
    BY <2>6 DEF vars, IInv, TypeOK, StandsIn
  <2> QED
    BY <2>1, <2>2, <2>3, <2>4, <2>5, <2>6 DEF Next
<1> QED
  BY <1>1, InitIInv, PTL DEF Spec

(* The members of the objects keep their types in every stream. *)
THEOREM TypeCorrect == Spec => []TypeOK
<1>1. IInv => TypeOK
  BY DEF IInv
<1> QED
  BY <1>1, IInvAlways, PTL

----------------------------------------------------------------------------
(* What is read.                                                           *)

(* Where a read of its own type is aimed at a value, the bytes that the    *)
(* value was written as are what is read.                                  *)
LEMMA AimedBegins ==
  ASSUME IInv, NEW v \in Aimed
  PROVE  LET t == ret.entry
             s == SubSeq(source.data, ret.at + 1, Len(source.data))
             d == Decode(t, s, host.reader)
         IN  /\ v.entry = t /\ v.at = ret.at /\ v.at \in Nat
             /\ t \in Entries /\ v.number \in Word(LongBits)
             /\ host.writer \in Orders /\ host.reader \in Orders
             /\ s \in Seq(Byte) /\ Len(source.data) \in Nat
             /\ v.at <= Len(source.data) /\ Len(s) = Len(source.data) - v.at
             /\ v.length = Len(Encode(t, v.number, host.writer)) /\ v.length \in Nat
             /\ BeginsWith(s, t, v.number, host.writer)
             /\ ret.threw = d.threw /\ ret.end = v.at + d.taken /\ ret.number = d.number
<1> DEFINE t == ret.entry
           s == SubSeq(source.data, ret.at + 1, Len(source.data))
           d == Decode(t, s, host.reader)
           e == Encode(t, v.number, host.writer)
<1>1. v \in sent /\ v.at = ret.at /\ v.entry = t
  BY DEF Aimed
<1>2. /\ v.at \in Nat /\ v.length = Len(e)
      /\ StandsIn(source.data, v)
  BY <1>1 DEF IInv
<1>3. /\ t \in Entries /\ v.number \in Word(LongBits)
      /\ host.writer \in Orders /\ host.reader \in Orders
  BY <1>1, Values DEF IInv
<1>4. ret.at \in Nat /\ ret.threw = d.threw /\ ret.end = ret.at + d.taken /\ ret.number = d.number
  BY <1>1, <1>2 DEF IInv
<1>5. ret.at \in 0 .. Len(source.data) /\ source.data \in Seq(Byte)
  BY <1>4 DEF IInv, TypeOK
<1>6. /\ s \in Seq(Byte) /\ Len(s) = Len(source.data) - ret.at
      /\ \A k \in 1 .. Len(source.data) - ret.at : s[k] = source.data[ret.at + k]
  BY <1>5, Rest
<1>7. Len(e) \in Nat
  BY <1>3, EncodeType
<1>8. \A k \in 1 .. Len(e) : v.at + k <= Len(source.data) => source.data[v.at + k] = e[k]
  BY <1>1, <1>2 DEF StandsIn
<1> HIDE DEF s, d, e, t
<1>9. ASSUME NEW k \in 1 .. Len(e), k <= Len(s) PROVE s[k] = e[k]
  <2>1. k \in 1 .. Len(source.data) - ret.at /\ v.at + k <= Len(source.data)
    BY <1>1, <1>5, <1>6, <1>7, <1>9
  <2> QED
    BY <1>1, <1>6, <1>8, <2>1
<1>10. BeginsWith(s, t, v.number, host.writer)
  BY <1>9 DEF BeginsWith, e
<1>11. v.at <= Len(source.data) /\ Len(s) = Len(source.data) - v.at /\ Len(source.data) \in Nat
  BY <1>1, <1>5, <1>6
<1> QED
  BY <1>1, <1>2, <1>3, <1>4, <1>6, <1>7, <1>10, <1>11 DEF s, d, e, t

(* A value of which bytes are missing is never returned, whatever stands   *)
(* before it and behind it and whichever machine wrote it.                 *)
THEOREM TruncatedThrowsAlways == Spec => []TruncatedThrows
<1>1. ASSUME IInv PROVE TruncatedThrows
  <2> SUFFICES ASSUME NEW v \in Aimed, v.at + v.length > Len(source.data) PROVE ret.threw
    BY DEF TruncatedThrows
  <2> DEFINE t == ret.entry
             s == SubSeq(source.data, ret.at + 1, Len(source.data))
             d == Decode(t, s, host.reader)
             e == Encode(t, v.number, host.writer)
  <2>1. /\ t \in Entries /\ v.number \in Word(LongBits) /\ v.at \in Nat
        /\ host.writer \in Orders /\ host.reader \in Orders
        /\ s \in Seq(Byte) /\ Len(source.data) \in Nat
        /\ Len(s) = Len(source.data) - v.at
        /\ v.length = Len(e) /\ v.length \in Nat
        /\ BeginsWith(s, t, v.number, host.writer)
        /\ ret.threw = d.threw
    BY <1>1, AimedBegins
  <2>2. ~ (Len(e) <= Len(s)) => d.threw = TRUE
    BY <2>1, ComesBack
  <2> HIDE DEF s, d, e, t
  <2>3. ~ (Len(e) <= Len(s))
    BY <2>1
  <2> QED
    BY <2>1, <2>2, <2>3
<1> QED
  BY <1>1, IInvAlways, PTL

(* The table as a reader of the names sees it.                             *)
LEMMA Names ==
  ASSUME NEW t \in Entries
  PROVE  /\ t.name = "Float" <=> t.type = "float"
         /\ t.name = "Double" <=> t.type = "double"
         /\ t.class # "VarInt" <=> t.codec # "VarInt"
         /\ t.type \notin {"float", "double"} => (t.sign = "Signed" <=> IsSigned(t.type))
         /\ SizeInBytes(t) = Stored(t)
<1>1. Row(t)
  BY EntryRow
<1>2. t.name = "Float" <=> t.type = "float"
  BY <1>1 DEF Row, Integral
<1>3. t.name = "Double" <=> t.type = "double"
  BY <1>1 DEF Row, Integral
<1>4. t.class # "VarInt" <=> t.codec # "VarInt"
  BY EntryFacts
<1>5. t.type \notin {"float", "double"} => (t.sign = "Signed" <=> IsSigned(t.type))
  BY <1>1 DEF Row, Integral, IsSigned
<1>6. SizeInBytes(t) = Stored(t)
  BY <1>1 DEF Row, Integral, Placed, SizeInBytes, PromisedSize, Stored, SizeOf, TriadSize
<1> QED
  BY <1>2, <1>3, <1>4, <1>5, <1>6

(* Where floats are converted as they should be, every number is returned  *)
(* as the name of the function promises.                                   *)
LEMMA ReturnedPromised ==
  ASSUME FloatsNear(Writes), NEW w \in Writes, NEW r,
         w[1].type # "float" => r = Returned(w[1], w[2]),
         w[1].type = "float" => r = FromValue(w[1], ToValue(w[1], w[2]))
  PROVE  Promised(w[1], w[2], r)
<1> DEFINE t == w[1]
<1>1. t \in Entries
  BY UsedAssumption
<1>2. /\ t.name = "Float" <=> t.type = "float"
      /\ t.name = "Double" <=> t.type = "double"
      /\ t.type \notin {"float", "double"} => (t.sign = "Signed" <=> IsSigned(t.type))
      /\ SizeInBytes(t) = Stored(t)
  BY <1>1, Names
<1>3. CASE t.name = "Float"
  BY <1>2, <1>3 DEF FloatsNear, Promised
<1>4. CASE t.name = "Double"
  BY <1>2, <1>4 DEF Returned, Promised
<1>5. CASE t.name \notin {"Float", "Double"}
  <2>1. r = Cast(w[2], Stored(t) * CharBits, LongBits, IsSigned(t.type))
    BY <1>2, <1>5 DEF Returned
  <2>2. r = Cast(w[2], SizeInBytes(t) * CharBits, LongBits, t.sign = "Signed")
    BY <1>2, <1>5, <2>1 DEF Cast
  <2> QED
    BY <1>5, <2>2 DEF Promised
<1> QED
  BY <1>3, <1>4, <1>5

(* On machines of either byte order, a value that has arrived is returned  *)
(* as it was written, cut to its size, and the position goes to the byte   *)
(* behind it, in whatever order the values are written, patched and read.  *)
(* For floats this rests on the conversions being what FloatsNear says.    *)
THEOREM ReadsValuesAlways ==
  ASSUME FloatsNear(Writes) PROVE Spec => []ReadsValues
<1>1. IInv => ReadsValues
  <2> SUFFICES ASSUME IInv PROVE ReadsValues
    OBVIOUS
  <2> SUFFICES ASSUME NEW v \in Aimed, v.at + v.length <= Len(source.data)
               PROVE  /\ ~ ret.threw /\ ret.end = v.at + v.length
                      /\ Promised(v.entry, v.number, ret.number)
    BY DEF ReadsValues
  <2> DEFINE t == ret.entry
             s == SubSeq(source.data, ret.at + 1, Len(source.data))
             d == Decode(t, s, host.reader)
             e == Encode(t, v.number, host.writer)
             x == FromValue(t, ToValue(t, v.number))
             y == Returned(t, v.number)
             w == <<t, v.number>>
  <2>1. /\ t \in Entries /\ v.number \in Word(LongBits) /\ v.at \in Nat /\ v.entry = t
        /\ host.writer \in Orders /\ host.reader \in Orders
        /\ s \in Seq(Byte) /\ Len(source.data) \in Nat
        /\ Len(s) = Len(source.data) - v.at
        /\ v.length = Len(e) /\ v.length \in Nat
        /\ BeginsWith(s, t, v.number, host.writer)
        /\ ret.threw = d.threw /\ ret.end = v.at + d.taken /\ ret.number = d.number
    BY AimedBegins
  <2>2. Len(e) <= Len(s) =>
          /\ d.threw = FALSE /\ d.taken = Len(e)
          /\ t.type # "float" => d.number = y
          /\ t.type = "float" => d.number = x
    BY <2>1, ComesBack
  <2>3. w \in Writes
    BY <2>1 DEF Aimed, IInv, TypeOK
  <2> HIDE DEF s, d, e, x, y
  <2>4. Len(e) <= Len(s)
    BY <2>1
  <2>5. ~ ret.threw /\ ret.end = v.at + v.length
    BY <2>1, <2>2, <2>4
  <2>6. (t.type # "float" => ret.number = y) /\ (t.type = "float" => ret.number = x)
    BY <2>1, <2>2, <2>4
  <2> HIDE DEF t
  <2>7. w[1] = t /\ w[2] = v.number
    OBVIOUS
  <2> HIDE DEF w
  <2>8. Promised(w[1], w[2], ret.number)
    BY <2>3, <2>6, <2>7, ReturnedPromised DEF x, y
  <2> QED
    BY <2>1, <2>5, <2>7, <2>8
<1> QED
  BY <1>1, IInvAlways, PTL

(* Writing what was read with the same function gives the bytes that were  *)
(* read, whatever bytes they are; a varint may become shorter.  For floats *)
(* this rests on the conversions being what FloatsKept says.               *)
THEOREM RepacksSameAlways ==
  ASSUME FloatsKept PROVE Spec => []RepacksSame
<1>1. IInv => RepacksSame
  <2> SUFFICES ASSUME IInv PROVE RepacksSame
    OBVIOUS
  <2> DEFINE nan == ret.entry.name = "Float" /\ IsNaN(Magnitude(ret.number, Double), Double)
             varint == ret.entry.class = "VarInt"
             shorter == Len(Encode(ret.entry, ret.number, host.reader)) <=
                          Len(SubSeq(source.data, ret.at + 1, ret.end))
             same == Encode(ret.entry, ret.number, host.reader) =
                       SubSeq(source.data, ret.at + 1, ret.end)
  <2> SUFFICES ASSUME ret.at >= 0, ~ ret.threw, ~ nan
               PROVE  IF varint THEN shorter ELSE same
    <3>1. RepacksSame <=> (ret.at >= 0 /\ ~ ret.threw =>
                             CASE varint -> shorter [] nan -> TRUE [] OTHER -> same)
      BY DEF RepacksSame
    <3> HIDE DEF varint, nan, shorter, same
    <3> QED
      BY <3>1
  <2> DEFINE t == ret.entry
             b == Len(source.data)
             s == SubSeq(source.data, ret.at + 1, b)
             d == Decode(t, s, host.reader)
             e == Encode(t, ret.number, host.reader)
             taken == SubSeq(source.data, ret.at + 1, ret.end)
  <2>1. t \in Entries /\ host.reader \in Orders
    BY Values DEF IInv, TypeOK
  <2>2. ret.threw = d.threw /\ ret.end = ret.at + d.taken /\ ret.number = d.number
    BY DEF IInv
  <2>3. source.data \in Seq(Byte) /\ ret.at \in 0 .. b /\ b \in Nat
    BY DEF IInv, TypeOK
  <2>4. s \in Seq(Byte) /\ Len(s) = b - ret.at
        /\ \A k \in 1 .. b - ret.at : s[k] = source.data[ret.at + k]
    BY <2>3, Rest
  <2>5. d.taken \in 0 .. Len(s)
    BY <2>1, <2>4, DecodeType
  <2>6. t.type = "float" => ToValue(t, FromValue(t, FixedValue(t, s))) = FixedValue(t, s)
    <3> SUFFICES ASSUME t.type = "float"
                 PROVE  ToValue(t, FromValue(t, FixedValue(t, s))) = FixedValue(t, s)
      OBVIOUS
    <3>1. t.name = "Float" /\ t.codec # "VarInt"
      BY <2>1, Names, EntryFacts
    <3>2. Stored(t) <= Len(s) /\ d.number = FromValue(t, FixedValue(t, s))
      BY <2>1, <2>2, <2>4, <3>1, DecodesFixed
    <3>3. FixedValue(t, s) \in Word(Bits(t.type))
      BY <2>1, <2>4, <3>2, FixedValueType
    <3> QED
      BY <2>1, <2>2, <3>1, <3>2, <3>3 DEF FloatsKept
  <2>7. d.threw = FALSE
    BY <2>1, <2>2, <2>4, DecodeType
  <2>8. IF t.codec = "VarInt" THEN Len(e) <= d.taken ELSE e = SubSeq(s, 1, d.taken)
    BY <2>1, <2>2, <2>4, <2>6, <2>7, Repacked
  <2>9. t.codec = "VarInt" <=> t.class = "VarInt"
    BY <2>1, EntryFacts
  <2> HIDE DEF s, d, e, b
  <2>10. Len(taken) = d.taken /\ SubSeq(s, 1, d.taken) = taken
    <3> DEFINE n == d.taken
               o == ret.at
    <3>1. n \in 0 .. b - o /\ o \in 0 .. b /\ o + n \in 0 .. b /\ b = Len(source.data)
      BY <2>3, <2>4, <2>5 DEF b
    <3>2. taken = SubSeq(source.data, o + 1, o + n)
      BY <2>2
    <3> HIDE DEF n, o, taken
    <3>3. Len(taken) = n /\ \A k \in 1 .. n : taken[k] = source.data[o + k]
      BY <2>3, <3>1, <3>2
    <3>4. SubSeq(s, 1, n) = taken
      <4>1. n \in 0 .. Len(s) /\ Len(SubSeq(s, 1, n)) = n
        BY <2>4, <2>5 DEF n
      <4>2. \A k \in 1 .. n : SubSeq(s, 1, n)[k] = s[k] /\ k \in 1 .. b - o
        BY <2>4, <3>1, <4>1
      <4>3. \A k \in 1 .. n : SubSeq(s, 1, n)[k] = taken[k]
        BY <2>4, <3>3, <4>2 DEF o
      <4>4. taken \in Seq(Byte)
        BY <2>3, <3>1, <3>2
      <4>5. SubSeq(s, 1, n) \in Seq(Byte)
        BY <2>4, <4>1
      <4> QED
        BY <3>3, <4>1, <4>3, <4>4, <4>5
    <3> QED
      BY <3>3, <3>4 DEF n
  <2> QED
    BY <2>8, <2>9, <2>10 DEF e, t
<1> QED
  BY <1>1, IInvAlways, PTL

----------------------------------------------------------------------------
(* What stands in the buffer.                                              *)

(* The bits that ValuesStand looks at in a string of bytes.                *)
LEMMA BitsThatStand ==
  ASSUME NEW t \in Entries, t.codec # "VarInt", NEW n \in Word(LongBits), NEW h \in Orders,
         NEW d \in Seq(Byte), NEW o \in Nat, o + Stored(t) <= Len(d),
         \A k \in 1 .. Stored(t) : d[o + k] = Encode(t, n, h)[k],
         NEW i \in 0 .. Stored(t) * CharBits - 1
  PROVE  LET k == i \div CharBits
         IN  d[o + (IF t.class = "LE" THEN k + 1 ELSE Stored(t) - k)][i % CharBits] =
               ToValue(t, n)[i]
<1> DEFINE e == Stored(t)
           k == i \div CharBits
           j == i % CharBits
           v == ToValue(t, n)
           f == FixedBytes(t, v)
           p == PositionOf(t.order, e, k)
<1>1. v \in Word(Bits(t.type)) /\ Encode(t, n, h) = f
  BY ValueTypes, EncodesFixed
<1>2. e \in Nat /\ CharBits \in Nat \ {0}
  <2>1. Stored(t) \in 1 .. 8
    BY StoredType
  <2>2. CharBits \in Nat \ {0}
    BY TypeWidths
  <2> QED
    BY <2>1, <2>2
<1>3. k \in 0 .. e - 1 /\ j \in 0 .. CharBits - 1 /\ i = k * CharBits + j
  BY <1>2, ByteOfBit
<1>4. p \in 1 .. e
  BY <1>2, <1>3, Placing
<1>5. f[p][j] = v[k * CharBits + j]
  BY <1>1, <1>3, FixedBytesType
<1>6. p = IF t.class = "LE" THEN k + 1 ELSE e - k
  <2>1. t.order = "LittleEndian" <=> t.class = "LE"
    BY EntryRow DEF Row, Placed
  <2> QED
    BY <2>1 DEF PositionOf
<1> HIDE DEF e, k, j, v, f, p
<1>7. d[o + p] = f[p]
  BY <1>1, <1>4 DEF e
<1>8. d[o + p][j] = v[i]
  BY <1>3, <1>5, <1>7
<1> QED
  BY <1>6, <1>8 DEF e, k, j, v

(* The bytes that are stored of a number are its lowest bits, except of a  *)
(* float, which is converted.                                              *)
LEMMA StoredBits ==
  ASSUME NEW t \in Entries, t.codec # "VarInt", NEW n \in Word(LongBits)
  PROVE  LET b == Stored(t) * CharBits
             w == [i \in 0 .. b - 1 |-> ToValue(t, n)[i]]
         IN  IF t.type = "float" THEN w = ToValue(t, n) ELSE w = Cast(n, LongBits, b, FALSE)
<1> DEFINE m == Bits(t.type)
           b == Stored(t) * CharBits
           v == ToValue(t, n)
           w == [i \in 0 .. b - 1 |-> v[i]]
<1>1. b \in Nat /\ m \in Nat \ {0} /\ b <= m /\ m <= LongBits /\ LongBits \in Nat \ {0}
  BY StoredType, TypeWidths
<1>2. v \in Word(m)
  BY ValueTypes
<1>3. CASE t.type = "float"
  <2>1. b = m
    BY <1>3, StoredType, TypeWidths, EntryFacts
  <2> HIDE DEF b, m, v
  <2>2. v = [i \in 0 .. m - 1 |-> v[i]]
    BY <1>2 DEF Word
  <2>3. w = v
    BY <2>1, <2>2
  <2> QED
    BY <1>3, <2>3 DEF b, v
<1>4. CASE t.type # "float"
  <2> DEFINE c == Cast(n, LongBits, b, FALSE)
  <2>1. c = [i \in 0 .. b - 1 |-> c[i]] /\ \A i \in 0 .. b - 1 : c[i] = n[i]
    <3>1. b <= LongBits
      BY <1>1
    <3> HIDE DEF b
    <3>2. c \in Word(b) /\ \A i \in 0 .. b - 1 : c[i] = n[i]
      BY <1>1, <3>1, CastDown
    <3> HIDE DEF c
    <3> QED
      BY <3>2 DEF Word
  <2>2. \A i \in 0 .. m - 1 : v[i] = n[i]
    <3>1. CASE t.type = "double"
      BY <3>1 DEF ToValue
    <3>2. CASE t.type # "double"
      <4>1. v = Cast(n, LongBits, m, FALSE)
        BY <1>4, <3>2 DEF ToValue
      <4> HIDE DEF v, m
      <4> QED
        BY <1>1, <4>1, CastDown
    <3> QED
      BY <3>1, <3>2
  <2> HIDE DEF b, m, v, c
  <2>3. \A i \in 0 .. b - 1 : v[i] = c[i]
    BY <1>1, <2>1, <2>2
  <2>4. w = c
    BY <2>1, <2>3
  <2> QED
    BY <1>4, <2>4 DEF b, v, c
<1> QED
  BY <1>3, <1>4

(* Until a byte of it is written over, a value of fixed size stands in the *)
(* buffer in the order that its class is named after, on machines of       *)
(* either byte order, whatever is written around it.  For floats this      *)
(* rests on the conversions being what FloatsNear says.                    *)
THEOREM ValuesStandAlways ==
  ASSUME FloatsNear(Writes) PROVE Spec => []ValuesStand
<1>1. IInv => ValuesStand
  <2> SUFFICES ASSUME IInv, NEW v \in values, v.entry.class # "VarInt"
               PROVE  LET n == SizeInBytes(v.entry)
                          w == [i \in 0 .. n * CharBits - 1 |->
                                  LET k == i \div CharBits
                                  IN  sink.data[v.at + (IF v.entry.class = "LE" THEN k + 1 ELSE n - k)][i % CharBits]]
                      IN  /\ v.length = n /\ v.at + n <= Len(sink.data)
                          /\ IF v.entry.name = "Float" THEN StandsForFloat(w, v.number)
                             ELSE w = Cast(v.number, LongBits, n * CharBits, FALSE)
    BY DEF ValuesStand
  <2> DEFINE t == v.entry
             x == v.number
             n == Stored(t)
             b == n * CharBits
             d == sink.data
             bit(i) == d[v.at + (IF t.class = "LE" THEN (i \div CharBits) + 1
                                                   ELSE n - (i \div CharBits))][i % CharBits]
             w == [i \in 0 .. b - 1 |-> bit(i)]
             u == [i \in 0 .. b - 1 |-> ToValue(t, x)[i]]
  <2>1. t \in Entries /\ x \in Word(LongBits) /\ host.writer \in Orders
    BY Values DEF IInv
  <2>2. t.codec # "VarInt" /\ (t.name = "Float" <=> t.type = "float") /\ SizeInBytes(t) = n
    BY <2>1, Names
  <2>3. /\ v.at \in Nat /\ v.length = Len(Encode(t, x, host.writer))
        /\ v.at + v.length <= Len(d) /\ StandsIn(d, v)
    BY DEF IInv
  <2>4. d \in Seq(Byte)
    BY DEF IInv, TypeOK
  <2>5. v.length = n /\ n \in Nat
    BY <2>1, <2>2, <2>3, EncodeType
  <2>6. \A k \in 1 .. n : d[v.at + k] = Encode(t, x, host.writer)[k]
    <3>1. Len(Encode(t, x, host.writer)) = n
      BY <2>3, <2>5
    <3>2. \A k \in 1 .. n : v.at + k <= Len(d) => d[v.at + k] = Encode(t, x, host.writer)[k]
      BY <2>3, <3>1 DEF StandsIn
    <3> HIDE DEF n
    <3>3. \A k \in 1 .. n : v.at + k <= Len(d)
      BY <2>3, <2>4, <2>5
    <3> QED
      BY <3>2, <3>3
  <2>7. v.at + Stored(t) <= Len(d)
    BY <2>3, <2>5
  <2>8. \A i \in 0 .. b - 1 : bit(i) = ToValue(t, x)[i]
    BY <2>1, <2>2, <2>3, <2>4, <2>6, <2>7, BitsThatStand
  <2>9. IF t.type = "float" THEN u = ToValue(t, x) ELSE u = Cast(x, LongBits, b, FALSE)
    BY <2>1, <2>2, StoredBits
  <2>10. w = u
    BY <2>8
  <2>11. t.type = "float" => StandsForFloat(ToValue(t, x), x)
    <3> DEFINE y == <<t, x>>
    <3>1. y \in Writes
      BY DEF IInv, TypeOK
    <3>2. y[1] = t /\ y[2] = x
      OBVIOUS
    <3> HIDE DEF y, t, x
    <3> QED
      BY <2>2, <3>1, <3>2 DEF FloatsNear
  <2> HIDE DEF u, w, b
  <2>12. IF t.name = "Float" THEN StandsForFloat(w, x) ELSE w = Cast(x, LongBits, b, FALSE)
    BY <2>2, <2>9, <2>10, <2>11
  <2> QED
    BY <2>2, <2>5, <2>7, <2>12 DEF w, b
<1> QED
  BY <1>1, IInvAlways, PTL

----------------------------------------------------------------------------
(* The reader keeps to what ByteSource promises.                           *)

(* What ByteSource sees of the reader and of its last call.                *)
SeenSource == [r \in {"reader"} |-> source]

SeenRet ==
  [op |-> IF ret.at < 0 THEN "setOffset"
          ELSE IF ret.entry.codec = "VarInt" THEN "readVarInt" ELSE "readType",
   by |-> "reader", threw |-> ret.threw,
   str |-> IF ret.at < 0 \/ ret.threw THEN <<>> ELSE SubSeq(source.data, ret.at + 1, ret.end),
   num |-> 0]

(* A read that returns takes its bytes. *)
LEMMA PromisedRead ==
  ASSUME NEW op, NEW n \in Nat,
         source.pos + n <= Len(source.data),
         source' = [source EXCEPT !.pos = source.pos + n],
         SeenRet' = [op |-> op, by |-> "reader", threw |-> FALSE,
                     str |-> SubSeq(source.data, source.pos + 1, source.pos + n), num |-> 0]
  PROVE  Reader!Read(op, "reader", n)
<1>1. SeenSource["reader"] = source
  BY DEF SeenSource
<1>2. SeenSource' = [SeenSource EXCEPT !["reader"].pos = @ + n]
  BY <1>1 DEF SeenSource
<1>3. Reader!Returns(op, "reader", SubSeq(source.data, source.pos + 1, source.pos + n), 0)
  BY DEF Reader!Returns, SeenRet
<1> QED
  BY <1>1, <1>2, <1>3 DEF Reader!Read, SeenSource

(* A read that throws leaves the position where it was.                    *)
LEMMA PromisedThrow ==
  ASSUME NEW op, NEW n \in Nat,
         ~ (source.pos + n <= Len(source.data)),
         source' = source,
         SeenRet' = [op |-> op, by |-> "reader", threw |-> TRUE, str |-> <<>>, num |-> 0]
  PROVE  Reader!Read(op, "reader", n)
<1>1. SeenSource["reader"] = source
  BY DEF SeenSource
<1>2. SeenSource' = SeenSource
  BY DEF SeenSource
<1>3. Reader!Throws(op, "reader")
  BY DEF Reader!Throws, SeenRet
<1> QED
  BY <1>1, <1>2, <1>3 DEF Reader!Read, SeenSource

(* Where a varint ends, in terms of the reading loop.                      *)
LEMMA VarIntEnds ==
  ASSUME NEW n \in Nat \ {0}, source.data \in Seq(Byte), source.pos \in 0 .. Len(source.data)
  PROVE  LET s == SubSeq(source.data, source.pos + 1, Len(source.data))
             k == VarIntBytes(s, n)
         IN  Reader!VarIntSize(source, MAX_BYTES(n)) = IF Terminated(s, k) THEN k ELSE 0
<1> DEFINE d == source.data
           o == source.pos
           s == SubSeq(d, o + 1, Len(d))
           k == VarIntBytes(s, n)
           m == MAX_BYTES(n)
           ends == {i \in 1 .. m : o + i <= Len(d) /\ d[o + i] \in {b \in Byte : Ends(b)}}
           size == Reader!VarIntSize(source, m)
<1>1. m \in Nat \ {0}
  BY MaxBytesEnough
<1>2. /\ s \in Seq(Byte) /\ Len(s) = Len(d) - o
      /\ \A i \in 1 .. Len(d) - o : s[i] = d[o + i]
  BY Rest
<1>3. StopsAt(s, n, k)
  BY <1>2, VarIntBytesIs
<1>4. size = IF ends = {} THEN 0 ELSE CHOOSE i \in ends : \A e \in ends : i <= e
  BY DEF Reader!VarIntSize
<1> HIDE DEF s, k, m, size
<1>5. \A i \in ends : i \in 1 .. m /\ i \in 1 .. Len(s) /\ Ends(s[i])
  BY <1>1, <1>2
<1>6. \A i \in 1 .. m : i <= Len(s) /\ Ends(s[i]) => i \in ends
  <2> SUFFICES ASSUME NEW i \in 1 .. m, i <= Len(s), Ends(s[i]) PROVE i \in ends
    OBVIOUS
  <2>1. i \in 1 .. Len(d) - o /\ i \in 1 .. Len(s)
    BY <1>1, <1>2
  <2>2. s[i] = d[o + i] /\ s[i] \in Byte /\ o + i <= Len(d)
    BY <1>2, <2>1
  <2> QED
    BY <2>2
<1> HIDE DEF ends
<1>7. /\ k \in 0 .. m /\ k <= Len(s) /\ \A i \in 1 .. k - 1 : ~ Ends(s[i])
      /\ k = m \/ k = Len(s) \/ (k > 0 /\ Ends(s[k]))
  BY <1>3 DEF StopsAt, m
<1>8. CASE Terminated(s, k)
  <2>1. k > 0 /\ Ends(s[k])
    BY <1>8 DEF Terminated
  <2>2. k \in ends
    BY <1>1, <1>6, <1>7, <2>1
  <2>3. \A e \in ends : k <= e
    <3> SUFFICES ASSUME NEW e \in ends, ~ (k <= e) PROVE FALSE
      OBVIOUS
    <3>1. e \in 1 .. m /\ Ends(s[e])
      BY <1>5
    <3>2. e \in 1 .. k - 1
      BY <1>1, <1>7, <3>1
    <3> QED
      BY <1>7, <3>1, <3>2
  <2>4. \A i \in ends : (\A e \in ends : i <= e) => i = k
    <3> SUFFICES ASSUME NEW i \in ends, \A e \in ends : i <= e PROVE i = k
      OBVIOUS
    <3>1. i <= k /\ k <= i /\ i \in Nat /\ k \in Nat
      BY <1>1, <1>5, <1>7, <2>2, <2>3
    <3> QED
      BY <3>1
  <2>5. size = k
    BY <1>4, <2>2, <2>3, <2>4
  <2> QED
    BY <1>8, <2>5 DEF size, s, k, m
<1>9. CASE ~ Terminated(s, k)
  <2>1. ends = {}
    <3> SUFFICES ASSUME NEW e \in ends PROVE FALSE
      OBVIOUS
    <3>1. e \in 1 .. m /\ e \in 1 .. Len(s) /\ Ends(s[e])
      BY <1>5
    <3>2. ~ (k > 0 /\ Ends(s[k])) /\ (k = m \/ k = Len(s)) /\ k \in Nat /\ Len(s) \in Nat
      BY <1>1, <1>2, <1>7, <1>9 DEF Terminated
    <3>3. e <= k /\ e # k
      BY <1>1, <3>1, <3>2
    <3>4. e \in 1 .. k - 1
      BY <3>1, <3>2, <3>3
    <3> QED
      BY <1>7, <3>1, <3>4
  <2>2. size = 0
    BY <1>4, <2>1
  <2> QED
    BY <1>9, <2>2 DEF size, s, k, m
<1> QED
  BY <1>8, <1>9

(* A read of a type of fixed size. *)
LEMMA FixedAsPromised ==
  ASSUME IInv, NEW t \in Used, Read(t), t.codec # "VarInt"
  PROVE  Reader!Read("readType", "reader", Stored(t))
<1> DEFINE s == SubSeq(source.data, source.pos + 1, Len(source.data))
           d == Decode(t, s, host.reader)
           o == source.pos
           l == Len(source.data)
           n == Stored(t)
           b == <<>>
<1>1. t \in Entries /\ host.reader \in Orders
  BY UsedAssumption, Values DEF IInv
<1>2. source.data \in Seq(Byte) /\ o \in 0 .. l /\ l \in Nat
  BY DEF IInv, TypeOK
<1>3. s \in Seq(Byte) /\ Len(s) = l - o
  BY <1>2, Rest
<1>4. /\ d.threw = ~ (n <= Len(s)) /\ d.taken = IF n <= Len(s) THEN n ELSE 0
  BY <1>1, <1>3, DecodesFixed
<1>5. n \in Nat
  BY <1>1, StoredType
<1>6. /\ source' = [source EXCEPT !.pos = o + d.taken]
      /\ ret' = [entry |-> t, at |-> o, threw |-> d.threw, end |-> o + d.taken, number |-> d.number]
  BY DEF Read, Unread
<1> HIDE DEF s, d
<1>7. /\ ret'.at = o /\ ~ (ret'.at < 0) /\ ret'.entry.codec # "VarInt"
      /\ ret'.threw = d.threw /\ ret'.end = o + d.taken
  BY <1>2, <1>6
<1>8. source'.data = source.data
  BY <1>6
<1>9. CASE n <= Len(s)
  <2>1. o + n <= l
    BY <1>2, <1>3, <1>5, <1>9
  <2>2. d.threw = FALSE /\ d.taken = n
    BY <1>4, <1>9
  <2>3. SeenRet' = [op |-> "readType", by |-> "reader", threw |-> FALSE,
                    str |-> SubSeq(source.data, o + 1, o + n), num |-> 0]
    BY <1>7, <1>8, <2>2 DEF SeenRet
  <2> QED
    BY <1>5, <1>6, <2>1, <2>2, <2>3, PromisedRead
<1>10. CASE ~ (n <= Len(s))
  <2>1. ~ (o + n <= l)
    BY <1>2, <1>3, <1>5, <1>10
  <2>2. d.threw = TRUE /\ d.taken = 0
    BY <1>4, <1>10
  <2>3. SeenRet' = [op |-> "readType", by |-> "reader", threw |-> TRUE, str |-> <<>>, num |-> 0]
    BY <1>7, <2>2 DEF SeenRet
  <2>4. source' = source
    <3>1. source \in [data : Seq(Byte), pos : Nat] /\ o + d.taken = o
      BY <1>2, <2>2 DEF IInv, TypeOK
    <3> QED
      BY <1>6, <3>1
  <2> QED
    BY <1>5, <2>1, <2>3, <2>4, PromisedThrow
<1> QED
  BY <1>9, <1>10

(* A read of a varint.                                                     *)
LEMMA VarIntAsPromised ==
  ASSUME IInv, NEW t \in Used, Read(t), t.codec = "VarInt"
  PROVE  Reader!ReadVarInt("reader", MAX_BYTES(Bits(t.type)))
<1> DEFINE s == SubSeq(source.data, source.pos + 1, Len(source.data))
           d == Decode(t, s, host.reader)
           o == source.pos
           l == Len(source.data)
           k == VarIntBytes(s, Bits(t.type))
           size == Reader!VarIntSize(source, MAX_BYTES(Bits(t.type)))
<1>1. t \in Entries /\ host.reader \in Orders
  BY UsedAssumption, Values DEF IInv
<1>2. source.data \in Seq(Byte) /\ o \in 0 .. l /\ l \in Nat
  BY DEF IInv, TypeOK
<1>3. s \in Seq(Byte) /\ Len(s) = l - o
  BY <1>2, Rest
<1>4. d.threw = ~ Terminated(s, k) /\ d.taken = k
  BY DecodeIs DEF Bytes, Enough
<1>5. d.taken \in 0 .. Len(s)
  BY <1>1, <1>3, DecodeType
<1>6. /\ source' = [source EXCEPT !.pos = o + d.taken]
      /\ ret' = [entry |-> t, at |-> o, threw |-> d.threw, end |-> o + d.taken, number |-> d.number]
  BY DEF Read, Unread
<1>7. size = IF Terminated(s, k) THEN k ELSE 0
  <2>1. Bits(t.type) \in Nat \ {0}
    BY <1>1, TypeWidths
  <2> QED
    BY <1>2, <2>1, VarIntEnds
<1>8. SeenSource["reader"] = source
  BY DEF SeenSource
<1>9. Reader!ReadVarInt("reader", MAX_BYTES(Bits(t.type))) <=>
        IF size > 0 THEN Reader!Read("readVarInt", "reader", size)
        ELSE /\ Reader!Throws("readVarInt", "reader")
             /\ \E p \in o .. l : SeenSource' = [SeenSource EXCEPT !["reader"].pos = p]
  BY <1>8 DEF Reader!ReadVarInt, SeenSource
<1> HIDE DEF s, d, k, size
<1>10. /\ ret'.at = o /\ ~ (ret'.at < 0) /\ ret'.entry.codec = "VarInt"
       /\ ret'.threw = d.threw /\ ret'.end = o + d.taken
  BY <1>2, <1>6
<1>11. source'.data = source.data
  BY <1>6
<1>12. o + d.taken \in o .. l
  BY <1>2, <1>3, <1>5
<1>13. CASE Terminated(s, k)
  <2>1. d.threw = FALSE /\ d.taken = size /\ size > 0 /\ size \in Nat
    <3>1. d.threw = FALSE
      BY <1>4, <1>13
    <3>2. d.taken = size /\ size = k
      BY <1>4, <1>7, <1>13
    <3>3. k > 0
      BY <1>13 DEF Terminated
    <3> QED
      BY <1>5, <3>1, <3>2, <3>3
  <2>2. SeenRet' = [op |-> "readVarInt", by |-> "reader", threw |-> FALSE,
                    str |-> SubSeq(source.data, o + 1, o + size), num |-> 0]
    BY <1>10, <1>11, <2>1 DEF SeenRet
  <2>3. o + size <= l
    BY <1>2, <1>12, <2>1
  <2>4. Reader!Read("readVarInt", "reader", size)
    BY <1>6, <2>1, <2>2, <2>3, PromisedRead
  <2> QED
    BY <1>9, <2>1, <2>4
<1>14. CASE ~ Terminated(s, k)
  <2>1. d.threw = TRUE /\ ~ (size > 0)
    <3>1. d.threw = TRUE
      BY <1>4, <1>14
    <3>2. size = 0
      BY <1>7, <1>14
    <3> QED
      BY <3>1, <3>2
  <2>2. SeenRet' = [op |-> "readVarInt", by |-> "reader", threw |-> TRUE, str |-> <<>>, num |-> 0]
    BY <1>10, <2>1 DEF SeenRet
  <2>3. Reader!Throws("readVarInt", "reader")
    BY <2>2 DEF Reader!Throws, SeenRet
  <2>4. SeenSource' = [SeenSource EXCEPT !["reader"].pos = o + d.taken]
    BY <1>6, <1>8 DEF SeenSource
  <2> QED
    BY <1>9, <1>12, <2>1, <2>3, <2>4
<1> QED
  BY <1>13, <1>14

(* setOffset of the reader.                                                *)
LEMMA SetOffsetAsPromised ==
  ASSUME IInv, NEW n \in Seeks, SetReadOffset(n)
  PROVE  Reader!SetOffset("reader", n)
<1>1. source' = [source EXCEPT !.pos = n] /\ n \in 0 .. Len(source.data) /\ ret' = NoRead
  BY BoundsAssumption DEF SetReadOffset, IInv, TypeOK
<1>2. ret'.at < 0 /\ ret'.threw = FALSE
  BY <1>1, NoReadType
<1>3. SeenRet' = [op |-> "setOffset", by |-> "reader", threw |-> FALSE, str |-> <<>>, num |-> 0]
  BY <1>2 DEF SeenRet
<1>4. SeenSource["reader"] = source
  BY DEF SeenSource
<1>5. SeenSource' = [SeenSource EXCEPT !["reader"] = [source EXCEPT !.pos = n]]
  BY <1>1 DEF SeenSource
<1>6. Reader!Become("setOffset", "reader", [source EXCEPT !.pos = n])
  BY <1>3, <1>5 DEF Reader!Become, Reader!Returns, SeenSource, SeenRet
<1> QED
  BY <1>1, <1>4, <1>6 DEF Reader!SetOffset, SeenSource

(* Whatever bytes are read where, also from the middle of a value or where *)
(* they were cut off, each call takes the bytes that ByteSource promises,  *)
(* or throws and leaves the position where it says.                        *)
THEOREM ReadsAsPromisedAlways == Spec => ReadsAsPromised
<1> DEFINE Step == phase = "reading" => Reader!Next
<1>1. IInv /\ [Next]_vars => [Step]_vars
  <2> SUFFICES ASSUME IInv, Next, phase = "reading" PROVE Reader!Next
    BY DEF Step
  <2>1. ASSUME NEW t \in Used, Read(t) PROVE Reader!Next
    <3>1. t \in Entries
      BY UsedAssumption
    <3>2. CASE t.codec # "VarInt"
      <4>1. Stored(t) \in {Stored(e) : e \in {x \in Entries : x.codec # "VarInt"}}
        BY <3>1, <3>2
      <4>2. Reader!Read("readType", "reader", Stored(t))
        BY <2>1, <3>2, FixedAsPromised
      <4> QED
        BY <4>1, <4>2 DEF Reader!Next, Reader!Call
    <3>3. CASE t.codec = "VarInt"
      <4>1. MAX_BYTES(Bits(t.type)) \in
              {MAX_BYTES(Bits(e.type)) : e \in {x \in Entries : x.codec = "VarInt"}}
        BY <3>1, <3>3
      <4>2. Reader!ReadVarInt("reader", MAX_BYTES(Bits(t.type)))
        BY <2>1, <3>3, VarIntAsPromised
      <4> QED
        BY <4>1, <4>2 DEF Reader!Next, Reader!Call
    <3> QED
      BY <3>2, <3>3
  <2>2. ASSUME NEW n \in Seeks, SetReadOffset(n) PROVE Reader!Next
    <3>1. Reader!SetOffset("reader", n)
      BY <2>2, SetOffsetAsPromised
    <3> QED
      BY <3>1 DEF Reader!Next, Reader!Call
  <2> QED
    BY <2>1, <2>2 DEF Next, Write, SetWriteOffset, Send
<1> QED
  BY <1>1, IInvAlways, PTL DEF Spec, ReadsAsPromised
=============================================================================
