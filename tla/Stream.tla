------------------------------- MODULE Stream -------------------------------
(***************************************************************************)
(* A script writes values of different types with a ByteBufferWriter,      *)
(* patches some of them later, and sends the bytes; another script, on a   *)
(* machine that may have the other byte order, reads what arrives, which   *)
(* may be cut off, with a ByteBufferReader.  Codec says what the functions *)
(* make of the values; the writer is what ByteSink promises, and the       *)
(* reader is shown to keep to what ByteSource promises.                    *)
(***************************************************************************)
EXTENDS Codec, FiniteSets

CONSTANTS
  Writes,    \* what is written: pairs of an entry of Codec and a number
  Used,       \* the entries with which is read
  Seeks,      \* the arguments of setOffset
  Cuts,       \* how many bytes may be lost at the end
  MaxLength,  \* the most bytes that are written
  MaxValues   \* with so many values in the buffer nothing more is written

ASSUME UsedAssumption == Writes \subseteq Entries \X Word(LongBits) /\ Used \subseteq Entries
ASSUME BoundsAssumption ==
  Seeks \cup Cuts \subseteq Nat /\ MaxLength \in Nat /\ MaxValues \in Nat

VARIABLES
  host,    \* the byte orders of the two machines
  phase,   \* whether the buffer is being written or read
  sink,    \* the writer's bytes and its position
  values,  \* the values that were written and not written over since
  source,  \* the reader's bytes and its position
  sent,    \* the values that stood in the buffer when its bytes were sent
  ret      \* the last read

vars == <<host, phase, sink, values, source, sent, ret>>

----------------------------------------------------------------------------
(* The writing script.                                                     *)

Empty == [data |-> <<>>, pos |-> 0]

Writer ==
  INSTANCE ByteSink WITH
    Writers <- {"writer"}, Strings <- {}, Encoded <- {}, Offsets <- Seeks, Arrays <- {},
    running <- TRUE, objects <- {"writer"}

(* The values of which no byte stands in from + 1 .. to. *)
Spared(from, to) == {v \in values : v.at + v.length <= from \/ v.at >= to}

Write(t, n) ==
  LET s   == Encode(t, n, host.writer)
      end == sink.pos + Len(s)
  IN
  /\ phase = "writing" /\ Cardinality(values) < MaxValues
  /\ end <= MaxLength
  /\ sink' = Writer!Written(sink, s)
  /\ values' = Spared(sink.pos, end) \cup
                 {[at |-> sink.pos, length |-> Len(s), entry |-> t, number |-> n]}
  /\ UNCHANGED <<host, phase, source, sent, ret>>

SetWriteOffset(n) ==
  /\ phase = "writing" /\ n <= Len(sink.data)
  /\ sink' = [sink EXCEPT !.pos = n]
  /\ UNCHANGED <<host, phase, values, source, sent, ret>>

----------------------------------------------------------------------------
(* The reading script.                                                     *)

NoRead ==
  [entry |-> CHOOSE t \in Entries : TRUE, at |-> -1, threw |-> FALSE, end |-> 0,
   number |-> Zero(LongBits)]

(* new ByteBufferReader of what getData returned, without the last n       *)
(* bytes; the writer is done with.                                         *)
Send(n) ==
  /\ phase = "writing" /\ n <= Len(sink.data)
  /\ phase' = "reading"
  /\ source' = [data |-> SubSeq(sink.data, 1, Len(sink.data) - n), pos |-> 0]
  /\ sent' = values
  /\ sink' = Empty /\ values' = {}
  /\ UNCHANGED <<host, ret>>

Unread == SubSeq(source.data, source.pos + 1, Len(source.data))

Read(t) ==
  LET d   == Decode(t, Unread, host.reader)
      end == source.pos + d.taken
  IN
  /\ phase = "reading"
  /\ source' = [source EXCEPT !.pos = end]
  /\ ret' = [entry |-> t, at |-> source.pos, threw |-> d.threw, end |-> end, number |-> d.number]
  /\ UNCHANGED <<host, phase, sink, values, sent>>

SetReadOffset(n) ==
  /\ phase = "reading" /\ n <= Len(source.data)
  /\ source' = [source EXCEPT !.pos = n]
  /\ ret' = NoRead
  /\ UNCHANGED <<host, phase, sink, values, sent>>

----------------------------------------------------------------------------

Init ==
  /\ host \in [writer : Orders, reader : Orders]
  /\ phase = "writing"
  /\ sink = Empty
  /\ values = {}
  /\ source = Empty
  /\ sent = {}
  /\ ret = NoRead

Next ==
  \/ \E w \in Writes : Write(w[1], w[2])
  \/ \E n \in Seeks : SetWriteOffset(n)
  \/ \E n \in Cuts : Send(n)
  \/ \E t \in Used : Read(t)
  \/ \E n \in Seeks : SetReadOffset(n)

Spec == Init /\ [][Next]_vars

----------------------------------------------------------------------------
(* What the names of the functions promise.                                *)

PromisedSize ==
  [Short |-> 2, Triad |-> 3, Int |-> 4, Long |-> 8, Float |-> 4, Double |-> 8]

(* How many bytes of the number count; all of them are stored, except of a *)
(* varint.                                                                 *)
SizeInBytes(t) == IF t.class = "Byte" THEN 1 ELSE PromisedSize[t.name]

IsNaN(k, f) == k > Infinity(f)

(* What k stands for in format f, in units of the smallest double, where   *)
(* the infinity counts as the number that would follow the largest.        *)
Meaning(k, f) ==
  Significand(k, f) * 2 ^ (Exponent(k, f) - 1) *
    (IF f = Float THEN 2 ^ (Bias(Double) - Bias(Float) + Double.fraction - Float.fraction) ELSE 1)

(* The float k is the nearest to the double x, the even one of two.        *)
Nearest(x, k) ==
  LET distance(j) ==
        LET m == Meaning(x, Double) - Meaning(j, Float) IN IF m < 0 THEN -m ELSE m
  IN  \A j \in 0 .. Infinity(Float) \ {k} :
        distance(k) < distance(j) \/ (distance(k) = distance(j) /\ k % 2 = 0)

(* The bits w of a float are those of the double n, as near as they can. *)
StandsForFloat(w, n) ==
  LET x == Magnitude(n, Double)
      k == Magnitude(w, Float)
  IN  IF IsNaN(x, Double) THEN IsNaN(k, Float)
      ELSE SignOf(w, Float) = SignOf(n, Double) /\ k <= Infinity(Float) /\ Nearest(x, k)

(* The double r is a float, and the nearest to n. *)
ComesBackAs(n, r) ==
  LET x == Magnitude(n, Double)
      y == Magnitude(r, Double)
  IN  IF IsNaN(x, Double) THEN IsNaN(y, Double)
      ELSE /\ SignOf(r, Double) = SignOf(n, Double)
           /\ \E k \in 0 .. Infinity(Float) :
                /\ IF k = Infinity(Float) THEN y = Infinity(Double)
                                         ELSE Meaning(y, Double) = Meaning(k, Float)
                /\ Nearest(x, k)

(* r is what reading returns for the number n that was written: a float as *)
(* near as possible, a double as it was, an integer cut to its size, with  *)
(* its sign or without.                                                    *)
Promised(t, n, r) ==
  CASE t.name = "Float"  -> ComesBackAs(n, r)
    [] t.name = "Double" -> r = n
    [] OTHER             -> r = Cast(n, SizeInBytes(t) * CharBits, LongBits, t.sign = "Signed")

----------------------------------------------------------------------------
(* Invariants.                                                             *)

(* The variables hold what the members of the objects can hold. *)
TypeOK ==
  /\ host \in [writer : Orders, reader : Orders]
  /\ phase \in {"writing", "reading"}
  /\ {sink, source} \subseteq [data : Seq(Byte), pos : Nat]
  /\ sink.pos <= Len(sink.data) /\ source.pos <= Len(source.data)
  /\ \A v \in values \cup sent : <<v.entry, v.number>> \in Writes
  /\ ret.entry \in Entries /\ ret.number \in Word(LongBits)
  /\ ret.at \in Nat \cup {-1} /\ ret.threw \in BOOLEAN
  /\ ret.at >= 0 => ret.end \in ret.at .. Len(source.data)

(* On a machine of either byte order, and for triads as for other types,   *)
(* the bytes of a value of fixed size stand in the buffer in the order     *)
(* that the class is named after, until a byte of it is written over:      *)
(* nothing that is written before or behind it touches it.                 *)
ValuesStand ==
  \A v \in {u \in values : u.entry.class # "VarInt"} :
    LET n == SizeInBytes(v.entry)
        w == [i \in 0 .. n * CharBits - 1 |->
                LET k == i \div CharBits
                IN  sink.data[v.at + (IF v.entry.class = "LE" THEN k + 1 ELSE n - k)][i % CharBits]]
    IN  /\ v.length = n /\ v.at + n <= Len(sink.data)
        /\ IF v.entry.name = "Float" THEN StandsForFloat(w, v.number)
                                     ELSE w = Cast(v.number, LongBits, n * CharBits, FALSE)

(* The values that a read of the same type was made for. *)
Aimed == {v \in sent : v.at = ret.at /\ v.entry = ret.entry}

(* On a machine of either byte order, reading a value that has arrived     *)
(* with the function it was written with, in whatever order the values are *)
(* read, returns what the name promises and goes on to the byte behind it. *)
ReadsValues ==
  \A v \in Aimed :
    v.at + v.length <= Len(source.data) =>
      /\ ~ ret.threw /\ ret.end = v.at + v.length
      /\ Promised(v.entry, v.number, ret.number)

(* A value of which bytes are missing is never returned: no value begins   *)
(* like another, shorter one of its type.                                  *)
TruncatedThrows ==
  \A v \in Aimed : v.at + v.length > Len(source.data) => ret.threw

(* Whatever the bytes are, writing what was read with the same type gives  *)
(* the same bytes again; a varint may become shorter, and a NaN another.   *)
RepacksSame ==
  ret.at >= 0 /\ ~ ret.threw =>
    LET taken    == SubSeq(source.data, ret.at + 1, ret.end)
        repacked == Encode(ret.entry, ret.number, host.reader)
    IN  CASE ret.entry.class = "VarInt" -> Len(repacked) <= Len(taken)
          [] ret.entry.name = "Float" /\ IsNaN(Magnitude(ret.number, Double), Double) -> TRUE
          [] OTHER -> repacked = taken

----------------------------------------------------------------------------
(* What makes these invariants inductive: the bytes of a value stand where *)
(* it was written, as far as the buffer reaches, and the last read was     *)
(* made of the bytes that are still there.                                 *)

StandsIn(data, v) ==
  LET s == Encode(v.entry, v.number, host.writer)
  IN  \A k \in 1 .. Len(s) : v.at + k <= Len(data) => data[v.at + k] = s[k]

IInv ==
  /\ TypeOK
  /\ \A v \in values \cup sent :
       v.at \in Nat /\ v.length = Len(Encode(v.entry, v.number, host.writer))
  /\ \A v \in values : v.at + v.length <= Len(sink.data) /\ StandsIn(sink.data, v)
  /\ \A v \in sent : StandsIn(source.data, v)
  /\ phase = "writing" => ret.at < 0
  /\ ret.at >= 0 =>
       LET d == Decode(ret.entry, SubSeq(source.data, ret.at + 1, Len(source.data)), host.reader)
       IN  ret.threw = d.threw /\ ret.end = ret.at + d.taken /\ ret.number = d.number

(* What the conversions between doubles and floats should do, a matter of  *)
(* exponents and fractions alone: what is written is as near as possible,  *)
(* what is read and is a number can be written again.                      *)

FloatsNear(writes) ==
  \A w \in {x \in writes : x[1].name = "Float"} :
    LET k == ToValue(w[1], w[2])
    IN  StandsForFloat(k, w[2]) /\ ComesBackAs(w[2], FromValue(w[1], k))

FloatsKept ==
  \A t \in {e \in Entries : e.name = "Float"} : \A k \in Word(Bits(t.type)) :
    LET r == FromValue(t, k) IN IsNaN(Magnitude(r, Double), Double) \/ ToValue(t, r) = k

----------------------------------------------------------------------------
(* The reader of ByteSource, which knows how many bytes the types take and *)
(* where a varint ends, and nothing of values.                             *)

Reader ==
  INSTANCE ByteSource WITH
    Readers <- {"reader"}, Data <- {}, Last <- {b \in Byte : Ends(b)},
    Widths <- {Stored(t) : t \in {e \in Entries : e.codec # "VarInt"}},
    VarIntSizes <- {MAX_BYTES(Bits(t.type)) : t \in {e \in Entries : e.codec = "VarInt"}},
    Offsets <- Seeks, Lengths <- {},
    running <- TRUE, objects <- {"reader"}, source <- [r \in {"reader"} |-> source],
    ret <- [op |-> IF ret.at < 0 THEN "setOffset"
                   ELSE IF ret.entry.codec = "VarInt" THEN "readVarInt" ELSE "readType",
            by |-> "reader", threw |-> ret.threw,
            str |-> IF ret.at < 0 \/ ret.threw THEN <<>>
                    ELSE SubSeq(source.data, ret.at + 1, ret.end),
            num |-> 0]

(* Whatever is read where, also from the middle of a value or behind the   *)
(* place where the bytes were cut off, the functions take the bytes that   *)
(* ByteSource promises, or throw and leave the position where it says.     *)
ReadsAsPromised == [][phase = "reading" => Reader!Next]_vars
=============================================================================
