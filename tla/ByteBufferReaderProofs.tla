----------------------- MODULE ByteBufferReaderProofs -----------------------
(***************************************************************************)
(* Theorems about ByteBufferReader: type correctness, the counts of the    *)
(* strings that readers share, and the offsets, for any number of readers, *)
(* strings and references.                                                 *)
(*                                                                         *)
(* The invariants rest on one number per counted string, its surplus: how  *)
(* far its reference count exceeds the references there are.  Every call   *)
(* keeps the surplus or, if it is aborted or restores a reader in use,     *)
(* raises it; so no string is freed too early, and without those calls     *)
(* none is leaked.                                                         *)
(***************************************************************************)
EXTENDS ByteBufferReader, NaturalLemmas, FiniteSetTheorems, SequenceTheorems

(* Readers that do not exist refer to no counted string. *)
Blanks == \A r \in Readers \ objects : reader[r] = Blank

Surplus(c) == refs[c] - Holders(c)

(* The readers that have the string c. *)
Bound(c) == {r \in objects : reader[r].buffer = c}

(* What every call does to types and surpluses. *)
Kept ==
  /\ TypeOK' /\ Blanks'
  /\ \A c \in Cells : Surplus(c)' >= Surplus(c)
  /\ ~ Direct /\ mode' = "running" => \A c \in Cells : Surplus(c)' = Surplus(c)

Results == [op : Calls, by : Readers, exc : Seq(Words), str : Seq(Byte), num : Long]

Modes == {"running", "shutdown", "ended", "faulted"}

----------------------------------------------------------------------------
(* Strings, numbers and results.                                           *)

(* The integers of the machine contain what the code computes with.        *)
LEMMA Numbers ==
  /\ 0 \in Size /\ 0 \in Long /\ 1 \in Long /\ SizeMod \in Nat /\ SizeMod > 2
  /\ Size \subseteq Nat
  /\ \A n \in Size : Signed(n) \in Long
  /\ \A n \in Long : Wrap(n) \in Size
BY NumbersAssumption DEF Size, Long, Signed, Wrap

(* A string is one a script can make; its length is a size_t and a         *)
(* zend_long.                                                              *)
LEMMA StringType ==
  ASSUME TypeOK, NEW p \in Cells \cup Literals
  PROVE  /\ Chars(p) \in Data /\ Chars(p) \in Seq(Byte)
         /\ Len(Chars(p)) \in Nat /\ Len(Chars(p)) \in Size /\ 2 * Len(Chars(p)) < SizeMod
<1>1. <<>> \in Data
  BY LiteralsAssumption
<1>2. Chars(p) \in Data
  BY <1>1, LiteralsAssumption DEF Chars, TypeOK
<1> QED
  BY <1>2, DataAssumption, Numbers DEF Size

(* What is left to read, whatever the offset is. *)
LEMMA UnreadType ==
  ASSUME TypeOK, NEW p \in Cells \cup Literals, NEW o \in Size
  PROVE  /\ Unread(Chars(p), o) \in Size
         /\ o <= Len(Chars(p)) => Unread(Chars(p), o) = Len(Chars(p)) - o
BY StringType, Numbers DEF Unread, Wrap, Size

(* A slice within a string is a string of bytes. *)
LEMMA SliceType ==
  ASSUME NEW s \in Seq(Byte), NEW o \in Nat, NEW n \in Nat, o + n <= Len(s)
  PROVE  /\ Slice(s, o, n) \in Seq(Byte)
         /\ Len(Slice(s, o, n)) = n
         /\ \A i \in 1 .. n : Slice(s, o, n)[i] = s[o + i]
BY SubSeqProperties DEF Slice

(* A call that returns leaves a result. *)
LEMMA ReturnsType ==
  ASSUME TypeOK, NEW op \in Calls, NEW r \in Readers, NEW str \in Seq(Byte), NEW num \in Long,
         Returns(op, r, str, num)
  PROVE  ret' \in Results /\ mode' = mode
<1>1. <<>> \in Seq(Words)
  OBVIOUS
<1> QED
  BY <1>1 DEF Returns, Results

(* A call that throws, or cannot even do that, leaves one. *)
LEMMA RaiseType ==
  ASSUME TypeOK, NEW op \in Calls, NEW r \in Readers, NEW exc \in Seq(Words), Raise(op, r, exc)
  PROVE  ret' \in Results /\ mode' \in Modes /\ (mode' = "running" => mode = "running")
<1>1. <<>> \in Seq(Byte)
  OBVIOUS
<1>2. CASE Bailout
  BY <1>2 DEF TypeOK, Bailout, Results, Modes
<1>3. CASE ret' = [op |-> op, by |-> r, exc |-> exc, str |-> <<>>, num |-> 0] /\ UNCHANGED mode
  BY <1>1, <1>3, Numbers DEF TypeOK, Results, Modes
<1> QED
  BY <1>2, <1>3 DEF Raise

----------------------------------------------------------------------------
(* Counting.                                                               *)

(* There are finitely many readers, so references can be counted. *)
LEMMA BoundFinite ==
  ASSUME TypeOK, NEW c
  PROVE  /\ IsFiniteSet(Bound(c)) /\ Cardinality(Bound(c)) \in Nat
         /\ \A r : r \in Bound(c) => Cardinality(Bound(c)) > 0
<1>1. IsFiniteSet(Bound(c)) /\ Cardinality(Bound(c)) \in Nat
  BY ReadersAssumption, FS_Subset, FS_CardinalityType DEF TypeOK, Bound
<1> QED
  BY <1>1, FS_EmptySet

(* Each holder of a string is counted.                                     *)
LEMMA HoldersType ==
  ASSUME TypeOK, NEW c \in Cells
  PROVE  Holders(c) = held[c] + Cardinality(Bound(c)) /\ Holders(c) \in Nat
<1>1. Holders(c) = held[c] + Cardinality(Bound(c))
  BY DEF Holders, Bound
<1> QED
  BY <1>1, BoundFinite, NumbersAssumption DEF TypeOK

(* The same of the next state. *)
LEMMA HoldersTypePrime == ASSUME TypeOK', NEW c \in Cells PROVE Holders(c)' \in Nat
<1>1. objects' \subseteq Readers /\ held'[c] \in Nat
  BY NumbersAssumption DEF TypeOK
<1>2. {r \in objects' : reader'[r].buffer = c} \in SUBSET Readers
  BY <1>1
<1>3. Cardinality({r \in objects' : reader'[r].buffer = c}) \in Nat
  BY <1>2, ReadersAssumption, FS_Subset, FS_CardinalityType
<1> QED
  BY <1>1, <1>3 DEF Holders

(* What an existing reader refers to, and what the script does, is counted *)
(* and has not been freed.                                                 *)
LEMMA Alive ==
  ASSUME IInv, mode # "faulted"
  PROVE  /\ \A r \in objects : Live(reader[r].buffer)
         /\ \A c \in Cells : held[c] > 0 => refs[c] > 0
<1>1. TypeOK /\ RefsCover
  BY DEF IInv
<1>2. ASSUME NEW c \in Cells PROVE refs[c] >= held[c] + Cardinality(Bound(c))
  BY <1>1, <1>2, HoldersType DEF RefsCover
<1>3. ASSUME NEW r \in objects, reader[r].buffer \in Cells PROVE refs[reader[r].buffer] > 0
  <2> DEFINE c == reader[r].buffer
  <2>1. r \in Bound(c)
    BY DEF Bound
  <2>2. Cardinality(Bound(c)) > 0 /\ Cardinality(Bound(c)) \in Nat
    BY <1>1, <2>1, BoundFinite
  <2>3. held[c] >= 0 /\ held[c] \in Int /\ refs[c] \in Nat
    BY <1>1, <1>3, NumbersAssumption DEF TypeOK
  <2> QED
    BY <1>2, <1>3, <2>2, <2>3
<1>4. ASSUME NEW c \in Cells, held[c] > 0 PROVE refs[c] > 0
  <2>1. Cardinality(Bound(c)) \in Nat /\ held[c] \in Nat /\ refs[c] \in Nat
    BY <1>1, BoundFinite, NumbersAssumption DEF TypeOK
  <2> QED
    BY <1>2, <1>4, <2>1
<1> QED
  BY <1>3, <1>4 DEF Live

(* A string that the script holds is not freed when a reader releases it.  *)
LEMMA AliveReleased ==
  ASSUME IInv, mode # "faulted", NEW r \in objects, NEW p \in Cells, held[p] > 0
  PROVE  Release(refs, reader[r].buffer)[p] > 0
<1> DEFINE b == reader[r].buffer
<1>1. TypeOK /\ RefsCover /\ b \in Cells \cup Literals
  BY DEF IInv, TypeOK
<1>2. refs[p] >= held[p] + Cardinality(Bound(p)) /\ Cardinality(Bound(p)) \in Nat
  BY <1>1, HoldersType, BoundFinite DEF RefsCover
<1>3. refs \in [Cells -> Nat] /\ refs[p] \in Nat /\ held[p] \in Nat
  BY <1>1, NumbersAssumption DEF TypeOK
<1>4. b = p => Cardinality(Bound(p)) > 0
  BY <1>1, BoundFinite DEF Bound
<1>5. CASE b = p
  <2>1. Release(refs, b)[p] = refs[p] - 1
    BY <1>3, <1>5, LiteralsAssumption DEF Release
  <2> QED
    BY <1>2, <1>3, <1>4, <1>5, <2>1
<1>6. CASE b # p
  <2>1. Release(refs, b)[p] = refs[p]
    BY <1>1, <1>3, <1>6 DEF Release
  <2> QED
    BY <1>2, <1>3, <2>1
<1> QED
  BY <1>5, <1>6

(* After a call, too, the string of a reader has not been freed.           *)
LEMMA AlivePrime ==
  ASSUME IInv', mode' # "faulted", NEW r \in objects', reader'[r].buffer \in Cells
  PROVE  refs'[reader'[r].buffer] # 0
<1> DEFINE c == reader'[r].buffer
           S == {q \in objects' : reader'[q].buffer = c}
<1>1. /\ objects' \subseteq Readers /\ held'[c] \in Nat /\ refs'[c] \in Nat
      /\ refs'[c] >= held'[c] + Cardinality(S)
  BY NumbersAssumption DEF IInv, TypeOK, RefsCover, Holders
<1>2. IsFiniteSet(S)
  BY <1>1, ReadersAssumption, FS_Subset
<1>3. S # {}
  OBVIOUS
<1> HIDE DEF S
<1>4. Cardinality(S) \in Nat /\ Cardinality(S) # 0
  BY <1>2, <1>3, FS_CardinalityType, FS_EmptySet
<1> QED
  BY <1>1, <1>4

(* Where reader r gets the string p, the holders of its old string become  *)
(* one less and those of p one more.                                       *)
LEMMA HoldersRebound ==
  ASSUME TypeOK, Blanks, NEW r \in Readers, NEW p \in Cells \cup Literals, NEW o \in Size,
         objects' = objects \cup {r}, Update(r, [buffer |-> p, offset |-> o]), UNCHANGED held,
         NEW c \in Cells
  PROVE  Holders(c)' = Holders(c) + (IF p = c THEN 1 ELSE 0)
                                  - (IF reader[r].buffer = c THEN 1 ELSE 0)
<1> DEFINE rest == Bound(c) \ {r}
<1>1. /\ reader' = [reader EXCEPT ![r] = [buffer |-> p, offset |-> o]]
      /\ reader'[r].buffer = p
      /\ \A q \in Readers \ {r} : reader'[q] = reader[q]
      /\ objects \subseteq Readers
  BY DEF TypeOK, Update
<1>2. IsFiniteSet(Bound(c)) /\ Cardinality(Bound(c)) \in Nat
  BY BoundFinite
<1>3. r \in Bound(c) <=> reader[r].buffer = c
  <2>1. r \notin objects => reader[r].buffer = EmptyString
    BY DEF Blanks, Blank
  <2> QED
    BY <2>1, LiteralsAssumption DEF Bound
<1>4. /\ IsFiniteSet(rest)
      /\ Cardinality(rest) = Cardinality(Bound(c)) - (IF reader[r].buffer = c THEN 1 ELSE 0)
  BY <1>2, <1>3, FS_RemoveElement
<1>5. Bound(c)' = IF p = c THEN rest \cup {r} ELSE rest
  BY <1>1 DEF Bound
<1>6. r \notin rest
  OBVIOUS
<1>7. Cardinality(Bound(c)') = Cardinality(rest) + (IF p = c THEN 1 ELSE 0)
  <2> HIDE DEF rest
  <2>1. Cardinality(rest \cup {r}) = Cardinality(rest) + 1
    BY <1>4, <1>6, FS_AddElement
  <2>2. Cardinality(rest) + 0 = Cardinality(rest)
    BY <1>2, <1>4
  <2> QED
    BY <1>5, <2>1, <2>2
<1>8. Holders(c)' = held[c] + Cardinality(Bound(c)')
  BY DEF Holders, Bound
<1>9. held[c] \in Int
  BY DEF TypeOK
<1> HIDE DEF rest
<1> QED
  BY <1>2, <1>4, <1>7, <1>8, <1>9, HoldersType

(* Where a reader is freed, its string loses a holder. *)
LEMMA HoldersFreed ==
  ASSUME TypeOK, NEW r \in objects,
         objects' = objects \ {r}, Update(r, Blank), UNCHANGED held, NEW c \in Cells
  PROVE  Holders(c)' = Holders(c) - (IF reader[r].buffer = c THEN 1 ELSE 0)
<1>1. /\ \A q \in Readers \ {r} : reader'[q] = reader[q]
      /\ objects \subseteq Readers
  BY DEF TypeOK, Update
<1>2. IsFiniteSet(Bound(c)) /\ Cardinality(Bound(c)) \in Nat
  BY BoundFinite
<1>3. r \in Bound(c) <=> reader[r].buffer = c
  BY DEF Bound
<1>4. Bound(c)' = Bound(c) \ {r}
  BY <1>1 DEF Bound
<1>5. Cardinality(Bound(c)') = Cardinality(Bound(c)) - (IF reader[r].buffer = c THEN 1 ELSE 0)
  <2>1. Cardinality(Bound(c) \ {r}) =
          IF r \in Bound(c) THEN Cardinality(Bound(c)) - 1 ELSE Cardinality(Bound(c))
    BY <1>2, FS_RemoveElement
  <2> QED
    BY <1>2, <1>3, <1>4, <2>1
<1>6. Holders(c)' = held[c] + Cardinality(Bound(c)')
  BY DEF Holders, Bound
<1>7. held[c] \in Int
  BY DEF TypeOK
<1> QED
  BY <1>2, <1>5, <1>6, <1>7, HoldersType

(* Where no reader changes, holders come and go with what the script has. *)
LEMMA HoldersHeld ==
  ASSUME TypeOK, UNCHANGED objects, \A r \in objects : reader'[r].buffer = reader[r].buffer,
         NEW c \in Cells, held'[c] \in Int
  PROVE  Holders(c)' = Holders(c) + held'[c] - held[c]
<1>1. Bound(c)' = Bound(c)
  BY DEF Bound
<1>2. Holders(c)' = held'[c] + Cardinality(Bound(c)')
  BY DEF Holders, Bound
<1>3. Cardinality(Bound(c)) \in Nat /\ held[c] \in Int
  BY BoundFinite DEF TypeOK
<1> QED
  BY <1>1, <1>2, <1>3, HoldersType

(* zend_string_addref and zend_string_release change one count. *)
LEMMA CountsType ==
  ASSUME NEW f \in [Cells -> Nat], NEW p \in Cells \cup Literals
  PROVE  /\ AddRef(f, p) \in [Cells -> Nat]
         /\ \A c \in Cells : AddRef(f, p)[c] = f[c] + (IF p = c THEN 1 ELSE 0)
         /\ \A c \in Cells : Release(f, p)[c] = f[c] - (IF p = c THEN 1 ELSE 0)
         /\ (p \in Cells => f[p] > 0) => Release(f, p) \in [Cells -> Nat]
BY LiteralsAssumption DEF AddRef, Release

(* A freed string has no characters any more. *)
LEMMA CountType ==
  ASSUME TypeOK, NEW f \in [Cells -> Nat], Count(f)
  PROVE  refs' \in [Cells -> Nat] /\ chars' \in [Cells -> Data \cup {<<>>}]
BY DEF TypeOK, Count
----------------------------------------------------------------------------
(* Calls, one lemma per way in which they change the variables.            *)

(* Whoever only says or sees something changes no surplus. *)
LEMMA KeptUntouched ==
  ASSUME IInv, Untouched, mode' \in Modes, ret' \in Results
  PROVE  Kept
<1>1. TypeOK' /\ Blanks'
  BY DEF IInv, TypeOK, Blanks, Untouched, Modes, Results
<1>2. \A c \in Cells : Surplus(c)' = Surplus(c)
  BY DEF Surplus, Holders, Untouched
<1>3. \A c \in Cells : Surplus(c) \in Int
  BY HoldersType DEF Surplus, IInv, TypeOK
<1> QED
  BY <1>1, <1>2, <1>3 DEF Kept

(* A call that only returns keeps the surplus.                             *)
LEMMA KeptReturns ==
  ASSUME IInv, NEW op \in Calls, NEW r \in Readers, NEW str \in Seq(Byte), NEW num \in Long,
         Returns(op, r, str, num), Untouched
  PROVE  Kept
BY KeptUntouched, ReturnsType DEF IInv, TypeOK, Modes

(* So does one that only throws.                                           *)
LEMMA KeptThrows ==
  ASSUME IInv, NEW op \in Calls, NEW r \in Readers, NEW exc \in Seq(Words), Throws(op, r, exc)
  PROVE  Kept
BY KeptUntouched, RaiseType DEF IInv, Throws

(* So does one that dies, or touches what it must not.                     *)
LEMMA KeptAborted ==
  ASSUME IInv, Untouched, Bailout \/ Fault
  PROVE  Kept
BY KeptUntouched DEF IInv, TypeOK, Bailout, Fault, Modes, Results

(* A reader moves. *)
LEMMA KeptMoved ==
  ASSUME IInv, NEW r \in objects, NEW o \in Size,
         Update(r, [buffer |-> reader[r].buffer, offset |-> o]),
         UNCHANGED <<objects, refs, chars, held>>, mode' \in Modes, ret' \in Results
  PROVE  Kept
<1>1. /\ r \in Readers /\ reader[r].buffer \in Cells \cup Literals
      /\ \A q \in Readers : reader'[q].buffer = reader[q].buffer
      /\ \A q \in Readers \ {r} : reader'[q] = reader[q]
  BY DEF IInv, TypeOK, Update
<1>2. TypeOK'
  BY <1>1 DEF IInv, TypeOK, Update, Modes, Results
<1>3. Blanks'
  BY <1>1 DEF IInv, Blanks
<1>4. ASSUME NEW c \in Cells PROVE Surplus(c)' = Surplus(c) /\ Surplus(c) \in Int
  <2>1. Holders(c)' = Holders(c) + held[c] - held[c]
    BY <1>1, HoldersHeld DEF IInv, TypeOK
  <2>2. Holders(c) \in Nat /\ held[c] \in Int /\ refs[c] \in Nat
    BY HoldersType DEF IInv, TypeOK
  <2> QED
    BY <2>1, <2>2 DEF Surplus
<1> QED
  BY <1>2, <1>3, <1>4 DEF Kept

(* What the script does with its references changes both sides alike.      *)
LEMMA KeptShared ==
  ASSUME IInv, UNCHANGED <<objects, reader>>, refs' \in [Cells -> Nat],
         chars' \in [Cells -> Data \cup {<<>>}], held' \in [Cells -> 0 .. MaxHeld],
         mode' \in Modes, ret' \in Results,
         \A c \in Cells : refs'[c] - refs[c] >= held'[c] - held[c],
         mode' = "running" => \A c \in Cells : refs'[c] - refs[c] = held'[c] - held[c]
  PROVE  Kept
<1>1. TypeOK' /\ Blanks'
  BY DEF IInv, TypeOK, Blanks, Modes, Results
<1>2. ASSUME NEW c \in Cells
      PROVE  /\ Surplus(c)' >= Surplus(c)
             /\ mode' = "running" => Surplus(c)' = Surplus(c)
  <2>1. held'[c] \in Int /\ held[c] \in Int /\ refs[c] \in Nat /\ refs'[c] \in Nat
    BY DEF IInv, TypeOK
  <2>2. Holders(c)' = Holders(c) + held'[c] - held[c] /\ Holders(c) \in Nat
    BY <2>1, HoldersHeld, HoldersType DEF IInv
  <2> QED
    BY <2>1, <2>2 DEF Surplus
<1> QED
  BY <1>1, <1>2 DEF Kept

(* reader_init_properties, on a reader whose old string has been released  *)
(* or, in __unserialize, has not.                                          *)
LEMMA KeptInit ==
  ASSUME IInv, NEW op \in Calls, NEW r \in Readers, NEW p \in Cells \cup Literals, NEW o \in Size,
         NEW f \in [Cells -> Nat], ReaderInitProperties(op, r, f, p, o),
         objects' = objects \cup {r},
         \/ f = Release(refs, reader[r].buffer)
         \/ f = refs /\ (Direct \/ reader[r].buffer = EmptyString)
  PROVE  Kept
<1>1. TypeOK /\ Blanks /\ reader[r].buffer \in Cells \cup Literals /\ refs \in [Cells -> Nat]
  BY DEF IInv, Blanks, TypeOK
<1>2. /\ Update(r, [buffer |-> p, offset |-> o]) /\ Count(AddRef(f, p)) /\ UNCHANGED held
      /\ ret' \in Results /\ mode' = mode
  <2>1. <<>> \in Seq(Byte)
    OBVIOUS
  <2> QED
    BY <1>1, <2>1, ReturnsType, Numbers DEF ReaderInitProperties
<1>3. refs' \in [Cells -> Nat] /\ chars' \in [Cells -> Data \cup {<<>>}]
  BY <1>1, <1>2, CountsType, CountType
<1>4. TypeOK'
  BY <1>1, <1>2, <1>3 DEF TypeOK, Update, Results
<1>5. Blanks'
  BY <1>1, <1>2 DEF TypeOK, Blanks, Update
<1>6. ASSUME NEW c \in Cells
      PROVE  Surplus(c)' >= Surplus(c) /\ (~ Direct => Surplus(c)' = Surplus(c))
  <2>1. Holders(c)' = Holders(c) + (IF p = c THEN 1 ELSE 0)
                                 - (IF reader[r].buffer = c THEN 1 ELSE 0)
    BY <1>1, <1>2, HoldersRebound
  <2>2. refs'[c] = f[c] + (IF p = c THEN 1 ELSE 0)
    BY <1>2, CountsType DEF Count
  <2>3. /\ f[c] \in {refs[c], refs[c] - (IF reader[r].buffer = c THEN 1 ELSE 0)}
        /\ ~ Direct => f[c] = refs[c] - (IF reader[r].buffer = c THEN 1 ELSE 0)
    <3>1. reader[r].buffer = EmptyString => reader[r].buffer # c
      BY LiteralsAssumption
    <3>2. refs[c] \in Nat
      BY <1>1
    <3> QED
      BY <1>1, <3>1, <3>2, CountsType
  <2>4. Holders(c) \in Nat /\ refs[c] \in Nat
    BY <1>1, HoldersType
  <2> QED
    BY <2>1, <2>2, <2>3, <2>4 DEF Surplus
<1> QED
  BY <1>4, <1>5, <1>6 DEF Kept
(* The operations of the object store.                                     *)

(* The names of calls and exceptions are among those that ret can have.    *)
LEMMA Names ==
  /\ {"new", "clone", "free", "compare", "__construct", "getData", "readByteArray", "getOffset",
      "setOffset", "getUnreadLength", "readType", "readVarInt", "unpackType", "unpackVarInt",
      "__serialize", "__unserialize", "__debugInfo"} \subseteq Calls
  /\ <<>> \in Seq(Byte)
  /\ <<"ValueError">> \in Seq(Words) /\ <<"DataDecodeException">> \in Seq(Words)
BY DEF Calls, Words

(* A new reader takes a reference and holds the string.                    *)
LEMMA KeptCreate ==
  ASSUME IInv, NEW op \in Calls, NEW r \in Readers, r \notin objects,
         NEW p \in Cells \cup Literals, NEW o \in Size, Create(op, r, p, o)
  PROVE  Kept
<1>1. reader[r].buffer = EmptyString
  BY DEF IInv, Blank
<1> QED
  BY <1>1, KeptInit, KeptAborted DEF Create, IInv, TypeOK

(* The create_object handler.                                              *)
LEMMA KeptNew == ASSUME IInv, NEW r \in Readers, ReaderNew(r) PROVE Kept
BY KeptCreate, Names, Numbers, LiteralsAssumption DEF ReaderNew

(* The clone_obj handler: the clone is a holder more.                      *)
LEMMA KeptClone ==
  ASSUME IInv, NEW r \in Readers, NEW q \in Readers, ReaderClone(r, q) PROVE Kept
<1>1. CASE Fault
  BY <1>1, KeptAborted DEF Fault
<1>2. CASE Create("clone", q, reader[r].buffer, reader[r].offset) /\ q \notin objects
  <2>1. reader[r].buffer \in Cells \cup Literals /\ reader[r].offset \in Size
    BY DEF IInv, TypeOK
  <2> QED
    BY <1>2, <2>1, KeptCreate, Names
<1> QED
  BY <1>1, <1>2 DEF ReaderClone

(* The free_obj handler gives the reference back that the reader had.      *)
LEMMA KeptFree == ASSUME IInv, NEW r \in Readers, ReaderFree(r) PROVE Kept
<1>1. CASE Fault
  BY <1>1, KeptAborted DEF Fault
<1>2. ASSUME r \in objects, Live(reader[r].buffer), objects' = objects \ {r}, Update(r, Blank),
             Count(Release(refs, reader[r].buffer)), Returns("free", r, <<>>, 0), UNCHANGED held
      PROVE  Kept
  <2>1. TypeOK /\ Blanks /\ reader[r].buffer \in Cells \cup Literals /\ refs \in [Cells -> Nat]
    BY DEF IInv, Blanks, TypeOK
  <2>2. ret' \in Results /\ mode' = mode
    BY <1>2, <2>1, ReturnsType, Names, Numbers
  <2>3. Release(refs, reader[r].buffer) \in [Cells -> Nat]
    BY <1>2, <2>1, CountsType DEF Live
  <2>4. refs' \in [Cells -> Nat] /\ chars' \in [Cells -> Data \cup {<<>>}]
    BY <1>2, <2>1, <2>3, CountType
  <2>5. Blank \in [buffer : Cells \cup Literals, offset : Size]
    BY LiteralsAssumption, Numbers DEF Blank
  <2>6. TypeOK'
    BY <1>2, <2>1, <2>2, <2>4, <2>5 DEF TypeOK, Update, Results
  <2>7. Blanks'
    BY <1>2, <2>1 DEF TypeOK, Blanks, Update
  <2>8. ASSUME NEW c \in Cells PROVE Surplus(c)' = Surplus(c) /\ Surplus(c) \in Int
    <3>1. Holders(c)' = Holders(c) - (IF reader[r].buffer = c THEN 1 ELSE 0)
      BY <1>2, <2>1, HoldersFreed
    <3>2. refs'[c] = refs[c] - (IF reader[r].buffer = c THEN 1 ELSE 0)
      BY <1>2, <2>1, CountsType DEF Count
    <3>3. Holders(c) \in Nat /\ refs[c] \in Nat
      BY <2>1, HoldersType
    <3> QED
      BY <3>1, <3>2, <3>3 DEF Surplus
  <2> QED
    BY <2>6, <2>7, <2>8 DEF Kept
<1> QED
  BY <1>1, <1>2 DEF ReaderFree

(* The compare handler, which shares no string.                            *)
LEMMA KeptCompare ==
  ASSUME IInv, NEW r \in Readers, NEW q \in Readers, ReaderCompareObjects(r, q) PROVE Kept
<1>1. CASE Fault
  BY <1>1, KeptAborted DEF Fault
<1>2. ASSUME NEW n \in {0, 1}, Returns("compare", r, <<>>, n), Untouched PROVE Kept
  BY <1>2, KeptReturns, Names, Numbers
<1> QED
  BY <1>1, <1>2 DEF ReaderCompareObjects

(* The script's strings. *)
LEMMA KeptMake == ASSUME IInv, NEW c \in Cells, NEW s \in Data, MakeString(c, s) PROVE Kept
<1>1. /\ refs' = [refs EXCEPT ![c] = 1] /\ held' = [held EXCEPT ![c] = 1] /\ refs[c] = 0
      /\ chars' = [chars EXCEPT ![c] = s]
      /\ UNCHANGED <<objects, reader, mode, ret>> /\ mode # "faulted"
  BY DEF MakeString, Running
<1>2. held[c] = 0
  <2>1. held[c] \in Nat
    BY DEF IInv, TypeOK
  <2> QED
    BY <1>1, <2>1, Alive
<1>3. refs' \in [Cells -> Nat] /\ held' \in [Cells -> 0 .. MaxHeld]
  BY <1>1, NumbersAssumption DEF IInv, TypeOK
<1>4. chars' \in [Cells -> Data \cup {<<>>}] /\ mode' \in Modes /\ ret' \in Results
  BY <1>1 DEF IInv, TypeOK, Modes, Results
<1>5. \A d \in Cells : refs'[d] - refs[d] = held'[d] - held[d] /\ held'[d] - held[d] \in Int
  BY <1>1, <1>2 DEF IInv, TypeOK
<1> QED
  BY <1>1, <1>3, <1>4, <1>5, KeptShared

(* The script drops a string it holds.                                     *)
LEMMA KeptDrop == ASSUME IInv, NEW c \in Cells, DropString(c) PROVE Kept
<1>1. /\ held[c] > 0 /\ refs[c] > 0 /\ Count(Release(refs, c))
      /\ held' = [held EXCEPT ![c] = held[c] - 1]
      /\ UNCHANGED <<objects, reader, mode, ret>>
  BY Alive DEF DropString
<1>2. Release(refs, c) \in [Cells -> Nat]
  BY <1>1, CountsType DEF IInv, TypeOK
<1>3. refs' \in [Cells -> Nat] /\ chars' \in [Cells -> Data \cup {<<>>}]
  BY <1>1, <1>2, CountType DEF IInv
<1>4. held' \in [Cells -> 0 .. MaxHeld] /\ mode' \in Modes /\ ret' \in Results
  BY <1>1, NumbersAssumption DEF IInv, TypeOK, Modes, Results
<1>5. ASSUME NEW d \in Cells
      PROVE  refs'[d] - refs[d] = held'[d] - held[d] /\ held'[d] - held[d] \in Int
  <2>1. refs'[d] = refs[d] - (IF c = d THEN 1 ELSE 0)
    BY <1>1, CountsType DEF Count, IInv, TypeOK
  <2>2. held'[d] = held[d] - (IF c = d THEN 1 ELSE 0) /\ held[d] \in Int /\ refs[d] \in Int
    BY <1>1 DEF IInv, TypeOK
  <2> QED
    BY <2>1, <2>2
<1> QED
  BY <1>1, <1>3, <1>4, <1>5, KeptShared

(* A result that is the reader's own string is a reference of the script.  *)
LEMMA KeptShare ==
  ASSUME IInv, NEW op \in Calls, NEW r \in Readers, NEW num \in Long, Share(op, r, num)
  PROVE  Kept
<1> DEFINE p == reader[r].buffer
<1>1. CASE Fault
  BY <1>1, KeptAborted DEF Fault
<1>2. ASSUME p \in Cells => held[p] < MaxHeld, Returns(op, r, Chars(p), num),
             Count(AddRef(refs, p)), held' = AddRef(held, p), UNCHANGED <<objects, reader>>
      PROVE  Kept
  <2>1. TypeOK /\ p \in Cells \cup Literals /\ refs \in [Cells -> Nat] /\ held \in [Cells -> Nat]
    BY DEF IInv, TypeOK
  <2>2. ret' \in Results /\ mode' \in Modes
    BY <1>2, <2>1, StringType, ReturnsType DEF TypeOK, Modes
  <2>3. refs' \in [Cells -> Nat] /\ chars' \in [Cells -> Data \cup {<<>>}]
    BY <1>2, <2>1, CountsType, CountType
  <2>4. held' \in [Cells -> 0 .. MaxHeld]
    BY <1>2, <2>1, NumbersAssumption DEF TypeOK, AddRef
  <2>5. ASSUME NEW c \in Cells
        PROVE  refs'[c] - refs[c] = held'[c] - held[c] /\ held'[c] - held[c] \in Int
    <3>1. refs'[c] = refs[c] + (IF p = c THEN 1 ELSE 0)
      BY <1>2, <2>1, CountsType DEF Count
    <3>2. held'[c] = held[c] + (IF p = c THEN 1 ELSE 0) /\ held[c] \in Nat /\ refs[c] \in Nat
      BY <1>2, <2>1, CountsType
    <3> QED
      BY <3>1, <3>2
  <2> QED
    BY <1>2, <2>2, <2>3, <2>4, <2>5, KeptShared
<1> QED
  BY <1>1, <1>2 DEF Share

(* A string that goes into an array takes a reference, perhaps also where  *)
(* the call then dies.                                                     *)
LEMMA KeptShareInArray ==
  ASSUME IInv, NEW op \in Calls, NEW r \in Readers, ShareInArray(op, r)
  PROVE  Kept
<1> DEFINE p == reader[r].buffer
<1>1. TypeOK /\ p \in Cells \cup Literals /\ Signed(reader[r].offset) \in Long
      /\ refs \in [Cells -> Nat]
  BY Numbers DEF IInv, TypeOK
<1>2. ASSUME Bailout, refs' \in {refs, AddRef(refs, p)}, UNCHANGED <<objects, reader, chars, held>>
      PROVE  Kept
  <2>1. refs' \in [Cells -> Nat]
    BY <1>1, <1>2, CountsType
  <2>2. \A c \in Cells : refs'[c] - refs[c] >= held'[c] - held[c]
    <3> SUFFICES ASSUME NEW c \in Cells PROVE refs'[c] - refs[c] >= held[c] - held[c]
      BY <1>2
    <3>1. refs'[c] \in {refs[c], refs[c] + (IF p = c THEN 1 ELSE 0)}
      BY <1>1, <1>2, CountsType
    <3>2. refs[c] \in Int /\ held[c] \in Int
      BY <1>1 DEF TypeOK
    <3> QED
      BY <3>1, <3>2
  <2>3. mode' \in Modes /\ mode' # "running" /\ ret' \in Results
    BY <1>1, <1>2 DEF Bailout, TypeOK, Modes, Results
  <2> QED
    BY <1>1, <1>2, <2>1, <2>2, <2>3, KeptShared DEF TypeOK
<1> QED
  BY <1>1, <1>2, KeptShare DEF ShareInArray
----------------------------------------------------------------------------
(* Reading.                                                                *)

(* readUnsignedVarInt stays within the string, and stops at the first      *)
(* place where it may.                                                     *)
LEMMA VarIntBytesType ==
  ASSUME NEW s \in Seq(Byte), NEW o \in Nat, NEW m \in Nat
  PROVE  LET n == VarIntBytes(s, o, m) IN
         /\ n \in 0 .. m
         /\ \A i \in 1 .. n : o + i <= Len(s)
         /\ \A i \in 1 .. n - 1 : s[o + i] \notin Last
         /\ n = m \/ o + n >= Len(s) \/ (n > 0 /\ s[o + n] \in Last)
<1> DEFINE Stops(n) == n = m \/ o + n >= Len(s) \/ (n > 0 /\ s[o + n] \in Last)
           Stop == {n \in 0 .. m : Stops(n)}
           P(n) == /\ \A i \in 1 .. n : o + i <= Len(s)
                   /\ \A i \in 1 .. n - 1 : s[o + i] \notin Last
                   /\ Stops(n)
<1>1. Stop \in SUBSET Nat /\ m \in Stop
  OBVIOUS
<1>2. PICK k \in Stop : \A n \in Stop : k <= n
  <2> HIDE DEF Stop
  <2> QED
    BY <1>1, Minimum
<1>3. ASSUME NEW i \in 0 .. k - 1 PROVE ~ Stops(i)
  <2>1. k \in 0 .. m
    BY <1>2
  <2>2. i \in 0 .. m /\ ~ (k <= i)
    BY <2>1
  <2> QED
    BY <1>2, <2>2
<1>4. P(k)
  <2>1. k \in 0 .. m /\ Stops(k)
    BY <1>2
  <2>2. ASSUME NEW i \in 1 .. k PROVE o + i <= Len(s)
    <3>1. i - 1 \in 0 .. k - 1
      BY <2>1
    <3>2. ~ Stops(i - 1)
      BY <1>3, <3>1
    <3> QED
      BY <2>1, <3>2
  <2>3. ASSUME NEW i \in 1 .. k - 1 PROVE s[o + i] \notin Last
    <3>1. i \in 0 .. k - 1
      BY <2>1
    <3>2. ~ Stops(i)
      BY <1>3, <3>1
    <3> QED
      BY <2>1, <3>2
  <2> QED
    BY <2>1, <2>2, <2>3
<1>5. VarIntBytes(s, o, m) = CHOOSE n \in 0 .. m : P(n)
  BY DEF VarIntBytes
<1>6. k \in 0 .. m
  BY <1>2
<1> HIDE DEF P
<1>7. VarIntBytes(s, o, m) \in 0 .. m /\ P(VarIntBytes(s, o, m))
  BY <1>4, <1>5, <1>6
<1> QED
  BY <1>7 DEF P

(* The offset stays a size_t: it moves only within the string.             *)
LEMMA VarIntOffset ==
  ASSUME TypeOK, NEW p \in Cells \cup Literals, NEW o \in Size, NEW m \in VarIntSizes
  PROVE  LET n == VarIntBytes(Chars(p), o, m) IN
         /\ m \in Nat /\ n \in Nat /\ o + n \in Size
         /\ n > 0 => o + n <= Len(Chars(p))
         /\ Slice(Chars(p), o, n) \in Seq(Byte)
<1> DEFINE n == VarIntBytes(Chars(p), o, m)
<1>1. m \in Nat /\ m > 0 /\ o \in Nat /\ Chars(p) \in Seq(Byte) /\ Len(Chars(p)) \in Size
  BY StringType, NumbersAssumption, Numbers DEF Long
<1>2. n \in 0 .. m /\ \A i \in 1 .. n : o + i <= Len(Chars(p))
  BY <1>1, VarIntBytesType
<1> HIDE DEF n
<1>3. n \in Nat /\ (n > 0 => o + n <= Len(Chars(p)))
  BY <1>1, <1>2
<1>4. o + n \in Size
  BY <1>1, <1>3, Numbers DEF Size
<1>5. Slice(Chars(p), o, n) \in Seq(Byte)
  <2>1. n > 0 => Slice(Chars(p), o, n) \in Seq(Byte)
    BY <1>1, <1>3, SliceType
  <2>2. Slice(Chars(p), o, 0) = <<>> /\ <<>> \in Seq(Byte)
    BY <1>1 DEF Slice
  <2>3. CASE n = 0
    BY <2>2, <2>3
  <2>4. CASE n # 0
    BY <1>3, <2>1, <2>4
  <2> QED
    BY <2>3, <2>4
<1> QED
  BY <1>1, <1>3, <1>4, <1>5 DEF n

(* A read of n bytes. *)
LEMMA KeptTake ==
  ASSUME IInv, NEW op \in Calls, NEW r \in objects, NEW n \in Nat, Take(op, r, n)
  PROVE  Kept
<1> DEFINE p == reader[r].buffer
           o == reader[r].offset
<1>1. TypeOK /\ r \in Readers /\ p \in Cells \cup Literals /\ o \in Size /\ o \in Nat
  BY Numbers DEF IInv, TypeOK
<1>2. CASE Fault
  BY <1>2, KeptAborted DEF Fault
<1>3. CASE Throws(op, r, <<"DataDecodeException">>)
  BY <1>1, <1>3, KeptThrows, Names
<1>4. ASSUME o + n <= Len(Chars(p)), Update(r, [buffer |-> p, offset |-> Wrap(o + n)]),
             Returns(op, r, Slice(Chars(p), o, n), 0), UNCHANGED <<objects, refs, chars, held>>
      PROVE  Kept
  <2>1. Chars(p) \in Seq(Byte) /\ Len(Chars(p)) \in Size
    BY <1>1, StringType
  <2>2. Wrap(o + n) \in Size
    BY <1>1, <1>4, <2>1, Numbers DEF Size, Wrap
  <2>3. Slice(Chars(p), o, n) \in Seq(Byte)
    BY <1>1, <1>4, <2>1, SliceType
  <2>4. ret' \in Results /\ mode' \in Modes
    BY <1>1, <1>4, <2>3, ReturnsType, Numbers DEF TypeOK, Modes
  <2> QED
    BY <1>4, <2>2, <2>4, KeptMoved
<1>5. Len(Chars(p)) \in Nat
  BY <1>1, StringType
<1> QED
  BY <1>1, <1>2, <1>3, <1>4, <1>5 DEF Take

(* readByteArray copies bytes and shares no string.                        *)
LEMMA KeptReadByteArray ==
  ASSUME IInv, NEW r \in Readers, NEW n \in Lengths, ReadByteArray(r, n) PROVE Kept
<1>1. r \in objects /\ n \in Int
  BY NumbersAssumption DEF ReadByteArray, Callable, Long
<1>2. CASE Throws("readByteArray", r, <<"ValueError">>)
  BY <1>2, KeptThrows, Names
<1>3. CASE Returns("readByteArray", r, <<>>, 0) /\ Untouched
  BY <1>3, KeptReturns, Names, Numbers
<1>4. CASE n > 0 /\ Take("readByteArray", r, n)
  BY <1>1, <1>4, KeptTake, Names
<1>5. CASE Bailout /\ Untouched
  BY <1>5, KeptAborted
<1> QED
  BY <1>2, <1>3, <1>4, <1>5 DEF ReadByteArray

(* Reads of the types of fixed size, which share no string.                *)
LEMMA KeptReadType ==
  ASSUME IInv, NEW r \in Readers, NEW n \in Widths, ReadType(r, n) PROVE Kept
<1>1. n \in Nat
  BY NumbersAssumption DEF Long
<1> QED
  BY <1>1, KeptTake, Names DEF ReadType, Callable

(* Reads of varints.                                                       *)
LEMMA KeptReadVarInt ==
  ASSUME IInv, NEW r \in Readers, NEW m \in VarIntSizes, ReadVarInt(r, m) PROVE Kept
<1> DEFINE p == reader[r].buffer
           o == reader[r].offset
           n == VarIntBytes(Chars(p), o, m)
<1>1. TypeOK /\ r \in objects /\ p \in Cells \cup Literals /\ o \in Size
  BY DEF IInv, TypeOK, ReadVarInt, Callable
<1>2. o + n \in Size /\ Slice(Chars(p), o, n) \in Seq(Byte)
  BY <1>1, VarIntOffset
<1> HIDE DEF n
<1>3. CASE Fault
  BY <1>3, KeptAborted DEF Fault
<1>4. ASSUME Update(r, [buffer |-> p, offset |-> o + n]),
             \/ Returns("readVarInt", r, Slice(Chars(p), o, n), 0)
             \/ Raise("readVarInt", r, <<"DataDecodeException">>),
             UNCHANGED <<objects, refs, chars, held>>
      PROVE  Kept
  <2>1. ret' \in Results /\ mode' \in Modes
    BY <1>1, <1>2, <1>4, ReturnsType, RaiseType, Names, Numbers DEF TypeOK, Modes
  <2> QED
    BY <1>1, <1>2, <1>4, <2>1, KeptMoved
<1> QED
  BY <1>3, <1>4 DEF ReadVarInt, n

(* unpack* moves nothing. *)
LEMMA KeptUnpack ==
  ASSUME IInv, NEW p \in Cells \cup Literals,
         \/ \E n \in Widths : UnpackType(p, n)
         \/ \E m \in VarIntSizes : UnpackVarInt(p, m)
  PROVE  Kept
<1>1. TypeOK /\ ret.by \in Readers /\ Chars(p) \in Seq(Byte) /\ 0 \in Size
  BY StringType, Numbers DEF IInv, TypeOK
<1>2. ASSUME NEW op \in Calls, NEW str \in Seq(Byte), Untouched,
             Returns(op, ret.by, str, 0) \/ Raise(op, ret.by, <<"DataDecodeException">>)
      PROVE  Kept
  BY <1>1, <1>2, KeptReturns, KeptThrows, Names, Numbers DEF Throws
<1>3. ASSUME NEW n \in Widths, UnpackType(p, n) PROVE Kept
  <2>1. n \in Nat
    BY NumbersAssumption DEF Long
  <2>2. Len(Chars(p)) >= n => Slice(Chars(p), 0, n) \in Seq(Byte)
    BY <1>1, <2>1, SliceType
  <2>3. CASE Len(Chars(p)) >= n
    BY <1>2, <1>3, <2>2, <2>3, Names DEF UnpackType
  <2>4. CASE Len(Chars(p)) < n
    BY <1>2, <1>3, <2>4, Names DEF UnpackType
  <2> QED
    BY <1>1, <2>1, <2>3, <2>4
<1>4. ASSUME NEW m \in VarIntSizes, UnpackVarInt(p, m) PROVE Kept
  <2>1. Slice(Chars(p), 0, VarIntBytes(Chars(p), 0, m)) \in Seq(Byte)
    BY <1>1, VarIntOffset
  <2> QED
    BY <1>2, <1>4, <2>1, Names DEF UnpackVarInt
<1> QED
  BY <1>3, <1>4

----------------------------------------------------------------------------
(* The other methods, and the step.                                        *)

(* __construct releases the string that the reader had and takes the new   *)
(* one.                                                                    *)
LEMMA KeptConstruct ==
  ASSUME IInv, NEW r \in Readers, NEW p \in Cells \cup Literals, Construct(r, p) PROVE Kept
<1>1. CASE Fault
  BY <1>1, KeptAborted DEF Fault
<1>2. ASSUME r \in objects, Live(reader[r].buffer), UNCHANGED objects,
             ReaderInitProperties("__construct", r, Release(refs, reader[r].buffer), p, 0)
      PROVE  Kept
  <2>1. Release(refs, reader[r].buffer) \in [Cells -> Nat]
    BY <1>2, CountsType DEF Live, IInv, TypeOK
  <2>2. objects' = objects \cup {r}
    BY <1>2
  <2> QED
    BY <1>2, <2>1, <2>2, KeptInit, Names, Numbers
<1> QED
  BY <1>1, <1>2 DEF Construct, Callable

(* __unserialize, which on a reader in use forgets the string it had: then *)
(* the surplus grows.                                                      *)
LEMMA KeptUnserialize ==
  ASSUME IInv, NEW r \in Readers, NEW x \in Types, NEW y \in Types, Unserialize(r, x, y)
  PROVE  Kept
<1> DEFINE bufferExc == FetchSerializedProperty(x, "buffer", "string")
           offsetExc == FetchSerializedProperty(y, "offset", "int")
<1>1. bufferExc \in Seq(Words) /\ offsetExc \in Seq(Words)
  <2>1. ASSUME NEW got \in Types, NEW name \in {"buffer", "offset"}, NEW type \in Types
        PROVE  FetchSerializedProperty(got, name, type) \in Seq(Words)
    <3>1. {"missing", "type", got, name, type} \subseteq Words
      BY DEF Words, Types
    <3>2. <<>> \in Seq(Words) /\ <<"missing", name>> \in Seq(Words)
          /\ <<"type", name, got, type>> \in Seq(Words)
      BY <3>1
    <3> QED
      BY <3>2 DEF FetchSerializedProperty
  <2> QED
    BY <2>1 DEF Types
<1>2. ASSUME NEW exc \in Seq(Words), Throws("__unserialize", r, exc) PROVE Kept
  BY <1>2, KeptThrows, Names
<1>3. ASSUME NEW p \in Cells \cup Literals, NEW n \in (0 .. Len(Chars(p))) \cup Foreign,
             ReaderInitProperties("__unserialize", r, refs, p, Wrap(n)),
             Direct \/ reader[r].buffer = EmptyString, r \in objects, UNCHANGED objects
      PROVE  Kept
  <2>1. TypeOK /\ refs \in [Cells -> Nat]
    BY DEF IInv, TypeOK
  <2>2. Wrap(n) \in Size
    BY <2>1, StringType, NumbersAssumption, Numbers DEF Size, Long, Wrap
  <2>3. objects' = objects \cup {r}
    BY <1>3
  <2> QED
    BY <1>3, <2>1, <2>2, <2>3, KeptInit, Names
<1> HIDE DEF bufferExc, offsetExc
<1> QED
  BY <1>1, <1>2, <1>3 DEF Unserialize, Callable, bufferExc, offsetExc

(* The functions about the offset, which share no string.                  *)
LEMMA KeptOffsets ==
  ASSUME IInv, NEW r \in Readers,
         GetOffset(r) \/ GetUnreadLength(r) \/ \E n \in Offsets : SetOffset(r, n)
  PROVE  Kept
<1>1. TypeOK /\ reader[r] \in [buffer : Cells \cup Literals, offset : Size]
  BY DEF IInv, TypeOK
<1>2. CASE Fault
  BY <1>2, KeptAborted DEF Fault
<1>3. ASSUME NEW op \in Calls, NEW n \in Size, Returns(op, r, <<>>, Signed(n)), Untouched PROVE Kept
  BY <1>3, KeptReturns, Names, Numbers
<1>4. ASSUME NEW n \in Offsets, SetOffset(r, n) PROVE Kept
  <2>1. CASE Throws("setOffset", r, <<"ValueError">>)
    BY <2>1, KeptThrows, Names
  <2>2. ASSUME r \in objects, ~ (n < 0 \/ n > Len(Chars(reader[r].buffer))),
               Update(r, [reader[r] EXCEPT !.offset = n]),
               Returns("setOffset", r, <<>>, 0), UNCHANGED <<objects, refs, chars, held>>
        PROVE  Kept
    <3>1. Len(Chars(reader[r].buffer)) \in Size /\ n \in Int
      BY <1>1, StringType, NumbersAssumption DEF Long
    <3>2. n \in Size
      BY <2>2, <3>1, Numbers DEF Size
    <3>3. [reader[r] EXCEPT !.offset = n] = [buffer |-> reader[r].buffer, offset |-> n]
      BY <1>1
    <3>4. ret' \in Results /\ mode' \in Modes
      BY <1>1, <2>2, ReturnsType, Names, Numbers DEF TypeOK, Modes
    <3> QED
      BY <2>2, <3>2, <3>3, <3>4, KeptMoved
  <2> QED
    BY <1>2, <1>4, <2>1, <2>2 DEF SetOffset, Callable
<1>5. GetOffset(r) => Kept
  BY <1>1, <1>3, Names DEF GetOffset
<1>6. GetUnreadLength(r) => Kept
  BY <1>1, <1>2, <1>3, UnreadType, Names DEF GetUnreadLength
<1> QED
  BY <1>4, <1>5, <1>6

(* Every call, one step per action. *)
LEMMA StepKept == ASSUME IInv, [Next]_vars PROVE Kept
<1>1. CASE UNCHANGED vars
  BY <1>1, KeptUntouched DEF vars, IInv, TypeOK, Untouched, Modes, Results
<1>2. ASSUME NEW r \in Readers, GetData(r) \/ Serialize(r) \/ DebugInfo(r) PROVE Kept
  BY <1>2, KeptShare, KeptShareInArray, Names, Numbers DEF GetData, Serialize, DebugInfo
<1>3. CASE Next
  BY <1>2, <1>3, KeptMake, KeptDrop, KeptNew, KeptClone, KeptCompare, KeptFree, KeptConstruct,
     KeptReadByteArray, KeptOffsets, KeptUnserialize, KeptReadType, KeptReadVarInt, KeptUnpack
     DEF Next
<1> QED
  BY <1>1, <1>3
----------------------------------------------------------------------------
(* Theorems about references.                                              *)

(* At first every string has exactly its holders.                          *)
LEMMA InitInv == Init => IInv /\ \A c \in Cells : refs[c] = Holders(c)
<1> SUFFICES ASSUME Init PROVE IInv /\ \A c \in Cells : refs[c] = Holders(c)
  OBVIOUS
<1>1. Blank \in [buffer : Cells \cup Literals, offset : Size]
  BY LiteralsAssumption, Numbers DEF Blank
<1>2. "none" \in Calls /\ <<>> \in Seq(Words) /\ <<>> \in Seq(Byte)
  BY DEF Calls
<1>3. TypeOK
  BY <1>1, <1>2, Numbers, NumbersAssumption DEF Init, TypeOK
<1>4. ASSUME NEW c \in Cells PROVE refs[c] = 0 /\ Holders(c) = 0
  <2>1. {r \in objects : reader[r].buffer = c} = {}
    BY DEF Init
  <2>2. held[c] = 0 /\ refs[c] = 0
    BY DEF Init
  <2> QED
    BY <2>1, <2>2, FS_EmptySet DEF Holders
<1>5. RefsCover
  BY <1>4 DEF RefsCover
<1> QED
  BY <1>3, <1>4, <1>5 DEF IInv, Init

(* A request never leaves the mode "faulted", and never returns to         *)
(* "running".                                                              *)
LEMMA ModeStep ==
  ASSUME [Next]_vars
  PROVE  (mode' # "faulted" => mode # "faulted") /\ (mode' = "running" => mode = "running")
BY DEF Next, vars, MakeString, DropString, ReaderNew, ReaderClone, ReaderCompareObjects, ReaderFree,
       Construct, GetData, Serialize, DebugInfo, ReadByteArray, GetOffset, SetOffset,
       GetUnreadLength, Unserialize, ReadType, ReadVarInt, UnpackType, UnpackVarInt, Create,
       ReaderInitProperties, Share, ShareInArray, Take, Returns, Throws, Raise, Bailout, Fault,
       Callable, Running

(* No call breaks the inductive invariant.                                 *)
LEMMA IInvInductive == ASSUME IInv, [Next]_vars PROVE IInv'
<1>1. Kept /\ (mode' # "faulted" => mode # "faulted")
  BY StepKept, ModeStep
<1>2. RefsCover'
  <2> SUFFICES ASSUME mode # "faulted", NEW c \in Cells PROVE refs'[c] >= Holders(c)'
    BY <1>1 DEF RefsCover
  <2>1. refs[c] \in Nat /\ Holders(c) \in Nat /\ refs[c] >= Holders(c)
    BY HoldersType DEF IInv, TypeOK, RefsCover
  <2>2. TypeOK'
    BY <1>1 DEF Kept
  <2>3. refs'[c] \in Nat
    BY <2>2 DEF TypeOK
  <2>4. Holders(c)' \in Nat
    BY <2>2, HoldersTypePrime
  <2> QED
    BY <1>1, <2>1, <2>3, <2>4 DEF Kept, Surplus
<1> QED
  BY <1>1, <1>2 DEF Kept, IInv, Blanks

(* The inductive invariant holds, whatever arrays __unserialize is given,  *)
(* on readers in use or not, and whatever allocation fails.                *)
THEOREM IInvAlways == Spec => []IInv
<1>1. Init => IInv
  BY InitInv
<1>2. IInv /\ [Next]_vars => IInv'
  BY IInvInductive
<1> QED
  BY <1>1, <1>2, PTL DEF Spec

(* The members of readers and strings keep their C++ types.                *)
THEOREM TypeCorrect == Spec => []TypeOK
<1>1. IInv => TypeOK
  BY DEF IInv
<1> QED
  BY <1>1, IInvAlways, PTL

(* No string is freed while a reader or the script still refers to it.     *)
THEOREM RefsCoverAlways == Spec => []RefsCover
<1>1. IInv => RefsCover
  BY DEF IInv
<1> QED
  BY <1>1, IInvAlways, PTL

(* No reference is leaked by a request that is not aborted, if             *)
(* __unserialize is called only by the engine, on readers it has just      *)
(* created.                                                                *)
THEOREM NoLeakAlways == ASSUME ~ Direct PROVE Spec => []NoLeak
<1>1. Init => NoLeak
  BY InitInv DEF NoLeak
<1>2. ASSUME IInv, NoLeak, [Next]_vars PROVE NoLeak'
  <2> SUFFICES ASSUME mode' = "running", NEW c \in Cells PROVE refs'[c] = Holders(c)'
    BY DEF NoLeak
  <2>1. refs[c] = Holders(c)
    BY <1>2, ModeStep DEF NoLeak
  <2>2. Surplus(c)' = Surplus(c)
    BY <1>2, StepKept DEF Kept
  <2>3. TypeOK /\ TypeOK'
    BY <1>2, StepKept DEF Kept, IInv
  <2>4. refs'[c] \in Nat /\ Holders(c)' \in Nat /\ Holders(c) \in Nat
    BY <2>3, HoldersType, HoldersTypePrime DEF TypeOK
  <2> QED
    BY <2>1, <2>2, <2>4 DEF Surplus
<1> QED
  BY <1>1, <1>2, IInvAlways, PTL DEF Spec
----------------------------------------------------------------------------
(* Offsets.                                                                *)

InString(r) == reader[r].offset <= Len(Chars(reader[r].buffer))

(* What every call does to offsets: a reader stays as it was or has an     *)
(* offset in its string, and nothing outside a string is touched.          *)
Placed ==
  /\ mode' # "faulted"
  /\ \A r \in objects' :
       \/ r \in objects /\ reader'[r] = reader[r]
       \/ reader'[r].offset <= Len(Chars(reader'[r].buffer))

(* The calls that move no reader. *)
LEMMA PlacedStill ==
  ASSUME mode # "faulted", UNCHANGED <<objects, reader>>, UNCHANGED mode \/ Bailout
  PROVE  Placed
BY DEF Placed, Bailout

(* Calls that hand the string out, or look at it, leave the offset where   *)
(* it is.                                                                  *)
LEMMA PlacedShare ==
  ASSUME IInv, mode # "faulted", NEW r \in Readers,
         \/ GetData(r) \/ Serialize(r) \/ DebugInfo(r)
         \/ \E q \in Readers : ReaderCompareObjects(r, q)
         \/ GetOffset(r) \/ GetUnreadLength(r)
  PROVE  Placed
<1>1. \A q \in objects : Live(reader[q].buffer)
  BY Alive
<1>2. UNCHANGED <<objects, reader>> /\ (UNCHANGED mode \/ Bailout)
  BY <1>1 DEF GetData, Serialize, DebugInfo, ReaderCompareObjects, GetOffset, GetUnreadLength,
     Share, ShareInArray, Returns, Untouched, Callable
<1> QED
  BY <1>2, PlacedStill

(* unpack moves no offset and stays within the string it is given.         *)
LEMMA PlacedUnpack ==
  ASSUME mode # "faulted", NEW p \in Cells \cup Literals,
         (\E n \in Widths : UnpackType(p, n)) \/ (\E m \in VarIntSizes : UnpackVarInt(p, m))
  PROVE  Placed
<1>1. UNCHANGED <<objects, reader>> /\ (UNCHANGED mode \/ Bailout)
  BY DEF UnpackType, UnpackVarInt, Untouched, Returns, Raise
<1> QED
  BY <1>1, PlacedStill

(* The calls that move one reader. *)
LEMMA PlacedMoved ==
  ASSUME TypeOK, mode # "faulted", NEW r \in Readers, NEW p, NEW o,
         objects' = objects \cup {r}, Update(r, [buffer |-> p, offset |-> o]),
         o <= Len(Chars(p)), UNCHANGED mode \/ Bailout
  PROVE  Placed
<1>1. reader' = [reader EXCEPT ![r] = [buffer |-> p, offset |-> o]]
      /\ objects' \subseteq Readers
  BY DEF Update, TypeOK
<1>2. reader'[r] = [buffer |-> p, offset |-> o] /\ \A q \in Readers \ {r} : reader'[q] = reader[q]
  BY <1>1 DEF TypeOK
<1> QED
  BY <1>1, <1>2 DEF Placed, Bailout

(* A new reader starts at the beginning, a clone where the original        *)
(* stands.                                                                 *)
LEMMA PlacedHandlers ==
  ASSUME IInv, OffsetInString, mode # "faulted", NEW r \in Readers,
         ReaderNew(r) \/ ReaderFree(r) \/ \E q \in Readers : ReaderClone(r, q)
  PROVE  Placed
<1>1. TypeOK /\ \A q \in objects : Live(reader[q].buffer) /\ InString(q)
  BY Alive DEF IInv, OffsetInString, InString
<1>2. ASSUME NEW op, NEW q \in Readers, NEW p, NEW o, Create(op, q, p, o), o <= Len(Chars(p))
      PROVE  Placed
  <2>1. CASE Bailout /\ Untouched
    BY <2>1, PlacedStill DEF Untouched
  <2>2. CASE objects' = objects \cup {q} /\ ReaderInitProperties(op, q, refs, p, o)
    BY <1>1, <1>2, <2>2, PlacedMoved DEF ReaderInitProperties, Returns
  <2> QED
    BY <1>2, <2>1, <2>2 DEF Create
<1>3. CASE ReaderNew(r)
  <2>1. Chars(EmptyString) = <<>>
    BY LiteralsAssumption DEF Chars
  <2>2. 0 <= Len(Chars(EmptyString))
    BY <2>1
  <2> QED
    BY <1>2, <1>3, <2>2 DEF ReaderNew
<1>4. CASE ReaderFree(r)
  <2>1. objects' = objects \ {r} /\ Update(r, Blank) /\ UNCHANGED mode
    BY <1>1, <1>4 DEF ReaderFree, Returns
  <2> QED
    BY <1>1, <2>1 DEF Placed, Update, TypeOK
<1>5. ASSUME NEW q \in Readers, ReaderClone(r, q) PROVE Placed
  <2>1. Create("clone", q, reader[r].buffer, reader[r].offset) /\ r \in objects
    BY <1>1, <1>5 DEF ReaderClone, Callable
  <2> QED
    BY <1>1, <1>2, <2>1 DEF InString
<1> QED
  BY <1>3, <1>4, <1>5

(* __construct sets the offset back to the beginning.  It does not touch a *)
(* string that is gone: of the string that it releases, the caller, who    *)
(* passes it on, has another reference.                                    *)
LEMMA PlacedConstruct ==
  ASSUME IInv, mode # "faulted", NEW r \in Readers, NEW p \in Cells \cup Literals, Construct(r, p)
  PROVE  Placed
<1> DEFINE b == reader[r].buffer
           released == Release(refs, b)
<1>1. r \in objects /\ Live(b) /\ Passable(p)
  BY Alive DEF Construct, Callable
<1>2. ~ (p \in Cells /\ released[p] = 0)
  BY <1>1, AliveReleased DEF Passable
<1> HIDE DEF released
<1>3. ReaderInitProperties("__construct", r, released, p, 0) /\ objects' = objects \cup {r}
  BY <1>1, <1>2 DEF Construct, Callable, released
<1>4. 0 <= Len(Chars(p))
  BY StringType DEF IInv
<1> QED
  BY <1>3, <1>4, PlacedMoved DEF ReaderInitProperties, Returns, IInv

(* __unserialize takes the offset from the array.                          *)
LEMMA PlacedUnserialize ==
  ASSUME RestoresInString, IInv, mode # "faulted", NEW r \in Readers, NEW x, NEW y,
         Unserialize(r, x, y)
  PROVE  Placed
<1>1. CASE \E exc : Throws("__unserialize", r, exc)
  BY <1>1, PlacedStill DEF Throws, Raise, Untouched
<1>2. ASSUME NEW p \in Cells \cup Literals, NEW n \in 0 .. Len(Chars(p)),
             ReaderInitProperties("__unserialize", r, refs, p, Wrap(n)),
             r \in objects, UNCHANGED objects
      PROVE  Placed
  <2>1. Wrap(n) = n /\ n <= Len(Chars(p))
    BY StringType, Numbers DEF Wrap, IInv, Size
  <2>2. objects' = objects \cup {r}
    BY <1>2
  <2> QED
    BY <1>2, <2>1, <2>2, PlacedMoved DEF ReaderInitProperties, Returns, IInv
<1> QED
  BY <1>1, <1>2 DEF Unserialize, Callable, RestoresInString

(* What is taken from the string ends in it.                               *)
LEMMA PlacedTake ==
  ASSUME IInv, OffsetInString, mode # "faulted", NEW op, NEW r \in objects, NEW n \in Nat,
         Take(op, r, n)
  PROVE  Placed
<1> DEFINE p == reader[r].buffer
           o == reader[r].offset
<1>1. TypeOK /\ r \in Readers /\ p \in Cells \cup Literals /\ o \in Size /\ o \in Nat
      /\ Live(p) /\ o <= Len(Chars(p)) /\ objects \cup {r} = objects
  BY Alive, Numbers DEF IInv, TypeOK, OffsetInString
<1>2. Len(Chars(p)) \in Size /\ Unread(Chars(p), o) = Len(Chars(p)) - o
  BY <1>1, StringType, UnreadType
<1>3. CASE o + n > Len(Chars(p))
  <2>1. Throws(op, r, <<"DataDecodeException">>)
    BY <1>1, <1>2, <1>3, Numbers DEF Take
  <2> QED
    BY <2>1, PlacedStill DEF Throws, Raise, Untouched
<1>4. CASE o + n <= Len(Chars(p))
  <2>1. Wrap(o + n) = o + n
    BY <1>1, <1>2, <1>4, Numbers DEF Wrap, Size
  <2>2. ~ (Unread(Chars(p), o) < n) /\ ~ (o + n > Len(Chars(p)))
    <3>1. Len(Chars(p)) \in Nat /\ o + n \in Nat
      BY <1>1, <1>2, Numbers
    <3> QED
      BY <1>1, <1>2, <1>4, <3>1
  <2>3. Update(r, [buffer |-> p, offset |-> o + n]) /\ UNCHANGED <<objects, mode>>
    BY <1>1, <2>1, <2>2 DEF Take, Returns
  <2> QED
    BY <1>1, <1>4, <2>3, PlacedMoved
<1> QED
  BY <1>1, <1>2, <1>3, <1>4, Numbers

(* Reads of bytes and of types of fixed size check the length first.       *)
LEMMA PlacedRead ==
  ASSUME IInv, OffsetInString, mode # "faulted", NEW r \in Readers,
         (\E n \in Lengths : ReadByteArray(r, n)) \/ (\E n \in Widths : ReadType(r, n))
  PROVE  Placed
<1>1. ASSUME NEW n \in Widths, ReadType(r, n) PROVE Placed
  BY <1>1, PlacedTake, NumbersAssumption DEF ReadType, Callable, Long
<1>2. ASSUME NEW n \in Lengths, ReadByteArray(r, n) PROVE Placed
  <2>1. CASE UNCHANGED <<objects, reader>> /\ (UNCHANGED mode \/ Bailout)
    BY <2>1, PlacedStill
  <2>2. CASE n > 0 /\ Take("readByteArray", r, n)
    BY <1>2, <2>2, PlacedTake, NumbersAssumption DEF ReadByteArray, Callable, Long
  <2> QED
    BY <1>2, <2>1, <2>2 DEF ReadByteArray, Throws, Raise, Untouched, Returns
<1> QED
  BY <1>1, <1>2

(* The reading loop of varints stops at the end of the string.             *)
LEMMA PlacedReadVarInt ==
  ASSUME IInv, OffsetInString, mode # "faulted", NEW r \in Readers, NEW m \in VarIntSizes,
         ReadVarInt(r, m)
  PROVE  Placed
<1> DEFINE p == reader[r].buffer
           o == reader[r].offset
           n == VarIntBytes(Chars(p), o, m)
<1>1. TypeOK /\ r \in objects /\ p \in Cells \cup Literals /\ o \in Size /\ o \in Nat
      /\ Live(p) /\ o <= Len(Chars(p)) /\ objects \cup {r} = objects
  BY Alive, Numbers DEF IInv, TypeOK, OffsetInString, ReadVarInt, Callable
<1>2. n \in Nat /\ (n > 0 => o + n <= Len(Chars(p)))
  BY <1>1, VarIntOffset
<1> HIDE DEF n
<1>3. o + n <= Len(Chars(p))
  BY <1>1, <1>2
<1>4. Update(r, [buffer |-> p, offset |-> o + n]) /\ UNCHANGED objects
      /\ (UNCHANGED mode \/ Bailout)
  BY <1>1 DEF ReadVarInt, Returns, Raise, n
<1> QED
  BY <1>1, <1>3, <1>4, PlacedMoved

(* setOffset refuses what lies behind the end.                             *)
LEMMA PlacedSetOffset ==
  ASSUME IInv, mode # "faulted", NEW r \in Readers, NEW n \in Offsets, SetOffset(r, n)
  PROVE  Placed
<1>1. TypeOK /\ r \in objects /\ Live(reader[r].buffer) /\ objects \cup {r} = objects
      /\ reader[r] \in [buffer : Cells \cup Literals, offset : Size]
  BY Alive DEF IInv, TypeOK, SetOffset, Callable
<1>2. CASE Throws("setOffset", r, <<"ValueError">>)
  BY <1>2, PlacedStill DEF Throws, Raise, Untouched
<1>3. ASSUME ~ (n > Len(Chars(reader[r].buffer))), Update(r, [reader[r] EXCEPT !.offset = n]),
             UNCHANGED <<objects, mode>>
      PROVE  Placed
  <2>1. [reader[r] EXCEPT !.offset = n] = [buffer |-> reader[r].buffer, offset |-> n]
    BY <1>1
  <2>2. n <= Len(Chars(reader[r].buffer))
    BY <1>1, <1>3, StringType, NumbersAssumption DEF Long
  <2> QED
    BY <1>1, <1>3, <2>1, <2>2, PlacedMoved
<1> QED
  BY <1>1, <1>2, <1>3 DEF SetOffset, Returns

(* No call puts an offset behind the end of its string, or reads there.    *)
LEMMA StepPlaced ==
  ASSUME RestoresInString, IInv, OffsetInString, mode # "faulted", [Next]_vars
  PROVE  Placed
<1>1. CASE UNCHANGED vars
  BY <1>1, PlacedStill DEF vars
<1>2. ASSUME NEW c \in Cells, DropString(c) \/ \E s \in Data : MakeString(c, s) PROVE Placed
  BY <1>2, PlacedStill DEF MakeString, DropString
<1>3. CASE Next
  BY <1>2, <1>3, PlacedShare, PlacedUnpack, PlacedHandlers, PlacedConstruct, PlacedUnserialize,
     PlacedRead, PlacedReadVarInt, PlacedSetOffset DEF Next
<1> QED
  BY <1>1, <1>3

(* The strings of the readers that exist do not change. *)
LEMMA CharsStay ==
  ASSUME IInv, [Next]_vars, mode' # "faulted", NEW r \in objects'
  PROVE  Chars(reader[r].buffer)' = Chars(reader'[r].buffer)
<1> DEFINE p == reader'[r].buffer
<1>1. IInv' /\ mode # "faulted"
  BY IInvInductive, ModeStep
<1>2. p \in Cells => refs'[p] # 0
  BY <1>1, AlivePrime
<1>3. \/ chars' = chars
      \/ chars' = [d \in Cells |-> IF refs'[d] = 0 THEN <<>> ELSE chars[d]]
      \/ \E c \in Cells, s \in Data : MakeString(c, s)
  BY DEF Next, vars, DropString, ReaderNew, ReaderClone, ReaderCompareObjects, ReaderFree,
       Construct, GetData, Serialize, DebugInfo, ReadByteArray, GetOffset, SetOffset,
       GetUnreadLength, Unserialize, ReadType, ReadVarInt, UnpackType, UnpackVarInt, Create,
       ReaderInitProperties, Share, ShareInArray, Take, Throws, Fault, Untouched, Count
<1>4. CASE \E c \in Cells, s \in Data : MakeString(c, s)
  <2>1. PICK c \in Cells : /\ refs[c] = 0 /\ UNCHANGED <<objects, reader>>
                           /\ \E s \in Data : chars' = [chars EXCEPT ![c] = s]
    BY <1>4 DEF MakeString
  <2>2. p # c
    BY <1>1, <2>1, Alive DEF Live, IInv, TypeOK
  <2> QED
    BY <2>1, <2>2 DEF Chars, IInv, TypeOK
<1>5. p \in Cells \cup Literals
  BY <1>1 DEF IInv, TypeOK
<1> QED
  BY <1>2, <1>3, <1>4, <1>5 DEF Chars

(* So the offsets and the absence of faults are kept together.             *)
LEMMA OffsetInductive ==
  ASSUME RestoresInString, IInv, OffsetInString, NeverFaults, [Next]_vars
  PROVE  OffsetInString' /\ NeverFaults'
<1>1. Placed
  BY StepPlaced DEF NeverFaults
<1>2. ASSUME NEW r \in objects' PROVE reader'[r].offset <= Len(Chars(reader[r].buffer)')
  <2>1. Chars(reader[r].buffer)' = Chars(reader'[r].buffer)
    BY <1>1, CharsStay DEF Placed
  <2>2. reader'[r].offset <= Len(Chars(reader'[r].buffer))
    BY <1>1 DEF Placed, OffsetInString
  <2> QED
    BY <2>1, <2>2
<1> QED
  BY <1>1, <1>2 DEF OffsetInString, NeverFaults, Placed

(* They hold in every run of the program.                                  *)
LEMMA OffsetsAlways ==
  ASSUME RestoresInString PROVE Spec => [](OffsetInString /\ NeverFaults)
<1>1. Init => OffsetInString /\ NeverFaults
  BY DEF Init, OffsetInString, NeverFaults
<1>2. IInv /\ (OffsetInString /\ NeverFaults) /\ [Next]_vars => (OffsetInString /\ NeverFaults)'
  BY OffsetInductive
<1> QED
  BY <1>1, <1>2, IInvAlways, PTL DEF Spec

(* The offset of a reader never lies behind the end of its string, also    *)
(* when a read has thrown and after an abort.                              *)
THEOREM OffsetInStringAlways ==
  ASSUME RestoresInString PROVE Spec => []OffsetInString
BY OffsetsAlways, PTL

(* No call reads outside a string or touches one that has been freed.      *)
THEOREM NeverFaultsAlways ==
  ASSUME RestoresInString PROVE Spec => []NeverFaults
BY OffsetsAlways, PTL

(* __unserialize touches no string but the one it is given.                *)
LEMMA UnserializeSafe ==
  ASSUME mode # "faulted", NEW r \in Readers, NEW x, NEW y, Unserialize(r, x, y)
  PROVE  mode' # "faulted"
<1>1. \A exc : Throws("__unserialize", r, exc) => UNCHANGED mode \/ Bailout
  BY DEF Throws, Raise
<1>2. ASSUME NEW p, NEW n, ReaderInitProperties("__unserialize", r, refs, p, Wrap(n))
      PROVE  UNCHANGED mode
  BY <1>2 DEF ReaderInitProperties, Returns
<1>3. UNCHANGED mode \/ Bailout
  BY <1>1, <1>2 DEF Unserialize
<1> QED
  BY <1>3 DEF Bailout

(* As long as no reader stands behind the end of its string, no call goes  *)
(* wrong, whatever it does to the offsets itself.                          *)
LEMMA StepSafe ==
  ASSUME IInv, OffsetInString, mode # "faulted", [Next]_vars
  PROVE  mode' # "faulted"
<1>1. CASE UNCHANGED vars
  BY <1>1 DEF vars
<1>2. ASSUME NEW c \in Cells, DropString(c) \/ \E s \in Data : MakeString(c, s)
      PROVE  mode' # "faulted"
  BY <1>2 DEF MakeString, DropString
<1>3. ASSUME NEW r \in Readers, NEW x \in Types, NEW y \in Types, Unserialize(r, x, y)
      PROVE  mode' # "faulted"
  BY <1>3, UnserializeSafe
<1>4. ASSUME Next,
             ~ \E c \in Cells : DropString(c) \/ \E s \in Data : MakeString(c, s),
             ~ \E r \in Readers, x, y \in Types : Unserialize(r, x, y)
      PROVE  Placed
  BY <1>4, PlacedShare, PlacedUnpack, PlacedHandlers, PlacedConstruct, PlacedRead,
     PlacedReadVarInt, PlacedSetOffset DEF Next
<1>5. CASE Next
  BY <1>2, <1>3, <1>4, <1>5 DEF Placed
<1> QED
  BY <1>1, <1>5

(* A call goes wrong only where a reader stands behind the end of its      *)
(* string; no string is freed too early in any case.                       *)
THEOREM FaultsOnlyBehindEndAlways == Spec => FaultsOnlyBehindEnd
<1>1. ASSUME IInv, [Next]_vars, mode # "faulted", mode' = "faulted"
      PROVE  /\ \A r \in objects : Live(reader[r].buffer)
             /\ \E r \in objects : reader[r].offset > Len(Chars(reader[r].buffer))
  <2>1. \A r \in objects : Live(reader[r].buffer)
    BY <1>1, Alive
  <2>2. PICK r \in objects : ~ (reader[r].offset <= Len(Chars(reader[r].buffer)))
    BY <1>1, StepSafe DEF OffsetInString
  <2>3. reader[r].offset \in Nat /\ Len(Chars(reader[r].buffer)) \in Nat
    BY <1>1, StringType, Numbers DEF IInv, TypeOK, Size
  <2> QED
    BY <2>1, <2>2, <2>3
<1>2. IInv /\ [Next]_vars =>
        [mode # "faulted" /\ mode' = "faulted" =>
           /\ \A r \in objects : Live(reader[r].buffer)
           /\ \E r \in objects : reader[r].offset > Len(Chars(reader[r].buffer))]_vars
  BY <1>1
<1> QED
  BY <1>2, IInvAlways, PTL DEF Spec, FaultsOnlyBehindEnd
=============================================================================
