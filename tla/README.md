# A verification of ext-encoding

`ext-encoding` is a PHP extension in C++. It gives a script two classes,
`ByteBufferWriter` and `ByteBufferReader`, and four classes of static functions,
`Byte`, `BE`, `LE` and `VarInt`, that read and write integers and floats in them.
This directory holds TLA+ specifications of that code, the configurations with
which TLC checks them on small instances, and theorems about them that TLAPS has
checked for all instances. Line numbers refer to `src/`.

## 1. The system

One PHP request runs in one thread and calls into the extension; nothing runs
concurrently, nothing is persisted and nothing crosses a network. What makes the
code hard is memory it manages by hand: which block or string belongs to which
object after any sequence of calls, what is true of offsets and lengths at their
limits, and what is left behind when the allocator fails in the middle of a call.
The allocator does not return an error: a request over `memory_limit` ends in a
fatal error (`zend_bailout`) that unwinds the call where it stands. Functions
registered with `register_shutdown_function` still run after that, on the same
objects, and every object is still released.

| component | source | state it keeps | operations | what makes it correct |
|---|---|---|---|---|
| writer objects | `classes/ByteBufferWriter.cpp`, `.h` | a heap block; `length` (its size), `offset` (where the next write goes), `used` (how much is written) | create, clone, compare, free; `__construct`, `getData`, `writeByteArray`, `getOffset`, `setOffset`, `getUsedLength`, `getReservedLength`, `reserve`, `trim`, `clear`, `__serialize`, `__unserialize`, `__debugInfo` | `offset <= used <= length` = size of the block; one owner per block; no access outside it; only stored bytes are shown |
| reader objects | `classes/ByteBufferReader.cpp`, `.h` | a counted reference to a `zend_string`, and `offset` | create, clone, compare, free; `__construct`, `getData`, `readByteArray`, `getOffset`, `setOffset`, `getUnreadLength`, `__serialize`, `__unserialize`, `__debugInfo` | the reference count covers every holder and leaks nothing; the offset stays in the string |
| typed functions | `classes/Types.cpp` | none; `pack*` has a writer and `unpack*` a reader on the stack | `read*`, `write*`, `pack*`, `unpack*` | they move the objects as the objects' own methods do; `pack*` fits its 16 byte buffer |
| buffer growth | `Serializers.h`, `extendBuffer` | the block of the caller | grow to the larger of what is needed and twice the size | never too small; few reallocations |
| varint codec | `Serializers.h`, `*VarInt` | loop variables | write and read, signed by zigzag or unsigned, 32 and 64 bits | shortest encoding, round trip, termination, no byte too many |
| fixed-size codec | `Serializers.h`, `*Byte`, `*FixedSizeType`, `*Int24` | none | write and read in either byte order | same bytes on every host, round trip with sign |
| float conversion | `classes/Types.cpp`, `parseWriteTypeParams`, `assignZval` | none | the script's `double` to a `float` and back | the nearest float, ties to even; the infinity behind the largest; a float comes back as it was |
| function tables | `classes/Types.cpp`, `*_ENTRY` macros and method tables | which type, codec and byte order each function name stands for | – | the name promises what the entry does |
| array templates | `Serializers.h` | none | – | not instantiated anywhere |
| registration, `DataDecodeException`, stubs | `encoding.cpp`, `classes/DataDecodeException.h`, `stubs/` | tables | – | no behaviour after startup |

Interactions: the typed functions change the members of writers and readers
directly; what a writer stored is sent as a string to a reader, perhaps on a machine
of the other byte order; `extendBuffer` may move a writer's block; a reader shares its string with
the script, with its clones and with every result of `getData`, `__serialize` and
`__debugInfo`; both kinds of object come back through `__unserialize` from an array
that the script may have made itself.

The behaviours that a test hardly reaches are listed, each at its line, under
`hazards` in `PROJECT.json`, with the properties that would catch them going wrong.

## 2. The modules

| module | models | extends / uses |
|---|---|---|
| `SizeT` | `size_t` and `zend_long` of width 2^w, and the conversions between them | |
| `Bits` | C++ integers as functions from bit numbers to 0 or 1; shifts, `\|`, `^`, `static_cast` | |
| `ByteSink` | the abstract promise of a writer: a string of bytes and a position | |
| `ByteBufferWriter` | the writers, their blocks and the allocator | `SizeT`, instance of `ByteSink` |
| `ByteSource` | the abstract promise of a reader: a string that never changes and a position | |
| `ByteBufferReader` | the readers and the strings they share | `SizeT`, instance of `ByteSource` |
| `VarIntFormat` | the format of varints in closed form | `Bits` |
| `VarInt` | the loops of the varint codec, one iteration per step | `VarIntFormat` |
| `Floats` | the conversions between the formats of `float` and `double` | `Bits` |
| `Codec` | the table of the static functions, and what each does with bytes | `VarIntFormat`, `Floats` |
| `Stream` | a script that writes values and one that reads them | `Codec`, instances of `ByteSink` and `ByteSource` |
| `MC*` | small instances for TLC | |
| `ByteBufferWriterProofs`, `ByteBufferReaderProofs`, `VarIntProofs`, `StreamProofs` | invariants and action properties, proved | the module they are named after, `TLAPS` |
| `ByteBufferWriterRefinement`, `ByteBufferReaderRefinement` | the proofs that writer and reader implement `ByteSink` and `ByteSource`; capacities | `ByteBufferWriterProofs`, `ByteBufferReaderProofs` |
| `CodecProofs` | lemmas about the functions of `Codec`, which `StreamProofs` builds on | `Codec` |
| `NaturalLemmas` | least elements, induction over sets of numbers, division with remainder | `WellFoundedInduction` |

The modules meet in two places. `ByteBufferWriter` and `ByteBufferReader` know how
many bytes a value takes and nothing of what it means; they are shown to implement
`ByteSink` and `ByteSource`. `VarInt` knows nothing of objects; it is shown to follow
`VarIntFormat`. `Stream` is built on these promises alone: its writer moves as
`ByteSink` says, its varints are those of `VarIntFormat`, and its reads are shown to be
reads of `ByteSource`.

Operators named "Mutant of X" in a comment are variants of the definition that
follows them, with a mistake of the kind a change of the code could introduce. No
specification uses them; they serve to see that a property notices the mistake.

### ByteBufferWriter

A block is the sequence of its bytes, and a byte that nobody has stored has the
value `Uninit`, so that reading reserved memory is visible. `heap` maps addresses to
blocks, `allocated` is the set of addresses in use, `writer[w]` has the four
members of `byte_buffer_writer_t`, and `objects` is the engine's object store. Each
object handler and method is one action and carries out the whole call: a write
grows the block (`Grows`, `Extended`), stores the bytes, moves `offset` and raises
`used`. `erealloc` may leave the block where it is or move it to any free address.
The typed `write*` functions are `WriteType`: what matters here is which bytes they
store and how many they ask `extendBuffer` for, which for varints is more than they
store. `pack*` is `PackType`: the same growth test on a buffer of `StackSize` bytes,
which must never succeed. That every type fits (`PackFits`) is no assumption of the
module: where one does not, `PackType` faults.

Every allocation may fail if `MayFail`. A failed allocation has exactly the effects
that precede it in the code: `length` has changed when `erealloc` fails in
`extendBuffer` (`ExtendFails`), but not in `trim`; the old block is gone and the
positions are new when `emalloc` fails in `writer_init_properties`. `mode` then goes
from `running` to `shutdown`, and after a second failure to `ended`; in `shutdown`
the script still calls methods, and in both objects are still freed. An access
outside an allocated block, or a second `efree`, leads to the mode `faulted`, in
which nothing more happens: what the program does then is undefined. An object whose
creation failed is in the object store with a buffer pointer nobody has assigned
(`Wild`); no variable of the script refers to it, so only `WriterFree` finds it.

`__unserialize` is given the array that `__serialize` has just returned
(`Returned`), or any array of `Arrays`. With an entry missing or of the wrong type it
throws `fetch_serialized_property`'s exception.

### ByteBufferReader

`refs` and `chars` are the counted strings of the request; interned strings
(`Literals`) have no count. `held[c]` counts the references that belong to the
script: variables, arrays, results. `MakeString` and `DropString` are the script's
doing; all other changes of counts are the extension's. A string whose count reaches
0 is freed, and touching it later is a fault. A read is modelled by the bytes it
takes and where it leaves the offset: `Take` for the types of fixed size and
`readByteArray`, `ReadVarInt` for varints, which have moved the offset when they
throw. The test `used - offset < SIZE` is computed modulo 2^w, as in the code.
A bailout while `__serialize` builds its array may come before or after the string
was referenced (`ShareInArray`). `Construct` releases the old string first, as the
code does, and faults if that frees the string which it is to reference next; that it
does not is what the caller's own reference (`Passable`) is needed for.

### VarInt and VarIntFormat

`VarInt` takes one step per loop iteration of `writeUnsignedVarInt` and
`readUnsignedVarInt`; the zigzag encoding and the casts between `zend_long` and the
type are applied at the beginning and the end of a call, as `writeSignedVarInt`,
`readSignedVarInt`, `parseWriteTypeParams` and `assignZval` do. The writing loop has
an end the code never comments on: behind the last iteration the function returns
without having moved the offset. It is the phase `lost`. `ReadBack` reads what was
just written, with other bytes behind it; `ReadInput` reads bytes of any origin.

`VarIntFormat` says in closed form which bytes a number is (`VarIntOf`) and how many
bytes of an input are looked at (`VarIntBytes`, `Terminated`, `Joined`). The
invariant `MatchesFormat` ties the loops to it.

### Codec and Floats

`Entries` is the table of functions: an entry has the class and name of the function
in PHP, the signedness its name announces, and the C++ type, the codec and the byte
order that the macros of `Types.cpp` give it. `ToValue` and `FromValue` are the casts of
`parseWriteTypeParams` and `assignZval`. The byte order of the machine is a parameter,
as it is a `#if` in the code: `memcpy` and the union `Flipper` see an integer in that
order, and `std::reverse` happens when the order asked for is another. Triads are
shifted together, on every machine alike. `Encode` is a whole `write*` or `pack*`,
`Decode` a whole `read*` or `unpack*`, with the place where the offset is left when it
throws: a varint has moved it, a type of fixed size has not.

A double is a word of sign, exponent and fraction, and `Floats` rounds it as the
hardware does under the default rounding mode: to the nearest float, to the even one
of two, to the infinity behind the largest, and through subnormal floats near zero. C++
leaves the payload of a NaN open; the model has it shortened and made quiet, as x86
and ARM do, and no property says more of a NaN than that it stays one.

### Stream

`Init` chooses the byte orders of two machines. On the first a script writes values
(`Write`) and goes back to write over some (`SetWriteOffset`); `values` remembers those
of which every byte still stands. `Send` gives a reader on the second machine the bytes,
except for some that may be missing at the end. The second script then reads at any
position with any function (`Read`, `SetReadOffset`). `ret` remembers what the last read
was given and returned, and `sent` what had been written, so that the properties can
compare them; the code keeps neither.

## 3. What TLC checks

Runs that pass:

| run | instance | states | properties |
|---|---|---|---|
| `writer_ops` | one writer, blocks up to 6 bytes, preallocation 2, no failures | 67 000 | `WellFormed`, `WrittenBytesOnly`, `CapacityPolicy`, `ImplementsSink` |
| `writer_oom` | two writers, three addresses, blocks up to 2 bytes, any allocation may fail | 318 000 | `OneOwner`, `RunningNeverFaults`, `AbortKeepsContents`, `ImplementsSink` |
| `writer_any_calls` | one writer, `__unserialize` with any offset, failures | 6 000 | `TypeOK` |
| `reader_reads` | two readers, one counted and two interned strings of up to 4 bytes | 11 000 | `OffsetInString`, `NeverFaults`, `ImplementsSource` |
| `reader_strings` | two readers, two counted strings, failures, restored offsets outside the string | 776 000 | `TypeOK`, `RefsCover`, `NoLeak`, `FaultsOnlyBehindEnd` |
| `varint_narrow` | 5-bit type, groups of 2 bits, 6-bit `zend_long`; all numbers, all inputs of up to 3 bytes | 15 000 | `TypeOK`, `WriteReturns`, `Shortest`, `RoundTrip`, `TakesOneVarInt`, `ReadsGroups`, `MatchesFormat`, `CallsEnd` |
| `types` | bytes of 2 bits, floats of 8 and doubles of 16; a value of each of the functions, read with each of the functions, on machines of all byte orders | 217 000 | `TypeOK`, `ReadsValues`, `RepacksSame`, `ReadsAsPromised` |
| `stream` | the same bytes; up to 3 values of 4 types in up to 6 bytes, seeking, up to 2 bytes cut off | 261 000 | `ValuesStand`, `ReadsValues`, `TruncatedThrows` |

Writer properties. `WellFormed`: `offset <= used <= length`, and `length` is the size
of an allocated block, in every state before a fatal error. `OneOwner`: every
allocated block has exactly one writer, so nothing is shared, leaked or freed twice.
`WrittenBytesOnly`: no reserved byte becomes visible. `RunningNeverFaults`: no access
outside a block. `CapacityPolicy`: a capacity grows at least to twice itself and
shrinks only in `trim`, `__construct` and `__unserialize`. `AbortKeepsContents`: a
call that dies while it grows or trims a buffer leaves written bytes and position as
they were. `ImplementsSink`: with blocks, capacities and reallocation forgotten, each
call does to the bytes and the position what `ByteSink` says, and returns what
`ByteSink` says. The refinement maps a writer to
`[data |-> Contents(w), pos |-> writer[w].offset]`; it ends with the first fatal error.

Reader properties. `RefsCover`: the count of a string is at least the number of
references the script and the readers have, in every mode. `NoLeak`: it is exactly
that number until a fatal error. `OffsetInString`, `NeverFaults`: the offset stays in
the string, and no read leaves it. `FaultsOnlyBehindEnd`: where `__unserialize` has
restored an offset behind the string, reads may leave it, but nothing else makes a call
fault, neither the order in which strings are released nor a fatal error. `ImplementsSource`: the same kind of refinement;
in particular readers that share a string do not disturb each other.

Codec properties. `WriteReturns`: the writing loop returns from within and stores no
more than it asked room for. `Shortest`: it stores the fewest groups the number fits
in, signed numbers counting as two's complement. `RoundTrip`: what is read back is
what was written, cast to the type and back, and what follows is left unread.
`TakesOneVarInt` and `ReadsGroups`: on any input, exactly the bytes of one varint
are taken, and mean what they say, or the read throws. `CallsEnd`: every call ends.
`MatchesFormat`: what the loops store and take is what `VarIntFormat` says.

Stream properties. They compare the functions with what their names promise
(`PromisedSize`, the class, the signedness), not with the table. `ValuesStand`: the
bytes of a value of fixed size stand in the promised order and number until a byte of
them is written over, on a machine of either order, and a float is the nearest to the
double given (`Nearest` compares distances and does no rounding). `ReadsValues`: a
value that arrived is read back as its name promises, in whatever order the values are
read, and the position is then behind it. `TruncatedThrows`: a value that was cut off
is never returned, as no value begins like a shorter one of its type. `RepacksSame`:
whatever bytes are read, also from the middle of a value, writing the result with the
same type gives the same bytes; a varint may become shorter, and a NaN another.
`ReadsAsPromised`: all reads are reads of `ByteSource`.

Runs that end in a violation, each showing a place where the code does something
else than a stub, a comment or a message of it says:

| run | what TLC shows |
|---|---|
| `writer_setoffset_doc` | `setOffset` refuses offsets above the used length; the stub allows up to the reserved length |
| `writer_type_error` | the type error of `__unserialize` has its two types exchanged (the reader has the same lines) |
| `writer_restored_offset` | an offset behind the string is restored, and a later write makes reserved bytes visible |
| `reader_unserialize_leak` | `__unserialize` called on a reader in use leaks the string it had |

The stub of `reserve` says that the capacity grows "to the given value"; the code, as
`CapacityPolicy` has it, takes twice the old capacity if that is more.

### What the properties do not say

* After a fatal error. When `erealloc` fails in `extendBuffer`, `length` stays too
  large; when `emalloc` fails in `__construct` or `__unserialize`, the pointer stays on a
  freed block. Both are in the model, and calls of a shutdown function on such a writer,
  or its release, may lead to `faulted`. The code promises nothing there that could be stated, so
  `WellFormed`, `OneOwner` and `RunningNeverFaults` end with the first fatal error, and
  `AbortKeepsContents` speaks of the bytes and the position only, and only of writers that
  still have their block. What does go on after a fatal error is `RefsCover`.
* Offsets that `__unserialize` takes from an array the script made itself. `WellFormed`,
  `OffsetInString`, `NeverFaults` and the refinements are checked and proved without them
  (`RestoresInOrder`, `RestoresInString`). With them, `writer_restored_offset` shows how a
  writer comes to show reserved bytes, and a reader computes the rest of its string modulo 2^w:
  its `getUnreadLength` returns another number than its stub says, and its reads may
  fault. `TypeOK`, `RefsCover`, `NoLeak` and `FaultsOnlyBehindEnd` are checked with them.
* That types fit the stack buffer of `pack*`. `RunningNeverFaults` needs it (`PackFits`;
  `writer_oom` has a type that just fits). For varints it is the assumption
  `StackAssumption` of `VarInt`, together with `WriteReturns`: 10 <= 16 in the code; for the
  others it is 8 <= 16.

### Bounds, and why they are enough

* Blocks of up to 6 bytes with a preallocation of 2 contain all the cases of
  `extendBuffer`: no growth, growth to twice the size, growth beyond it, and growth
  from 0 after `trim`. `MaxCapacity` stands for the largest block a process can be
  given. It is less than half of `SizeMod`, since no block is half as large as the
  address space, so that `offset + usedBytes` and `length * 2` of a writer in order do not
  wrap; the wrapping arithmetic is in the model and happens in `writer_any_calls`,
  where offsets come from anywhere.
* Three addresses suffice for two writers and one reallocation that moves.
* Two byte values and `Uninit` tell stored bytes from each other and from others.
* Two readers, two counted strings and `MaxHeld` references of the script per string
  contain every way in which two holders part with a string.
* 5 bits in groups of 2 leave one bit in the last group, as 64 bits in groups of 7
  do; a `zend_long` is wider than the type, as with 32 bits. The theorems about
  `VarInt` and `Stream` hold for the widths of the code.
* Bytes of 2 bits are the smallest that still have a bit for the value and a bit that
  says whether another byte of a varint follows; a `zend_long` of 8 bytes then has 16
  bits, and four distinct bytes tell every wrong order of a triad. The last group of a
  varint is complete there; the incomplete one is in `varint_narrow`.
* A float of 4 bytes has 3 bits of exponent and 4 of fraction, a double of 8 bytes 4
  and 11. Every relation between the two formats that the conversion depends on is
  kept: a double may be too small for a float, subnormal as a float, halfway between
  two, or too large. Longer ones would leave the integers of TLC in `Meaning`.
* `types` writes, for integers, words with a single bit set and with all bits set
  from one on, at the limits of the types; for floats, doubles on and about the halfway
  points, with exponents below, in and above the range of floats. `MaxLength` is
  never reached with one value.
* `stream` has four functions of different sizes and orders, one of them a varint of
  variable length, and two numbers; two values beside each other and a third written
  over both fit in its 6 bytes, and cuts of 2 bytes take away a whole short and
  part of the others.
* `CHECK_DEADLOCK FALSE` is set where a request may end (`ended`, `faulted`), and for
  `Stream`: its bounds may leave a script nothing to write or read.
* Symmetry is used among addresses and among objects of the same kind, which nothing
  tells apart. No run with symmetry checks liveness.

### Fairness

Only `VarInt` needs fairness: a call that has begun goes on, so each loop iteration
that can be taken is taken (`WF_vars(WriteGroup)`, `WF_vars(ReadGroup)`). The code
runs in one thread without waiting for anything. Nothing says that the script must
ever call a function.

## 4. What TLAPS proves

The theorems hold for every number of writers, readers, addresses and strings, every
`Prealloc`, `SizeMod` and `MaxCapacity`, every set of strings and offsets, every width of
varint and of a byte, under the assumptions named in the modules. Each inductive
invariant was first checked by TLC on the instances of section 3.

**Writer** (`ByteBufferWriterProofs`). `TypeCorrect` is `Spec => []TypeOK`, with no
assumption about the arrays given to `__unserialize`. The rest holds if these arrays
have their offset in their string (`RestoresInOrder`; `writer_restored_offset` shows
what happens otherwise): `WellFormedAlways`, `OneOwnerAlways`,
`WrittenBytesOnlyAlways`, all from `InOrderAlways`; and `RunningNeverFaultsAlways`, which
in addition needs that every type fits the stack buffer of `pack*` (`PackFits`).

The properties are not inductive one by one. That a write stays in its block needs
`length` to be the size of the block; that this remains so when another writer is
freed needs that nobody else owns the block; that no byte of a gap becomes visible
needs `offset <= used`; that this holds for a restored writer needs that the result of
`__serialize`, which may be passed on later, has its offset in its string; and that no
sum wraps needs `length <= MaxCapacity`. `IInv` is the conjunction, and it is claimed
only while `mode = "running"`: after a fatal error `length` may be wrong. The proof
has one lemma per handler (`NewInOrder`, `CloneInOrder`, ...), all built on three
facts: what installing a block does (`Installed`), what moving positions back does
(`Repositioned`), and that within `MaxCapacity` `extendBuffer` gives what is asked for
(`CapacityType`).

**What the writer promises** (`ByteBufferWriterRefinement`). `ImplementsSinkAlways`:
the initial states map to those of `ByteSink`, and every step of a request that runs
to a call of it or to a stutter, with one lemma per call (`WriteIs`, `CloneIs`, ...).
The work is in the contents: a write into a block that was moved, or left where it
was, replaces the same bytes of the string, and trimming or reserving none.
`CapacityPolicyAlways` and `AbortKeepsContentsAlways` are action properties from the
same invariant; the second says what is left when `erealloc` fails between the change
of `length` and that of the block.

**Reader** (`ByteBufferReaderProofs`). `RefsCover` is almost inductive: `IInv` adds the
types, and that a reader which does not exist is blank, so that creating it gives no
string a holder that was there before. The argument is about the surplus, the count
of a string less the number of its holders. Every call keeps the surplus of every
string (one lemma per call, `KeptConstruct`, `KeptClone`, ...), except that a call that
dies may have counted a reference nobody will hold, and that `__unserialize` on a reader
in use forgets the string it had: both raise it. So `RefsCoverAlways` holds in every
mode and with every call, and `NoLeakAlways` (the surplus is 0 until a fatal error) if
no script calls `__unserialize` itself (`~ Direct`); `reader_unserialize_leak` shows what
happens otherwise. `Holders` counts readers with `Cardinality`, so the proof needs that
there are finitely many (`ReadersAssumption`). `OffsetInStringAlways` and
`NeverFaultsAlways` hold if restored offsets lie in their strings (`RestoresInString`);
`FaultsOnlyBehindEndAlways` holds without that.
They depend on each other: a read stays in its string because the offset does, the test
`used - offset < SIZE` modulo 2^w means what it says because no string is half as long
as the address space (`DataAssumption`), and the string is there at all because of
`RefsCover`. So it is in `__construct`, where the old string and the new one may be the
same: `AliveReleased` says that releasing it cannot free a string the caller holds.

**What the reader promises** (`ByteBufferReaderRefinement`). `ImplementsSourceAlways`,
again one lemma per call. A varint is the interesting one: the loop takes the bytes up
to the first that ends one, and `ByteSource` the least number of bytes of which the last
does, which exists by `Minimum` of `NaturalLemmas`.

**Varint** (`VarIntProofs`). `TypeCorrect`, `WriteReturnsAlways`, `ShortestAlways`,
`RoundTripAlways`, `TakesOneVarIntAlways`, `ReadsGroupsAlways` and
`MatchesFormatAlways`, for every type width, group width, number and input. The invariant (`IInvAlways`) says, while
writing, that the groups stored are the lowest bits of the encoded number and
`remaining` the others, not all zero if another group is due; and while reading, that
`result` consists of the groups taken. Reading back needs in addition that the bytes
are a complete encoding (`Complete`). `MaxBytesEnough` is the arithmetic that the
last iteration of the writing loop returns; `ZigZagInverse` and `CodedInverse` undo
the zigzag encoding and the casts. `StackAssumption`, that `MAX_BYTES` fits the stack
buffer of `pack*`, is evaluated by TLC for the instance; for the code it is 10 <= 16.

**The functions** (`CodecProofs`). The lemmas are about every entry of the table, every
number and every string of bytes. `memcpy`, reversed where the byte order asks for it
(`WritesFixed`), and the shifts of triads (`WritesTriad`) both give `FixedBytes`, in
which the machine no longer occurs; reading is `FixedValue` in the same way. A varint
is read by the loop's own condition (`VarIntBytesIs`), which stops at the one byte that
`VarIntOf` marks as the last. `ComesBack` says of bytes that begin with an encoded
number, or with as much of it as there is: if all of it is there, `Decode` takes it and
returns the number, cut to its size; if not, `Decode` throws. `Repacked` says that
`Encode` undoes `Decode`.

**Streams** (`StreamProofs`). `IInv` says that the bytes of every value in `values` stand
where it was written, those in `sent` in what arrived, as far as it reaches, and that `ret`
is what `Decode` makes of the bytes at its place. It holds because a write takes those
values out of account of which it hits a byte (`Overwritten`, `StandsAfter`), because
bytes are lost only at the end (`StandsInPart`), and because the encoding does not depend
on anything around it. From it and the lemmas of `CodecProofs` follow `TypeCorrect`,
`TruncatedThrowsAlways`, `ValuesStandAlways`, `ReadsValuesAlways`, `RepacksSameAlways` and,
since a read moves as `ByteSource` says, `ReadsAsPromisedAlways`.

Of the arithmetic with exponents and fractions the proofs know nothing: the prover has
no law about `2 ^ n`. Where floats are concerned, `ValuesStandAlways` and
`ReadsValuesAlways` start from `FloatsNear(Writes)`, that the doubles a script writes as
floats are converted to the nearest float and back to it, and `RepacksSameAlways` starts
from `FloatsKept`, that a float which is not a NaN survives the way to a double and back. Both
speak of the conversions `ToValue` and `FromValue` alone, not of buffers, byte orders or
machines; for scripts that write no floats the first is empty. TLC evaluates
`FloatsConverted` for the small formats, with every float and with doubles of every
exponent, before the run `stream`; `types` sees the same within whole streams.

**Checked by TLC only.** `FloatsNear` and `FloatsKept`, for the reason given; `CallsEnd`,
since liveness under fairness is beyond the prover.

## 5. What is not modelled

* Argument parsing by the engine, texts of messages (except for the two types in the
  type error), `phpinfo`, registration, the array templates nobody instantiates.
* The contents of numbers in `ByteBufferWriter` and `ByteBufferReader`, and memory in
  `VarInt`, `Codec` and `Stream`: the first two rely on the others only for how many
  bytes are stored or taken.
* Machines whose floating point is not IEEE 754, other rounding modes, and payloads of
  NaNs other than x86 and ARM keep them.
* A bailout out of a varint read that is throwing is modelled in `ByteBufferReader`
  as part of the call; one in the middle of a loop cannot happen, as the loops do
  not allocate.
* What a program does after an access outside its blocks.

## 6. Plan

Written, in this order: the writer and its abstract promise, its safety proofs, the
reader and its promise, the varint codec and its proofs, the table of functions with
the fixed-size and float codecs, and the stream that composes them with the promises
of writer and reader.

The proofs followed in the same order: writer, varint, reader, the two refinements, the
functions, and the stream.

Next:

1. The two facts about floats. They need laws of powers of two, which would have to be
   derived from a recursive function instead of `^`; then that `Narrow` of `Widen` is the
   identity, and that `Rounded` is the nearest.
2. `MatchesFormatAlways` of `VarInt` and the lemmas about `VarIntOf` in `CodecProofs` meet in
   `VarIntFormat`; some facts, as `MaxBytesEnough`, are proved in both modules and could
   be shared.
3. What a writer can rely on after a fatal error, beyond `AbortKeepsContents`.
