# A TLA+ model of the SofaBuffers C/C++ core library

This directory specifies `corelib-c-cpp` in TLA+: modules that model the code, TLC
configurations that check them on small instances, and proofs that TLAPS checks for
every value of the constants. All source paths below are relative to `src/`, the
repository; the library proper is `src/src/` (C sources, C headers and the C++ wrapper
headers).

Contents: [the system](#the-system) - [the plan](#the-plan) -
[modules and code](#modules-and-code) - [runs](#runs) - [proofs](#proofs) -
[findings](#findings) - [what is not modelled](#what-is-not-modelled) -
[running it](#running-it)

## The system

SofaBuffers is a compact serialisation format. A message is a list of fields; a field is
a varint header `(id << 3) | type` and a payload: a varint (unsigned, or ZigZag-coded
signed), a fixed-length payload (`fp32`, `fp64`, string, blob) behind a length word, an
array behind a count, or a nested sequence between a start and an end marker. The library
never allocates. Everything is single-threaded; what makes it hard is that it is driven
from outside in arbitrary pieces: the output goes through caller buffers and a flush
callback, the input arrives in chunks cut anywhere, and field callbacks reconfigure the
decoder while it runs.

| component | source | state | operations | must hold |
|---|---|---|---|---|
| varint and word arithmetic | `ostream.c`, `istream.c` (static helpers) | accumulator and shift of a partly read varint | encode, decode one byte, ZigZag, header words, width checks | round trip; overflow refused exactly at the boundary; a narrow destination accepts exactly what it can hold |
| streaming encoder | `ostream.c`, `sofab/ostream.h` | buffer, cursor, end, sink and its context, `pending[]` run of held-back sequence headers | `init`, `buffer_set`, `flush`, `bytes_used`, `write_*`, `sequence_begin`, `_begin_lazy`, `_end`, `_end_keep` | no write past the buffer; bytes reach the sink once, in order; reserved room untouched; nesting on the wire is what the caller opened and closed; an empty lazy sequence leaves no trace; every call returns |
| streaming decoder | `istream.c`, `sofab/istream.h` | position in field, varint, payload and array; bound destination; chain of nested decoders; skip and depth counters; sticky verdict | `init`, `feed`, `read_field`, `read_array`, `read_sequence`, `invalidate` | framing independent of callbacks and chunks; no store outside the destination; one announcement per field; a condemned message stays condemned; only malformed bytes are called malformed |
| UTF-8 validator | `utf8.c` | none | validate | accepts exactly well-formed UTF-8 |
| object API | `object.c`, `sofab/object.h` | descriptor tables; stack of object decoders; observed lengths of wrapper sequences | init, encode, field callback | omitted defaults come back on decode; a union has one option; nested messages reach the right object; wrapper sequences keep their length |
| C++ output stream | `sofab/sofab.hpp` | the C encoder, first failure seen, the buffer and who keeps it alive, the callback | `write` of every type, nested messages, chains (`Result`), sequences by hand, `flush`, `setBuffer`, move, destructor | both verdicts, the chain's and the stream's, tell the truth; nested messages close what they opened; every byte is handed over once, from memory that exists |
| C++ input stream | `sofab/sofab.hpp` | the C decoder, refusal latch, receiver limits, nested decoder handles | feed, read, limits | the refusal and the decoder's own verdict agree; limits bound what is stored |
| sequence collectors | `sofab/seq.hpp`, `sofab/sofab.hpp` | destination container, its bounds | `deserialize` of each element | elements land at their wire id; gaps hold defaults, repeats continue or replace; no container grows on an id nobody bounded |
| C++ containers | `sofab/sofab.hpp`, `sofab/floats.hpp` | bytes/elements and a size | value-type operations | a text that is too long is cut between characters; a container that grows holds defaults |
| configuration and types | `sofab.h`, `sofab/config.h`, CMake options | none | none | limits consistent |

**How they interact.** The application calls the encoder; the encoder calls the flush
callback from inside `_push_byte()`, and the callback may call `buffer_set()` on the same
encoder. The application calls `feed()`; the decoder calls the field callback from inside
the byte loop, and the callback may call `read_*()` (which overwrite the decoder's target
and push a nested decoder with its own callback) or `invalidate()`. The object API is a
client of both: it walks descriptors to encode, and is itself a field callback to decode.
The C++ streams wrap the two C streams and add a first-error latch on each side. The C++
output stream also owns, shares or borrows the buffer the C encoder keeps a raw pointer to, and
is itself the context of its C callback.

**What is hard.** Re-entrancy (state read before a callback and used after it); positions
that must survive a chunk boundary at every byte; partial failure (an encoder that runs out
of room half way through a commit keeps going on later calls); two mechanisms sharing one
counter (bound and skipped nesting share `depth`); unsigned counters that are decremented
before they are tested; closers that name no sequence and verdicts nobody looks at; raw
pointers in the C contexts beside C++ owners that move, grow and are destroyed; and the boundaries of varint width, hold-back window, destination
capacity and terminator. There are no threads and nothing is persisted, so
there is no crash recovery and no message loss to model. `PROJECT.json` lists each
hazard at its line with the properties aimed at it.

## The plan

Written in this order, most important behaviour first:

1. `Varint`: arithmetic both streams rest on; `CodecsProofs`. *done*
2. `OStream`, `OStreamWire` with the abstract `SequenceWriter`; `OStreamProofs`. *done*
3. `IStream`, `IStreamProps` with the abstract `WireParser`; `IStreamProofs`. *done*
4. `Utf8`: the validator against the definition of well-formed UTF-8, and the cut; `CodecsProofs`. *done*
5. `ObjectSchema`, `ObjectEncode`, `ObjectDecode` with the abstract `ObjectValue`, composed
   by `ObjectTransfer`; `ObjectDecodeProofs`, `ObjectTransferProofs`. *done*
6. `Collectors` with the abstract `ElementArray`: the C++ input stream's refusals and reads,
   the wrapper-array collectors, the reads into a vector, storage that moves; `CollectorsProofs`. *done*
7. `OStreamWrites`, `CppOStream`: the typed writers, and the C++ output stream's verdicts, nested
   messages and chains over `OStream`; `CppOStreamProofs`. *done*
8. `CppBuffers`: who owns the buffer of a C++ output stream, with the callback, move and
   destructor. `CppBuffersProofs`. *done*
9. `IStreamReads`: the typed reads of `istream.h`. *done*
10. `Pipe`: the encoder's units fed to the decoder in other chunks; composes the token
    stream of `OStreamWire` with the position of `WireParser`. *to come*

Every safety property and every refinement that a passing run checks is also a theorem.

## Modules and code

### `Varint`

`num`, `rest` are the value `_varint_encode()` writes and what its loop has left; `dec` is
`ctx->varint_value`, `ctx->varint_shift` with what `_varint_decode()` returned. `Denoted` is
the reference: the number a byte string denotes, however wide. Both the number of value
bits in a byte (7) and of the value type (64, or 32 without `SOFAB_DISABLE_INT64_SUPPORT`'s
wide type) are constants, so that *all* values and *all* byte strings can be enumerated; `Pow2`
is the shift `1 << n`, a recursive function so that it can be reasoned about.
`MCCodecs` explores `Varint` and `Utf8`, two algorithms on single values, in one run: a behaviour
is one of the first with the second at rest, or the other way round.

### `OStream`, `OStreamWire`, `OStreamWrites`, `SequenceWriter`

`buf`, `cap` are the cursor and the active buffer; `pending` is `ctx->pending[]`. A public
call sets up a queue of bytes: the phase `commit` writes the held-back headers
(`_commit_pending()`), `emit` the call's own bytes, and one step is one `_push_byte()`. This
granularity is needed because the sink runs inside it and chooses what buffer to install.

| action | code |
|---|---|
| `PushByte`, `PushThroughSink`, `PushNoRoom` (`PushSinkLeftNoRoom`, `PushNoSink`) | the four ways through `_push_byte()` and `_drain()` |
| `Advance`, `GiveUp` | the loops around it in `_varint_encode()`, `_write_fixlen()`, `_commit_pending()`, and their error path |
| `Refuse` | argument checks that come before any write |
| `WriteScalar`, `WriteFixlen`, `WriteVarintArray`, `WriteFixlenArray` | the writers, as lengths of header, length/count words and payload |
| `SequenceBegin`, `SequenceBeginLazy` (`HoldBack`), `SequenceEnd` (`DropHeld`), `SequenceEndKeep` | the sequence calls |
| `Flush`, `BufferSet` | the buffer calls; `BufferSet` from inside the sink is the choice `inst` of the push actions |

The histories `unit`, `sent`, `rsv`, `nest`, `framed`, `failed` exist for the properties
only. `OStreamWire` defines the stream a receiver concatenates from the units, its tokens,
and the properties. `SequenceWriter` promises the same without buffers: a well-nested token
list (`wire`) with the ids of the sequences on it that are open (`open`, the encoder's `framed`) and of those
opened without reaching it (`held`, `pending`); `Stray` is the end marker without a sequence. `Wire` is the tokens whose last byte is in the
stream, by rank. `FramedIsOnTheWire` compares `framed` with `OpenAfter`, what a receiver has open
that reads those tokens one after the other. `OStreamWrites` has the
typed writers of `ostream.h` as what each passes on.

Preconditions taken from assertions and the headers: ids within bounds are checked as in the
code (`Refuse`), pointers are not NULL, and a
caller that streams flushes before it exchanges the buffer between calls. `SequenceEnd` and `SequenceEndKeep` are paired with begins here
(`nest # <<>>`); the end without one is `SequenceEndUnopened`, an action of the module that only the C++ stream
takes, as a body that ignores a refused opener comes to it. Two details the
code has and a reader may not expect: `bytes_used()` counts the reserved offset, and the eager
`sequence_begin()` commits the held-back run *before* it validates the id, so a call that
returns `E_ARGUMENT` can write headers; `CanonicalOmission` therefore speaks of streams on
which no call failed.

### `IStream`, `IStreamProps`, `IStreamReads`, `WireParser`

The variables are the members of `sofab_istream_t` (named in the module); `chain` is the
linked list of `sofab_istream_decoder_t`, top level first. One step is one byte of the loop of
`feed()`. A byte of a varint either continues it (`VarintMore`) or ends it with a value of
which only the part that the decoder tells apart is kept (type of a header, element count,
length and subtype, bytes a value needs); `Varint` has the arithmetic. Field ids and payload
contents pass through unread. `Reads` is the set of reads a callback may make, written with the typed reads of `istream.h` (`IStreamReads`) over the
three read functions; each announcement lets the callback
pick any of them, or none, and pass the verdict `invalidate()`.

| action | code |
|---|---|
| `FeedBegin`, `FeedEnd` | `feed()` before and behind its loop |
| `VarintMore`, `VarintTooWide` | `_varint_decode()` within the loop |
| `HeaderScalar`, `HeaderDeferred`, `HeaderStart`, `HeaderEnd`, `HeaderRefused` | state `IDLE` |
| `ScalarValue` | states for unsigned and signed varints, `_store_scalar()`, `_fits_*()` |
| `ArrayCount`, `FixlenWord` | array count and fixlen length states with `_bind_array_count()` |
| `FixlenValByte`, `FixlenRawByte` | payload states, `_read_fixlen()` |
| `Deliver`, `AfterRead`, `RollBack` | `_call_field_callback_masked()` and the `read_*` functions |
| `Reject`, `RejectRead`, `ArgumentError` | the exits of `feed()`; `RejectRead` is a refusal once the callback has run, with its destination still bound, which is what `RefusalNeedsReader` asks for |

`room` is not in the code: it is what is left of the destination at `target_ptr`, and what
`NoOverrun` compares every store with. `WireParser` is the wire format alone: where the bytes
have led, with no callback, destination or chain. That the decoder implements it says that
nothing a callback does moves the framing.

### `Utf8`

`text`, `pos`, `verdict` are the payload, `i` and the return value; `Ascii`, `WholeCharacter` and
`IllFormed` are the ways through the loop body. The reference `WellFormed` goes the other
way, from code points to their encodings. `Utf8Prefix` is `detail::utf8Prefix()` of `sofab.hpp`,
by which a `FixedString` cuts a text that is too long. `IStream` takes the verdict as a choice
(`StrictUtf8`).

### `ObjectSchema`, `ObjectEncode`, `ObjectDecode`, `ObjectValue`, `ObjectTransfer`

`ObjectSchema` unfolds the descriptor tables of `sofab_object_descr_t` into a tree, one node
for each field; `IsDefault` is `_field_is_default()`, `Seed` is `sofab_object_init()`,
`SeqLen` and `Used` are the lengths an encoder trusts. Options of a union overlay each
other: a store to one leaves `Junk` in the rest, so that code reading the wrong option shows. `Memory` is
what a struct can contain, `Token` what a message is made of. What is computed along the tree
(`Below`, `Seeded`, `Live`, `IsDefault`) is a recursive function, of a node (`Down`) or of a
field and its object (`IsDefault`). `View` is the value of an object: the nodes that are part of
it (`Live`: no option a union does not hold, no element past the count) with what each contributes
(`Meaning`). Two assumptions come from the code: `TreeAssumption`, as a C struct cannot
contain itself and each unfolded field is in one place; and a default of a sized array or a blob
is no longer than the field, as the default image of a blob has the field's size.

`ObjectEncode` is the recursive walk of `sofab_object_encode()`: `stack` holds the activations,
with the index of the loop and the `ret` each has gathered; a step is a field skipped, refused, written,
a sequence entered or left, or the return. `ObjectDecode` is `sofab_object_field_cb()`: `handles`,
`level` are `decoder` and `depth` of `sofab_object_decoder_t`; a step is a header, with what
the streaming decoder of `IStream` then does with the payload, or an end marker. `ObjectValue` is
the meaning of a message with no memory behind it: what an object does not hold is not there.
In it, `val` holds what is part of the value, `open` the sequences begun, and `Fresh` is the value
before anything is received. `ObjectTransfer` extends `ObjectEncode` and `ObjectDecode` (whose variables are
`decodeVars` and whose steps `DecodeNext`): it encodes, decodes into a fresh object and encodes again.
`Fit` says that an object has contents of its C types, `Depths` that the handles (`MaxLevels`) and the
streaming decoder (`MaxDepth`) of the receiver reach as deep as the descriptors; the run evaluates
both for what it sends.

### `Collectors`, `ElementArray`

A message with a wrapper array and a string, received through `IStreamImpl` of `sofab.hpp`;
what the array's elements are (texts, rows, messages, or the whole array read straight into a
`std::vector`), whether storage is inline or growable and which bounds the schema and
the receiver state are the field `setup`. `refusal` is `refusal_`, `invalid` the flag in the C decoder.

| action | code |
|---|---|
| `ReadSequence`, `ReadString` | `readSequence()`; `readString()`, `readBlob()` and their capped forms |
| `Element` with `FixedTextElement`, `TextElement`, `RowElement`, `MessageElement` | `deserialize()` of `FixedStringSeq`/`FixedBlobSeq`, `StringSeq`/`BlobSeq`, and of `FixedMessageSeq`/`MessageSeq` with rows and messages |
| `Appended` | the callbacks of the reads into a vector of strings or blobs |
| `ElementField` | the `deserialize()` of an element that is a message of one scalar |
| `Latch` | `latchRefusal_()` behind `invalidate()`, `exceedLimit()`, `refuseArgument()` |
| `Decline`, `InSkipped`, `Fill`, `SequenceEnd` | what the C decoder does with a field that is not bound, one that is, and an end marker |
| `FeedReturns` | `feed()` |

`Grown` is `resize()`; `target` is the pointer the decoder holds, so that growth while a payload
is outstanding would show (`TargetsStayPut`).

Reads straight into a `std::vector` (`setup.elem = "vector"`) are unlike the others. `Appended` emplaces
an element for every field of the sequence, of the length that the field's header states, and only then
makes the read that the decoder undoes when the type is wrong: a blob or an `fp32` in a vector of
strings (`"fixed"`) leaves an element of that many zero bytes, an integer an empty one. The comments
on these reads (`sofab.hpp:3458`, `3470`) say "one element per string in the sequence" and "per blob in
the sequence". `ElementArray` follows the code here, so that the run does not show that disagreement; it is
stated at `ImplementsArray`, and no property has the comments' reading. Nor is there a bound on these elements
or their lengths, which `SizedWithinBounds` therefore leaves out.

`ElementArray` is what the reads promise: a function from element ids and one bound each for
index, element and string, of which the first that is broken decides the verdict.

### `CppOStream`

A C++ program is a stack of activations, `acts`: the application, and every `serialize()` in
progress. An activation holds the `Result` of its current chain (`code`), the openers by hand whose
closers its text still has to make (`hand`; one that was refused is among them and counts for nothing), and
how the enclosing `write()` closes it (`closer`). A step is
a step of `OStream`; `Through` and `Returned` say what the C++ code does when the C call
returns. `latch` is `failed_`. There are no callbacks in this module: what a body writes next is any
call, which is what a body is to the stream.

| action | code |
|---|---|
| `Write` (`Encode`) | `write()` of integers, `bool`, `float`, `double`, texts, blobs and arrays, with the wire form each type selects |
| `RejectArgument`, `WriteIfFalse`, `Answer` | calls that end without the encoder: `rejectArgument()`, a text longer than an `int32_t`, `writeIf(false)` |
| `WriteMessage`, `Close` | `write()` and `writeLazy()` of a message: opener, `serialize()`, closer in any case, first failure of the two |
| `BeginByHand`, `EndByHand`, `SkipEnd` | `sequenceBeginLazy()`, `sequenceEnd()`, `sequenceEndKeep()`, also as links of a chain that a failure turns into no-ops |
| `FlushOrSet` | `flush()`, `setBuffer()` between calls |
| `Latched`, `FirstFailure`, `AfterCall` | `result()`, the end of `write()`, `Result` |

A call that follows a failed `Result` is a new statement: `discarded` records that a failed one was
thrown away, which generated bodies do. Such a body also makes the closer of an opener that was refused,
for an id above `SOFAB_ID_MAX` or for want of room (`BeginByHand` takes bad ids, too): `EndByHand` then closes the sequence
around it, and the enclosing message's closer finds that its own is gone or that none is open. With none
open the C call writes an end marker all the same (`OStream!SequenceEndUnopened`, the token `"stray"`).
`unpaired` records the three things that put closers and openers out of step (`Mispaired`, `SkipEnd`),
and `OpenAsWritten` speaks of programs until then.

### `CppBuffers`

Two objects (`obj`), the second one there to be moved to; buffers under a `shared_ptr`, one
inline array per object, and the caller's frame for a view. `mem` is what the buffers contain, as
numbers of bytes written. `ctx` is the part of the C context that matters here: pointer, fill and the object
to call back. `Exists` says whether somebody still keeps a buffer alive.

| action | code |
|---|---|
| `ConstructShared`, `ConstructInline`, `ConstructView` | the constructors of `OStream`, `OStreamInline`, `OStreamView` |
| `WriteByte`, `Flush` with `HandOver`, `AfterCallback` | the encoder's drain, `onFlushCallback()`, `setBuffer()` inside it |
| `SetBuffer` | `setBuffer()` between calls |
| `Release` | the application drops its reference |
| `Move` | the defaulted move constructor |
| `Destroy` | the members of the derived class, then `~OStreamImpl()` |

The defaulted move constructor copies `ctx_` with its pointers: a callback that was registered
still gets the old object, and a moved `OStreamInline` still writes into the old array. Nothing in the
repository promises more, so `EveryByteOnce` and `UnitsExist` speak of streams that were not moved, and
`DataIsWhatWasWritten` leaves out inline streams that were.

## Runs

| run | question | properties |
|---|---|---|
| `codecs` | Is the arithmetic right at the edges of the width, is exactly well-formed UTF-8 accepted, is a text cut between characters? | decoded value is the number denoted; overflow refused exactly; encoder and decoder inverse; ZigZag, width checks; verdict and cut exact |
| `ostream_stream` | Is buffering transparent when a sink takes every unit and may install another buffer, with reserved room with no room but that or of no length, at any byte? | the inductive invariant of the proofs, reservation in every unit, bytes contiguous, `BUFFER_FULL` only as installed, refinement of `SequenceWriter`, every call returns |
| `cpp_ostream` | Does a C++ program with nested messages, chains and discarded verdicts into storage that may fill at any byte close what it opened and learn what happened? Do lazily opened sequences without content disappear? | `OpenAsWritten`, `OkMeansComplete`, `ChainTells`, canonical omission, nesting as read from the wire |
| `cpp_buffers` | Is every byte handed over once, from memory that exists, whoever owns the buffer? | `EveryByteOnce`, `UnitsExist`, `DataIsWhatWasWritten` |
| `istream_decode` | Every byte class, chunk boundary and read, nested, bound, skipped, contradicted, condemned, of a width that cannot be stored to | all safety properties, the inductive invariant, refinement of `WireParser` |
| `object_decode` | Does decoding in place mean what the message means, for every sequence of tokens? | `DecodeInductive`: the handles are a path, the object being filled is part of the value; refinement of `ObjectValue` |
| `object_transfer` | Does every object arrive, whatever is left in unused storage, and do errors surface? | errors surface, begins and ends paired, a default object is empty, round trip, canonical encoding |
| `collectors_array` | Does a collector build the array the message means, is every broken or missing bound refused in its category before anything is sized by it, and does nothing move while the decoder holds a pointer? | sized within bounds, refinement of `ElementArray`, `TargetsStayPut` |
| `istream_nullread` | *violation*, finding 1 | a skipped array is driven by the wire count |
| `istream_depth` | *violation*, finding 2 | the depth limit is on the skip path only |
| `cpp_closer` | *violation*, finding 3 | a message closes the sequence it opened |
| `cpp_destroy` | *violation*, finding 4 | the destructor's unit is handed over from memory that exists |

**Bounds and why they are enough.** `Varint` uses groups of 3 bits and values of 7 bits: as
with 7 and 64, the last group has room for a single bit, and everything is enumerated. In
`OStream`, header varints have one or two bytes, so that a token can straddle two buffers;
buffers have one free byte, two, none behind reserved room, or no length, so that a boundary falls on
every position of every token; the hold-back window is 2 and nesting goes to 3, one beyond it;
`MaxCalls` is 3, which overflows the window and fails in the commit, as what a sink does has
no memory beyond the buffer. `cpp_ostream` has five calls (open three levels, fail, close), two-byte headers, and
storage of seven free bytes behind a reserved one: a level with a field and its end, or a `float`, fit, and it ends
before, in and behind a header that is committed late, in a payload and before a closer; openers have a good id or one beyond the limit; it has one value of each C++ type and a text refused for its bytes and one for
its length. `cpp_buffers` has two shared buffers of two bytes and five bytes written: a buffer
is filled, exchanged, filled again and left part full, with both references dropped or kept. In `IStream`, varints have at most 2 bytes (a chunk can end inside and the
bound is reached), `fp32`/`fp64` payloads 1 and 2 bytes, lengths and counts go to one above
their maximum of 3, depth to 3 (bound and skipped levels mixed), and `SizeMax` is the counts'
maximum, so that the wrap of a decremented zero would be seen. No state constraint is used;
in the decoder the state space is finite with no bound on the length of the message or the
number of chunks. `Utf8` takes texts of up to four bytes (cut at every length), the length of the longest character,
from bytes on both sides of every boundary. The schema of `object_decode` has each kind of field
whose storage is shared or whose length is derived (a sized and an unsized wrapper array, a union
of an array and a struct, a blob); `MaxLevels` is one less than the deepest nesting, so that
handles run out, and `MaxDepth` is reached by skipped levels; tokens have ids nobody has, wrong types and payloads
beyond the capacity, and messages have any length. `object_transfer` sends every combination of lengths to one beyond the
capacity, unterminated strings, both options and a stray tag. `collectors_array` has ids and sizes to one beyond
each bound, two values so that stale contents show, `MaxOpen` 3, a vector of up to `MaxLen` 2 elements, other
fields of fixed length of `Widths` 2, and 18 receivers that cover
each way a bound is stated, missing, or smaller than another.

**Deadlock** is checked for the decoder and the collectors. The encoder runs (`MaxCalls`, `MaxBytes`), `codecs`
and the object runs (message complete or rejected) end by design.

**Fairness.** Only the encoder states it: `WF_vars(Running)`, and over it the C++ stream,
`WF_allVars(CppRunning)`. A public call is a loop of
the calling thread, with no wait in it; the fairness says that the thread keeps running. No
call is assumed to be made, and nothing is assumed of what the sink installs.

## Proofs

Each module `...Proofs` extends the modules it is about. The theorems hold for every value of the
constants that satisfies the named assumption of the module that declares them (`OStreamAssumption`,
`IStreamAssumption`, `SchemaAssumption` and so on), which TLC evaluates in the runs: any number of calls, any nesting, any
buffer sizes, any window and depth, any destinations with the shape the public API gives them, any
descriptor, message and receiver, any width of values and any text. Further hypotheses are stated
with the theorems that have them:

- `FramingHolds`, `WireRefinement`: `NoNullReads`, no callback reads an array into NULL. With
  such a read the claim is false, as finding 1 shows.
- `DefaultsAreFree`: the root descriptor is not a bare wrapper array. The last element of one is
  always written, as it carries the length, so its message is never empty.
- `ObjectsArrive`, `EncodingIsCanonical`: the objects are `Fit`, and the descriptors no deeper than the
  receiver (`Depths`). A number beyond its C type is in no struct, and a receiver that runs out of handles
  rejects. `MCObjectTransfer` evaluates both for the run's objects.

| theorem | says |
|---|---|
| `OStreamProofs!InductiveHolds`, `TypeCorrect`, `NoOverrun`, `ReservationKept`, `NestingKept` | the encoder's state is well typed, the cursor stays in the buffer, reservations stay intact, nesting agrees |
| `FullOnlyAsInstalled`, `StreamingNeverFull` | with a sink a call gives up for want of room only where the callback left none; so never, if it always leaves some |
| `StreamHolds`, `StreamIsContiguous`, `EmptyLeavesNoTrace`, `ReceiverAgrees` | `BytesContiguous`, `CanonicalOmission`, `FramedIsOnTheWire` |
| `WriterRefinement` | the encoder implements `SequenceWriter`, whatever the sink does |
| `CppOStreamProofs!CppInductiveHolds`, `SequencesCloseAsWritten`, `ChainsTell`, `OkIsComplete` | `OpenAsWritten`, `ChainTells`, `OkMeansComplete` of the C++ output stream |
| `CppStreamHolds`, `CppEmptyLeavesNoTrace`, `CppReceiverAgrees`, `CppWriterRefinement` | the same of the stream a C++ program writes |
| `CppBuffersProofs!BufInductiveHolds`, `UnitsLive`, `DataKept`, `HandedOverOnce` | `UnitsExist`, `DataIsWhatWasWritten`, `EveryByteOnce` of its buffers |
| `IStreamProofs!InductiveHolds`, `TypeCorrect` | the decoder's state is well typed |
| `NestingKept`, `StoresStayInside`, `AnnouncedOnce`, `AcceptedFieldsFit` | `DepthAgrees`, `NoOverrun`, `NotifiedOnce`, `PayloadFits` |
| `CondemnedStaysSo`, `RefusalsAreAskedFor` | the action properties `CondemnedIsFinal`, `RefusalNeedsReader` |
| `FramingHolds`, `WireRefinement` | the decoder implements `WireParser`, if no callback reads an array into NULL |
| `CollectorsProofs!InductiveHolds`, `SizedWithin`, `TargetsHold` | `SizedWithinBounds`, `TargetsStayPut` |
| `Refinement` | reads and collectors implement `ElementArray` |
| `ObjectDecodeProofs!HandlesHold`, `DecodeInductiveHolds` | the handles are a path of the descriptor tree, and what they fill is part of the value |
| `ValueRefinement` | decoding in place implements `ObjectValue` |
| `ObjectTransferProofs!EncodeInductive`, `ErrorsAreReported`, `FramesAreClosed` | `ErrorsSurface`, `FramesClosed` |
| `DefaultsAreFree` | `DefaultIsEmpty` |
| `ObjectsArrive` | `RoundTrip`: every object arrives as it was sent |
| `EncodingIsCanonical` | `Reencodes`: what arrived encodes to the same message |
| `CodecsProofs!VarintHolds`, `DecodedIsDenoted`, `OverflowExact`, `VarintRoundTrip` | varints: what is decoded, what is refused, what is encoded |
| `ZigzagLossless`, `FitsExact` | ZigZag, the range checks |
| `TextHolds`, `VerdictExact`, `CutIsBetween` | the UTF-8 validator, the cut |

The type invariants `TypeOK` of encoder and decoder are conjuncts of `Inductive`, which the
runs check.

**Encoder.** `NestingAgrees` holds between calls only, and a call changes `framed`, `pending`
and `nest` at different bytes. `Inductive` adds `NestingInCall`, which states the same of
each moment of a call (`Opened` and `Closed` say that the wire is ahead of the caller), and
`BytesOfCall`, which says what a call still has to push, so that the last byte of an opener
is known to be the last of its header.

**Stream.** `StreamInv` says of each moment of a call which byte may come next: where the
stream rests, a token may begin; elsewhere the next byte of the call continues the last one
(`StreamInCall`), and after the last byte of a header that was held back no end marker comes next. `Wire`
is a filter of the stream by rank and `OpenAfter` a recursive function of it. That appending one byte appends
one token or none (`Found`), and that reading one more token is one more step of the receiver
(`Readable`), is carried through the steps as part of the invariant (`StreamKnown`), where a proof
about lists would use induction. The simulation of `SequenceWriter` then has one case for each token
that is completed. The C++ stream takes all of it over, as it changes the encoder only by the encoder's
own steps.

**C++ output stream.** `OpenAsWritten` speaks of the innermost activation; that a closer leaves
the enclosing one as it found it needs the same of every activation below (`StackAgrees`: each
body began with as many sequences open as its callers had), and that the openers by hand that are
still to be closed are counted by what they opened (`Openers`). What a C call does to `nest` happens at
its last byte, long after the operation was chosen, so `CallAgrees` ties the running call to
the operation it belongs to. The lemmas named `...Made` and `...Effect` say of each call of `OStream` what it does
to the nesting and the phase; they rest on the encoder's `Inductive`, which the C++ stream inherits as
each of its steps is a step of the encoder or leaves it alone. `VerdictCovers` is what makes
`OkMeansComplete` inductive: a failure anywhere, in a chain nobody looks at too, is in the latch.

**Buffers.** `BufInductive` has the agreement of the three pointers with each other and with the kind of
stream (`Settled`: from it follows that the buffer exists), what the buffer holds (`Filled`), and what the callback
has had (`HandedOver`), each as far as a move leaves it true (`Intact`). Two lemmas carry it
over every step of the stream in use: `Update`, and `WrittenInto` for steps that write a byte.

**Decoder.** `NoOverrun` needs that the room left in a destination covers all
that is still to come (`BoundFits`), in each state by its own measure: elements times width,
one less element and the rest of the current one, or the rest of a payload.
That in turn needs that a destination is only bound for the type being read (rolled back
otherwise), that counters are not zero in a payload state (`PayloadPending`: otherwise a
decrement wraps), and that only the active decoder is in mid-field (`DepthAgrees`).
`CondemnedStops` says that a verdict passed by a callback can only be pending in states that
announce nothing before the next header.

**Framing.** `WireParser` has the type, count and length the bytes announced, the decoder the fields
the callback may have overwritten. `FramingKnown` says that they agree where they decide what comes
next. A read that does not match is rolled back; one that matches leaves the type, and of an array puts the
capacity where the wire's count goes once it is known to fit. A read into NULL is not rolled back
either way, which is why `NoNullReads` is needed.

**Collectors.** `Inductive` says which decoder can be open below which, that an element being filled is in
the container (`Nested`), that a refusal has condemned the message, and that there is a target only while a payload is
outstanding; with it each step of a collector is a step of `ElementArray` for the same element.

**Object API.** Decoding: `TypeOK` says that the handles are a path from the root and stores
keep counts and tags single numbers. Encoding: `ErrorsCarried` says that the gravest error so far is the gravest `ret` of
the activations on the stack, so that the last `|=` gives it to the caller; `FramesOpen` that the
sequences on the wire not yet closed are those of the activations above the root, unless there was no room.
Induction along the descriptor tree is done over sets of nodes, as `TreeAssumption` says that a nonempty
one has a lowest member.

That decoding implements `ObjectValue` is a matter of what a store loses: a tag written to a union turns
all below its other options to junk, and nothing of that is `Live`. It needs that the object being filled
is part of the value, and that an element an array does not have yet is still as `sofab_object_init` left it,
since growing the count brings it to life (`DecodeInductive`).

**Round trip.** An encoder that has met no error takes steps of `Walk`, a relation between stack and message
that depends on the object alone. `SendingOf` says of each moment that the message so far, read by
`ObjectValue`, yields a value (`Yields`) and has open the objects of the activations (`OpenOf`), and that the
value matches the object as far as the walk has come (`ValueMatches`): fields before the loop's index are settled, those
after it as in a fresh object. A field skipped as default is then right as it is, one written is made
right by its token, and at the end all of the value is. The run that the message leads to is kept as
a witness while the receiver takes token by token (`Arriving`); that each token makes the receiver
move as `ObjectValue` does comes from the simulation above (`TokenTaken`).

**Canonical encoding.** Whether a field is skipped and what is written for it depends on the value alone
(`SkippedByValue`, `SameField`, `SameLeaf`): so objects of the same value have the same walk (`SameWalk`),
and there is one way to go on (`WalkOnce`). `Canonical` keeps the walk of the object sent (`Leads`), and while
the object received is encoded says that it `Follows` that walk. Only a stream out of room stops it.

**Codecs.** `Accumulated` says that the accumulator is the number denoted so far and below `2^shift`;
`Remaining` that what the encoder wrote and `rest * 2^shift` make up the value. That powers of two
multiply, that a number denoted is below a power, and that all prefixes of a text are well formed or not
as the recursion says, is induction over numbers, done over *sets* of numbers (`NatSet`, `RangeSet`,
`StrongSet`), which needs no operator parameter. For UTF-8 the heart is that encodings are a prefix
code: the lead byte tells the length (`CharacterShape`), no continuation byte begins a character, so
well-formed prefixes compose and cannot be read in two ways.

**Model-checked only.** `CallsReturn`, which is liveness under fairness, out of this prover's reach. What is
not provable here either, induction over an operator given as a parameter, is avoided as told for the
stream, the codecs and the object API.

## Findings

1. `istream_nullread`: when an array callback makes the `read_array(NULL, 0)` that the
   assertion at `src/istream.c:1227` admits, nothing is bound, but the read has overwritten
   `target_count` and the type. The comment at `src/istream.c:458` says that for a field bound to
   nothing "the wire count already sitting in target_count drives the read". With elements on the wire
   the count of zero is decremented and wraps, so that the rest of the message is consumed as array
   elements. The counterexample has an array of one element on the wire, bound to nothing, with a count of 0
in the decoder when the element comes. The `istream_decode` run leaves such reads out, to check everything else.
2. `istream_depth`: `README.md:227` says the nesting limit is enforced on the skip path and that
   actively decoded nesting is bounded by the handles the caller provides. The code counts
   both (`src/istream.c:643`) and rejects a message whose sequences are all bound.
3. `cpp_closer`: the comment in `write()` (`src/include/sofab/sofab.hpp:1281`) says that the sequence this
   call opened is always the sequence it closes. A body that opens a sequence with
   `sequenceBeginLazy()` and continues in a chain leaves it open when the chain fails, because a
   failed `Result` makes `sequenceEnd()` a no-op; the closer of the message, which names no
   sequence, then closes the body's, and the message stays open. The property speaks of programs that look at every
   `Result`; one that does not gets there by a refused `sequenceBeginLazy()`, whose `sequenceEnd()` closes
   the message's sequence. `cpp_ostream` checks the nesting of all programs up to such a step.
4. `cpp_destroy`: the comment on `~OStreamImpl` (`src/include/sofab/sofab.hpp:1145`) says that it flushes any
   buffered bytes. It runs after the members of `OStream` are gone, `bufferOwner_` among
   them: when the stream alone keeps its buffer alive, as after a `setBuffer()` with a buffer the
   application does not keep, the callback gets the last unit from memory already released.

## What is not modelled

- A byte-level composition of encoder and decoder (item 10 of the plan).
- In the C++ output stream: the move assignment operator, and which template branch the compiler picks for a type.
- In the object decoder: a field that arrives in pieces, which `IStream` covers (a token is
  consumed whole), and what an object contains after a rejection, which is unspecified.
- In the C++ input stream: fixed-extent `std::array` rows, the overloads that select a union
  option, `readMatch` and the skip counter. `FixedRowSeq` and
  `RowSeq` are covered with rows of scalars; beyond that their reader is the caller's.
- The byte order of `fp32`/`fp64` payloads on big-endian hosts, the contents of payloads and the ids the decoder
  hands to the callback: nothing the properties are about depends on them.
- Violated assertions (NULL contexts, an offset beyond the buffer in a debug build): these
  are preconditions of the interface. `ostream_stream` does cover installations without room.
- A callback that makes two reads for one field: the second overwrites the first.
- `FixedBytes` and the float helpers of the C++ containers (values with one owner and no protocol), configuration
  headers, tests, benchmarks, fuzz harness, tools.

## Running it

    tlc -workers 2 -config OStream_stream.cfg MCOStream.tla
    tlc -workers 2 -config IStream_decode.cfg MCIStream.tla
    tlc -workers 2 -config CppOStream_write.cfg MCCppOStream.tla
    tlapm OStreamProofs.tla
    tlapm CppOStreamProofs.tla
    tlapm CppBuffersProofs.tla
    tlapm IStreamProofs.tla
    tlapm CollectorsProofs.tla
    tlapm ObjectDecodeProofs.tla
    tlapm ObjectTransferProofs.tla
    tlapm CodecsProofs.tla

`ObjectDecodeProofs` and `ObjectTransferProofs` take about ten minutes each.

The other configurations are named after the model they belong to. Operators commented as slips (`AfterSinkResetLate`,
`RollBackKeepsCount` and the like) are plausible mistakes in the code they stand beside. They
are used by no specification; `PROJECT.json` pairs each with the property that finds it when
it takes the place of the definition that follows it.
