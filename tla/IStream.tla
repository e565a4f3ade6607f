------------------------------ MODULE IStream ------------------------------
(***************************************************************************)
(* The streaming decoder, src/src/istream.c.                               *)
(*                                                                         *)
(* feed() consumes a chunk byte by byte and may stop anywhere; the state   *)
(* below is all that survives between two chunks.  A field callback runs   *)
(* when enough of a field is known, and may bind a destination to it, open *)
(* a nested decoder for a sequence, condemn the message, or do nothing.    *)
(* A field nobody bound, or bound with a contradicting type, is skipped.   *)
(*                                                                         *)
(* One step of the model is one byte of the feed loop.  Bytes are taken by *)
(* what they mean in the decoder's state: in a varint state a byte either  *)
(* continues the varint, or ends it and yields a value, of which only what *)
(* the decoder distinguishes is kept (see Words below; module Varint has   *)
(* the arithmetic).  Field ids and payload contents pass through the       *)
(* decoder unread and are left out.  A destination is the number of bytes  *)
(* left in it at target_ptr.                                               *)
(***************************************************************************)
EXTENDS Naturals, Sequences, SequencesExt

CONSTANTS
    MaxDepth,    \* SOFAB_MAX_DEPTH
    MaxGroups,   \* bytes of the longest varint: ceil(bits / 7)
    Fp32Len,     \* payload bytes of an fp32
    Fp64Len,     \* payload bytes of an fp64
    FixlenMax,   \* SOFAB_FIXLEN_MAX
    ArrayMax,    \* SOFAB_ARRAY_MAX
    SizeMax,     \* SIZE_MAX, where target_count wraps
    StrictUtf8,  \* SOFAB_STRICT_UTF8
    SkipMax,     \* UINT8_MAX, where the skip counter saturates
    StoreWidths, \* destination widths _store_scalar knows: 1, 2, 4, 8
    Reads,       \* the reads a callback may make
    Lengths,     \* bound: payload lengths on the wire
    Counts,      \* bound: element counts on the wire
    Needs        \* bound: widths, in bytes, the scalar values need

ScalarTypes == {"VU", "VS"}
VarintArrays == {"ARR_U", "ARR_S"}
ArrayTypes == VarintArrays \cup {"ARR_F"}
WireTypes == ScalarTypes \cup ArrayTypes \cup {"FIX", "START", "END"}
Subtypes == {"fp32", "fp64", "string", "blob"}
Options == [ft : WireTypes, sub : Subtypes \cup {"none"}, term : BOOLEAN,
            bool : BOOLEAN]

\* A read as the public API makes it.  "field" is sofab_istream_read_field
\* and its typed wrappers, "array" sofab_istream_read_array, "sequence"
\* sofab_istream_read_sequence, "none" a callback that declines; null is the
\* NULL destination read_array allows for zero elements.
ReadCalls == [call : {"none", "field", "array", "sequence"}, size : Nat,
              num : Nat, opt : Options, null : BOOLEAN]

\* The typed wrappers of istream.h pass the width that goes with the type.
Width(sub) == IF sub = "fp32" THEN Fp32Len ELSE Fp64Len

GoodRead(r) ==
    /\ r.call # "none" => r.size > 0
    /\ r.call = "field" => r.opt.ft \in ScalarTypes \cup {"FIX"}
    /\ r.call = "array" => r.opt.ft \in ArrayTypes
    /\ r.call = "array" /\ r.opt.ft = "ARR_F" =>
           r.opt.sub \in {"fp32", "fp64"} /\ r.size = Width(r.opt.sub)
    /\ r.opt.ft \notin {"FIX", "ARR_F"} => r.opt.sub = "none"
    /\ r.call = "sequence" => r.opt.ft = "START"
    /\ r.opt.term => r.opt.sub = "string"
    /\ r.opt.bool => r.opt.ft \in {"VU", "ARR_U"}
    /\ r.null => r.call = "array" /\ r.num = 0

ASSUME IStreamAssumption ==
    /\ MaxDepth \in Nat \ {0}
    /\ MaxGroups \in Nat \ {0}
    /\ Fp32Len \in Nat \ {0}
    /\ Fp64Len \in Nat \ {0}
    /\ FixlenMax \in Nat
    /\ ArrayMax \in Nat
    /\ SizeMax \in Nat
    /\ Fp32Len <= FixlenMax
    /\ Fp64Len <= FixlenMax
    /\ FixlenMax <= SizeMax
    /\ ArrayMax <= SizeMax
    /\ StrictUtf8 \in BOOLEAN
    /\ SkipMax \in Nat
    /\ StoreWidths \subseteq Nat \ {0}
    /\ Reads \subseteq ReadCalls
    /\ \A r \in Reads : GoodRead(r)
    /\ Lengths \subseteq Nat
    /\ Counts \subseteq Nat
    /\ Needs \subseteq Nat \ {0}

VARIABLES
    feeding,  \* a feed() call is running
    ret,      \* what the last feed() returned
    invalid,  \* ctx->invalid
    chain,    \* the decoder chain, top level first; the last one is active
    depth,    \* ctx->depth
    vshift,   \* ctx->varint_shift, in bytes of the varint taken so far
    bound,    \* ctx->target_ptr # NULL
    room,     \* bytes of the destination from target_ptr to its end
    len,      \* ctx->target_len
    count,    \* ctx->target_count
    awc,      \* ctx->array_wire_count
    opt,      \* ctx->target_opt
    rem,      \* ctx->fixlen_remaining
    utf8,     \* ctx->utf8_start # NULL
    skipped,  \* ctx->skipped
    badText,  \* history: the payload bytes so far cannot be valid UTF-8
    notified, \* history: callbacks run for the current field
    overrun,  \* history: a store went past the end of its destination
    why       \* history: the first reason the message was rejected

chainVars == <<chain, depth>>
target == <<bound, room, len, count, opt>>
field == <<target, awc, rem, utf8, badText>>
vars == <<feeding, ret, invalid, chain, depth, vshift, bound, room, len, count,
          awc, opt, rem, utf8, skipped, badText, notified, overrun, why>>

Decoder == [state : {"idle", "vu", "vs", "fixlen_len", "fixlen_val",
                     "fixlen_raw", "array_count"},
            skip : Nat]

Active == chain[Len(chain)]

Parked(state) == [chain EXCEPT ![Len(chain)].state = state]

VarintStates == {"idle", "vu", "vs", "fixlen_len", "array_count"}

\* _at_message_boundary
AtMessageBoundary ==
    /\ vshift = 0
    /\ Active.state = "idle"
    /\ Active.skip = 0
    /\ Len(chain) = 1

-----------------------------------------------------------------------------
(* The feed loop around the bytes.                                         *)

\* A slip: feed() starts over.
FeedBeginAgain ==
    /\ ~feeding
    /\ feeding' = TRUE
    /\ UNCHANGED <<ret, invalid, chainVars, vshift, field, skipped, notified,
                   overrun, why>>

\* A condemned message short-circuits feed().
FeedBegin ==
    /\ ~feeding
    /\ feeding' = ~invalid
    /\ ret' = IF invalid THEN "invalid" ELSE ret
    /\ UNCHANGED <<invalid, chainVars, vshift, field, skipped, notified,
                   overrun, why>>

\* The chunk is used up.
FeedEnd ==
    /\ feeding
    /\ feeding' = FALSE
    /\ ret' = IF invalid THEN "invalid"
              ELSE IF AtMessageBoundary THEN "ok" ELSE "incomplete"
    /\ UNCHANGED <<invalid, chainVars, vshift, field, skipped, notified,
                   overrun, why>>

\* goto invalid.  The decoder's position is never looked at again, so what
\* the condemned byte left in it is not modelled.
Reject(reason) ==
    /\ feeding' = FALSE
    /\ ret' = "invalid"
    /\ invalid' = TRUE
    /\ why' = IF invalid THEN why ELSE reason
    /\ UNCHANGED <<chainVars, vshift, field, skipped, notified, overrun>>

\* goto invalid once the callback has run: the destination it bound, if any,
\* is still bound.
RejectRead(reason, d) ==
    /\ feeding' = FALSE
    /\ ret' = "invalid"
    /\ invalid' = TRUE
    /\ why' = IF invalid THEN why ELSE reason
    /\ bound' = d.bound
    /\ UNCHANGED <<chainVars, vshift, room, len, count, opt, awc, rem, utf8,
                   badText, skipped, notified, overrun>>

\* A bad argument of a read ends the feed and condemns nothing.
ArgumentError ==
    /\ feeding' = FALSE
    /\ ret' = "arg"
    /\ vshift' = 0
    /\ UNCHANGED <<invalid, chainVars, field, skipped, notified, overrun, why>>

InState(state) == feeding /\ Active.state = state

Consumed == UNCHANGED <<feeding, ret>>

\* _varint_decode: a byte with the continuation flag.  The byte that fills
\* the value's width must not have it.
VarintMore ==
    /\ feeding
    /\ Active.state \in VarintStates
    /\ IF vshift + 1 >= MaxGroups
       THEN Reject("varint")
       ELSE /\ vshift' = vshift + 1
            /\ Consumed
            /\ UNCHANGED <<invalid, chainVars, field, skipped, notified,
                           overrun, why>>

\* _varint_decode: the last byte the width admits has bits beyond it.
VarintTooWide ==
    /\ feeding
    /\ Active.state \in VarintStates
    /\ vshift + 1 = MaxGroups
    /\ Reject("varint")

-----------------------------------------------------------------------------
(* The field callback.                                                     *)

\* The field as a callback that declines it leaves it behind.
Unbound(f) == [chain |-> f.chain, len |-> f.len, count |-> f.count,
               opt |-> f.opt, bound |-> FALSE, room |-> 0, clash |-> FALSE]

\* sofab_istream_read_field, _read_array and _read_sequence.
AfterRead(f, r) ==
    CASE r.call = "field" ->
            [Unbound(f) EXCEPT !.bound = TRUE, !.len = r.size, !.opt = r.opt,
                               !.room = r.size]
      [] r.call = "array" ->
            [Unbound(f) EXCEPT !.bound = ~r.null, !.len = r.size,
                               !.count = r.num, !.opt = r.opt,
                               !.room = r.num * r.size]
      [] r.call = "sequence" ->
            [Unbound(f) EXCEPT !.bound = TRUE, !.opt = r.opt,
                               !.chain = Append(f.chain, [state |-> "idle", skip |-> 0])]
      [] OTHER -> Unbound(f)

Contradicts(a, b, withSub) == a.ft # b.ft \/ (withSub /\ a.sub # b.sub)

\* Slips: the decoder stays pushed; the counts the read set stay set.
RollBackKeepsDecoder(f, a) == [Unbound(f) EXCEPT !.clash = TRUE, !.chain = a.chain]

RollBackKeepsCount(f, a) ==
    [Unbound(f) EXCEPT
        !.clash = TRUE,
        !.count = a.count,
        !.chain = IF a.opt.ft = "START" /\ Len(a.chain) > 1
                  THEN Front(a.chain) ELSE a.chain]

\* A read whose type contradicts the wire is undone, and a decoder it pushed
\* is popped again.
RollBack(f, a) ==
    [Unbound(f) EXCEPT
        !.clash = TRUE,
        !.chain = IF a.opt.ft = "START" /\ Len(a.chain) > 1
                  THEN Front(a.chain) ELSE a.chain]

\* _call_field_callback_masked: the field f once the callback has made read r.
Deliver(f, r, withSub) ==
    LET a == AfterRead(f, r)
    IN  IF a.bound /\ Contradicts(a.opt, f.opt, withSub) THEN RollBack(f, a) ELSE a

\* What a skipped level's callback is asked: nothing, so it declines.
Decline == [call |-> "none", size |-> 0, num |-> 0, null |-> FALSE,
            opt |-> [ft |-> "VU", sub |-> "none", term |-> FALSE, bool |-> FALSE]]

Answers == IF Active.skip > 0
           THEN {[read |-> Decline, condemn |-> FALSE]}
           ELSE [read : Reads, condemn : BOOLEAN]

\* A slip: a skipped level's fields reach the application's callback.
CallbackEffectsUnmasked(d, condemn, before) ==
    /\ invalid' = (invalid \/ condemn)
    /\ why' = IF condemn /\ ~invalid THEN "callback" ELSE why
    /\ skipped' = IF d.clash /\ skipped < SkipMax THEN skipped + 1 ELSE skipped
    /\ notified' = before + 1

\* The callback's other effects: the verdict it may pass, the counters.
CallbackEffects(d, condemn, before) ==
    /\ invalid' = (invalid \/ condemn)
    /\ why' = IF condemn /\ ~invalid THEN "callback" ELSE why
    /\ skipped' = IF d.clash /\ skipped < SkipMax THEN skipped + 1 ELSE skipped
    /\ notified' = IF Active.skip > 0 THEN before ELSE before + 1

NoCallback ==
    UNCHANGED <<invalid, why, skipped>>

SetTarget(d, cnt) ==
    /\ bound' = d.bound
    /\ room' = d.room
    /\ len' = d.len
    /\ count' = cnt
    /\ opt' = d.opt

Stored(n, space) == overrun' = (overrun \/ n > space)

-----------------------------------------------------------------------------
(* A field header (state idle).                                            *)

WireOpt(type) == [ft |-> type, sub |-> "none", term |-> FALSE, bool |-> FALSE]

\* The target is reset before anything looks at the field.
Header(type, ch) == [chain |-> ch, len |-> 0, count |-> 0, opt |-> WireOpt(type)]

HeaderSeen ==
    /\ InState("idle")
    /\ ~invalid
    /\ vshift' = 0
    /\ Consumed

\* A callback condemned the message earlier in this feed, or the id is above
\* SOFAB_ID_MAX.
HeaderRefused ==
    /\ InState("idle")
    /\ Reject("id")

HeaderScalar(type) ==
    /\ HeaderSeen
    /\ type \in ScalarTypes
    /\ \E c \in Answers :
          LET f == Header(type, Parked(IF type = "VU" THEN "vu" ELSE "vs"))
              d == Deliver(f, c.read, TRUE)
          IN  /\ chain' = d.chain
              /\ SetTarget(d, d.count)
              /\ CallbackEffects(d, c.condemn, 0)
    /\ UNCHANGED <<depth, awc, rem, utf8, badText, overrun>>

\* Fixed-length fields and arrays call back once more of them is known.
HeaderDeferred(type) ==
    /\ HeaderSeen
    /\ type \in ArrayTypes \cup {"FIX"}
    /\ chain' = Parked(IF type = "FIX" THEN "fixlen_len" ELSE "array_count")
    /\ SetTarget(Unbound(Header(type, chain)), 0)
    /\ notified' = 0
    /\ NoCallback
    /\ UNCHANGED <<depth, awc, rem, utf8, badText, overrun>>

HeaderStart ==
    \/ /\ InState("idle")
       /\ ~invalid
       /\ depth = MaxDepth
       /\ Reject("depth")
    \/ /\ HeaderSeen
       /\ depth # MaxDepth
       /\ \E c \in Answers :
             LET d == Deliver(Header("START", chain), c.read, TRUE)
             IN  /\ chain' = IF d.bound THEN d.chain
                             ELSE [d.chain EXCEPT ![Len(d.chain)].skip = @ + 1]
                 /\ SetTarget(d, d.count)
                 /\ CallbackEffects(d, c.condemn, 0)
       /\ depth' = depth + 1
       /\ UNCHANGED <<awc, rem, utf8, badText, overrun>>

HeaderEnd ==
    \/ /\ InState("idle")
       /\ ~invalid
       /\ Active.skip = 0
       /\ Len(chain) = 1
       /\ Reject("end")
    \/ /\ HeaderSeen
       /\ \/ /\ Active.skip > 0
             /\ chain' = [chain EXCEPT ![Len(chain)].skip = @ - 1]
          \/ /\ Active.skip = 0
             /\ Len(chain) > 1
             /\ chain' = Front(chain)
       /\ depth' = depth - 1
       /\ SetTarget(Unbound(Header("END", chain)), 0)
       /\ notified' = 0
       /\ NoCallback
       /\ UNCHANGED <<awc, rem, utf8, badText, overrun>>

-----------------------------------------------------------------------------
(* Varint payloads: a scalar, or the next element of an integer array.     *)

LessOne(n) == IF n = 0 THEN SizeMax ELSE n - 1

\* A completed value that needs that many bytes; a boolean was normalised.
\* The code stores first and checks the range afterwards: the store touches
\* the same bytes for every value, so only the accepted one is recorded.
ScalarValue(need) ==
    /\ feeding
    /\ Active.state \in {"vu", "vs"}
    /\ IF bound /\ len \notin StoreWidths
       THEN ArgumentError
       ELSE IF bound /\ ~opt.bool /\ need > len
       THEN Reject("range")
       ELSE LET array == opt.ft = (IF Active.state = "vu" THEN "ARR_U" ELSE "ARR_S")
                left == LessOne(count)
            IN  /\ IF bound THEN Stored(len, room) ELSE UNCHANGED overrun
                /\ count' = IF array THEN left ELSE count
                /\ room' = IF array /\ bound /\ len <= room THEN room - len ELSE room
                /\ chain' = IF array /\ left > 0 THEN chain ELSE Parked("idle")
                /\ vshift' = 0
                /\ Consumed
                /\ UNCHANGED <<invalid, depth, bound, len, awc, opt, rem, utf8,
                               skipped, badText, notified, why>>

-----------------------------------------------------------------------------
(* Array counts and fixed-length words.                                    *)

\* A slip: one element more than the destination holds.
TooManyOneMore(d, n) == d.bound /\ n > d.count + 1

\* A slip: a field nobody bound has room for no elements.
TooManyForNobody(d, n) == n > (IF d.bound THEN d.count ELSE 0)

\* _bind_array_count: what the wire carries must fit the destination.
TooMany(d, n) == d.bound /\ n > d.count

ElementState(type) == IF type = "ARR_U" THEN "vu" ELSE "vs"

BoundCount(d, n) == IF d.bound THEN n ELSE d.count

ArrayCount(n) ==
    /\ InState("array_count")
    /\ IF n > ArrayMax
       THEN Reject("count")
       ELSE IF opt.ft = "ARR_F"
       THEN /\ chain' = Parked("fixlen_len")
            /\ count' = n
            /\ awc' = n
            /\ vshift' = 0
            /\ Consumed
            /\ NoCallback
            /\ UNCHANGED <<depth, bound, room, len, opt, rem, utf8, badText,
                           notified, overrun>>
       ELSE \E c \in Answers :
            LET f == [chain |-> chain, len |-> len, count |-> n, opt |-> opt]
                d == Deliver(f, c.read, n > 0)
                next == IF n = 0 THEN "idle" ELSE ElementState(opt.ft)
            IN  IF TooMany(d, n)
                THEN RejectRead(IF c.condemn THEN "callback" ELSE "capacity", d)
                ELSE /\ chain' = [d.chain EXCEPT ![Len(d.chain)].state = next]
                     /\ SetTarget(d, BoundCount(d, n))
                     /\ awc' = n
                     \* memset of the tail [n, capacity)
                     /\ IF d.bound THEN Stored(d.count * d.len, d.room)
                        ELSE UNCHANGED overrun
                     /\ CallbackEffects(d, c.condemn, notified)
                     /\ vshift' = 0
                     /\ Consumed
                     /\ UNCHANGED <<depth, rem, utf8, badText>>

\* The length and subtype of a fixed-length field, or of an array's elements.
WordMalformed(length, sub) ==
    \/ sub \notin Subtypes
    \/ sub = "fp32" /\ length # Fp32Len
    \/ sub = "fp64" /\ length # Fp64Len
    \/ sub \in {"string", "blob"} /\ opt.ft = "ARR_F"
    \/ length > FixlenMax

\* A slip: the terminator is forgotten.
TooLongUnterminated(d, length) == d.bound /\ length > d.len

\* A string needs room for the terminator the decoder adds.
TooLong(d, length) ==
    d.bound /\ length > (IF d.opt.term THEN d.len - 1 ELSE d.len)

\* What is written before the payload: the cleared tail of an array, up to
\* its end, or the terminator of a string.
Touched(d, length) ==
    IF d.opt.ft = "ARR_F" THEN d.count * d.len
    ELSE IF d.opt.term THEN length + 1 ELSE 0

FixlenWord(length, sub) ==
    /\ InState("fixlen_len")
    /\ IF WordMalformed(length, sub)
       THEN Reject("fixlen")
       ELSE \E c \in Answers :
            LET payload == IF sub \in {"string", "blob"} THEN "fixlen_raw" ELSE "fixlen_val"
                f == [chain |-> Parked(payload), len |-> length, count |-> count,
                      opt |-> [opt EXCEPT !.sub = sub]]
                d == Deliver(f, c.read, TRUE)
                array == d.opt.ft = "ARR_F"
                cnt == IF array THEN BoundCount(d, awc) ELSE d.count
                empty == array /\ cnt = 0
            IN  IF array /\ TooMany(d, awc)
                THEN RejectRead(IF c.condemn THEN "callback" ELSE "capacity", d)
                ELSE IF TooLong(d, length)
                THEN RejectRead(IF c.condemn THEN "callback" ELSE "length", d)
                ELSE /\ chain' = [d.chain EXCEPT ![Len(d.chain)].state =
                                     IF empty \/ length = 0 THEN "idle" ELSE @]
                     /\ SetTarget(d, cnt)
                     /\ IF d.bound THEN Stored(Touched(d, length), d.room)
                        ELSE UNCHANGED overrun
                     /\ utf8' = IF empty THEN utf8
                                ELSE StrictUtf8 /\ d.bound /\ d.opt.sub = "string"
                                     /\ length > 0
                     /\ rem' = IF empty \/ length = 0 THEN rem ELSE length
                     /\ badText' = FALSE
                     /\ CallbackEffects(d, c.condemn, notified)
                     /\ vshift' = 0
                     /\ Consumed
                     /\ UNCHANGED <<depth, awc>>

-----------------------------------------------------------------------------
(* Fixed-length payloads, one raw byte at a time.                          *)

\* _read_fixlen: the byte goes to the destination, if there is one.
PayloadByte ==
    /\ IF bound THEN Stored(1, room) ELSE UNCHANGED overrun
    /\ room' = IF bound /\ room > 0 THEN room - 1 ELSE room
    /\ Consumed
    /\ UNCHANGED <<invalid, depth, vshift, bound, len, awc, opt, utf8, skipped,
                   notified, why>>

FixlenValByte ==
    /\ InState("fixlen_val")
    /\ PayloadByte
    /\ UNCHANGED badText
    /\ \/ /\ rem - 1 > 0
          /\ rem' = rem - 1
          /\ UNCHANGED <<chain, count>>
       \/ /\ rem - 1 = 0
          /\ opt.ft = "ARR_F"
          /\ count' = LessOne(count)
          /\ rem' = IF LessOne(count) > 0 THEN len ELSE 0
          /\ chain' = IF LessOne(count) > 0 THEN chain ELSE Parked("idle")
       \/ /\ rem - 1 = 0
          /\ opt.ft # "ARR_F"
          /\ rem' = 0
          /\ chain' = Parked("idle")
          /\ UNCHANGED count

\* A string's bytes are validated as UTF-8 once all of them are there; bad
\* says that this byte makes the text ill-formed.
FixlenRawByte(bad) ==
    /\ InState("fixlen_raw")
    /\ IF rem - 1 = 0 /\ utf8 /\ (badText \/ bad)
       THEN Reject("text")
       ELSE /\ PayloadByte
            /\ rem' = rem - 1
            /\ badText' = (utf8 /\ (badText \/ bad))
            /\ chain' = IF rem - 1 = 0 THEN Parked("idle") ELSE chain
            /\ UNCHANGED count

-----------------------------------------------------------------------------
Init ==
    /\ feeding = FALSE
    /\ ret = "none"
    /\ invalid = FALSE
    /\ chain = <<[state |-> "idle", skip |-> 0]>>
    /\ depth = 0
    /\ vshift = 0
    /\ bound = FALSE
    /\ room = 0
    /\ len = 0
    /\ count = 0
    /\ awc = 0
    /\ opt = WireOpt("VU")
    /\ rem = 0
    /\ utf8 = FALSE
    /\ skipped = 0
    /\ badText = FALSE
    /\ notified = 0
    /\ overrun = FALSE
    /\ why = "none"

Next ==
    \/ FeedBegin
    \/ FeedEnd
    \/ VarintMore
    \/ VarintTooWide
    \/ HeaderRefused
    \/ \E type \in ScalarTypes : HeaderScalar(type)
    \/ \E type \in ArrayTypes \cup {"FIX"} : HeaderDeferred(type)
    \/ HeaderStart
    \/ HeaderEnd
    \/ \E need \in Needs : ScalarValue(need)
    \/ \E n \in Counts : ArrayCount(n)
    \/ \E length \in Lengths, sub \in Subtypes \cup {"bad"} : FixlenWord(length, sub)
    \/ FixlenValByte
    \/ \E bad \in BOOLEAN : FixlenRawByte(bad)

Spec == Init /\ [][Next]_vars

-----------------------------------------------------------------------------
Reasons == {"none", "varint", "id", "depth", "end", "range", "count",
            "capacity", "fixlen", "length", "text", "callback"}

TypeOK ==
    /\ feeding \in BOOLEAN
    /\ ret \in {"none", "ok", "incomplete", "invalid", "arg"}
    /\ invalid \in BOOLEAN
    /\ chain \in Seq(Decoder) /\ chain # <<>>
    /\ depth \in 0..MaxDepth
    /\ vshift \in 0..MaxGroups - 1
    /\ bound \in BOOLEAN
    /\ room \in Nat
    /\ len \in Nat
    /\ count \in Nat
    /\ awc \in 0..ArrayMax
    /\ opt \in Options
    /\ rem \in Nat
    /\ utf8 \in BOOLEAN
    /\ skipped \in 0..SkipMax
    /\ badText \in BOOLEAN
    /\ notified \in Nat
    /\ overrun \in BOOLEAN
    /\ why \in Reasons
=============================================================================
