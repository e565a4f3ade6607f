---------------------------- MODULE IStreamProps ----------------------------
(***************************************************************************)
(* What must be true of the decoder of module IStream, whatever the bytes, *)
(* the chunks and the callbacks.                                           *)
(***************************************************************************)
EXTENDS IStream

\* Reasons to reject that come from a destination or a callback, not from
\* the bytes alone.
ReceiverReasons == {"range", "capacity", "length", "text", "callback"}

\* What the wire format has to say of the message so far.
Verdict ==
    IF ~invalid THEN "fine" ELSE IF why \in ReceiverReasons THEN "refused" ELSE why

Wire == INSTANCE WireParser
            WITH running <- feeding,
                 answer <- ret,
                 verdict <- Verdict,
                 expect <- Active.state,
                 ftype <- opt.ft,
                 sub <- opt.sub,
                 nesting <- depth,
                 elems <- count,
                 bytes <- rem,
                 groups <- vshift

\* Framing does not depend on the callbacks: bound, declined, contradicted or
\* skipped, every field is consumed as the wire format says, only malformed
\* bytes are called malformed, and the outcome of a feed is OK exactly at a
\* message boundary.  (sofab_istream_feed, _call_field_callback_masked,
\* _bind_array_count, _at_message_boundary)
ImplementsWireParser == Wire!Spec

\* ctx->depth counts the levels of the decoder chain and the levels the
\* active decoder skips; only the active decoder is ever mid-field or
\* skipping.  (SEQUENCE_START, SEQUENCE_END, the pop of a rolled-back read)
DepthAgrees ==
    /\ depth = (Len(chain) - 1) + Active.skip
    /\ \A k \in 1..Len(chain) - 1 : chain[k] = [state |-> "idle", skip |-> 0]

\* No store reaches past the destination the callback bound: not the elements
\* of an array, not the cleared tail, not a payload, not the terminator.
NoOverrun == ~overrun

\* A field is announced once, when its type is fully known, and never inside
\* a skipped sequence -- whichever states the field passes through.
NotifiedOnce ==
    /\ notified <= 1
    /\ Active.skip > 0 /\ Active.state # "idle" => notified = 0
    /\ (Active.state \in {"vu", "vs", "fixlen_val", "fixlen_raw"}
           /\ Active.skip = 0) => notified = 1
    /\ Active.state = "array_count" => notified = 0
    /\ Active.state = "fixlen_len" => notified = 0

\* Once a message is condemned nothing is delivered any more: no callback, no
\* sequence opened or closed, and every later feed reports INVALID.
CondemnedIsFinal ==
    [][ invalid =>
          /\ invalid' /\ why' = why
          /\ UNCHANGED <<notified, skipped, depth>>
          /\ (ret = "invalid" => ret' = "invalid" /\ UNCHANGED field) ]_vars

\* A rejection for the receiver's reasons hits a field that the receiver has
\* bound when it is refused, outside every skipped level, or a message its
\* callback condemned: a decoder that declines every field accepts every
\* well-formed message, however long its arrays and texts are.
\* (_bind_array_count, the _FITS_*_CHECKs, the length checks, the UTF-8 check)
RefusalNeedsReader ==
    [][ (why = "none" /\ why' \in ReceiverReasons) =>
          /\ Active.skip = 0
          /\ why' = "callback" \/ bound' ]_vars

\* A bound field keeps exactly the room its remaining payload needs, so that
\* a field that was accepted is stored completely.
PayloadFits ==
    (bound /\ ~invalid) =>
        /\ Active.state \in {"vu", "vs"} /\ opt.ft \in VarintArrays
              => room >= count * len
        /\ Active.state = "fixlen_val" /\ opt.ft = "ARR_F"
              => room >= (count - 1) * len + rem
        /\ Active.state \in {"fixlen_val", "fixlen_raw"} => room >= rem

-----------------------------------------------------------------------------
(* What makes DepthAgrees, NoOverrun and PayloadFits inductive.            *)

\* In a payload state there is a byte or an element left to come.
PayloadPending ==
    /\ Active.state \in {"fixlen_val", "fixlen_raw"} => rem > 0
    /\ Active.state = "fixlen_val" /\ opt.ft = "ARR_F" => count > 0 /\ len > 0

\* The states behind a deferred header belong to the types that defer theirs.
FieldExpected ==
    /\ Active.state = "array_count" => opt.ft \in ArrayTypes
    /\ Active.state = "fixlen_len" => opt.ft \in {"FIX", "ARR_F"}

\* A destination is bound for the type of the field that is being read, in a
\* level that is not skipped, and has room for all that is left of it --
\* unless it was refused for want of room, and the decoder has stopped.
BoundFits ==
    bound /\ (feeding \/ ~invalid) =>
        /\ Active.skip = 0
        /\ Active.state \notin {"array_count", "fixlen_len"}
        /\ Active.state = "vu" => opt.ft \in {"VU", "ARR_U"}
        /\ Active.state = "vs" => opt.ft \in {"VS", "ARR_S"}
        /\ Active.state \in {"vu", "vs"} =>
              IF opt.ft \in VarintArrays THEN count > 0 /\ room >= count * len
              ELSE room >= len
        /\ Active.state = "fixlen_raw" => opt.ft # "ARR_F"
        /\ Active.state \in {"fixlen_val", "fixlen_raw"} =>
              IF opt.ft = "ARR_F" THEN room >= (count - 1) * len + rem
              ELSE room >= rem

\* Text is validated in the destination.
TextBound == Active.state = "fixlen_raw" /\ utf8 => bound

\* A message condemned by a callback is condemned when its field is complete.
CondemnedStops ==
    /\ ret = "invalid" => invalid /\ ~feeding
    /\ invalid /\ feeding => Active.state \notin {"array_count", "fixlen_len"}

Inductive ==
    /\ TypeOK
    /\ DepthAgrees
    /\ PayloadPending
    /\ FieldExpected
    /\ BoundFits
    /\ TextBound
    /\ NoOverrun
    /\ NotifiedOnce
    /\ CondemnedStops

-----------------------------------------------------------------------------
(* What makes the refinement go through.                                   *)

\* No callback reads an array into the NULL destination that read_array
\* admits for zero elements: such a read is not undone when it contradicts
\* the wire, and its count and type replace those of the field.
NoNullReads == \A r \in Reads : ~r.null

\* The target holds what the wire said of the field: its type and subtype, and
\* in the payload states how many elements and bytes are to come -- whatever
\* the callback has made of it.
FieldFramed(state) ==
    /\ state = "array_count" => opt.sub = "none"
    /\ state = "fixlen_len" => count = (IF opt.ft = "ARR_F" THEN awc ELSE 0)
    /\ state = "vu" => opt.ft \in {"VU", "ARR_U"}
    /\ state = "vs" => opt.ft \in {"VS", "ARR_S"}
    /\ state \in {"vu", "vs"} => IF opt.ft \in VarintArrays THEN count > 0 ELSE count = 0
    /\ state = "fixlen_val" =>
          /\ opt.ft \in {"FIX", "ARR_F"}
          /\ opt.sub \in {"fp32", "fp64"}
          /\ IF opt.ft = "ARR_F" THEN len = Width(opt.sub) ELSE count = 0
    /\ state = "fixlen_raw" => opt.ft = "FIX" /\ count = 0

FramingKnown ==
    /\ invalid <=> why # "none"
    /\ FieldFramed(Active.state)

-----------------------------------------------------------------------------
\* istream.c on _bind_array_count: "When the callback bound no destination
\* (target_ptr is NULL) the field is skipped and the wire count already sitting
\* in target_count drives the read".  The count of an integer array has just
\* been taken and its elements follow; a read_array into the NULL destination
\* its own assertion admits for zero elements has overwritten it.
SkippedCountDrivesRead ==
    [][ (/\ InState("array_count") /\ opt.ft \in VarintArrays
         /\ Active'.state \in {"vu", "vs"} /\ ~bound' /\ ~invalid')
            => count' = awc' ]_vars

\* README.md: the nesting limit "is enforced on the skip path; actively-decoded
\* nesting is bounded instead by the number of caller-provided decoder handles".
\* The code counts bound levels and skipped ones alike.
DepthLimitOnSkipPathOnly == why = "depth" => Active.skip > 0
=============================================================================
