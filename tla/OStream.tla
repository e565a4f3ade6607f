------------------------------ MODULE OStream ------------------------------
(***************************************************************************)
(* The streaming encoder, src/src/ostream.c.                               *)
(*                                                                         *)
(* The encoder owns no memory: it writes byte by byte through a cursor     *)
(* into a buffer its caller installed.  When the buffer is full it hands   *)
(* the bytes to the caller's flush callback (the sink) and goes on, in the *)
(* same buffer or in one the callback installed; without a sink the write  *)
(* fails with E_BUFFER_FULL.  Headers of lazily opened sequences are held  *)
(* back in pending[] until the sequence turns out to have content.         *)
(*                                                                         *)
(* A public call is a queue of bytes to push: first the headers of the     *)
(* held-back run (phase "commit"), then its own bytes (phase "emit").  One *)
(* step of the model is one _push_byte(), because the sink runs inside it  *)
(* and what it installs is its own choice.                                 *)
(*                                                                         *)
(* A byte is identified by the wire token it belongs to and its position   *)
(* in it, which is all the properties tell apart; its eight bits are the   *)
(* business of module Varint.                                              *)
(***************************************************************************)
EXTENDS Naturals, Sequences, SequencesExt

CONSTANTS
    Ids,            \* the legal field ids in use (<= SOFAB_ID_MAX)
    BadId,          \* an id above SOFAB_ID_MAX
    IdLen,          \* number of bytes of the header varint of an id
    LAZY_SEQ_DEPTH, \* SOFAB_LAZY_SEQ_DEPTH, slots of pending[]
    StrictUtf8,     \* SOFAB_STRICT_UTF8
    HasSink,        \* whether a flush callback is registered
    Installs,       \* the buffers [len, off] the caller may install
    BodyLens,       \* payload lengths, in bytes, of the fields written
    MaxCalls,       \* bound: public calls in a behaviour
    MaxNest         \* bound: sequences open at once

ASSUME OStreamAssumption ==
    /\ Ids \subseteq Nat
    /\ BadId \notin Ids
    /\ IdLen \in [Ids -> Nat \ {0}]
    /\ LAZY_SEQ_DEPTH \in Nat \ {0}
    /\ StrictUtf8 \in BOOLEAN
    /\ HasSink \in BOOLEAN
    /\ Installs \subseteq [len : Nat, off : Nat]
    /\ \A inst \in Installs : inst.off <= inst.len
    /\ BodyLens \subseteq Nat
    /\ MaxCalls \in Nat
    /\ MaxNest \in Nat

VARIABLES
    buf,     \* the bytes of the active buffer below the cursor (ctx->offset)
    cap,     \* length of the active buffer (ctx->bufend - ctx->buffer)
    rsv,     \* history: offset this installation began at, 0 after a reset
    unit,    \* history: the last unit the sink (without one, the caller) took
    sent,    \* history: the payloads of all units taken, concatenated
    pending, \* ctx->pending[0 .. npending-1], outermost first
    phase,   \* "idle", "commit" or "emit": where the running call is
    hpos,    \* bytes already pushed of the header of pending[1]
    todo,    \* own bytes of the running call not pushed yet
    op,      \* the running call: what it is, its id, what it will return
    ret,     \* result of the last call
    nest,    \* history: ids of the sequences the caller believes to be open
    framed,  \* history: ids of the open sequences with a header on the wire
    failed,  \* history: some call returned an error
    calls    \* number of calls made, for the bound MaxCalls

bufVars == <<buf, cap, rsv, unit, sent>>
callVars == <<phase, hpos, todo, op>>
vars == <<buf, cap, rsv, unit, sent, pending, phase, hpos, todo, op, ret,
          nest, framed, failed, calls>>

-----------------------------------------------------------------------------
(* Bytes and buffers.                                                      *)

\* "held" is a sequence header written by _commit_pending, "start" one that
\* was framed eagerly; "keep" is the end marker of sequence_end_keep, "stray"
\* one that was written with no sequence open.
Tokens == {"reserved", "held", "start", "end", "keep", "stray", "field"}

Byte == [tok : Tokens, id : Ids \cup {0}, i : Nat, n : Nat]

Bytes(tok, id, n) == [i \in 1..n |-> [tok |-> tok, id |-> id, i |-> i, n |-> n]]

\* The caller's framing room at the front of an installed buffer.
Reserved(k) == [i \in 1..k |-> [tok |-> "reserved", id |-> 0, i |-> 1, n |-> 1]]

EndMarker(tok) == <<[tok |-> tok, id |-> 0, i |-> 1, n |-> 1]>>

Keep == [len |-> 0, off |-> 1]   \* the callback installs nothing (no such buffer)

\* Slips a test of one buffer would not show: the cursor reset only after the
\* callback, on top of the offset it installed; or not reset at all when the
\* callback installs nothing.
AfterSinkResetLate(inst) ==
    [buf |-> <<>>,
     cap |-> IF inst = Keep THEN cap ELSE inst.len,
     rsv |-> IF inst = Keep THEN 0 ELSE inst.off]

AfterSinkNoReset(inst) ==
    IF inst = Keep
    THEN [buf |-> buf, cap |-> cap, rsv |-> rsv]
    ELSE [buf |-> Reserved(inst.off), cap |-> inst.len, rsv |-> inst.off]

\* The buffer half of the state once the sink has returned: the cursor was
\* reset before the callback ran, so what the callback installs stands.
AfterSink(inst) ==
    IF inst = Keep
    THEN [buf |-> <<>>, cap |-> cap, rsv |-> 0]
    ELSE [buf |-> Reserved(inst.off), cap |-> inst.len, rsv |-> inst.off]

\* The active buffer as a unit, and what a receiver reads of a unit: the
\* bytes behind the room reserved at its front.
Unit == [off |-> rsv, data |-> buf]

Payload(u) == SubSeq(u.data, u.off + 1, Len(u.data))

Taken ==
    /\ unit' = Unit
    /\ sent' = sent \o Payload(Unit)

Drain(b) ==
    /\ Taken
    /\ cap' = b.cap
    /\ rsv' = b.rsv

-----------------------------------------------------------------------------
(* _push_byte: one byte of the running call.                               *)

NextByte ==
    IF phase = "commit"
    THEN Bytes("held", Head(pending), IdLen[Head(pending)])[hpos + 1]
    ELSE Head(todo)

HasByte == phase = "commit" \/ (phase = "emit" /\ todo # <<>>)

BufferFull == Len(buf) >= cap

\* Bookkeeping of a byte that found room.  An id leaves pending[] with the
\* last byte of its header, so that a later failure retains exactly the run
\* that is not framed yet.
Advance ==
    \/ /\ phase = "commit"
       /\ hpos + 1 < IdLen[Head(pending)]
       /\ hpos' = hpos + 1
       /\ UNCHANGED <<pending, phase, todo>>
    \/ /\ phase = "commit"
       /\ hpos + 1 = IdLen[Head(pending)]
       /\ hpos' = 0
       /\ pending' = Tail(pending)
       /\ phase' = IF Len(pending) = 1 THEN "emit" ELSE "commit"
       /\ UNCHANGED todo
    \/ /\ phase = "emit"
       /\ todo' = Tail(todo)
       /\ UNCHANGED <<pending, phase, hpos>>

\* The last byte of a header opens a sequence on the wire, an end marker
\* closes the innermost one.
Framing(b) ==
    framed' = CASE b.tok \in {"held", "start"} /\ b.i = b.n -> Append(framed, b.id)
                [] b.tok \in {"end", "keep"} -> Front(framed)
                [] OTHER -> framed

\* Slips: the failed commit forgets the rest of the run; the call tries again
\* as long as the sink leaves no room.
GiveUpForgetsRun ==
    /\ phase' = "idle"
    /\ hpos' = 0
    /\ todo' = <<>>
    /\ ret' = "full"
    /\ failed' = TRUE
    /\ pending' = <<>>
    /\ UNCHANGED <<op, nest, framed, calls>>

GiveUpRetries ==
    /\ ret' = "full"
    /\ failed' = TRUE
    /\ UNCHANGED <<pending, phase, hpos, todo, op, nest, framed, calls>>

\* E_BUFFER_FULL: the call gives up, nothing that was pushed is rolled back.
GiveUp ==
    /\ phase' = "idle"
    /\ hpos' = 0
    /\ todo' = <<>>
    /\ ret' = "full"
    /\ failed' = TRUE
    /\ UNCHANGED <<pending, op, nest, framed, calls>>

PushByte ==
    /\ HasByte
    /\ ~BufferFull
    /\ buf' = Append(buf, NextByte)
    /\ Framing(NextByte)
    /\ Advance
    /\ UNCHANGED <<cap, rsv, unit, sent, op, ret, nest, failed, calls>>

\* The buffer is full: the sink takes it, and the byte goes to the front of
\* whatever buffer is active afterwards.
PushThroughSink(inst) ==
    /\ HasByte
    /\ BufferFull
    /\ HasSink
    /\ LET b == AfterSink(inst) IN
       /\ Len(b.buf) < b.cap
       /\ Drain(b)
       /\ buf' = Append(b.buf, NextByte)
    /\ Framing(NextByte)
    /\ Advance
    /\ UNCHANGED <<op, ret, nest, failed, calls>>

\* The callback installed a buffer that has no room either.
PushSinkLeftNoRoom(inst) ==
    /\ HasByte
    /\ BufferFull
    /\ HasSink
    /\ LET b == AfterSink(inst) IN
       /\ Len(b.buf) >= b.cap
       /\ Drain(b)
       /\ buf' = b.buf
    /\ GiveUp

\* A slip: the result of the push is ignored.
PushNoSinkIgnored ==
    /\ HasByte
    /\ BufferFull
    /\ ~HasSink
    /\ Framing(NextByte)
    /\ Advance
    /\ UNCHANGED <<bufVars, op, ret, nest, failed, calls>>

PushNoSink ==
    /\ HasByte
    /\ BufferFull
    /\ ~HasSink
    /\ GiveUp
    /\ UNCHANGED bufVars

\* The two ways in which the byte finds no room.
PushNoRoom(inst) == IF HasSink THEN PushSinkLeftNoRoom(inst) ELSE PushNoSink

\* The call has pushed everything it had to push.
Return ==
    /\ phase = "emit"
    /\ todo = <<>>
    /\ phase' = "idle"
    /\ ret' = op.result
    /\ failed' = (failed \/ op.result # "ok")
    /\ nest' = CASE op.result = "ok" /\ op.kind = "begin" -> Append(nest, op.id)
                 [] op.result = "ok" /\ op.kind = "end" -> Front(nest)
                 [] OTHER -> nest
    /\ UNCHANGED <<bufVars, pending, hpos, todo, op, framed, calls>>

-----------------------------------------------------------------------------
(* The public calls.                                                       *)

Called == phase = "idle" /\ calls < MaxCalls /\ calls' = calls + 1

\* A call refused before it touched the stream.
Refuse ==
    /\ Called
    /\ ret' = "arg"
    /\ failed' = TRUE
    /\ UNCHANGED <<bufVars, pending, callVars, nest, framed>>

\* A slip: a writer that does not commit.
StartUncommitted(kind, id, bytes, result) ==
    /\ Called
    /\ phase' = "emit"
    /\ hpos' = 0
    /\ todo' = bytes
    /\ op' = [kind |-> kind, id |-> id, result |-> result]
    /\ UNCHANGED <<bufVars, pending, ret, nest, framed, failed>>

\* The call commits the held-back run, if any, and then pushes bytes.
Start(kind, id, bytes, result) ==
    /\ Called
    /\ phase' = IF pending # <<>> THEN "commit" ELSE "emit"
    /\ hpos' = 0
    /\ todo' = bytes
    /\ op' = [kind |-> kind, id |-> id, result |-> result]
    /\ UNCHANGED <<bufVars, pending, ret, nest, framed, failed>>

\* _write_id_type tests the id before it commits anything.
WriteField(id, total, pushed, result) ==
    IF id \notin Ids
    THEN Refuse
    ELSE Start("field", id,
               SubSeq(Bytes("field", id, IdLen[id] + total), 1, IdLen[id] + pushed),
               result)

\* write_unsigned, write_signed: header and a varint of n bytes.
WriteScalar(id, n) == WriteField(id, n, n, "ok")

\* write_fixlen: length word and n payload bytes; a strict build refuses a
\* string that is not valid UTF-8 before anything else happens.
WriteFixlen(id, n, valid) ==
    IF valid \/ ~StrictUtf8 THEN WriteField(id, 1 + n, 1 + n, "ok") ELSE Refuse

\* write_array_of_unsigned/_signed: count word and n one-byte elements.  An
\* unsupported element size is found in the element loop, behind the header.
WriteVarintArray(id, n, goodSize) ==
    IF goodSize \/ n = 0
    THEN WriteField(id, 1 + n, 1 + n, "ok")
    ELSE WriteField(id, 1 + n, 1, "arg")

\* write_array_of_fixlen: count word, element word (even if empty), payload.
WriteFixlenArray(id, n) == WriteField(id, 2 + n, 2 + n, "ok")

\* The eager opener commits the run before it looks at the id.
SequenceBegin(id) ==
    /\ Len(nest) < MaxNest
    /\ IF id \in Ids
       THEN Start("begin", id, Bytes("start", id, IdLen[id]), "ok")
       ELSE Start("begin", 0, <<>>, "arg")

\* Its header waits in pending[].
HoldBack(id) ==
    /\ Called
    /\ pending' = Append(pending, id)
    /\ nest' = Append(nest, id)
    /\ ret' = "ok"
    /\ UNCHANGED <<bufVars, callVars, framed, failed>>

SequenceBeginLazy(id) ==
    /\ Len(nest) < MaxNest
    /\ \/ id \notin Ids /\ Refuse
       \/ id \in Ids /\ Len(pending) < LAZY_SEQ_DEPTH /\ HoldBack(id)
       \/ /\ id \in Ids
          /\ Len(pending) >= LAZY_SEQ_DEPTH
          /\ Start("begin", id, Bytes("start", id, IdLen[id]), "ok")

\* The caller pairs its ends with its begins.
SequenceEndKeep ==
    /\ nest # <<>>
    /\ Start("end", 0, EndMarker("keep"), "ok")

\* A sequence whose header still waits had no content: both disappear.
DropHeld ==
    /\ Called
    /\ pending' = Front(pending)
    /\ nest' = Front(nest)
    /\ ret' = "ok"
    /\ UNCHANGED <<bufVars, callVars, framed, failed>>

\* A slip: the end marker is written like any other byte.
SequenceEndFramed == nest # <<>> /\ Start("end", 0, EndMarker("end"), "ok")

SequenceEnd ==
    /\ nest # <<>>
    /\ \/ pending # <<>> /\ DropHeld
       \/ pending = <<>> /\ Start("end", 0, EndMarker("end"), "ok")

\* The closers do not look whether a sequence is open: with none, either form
\* writes an end marker.  (No caller of the C interface means to; a C++ body
\* that ignores a refused opener may.)
SequenceEndUnopened ==
    /\ nest = <<>>
    /\ Start("stray", 0, EndMarker("stray"), "ok")

\* What flush() and bytes_used() return.
BytesUsed == Len(buf)

\* flush() with a sink; without one it changes nothing.
Flush(inst) ==
    /\ Called
    /\ HasSink
    /\ BytesUsed > 0
    /\ LET b == AfterSink(inst) IN Drain(b) /\ buf' = b.buf
    /\ UNCHANGED <<pending, callVars, ret, nest, framed, failed>>

\* buffer_set() between two calls.  The caller has taken the bytes of the old
\* buffer; with a sink it has flushed them first.
BufferSet(inst) ==
    /\ Called
    /\ HasSink => Len(buf) = rsv
    /\ IF HasSink THEN UNCHANGED <<unit, sent>> ELSE Taken
    /\ buf' = Reserved(inst.off)
    /\ cap' = inst.len
    /\ rsv' = inst.off
    /\ UNCHANGED <<pending, callVars, ret, nest, framed, failed>>

-----------------------------------------------------------------------------
Init ==
    /\ \E inst \in Installs :
          buf = Reserved(inst.off) /\ cap = inst.len /\ rsv = inst.off
    /\ unit = [off |-> 0, data |-> <<>>]
    /\ sent = <<>>
    /\ pending = <<>>
    /\ phase = "idle"
    /\ hpos = 0
    /\ todo = <<>>
    /\ op = [kind |-> "field", id |-> 0, result |-> "ok"]
    /\ ret = "ok"
    /\ nest = <<>>
    /\ framed = <<>>
    /\ failed = FALSE
    /\ calls = 0

Running ==
    \/ PushByte
    \/ \E inst \in Installs \cup {Keep} :
          PushThroughSink(inst) \/ PushNoRoom(inst)
    \/ Return

Call ==
    \/ \E id \in Ids \cup {BadId} :
          \/ \E n \in BodyLens :
                \/ n > 0 /\ WriteScalar(id, n)
                \/ \E valid \in BOOLEAN : WriteFixlen(id, n, valid)
                \/ \E good \in BOOLEAN : WriteVarintArray(id, n, good)
                \/ WriteFixlenArray(id, n)
          \/ SequenceBegin(id)
          \/ SequenceBeginLazy(id)
    \/ SequenceEndKeep
    \/ SequenceEnd
    \/ \E inst \in Installs \cup {Keep} : Flush(inst)
    \/ \E inst \in Installs : BufferSet(inst)

Next == Running \/ Call

\* A call is a loop of the calling thread: it runs to its end.
Spec == Init /\ [][Next]_vars /\ WF_vars(Running)

-----------------------------------------------------------------------------
TypeOK ==
    /\ buf \in Seq(Byte)
    /\ cap \in Nat
    /\ rsv \in Nat
    /\ unit \in [off : Nat, data : Seq(Byte)]
    /\ sent \in Seq(Byte)
    /\ pending \in Seq(Ids)
    /\ Len(pending) <= LAZY_SEQ_DEPTH
    /\ phase \in {"idle", "commit", "emit"}
    /\ phase = "commit" => pending # <<>> /\ hpos < IdLen[Head(pending)]
    /\ phase # "commit" => hpos = 0
    /\ hpos \in Nat
    /\ todo \in Seq(Byte)
    /\ op \in [kind : {"field", "begin", "end", "stray"}, id : Ids \cup {0},
               result : {"ok", "arg"}]
    /\ ret \in {"ok", "arg", "full"}
    /\ nest \in Seq(Ids)
    /\ framed \in Seq(Ids)
    /\ failed \in BOOLEAN
    /\ calls \in Nat
=============================================================================
