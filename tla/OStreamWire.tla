---------------------------- MODULE OStreamWire ----------------------------
(***************************************************************************)
(* The logical output of the encoder of module OStream, and what must be   *)
(* true of it however the caller cuts the buffers.                         *)
(***************************************************************************)
EXTENDS OStream, FiniteSets

\* The bytes a receiver has that concatenates the payloads of all units.
Stream == sent \o Payload(Unit)

\* Where a token ends in the bytes s, and the tokens that end in them.
Ends(s) == {k \in 1..Len(s) : s[k].i = s[k].n}

Rank(ends, e) == Cardinality({k \in ends : k <= e})

Ranked(ends, k) == {e \in ends : Rank(ends, e) = k}

Whole(s) ==
    LET ends == Ends(s)
    IN  [k \in 1..Cardinality(ends) |->
            LET e == CHOOSE e \in Ranked(ends, k) : TRUE
            IN  [tok |-> s[e].tok, id |-> s[e].id]]

Wire == Whole(Stream)

Writer == INSTANCE SequenceWriter
              WITH wire <- Wire, open <- framed, held <- pending,
                   HoldLimit <- LAZY_SEQ_DEPTH

\* What a receiver has open, outermost first, once it has read token t, and
\* after a whole list of tokens.  A stray end marker, which it rejects, closes
\* nothing.
Heard(open, t) ==
    CASE t.tok \in {"held", "start"} -> Append(open, t.id)
      [] t.tok \in {"end", "keep"}   -> Front(open)
      [] OTHER                       -> open

OpenAfter(tokens) ==
    LET open[n \in 0..Len(tokens)] ==
            IF n = 0 THEN <<>> ELSE Heard(open[n - 1], tokens[n])
    IN  open[Len(tokens)]

-----------------------------------------------------------------------------
\* Buffering is transparent: whatever buffers are installed and whenever the
\* sink runs, the concatenated payloads are the well-nested token list the
\* abstract writer produces, and a held-back sequence that is closed leaves
\* no trace in it.  (_push_byte, _drain, _commit_pending, sequence_*.)
ImplementsWriter == Writer!Spec

\* A write never runs past the end of the active buffer, not even when the
\* callback installs a buffer that starts out full.  (_push_byte)
CursorInBuffer == Len(buf) <= cap

UnitIntact(u) ==
    /\ u.off <= Len(u.data)
    /\ \A i \in 1..Len(u.data) : (u.data[i].tok = "reserved") <=> (i <= u.off)

\* The room a caller reserves at the front of a buffer is in every unit it
\* gets from that installation, untouched, and in no other unit: the cursor
\* is reset before the callback runs, never after.  (_drain)
ReservationIntact == UnitIntact(unit) /\ UnitIntact(Unit)

\* No byte is lost, doubled or reordered at a unit boundary: each byte of the
\* stream continues the token of the byte before it.  Only after a call that
\* failed may a token be left unfinished.  (_push_byte, _drain)
Continued(b) == [b EXCEPT !.i = b.i + 1]

BytesContiguous ==
    LET s == Stream IN
    \A k \in 1..Len(s) - 1 :
        \/ s[k + 1] = Continued(s[k])
        \/ s[k + 1].i = 1 /\ (s[k].i = s[k].n \/ failed)

\* Between calls, the sequences the caller has open are those the wire has
\* open followed by the held-back run -- also after a call that failed half
\* way through committing the run, so that the end markers still to come
\* close exactly the headers that were written.  (_commit_pending,
\* sequence_begin, sequence_begin_lazy, sequence_end, sequence_end_keep)
NestingAgrees ==
    phase = "idle" => nest = framed \o pending

\* And the headers and end markers on the wire say the same: a receiver that
\* reads the stream so far has exactly those sequences open.
FramedIsOnTheWire == framed = OpenAfter(Wire)

EmptyHeldFrame ==
    LET s == Stream IN
    \E k \in 1..Len(s) - 1 : s[k].tok = "held" /\ s[k + 1].tok = "end"

\* A sequence opened lazily within the hold-back window and closed without
\* content is not on the wire, as long as no call failed.
CanonicalOmission == ~failed => ~EmptyHeldFrame

\* A sink that always leaves room never lets a call fail for want of it:
\* with streaming, E_BUFFER_FULL does not exist.  (_push_byte)
SinkNeverFull ==
    (HasSink /\ \A inst \in Installs : inst.off < inst.len) => ret # "full"

\* With a sink a call fails for want of room only in a buffer that the last
\* callback left without any: what was written before never decides it.
\* (_push_byte, _drain)
FullAsInstalled ==
    [][ (HasSink /\ phase # "idle" /\ phase' = "idle" /\ ret' = "full")
            => rsv' = cap' ]_vars

\* Every call returns.  (_varint_encode, _commit_pending, _write_fixlen)
CallsReturn == phase # "idle" ~> phase = "idle"

-----------------------------------------------------------------------------
(* What makes the invariants above inductive: what the bytes of a running  *)
(* call are, and how far it has got.                                       *)

\* The bytes t that the call o pushes after committing the held-back run.
\* Only the last byte of an opener is the last byte of its header.
BytesOfCall(o, t) ==
    /\ o.kind = "field" => \A j \in 1..Len(t) : t[j].tok = "field"
    /\ o.kind = "begin" =>
          /\ o.result = "ok" => o.id \in Ids
          /\ o.result # "ok" => t = <<>>
          /\ \A j \in 1..Len(t) :
                /\ t[j].tok = "start"
                /\ t[j].id = o.id
                /\ t[j].i = t[j].n <=> j = Len(t)
    /\ o.kind \in {"end", "stray"} =>
          /\ o.result = "ok"
          /\ Len(t) <= 1
          /\ \A j \in 1..Len(t) :
                t[j].tok \in IF o.kind = "end" THEN {"end", "keep"} ELSE {"stray"}

\* The call has changed what is open on the wire but has not returned yet.
Opened == op.kind = "begin" /\ op.result = "ok" /\ todo = <<>>
Closed == op.kind = "end" /\ todo = <<>>

NestingInCall ==
    /\ phase = "emit" => pending = <<>>
    /\ phase = "commit" => ~Opened /\ ~Closed
    /\ phase # "idle" =>
          framed \o pending =
             IF Opened THEN Append(nest, op.id)
             ELSE IF Closed THEN Front(nest) ELSE nest

RoomInBuffer ==
    (HasSink /\ \A inst \in Installs : inst.off < inst.len) => cap > 0

Inductive ==
    /\ TypeOK
    /\ BytesOfCall(op, todo)
    /\ CursorInBuffer
    /\ NestingAgrees
    /\ NestingInCall
    /\ RoomInBuffer
    /\ SinkNeverFull
    /\ ReservationIntact

\* The bytes t a call queues continue each other; its last one is the end of
\* a token unless the call is to fail.
InOrder(t, result) ==
    /\ \A j \in 1..Len(t) - 1 : t[j + 1] = Continued(t[j])
    /\ \A j \in 1..Len(t) :
          /\ t[j].tok # "held"
          /\ IF t[j].tok \in {"end", "keep", "stray"}
             THEN t[j] = [tok |-> t[j].tok, id |-> 0, i |-> 1, n |-> 1]
             ELSE t[j].id \in Ids
          /\ j = Len(t) /\ result = "ok" => t[j].i = t[j].n

\* Where the stream stands: a new token may start, or b goes on with the last.
Rested == Stream # <<>> => Last(Stream).i = Last(Stream).n \/ failed

Resumes(b) == Stream # <<>> /\ b = Continued(Last(Stream))

\* The last token is a header that was held back, and its sequence may be
\* closed next.
HeldLast == Stream # <<>> /\ Last(Stream).tok = "held" /\ ~failed

StreamInCall ==
    /\ InOrder(todo, op.result)
    /\ phase = "idle" => Rested /\ ~HeldLast
    /\ phase = "commit" =>
          /\ todo # <<>> => todo[1].i = 1 /\ todo[1].tok # "end"
          /\ todo = <<>> => op.result # "ok"
          /\ IF hpos = 0 THEN Rested ELSE Resumes(NextByte)
    /\ phase = "emit" =>
          IF todo = <<>>
          THEN op.result = "ok" => Rested /\ ~HeldLast
          ELSE /\ Resumes(todo[1]) \/ (Rested /\ todo[1].i = 1)
               /\ HeldLast => todo[1].tok # "end"
    /\ phase # "idle" /\ op.kind = "end" => nest # <<>>
    /\ phase # "idle" /\ op.kind = "stray" => nest = <<>>

\* The stream is contiguous, holds no empty held-back sequence, and the running
\* call goes on with it where it ends.
StreamInv == BytesContiguous /\ CanonicalOmission /\ StreamInCall
=============================================================================
