----------------------------- MODULE CppOStream -----------------------------
(***************************************************************************)
(* The C++ output stream, class OStreamImpl of                             *)
(* src/src/include/sofab/sofab.hpp, over the encoder of module OStream.    *)
(*                                                                         *)
(* A program writes fields, and messages whose serialize() writes fields   *)
(* in its turn.  A nested message is opened lazily, serialized and closed, *)
(* and what the application sees of all this is two verdicts: the Result   *)
(* of a chain of calls, which later calls of the chain do not touch, and   *)
(* the stream's own latch, error().  A body may chain its calls, throw     *)
(* every Result away, or open a sequence by hand and close it in a chain   *)
(* that stops short of the closer.                                         *)
(*                                                                         *)
(* The application and every serialize() in progress is one activation of  *)
(* the stack acts.  A step is a step of the C encoder; the C++ code around *)
(* it runs when the C call returns.                                        *)
(***************************************************************************)
EXTENDS OStreamWrites

CONSTANT Values     \* the values written: type, length, whether a string is valid

ASSUME CppOStreamAssumption ==
    Values \subseteq
        [type : {"integer", "bool", "float", "double", "string", "oversize", "blob",
                 "integers", "floats", "doubles"},
         n : Nat, valid : BOOLEAN]

VARIABLES
    acts,      \* the activations, outermost (the application) first
    doing,     \* which operation of the current activation a C call is part of
    latch,     \* OStreamImpl::failed_
    discarded, \* history: a statement threw a failed Result away
    unpaired   \* history: a closer was not the one of its opener

cppVars == <<acts, doing, latch, discarded, unpaired>>
allVars == <<vars, cppVars>>

Codes == {"ok", "arg", "full"}

\* The openers by hand whose closers are still to come in the text, innermost
\* last; each stands for the number of sequences that it and those before it
\* have opened: one that fails opens none.
Openers ==
    {h \in Seq(Nat) : \A j \in 1..Len(h) : h[j] - (IF j = 1 THEN 0 ELSE h[j - 1]) \in {0, 1}}

Begun(h) == IF h = <<>> THEN 0 ELSE Last(h)

Begin(h, r) == Append(h, IF r = "ok" THEN Begun(h) + 1 ELSE Begun(h))

\* The innermost opener opened nothing.
Refused(h) == Begun(h) = Begun(Front(h))

\* closer: how the enclosing write closes this message; code: the Result of
\* the activation's current chain; hand: its openers by hand; base: history,
\* the number of sequences open when the message was.
Activation ==
    [closer : {"none", "keep", "end"}, code : Codes, hand : Openers, base : Nat]

Current == Last(acts)

-----------------------------------------------------------------------------
(* What runs when a C call returns r.                                      *)

\* A slip: the last verdict wins.
LatchedLast(r) == r

\* OStreamImpl::result(): the first failure stays.
Latched(r) == IF latch = "ok" THEN r ELSE latch

\* A slip: what the closer returns hides what the body returned.
FirstFailureOfCloser(body, closer) == closer

\* A nested write reports its body's failure before its closer's.
FirstFailure(body, closer) == IF body # "ok" THEN body ELSE closer

Chain(stack, r) == [stack EXCEPT ![Len(stack)].code = r]

Entered(closer) ==
    Append(acts, [closer |-> closer, code |-> "ok", hand |-> <<>>, base |-> Len(nest)])

\* The stack after the operation what got r from its C call.
AfterCall(what, r) ==
    CASE what \in {"keep", "end"} /\ r = "ok" -> Entered(what)
      [] what = "begin" -> [Chain(acts, r) EXCEPT ![Len(acts)].hand = Begin(@, r)]
      [] what = "finish" -> [Chain(acts, r) EXCEPT ![Len(acts)].hand = Front(@)]
      [] what = "close" -> Chain(Front(acts), FirstFailure(Current.code, r))
      [] OTHER -> Chain(acts, r)

\* The closer found no room, or it closed what its opener had not opened.
Mispaired(what, r) ==
    \/ what \in {"finish", "close"} /\ r # "ok"
    \/ what = "finish" /\ Refused(Current.hand)

Returned(what, r) ==
    /\ latch' = Latched(r)
    /\ unpaired' = (unpaired \/ Mispaired(what, r))
    /\ acts' = AfterCall(what, r)

\* A C call is made, or a step of one is taken, for the operation what.
Through(what) ==
    /\ doing' = what
    /\ IF phase' = "idle" THEN Returned(what, ret') ELSE UNCHANGED <<acts, latch, unpaired>>

-----------------------------------------------------------------------------
(* The operations of an activation.                                        *)

\* A call issued after a failed one is no call of its chain, where it would
\* be a no-op: it is a statement of its own, and the failed Result is gone.
Issue(what) ==
    /\ phase = "idle"
    /\ Through(what)
    /\ discarded' = (discarded \/ Current.code # "ok")

\* A call that ends without the encoder: rejectArgument(), and a string_view
\* longer than an int32_t; writeIf() with a false condition returns None.
Answer(r) ==
    /\ phase = "idle"
    /\ doing' = "write"
    /\ Returned("write", r)
    /\ discarded' = (discarded \/ Current.code # "ok")
    /\ UNCHANGED vars

RejectArgument == Answer("arg")

WriteIfFalse == Current.code # "ok" /\ Answer("ok")

\* OStreamImpl::write(): the wire form follows from the type of the value.
Encode(id, v) ==
    \/ v.type = "integer" /\ WriteScalar(id, v.n)
    \/ v.type = "bool" /\ WriteBoolean(id)
    \/ v.type = "float" /\ WriteFp32(id)
    \/ v.type = "double" /\ WriteFp64(id)
    \/ v.type = "string" /\ WriteString(id, v.n, v.valid)
    \/ v.type = "blob" /\ WriteBlob(id, v.n)
    \/ v.type = "integers" /\ WriteArrayOfIntegers(id, v.n)
    \/ v.type = "floats" /\ WriteArrayOfFp32(id, v.n)
    \/ v.type = "doubles" /\ WriteArrayOfFp64(id, v.n)

Write(id, v) ==
    IF v.type = "oversize" THEN Answer("arg") ELSE Encode(id, v) /\ Issue("write")

\* write() and writeLazy() of a message: the opener; serialize() follows if
\* it succeeded.
WriteMessage(id, closer) == SequenceBeginLazy(id) /\ Issue(closer)

\* The text opens a sequence itself, and closes it, in either form.  Text that
\* looks at no Result makes the closer whatever became of the opener; it then
\* closes the sequence around it, or none.
BeginByHand(id) == SequenceBeginLazy(id) /\ Issue("begin")

EndByHand ==
    /\ Current.hand # <<>>
    /\ SequenceEnd \/ SequenceEndKeep \/ SequenceEndUnopened
    /\ Issue("finish")

\* A chain that failed skips the closers it still has.
SkipEnd ==
    /\ phase = "idle"
    /\ Current.code # "ok"
    /\ Current.hand # <<>>
    /\ acts' = [acts EXCEPT ![Len(acts)].hand = Front(@)]
    /\ unpaired' = (unpaired \/ ~Refused(Current.hand))
    /\ UNCHANGED <<vars, doing, latch, discarded>>

Closer ==
    \/ Current.closer = "keep" /\ SequenceEndKeep
    \/ Current.closer = "end" /\ SequenceEnd
    \/ SequenceEndUnopened

\* A slip: a message whose body failed is not closed.
CloseUnlessFailed ==
    /\ Len(acts) > 1
    /\ Current.hand = <<>>
    /\ IF Current.code = "ok"
       THEN Closer /\ Through("close")
       ELSE /\ phase = "idle"
            /\ acts' = Chain(Front(acts), Current.code)
            /\ UNCHANGED <<vars, doing, latch, unpaired>>
    /\ UNCHANGED discarded

\* serialize() has returned its Result: the closer runs in any case.
Close ==
    /\ Len(acts) > 1
    /\ Current.hand = <<>>
    /\ Closer
    /\ Through("close")
    /\ UNCHANGED discarded

\* flush() and setBuffer() between two calls report nothing.
FlushOrSet ==
    /\ \/ \E inst \in Installs \cup {Keep} : Flush(inst)
       \/ \E inst \in Installs : BufferSet(inst)
    /\ doing' = "write"
    /\ UNCHANGED <<acts, latch, discarded, unpaired>>

CppRunning == Running /\ Through(doing) /\ UNCHANGED discarded

CppCall ==
    \/ \E id \in Ids \cup {BadId} :
          \/ \E v \in Values : Write(id, v)
          \/ \E closer \in {"keep", "end"} : WriteMessage(id, closer)
          \/ BeginByHand(id)
    \/ EndByHand
    \/ SkipEnd
    \/ RejectArgument
    \/ WriteIfFalse
    \/ Close
    \/ FlushOrSet

CppInit ==
    /\ Init
    /\ acts = <<[closer |-> "none", code |-> "ok", hand |-> <<>>, base |-> 0]>>
    /\ doing = "write"
    /\ latch = "ok"
    /\ discarded = FALSE
    /\ unpaired = FALSE

CppNext == CppRunning \/ CppCall

CppSpec == CppInit /\ [][CppNext]_allVars /\ WF_allVars(CppRunning)

-----------------------------------------------------------------------------
CppTypeOK ==
    /\ acts \in Seq(Activation) \ {<<>>}
    /\ doing \in {"write", "keep", "end", "begin", "finish", "close"}
    /\ latch \in Codes
    /\ discarded \in BOOLEAN
    /\ unpaired \in BOOLEAN

\* The sequences open on the stream are those the text has open: one for each
\* message being serialized and one for each opener by hand that succeeded --
\* whatever value, opener or nested message failed on the way, for whatever
\* reason.  Three things only put the two apart: a closer that finds no room,
\* a closer that a failed chain skips though its opener succeeded, and a closer
\* by hand that is made though its opener was refused.  (write, writeLazy,
\* sequenceBeginLazy, sequenceEnd, sequenceEndKeep)
OpenAsWritten ==
    (phase = "idle" /\ ~unpaired) =>
        Len(nest) = Current.base + Begun(Current.hand) + (IF Len(acts) > 1 THEN 1 ELSE 0)

\* A message the stream calls good is whole: every sequence closed, nothing
\* held back, the last field written to its last byte -- also when not one
\* Result was looked at.  (result, ok)
OkMeansComplete ==
    (phase = "idle" /\ latch = "ok" /\ Len(acts) = 1 /\ Current.hand = <<>>) =>
        /\ nest = <<>>
        /\ framed = <<>>
        /\ pending = <<>>
        /\ Stream = <<>> \/ Last(Stream).i = Last(Stream).n

\* A program that throws no failed Result away reads the stream's verdict off
\* its last chain, however deep in a message, or in what closer, the failure
\* was.  (Result, write, writeLazy)
ChainTells == (phase = "idle" /\ ~discarded) => Current.code = latch

\* "the sequence this call opened is always the sequence this call closes"
\* (comment in write(), src/src/include/sofab/sofab.hpp), of programs that
\* throw no failed Result away: a closer made for an opener that was refused
\* would put it wrong, too.
ClosesItsOwn ==
    [][ (phase = "idle" /\ doing' = "close" /\ ~discarded) =>
            Len(nest) = Current.base + 1 ]_allVars

-----------------------------------------------------------------------------
(* What makes the invariants above inductive.                              *)

\* Each body began with as many sequences open as its callers had: one for
\* each enclosing message, and those opened by hand; n are open now.
Level(k) == IF k > 1 THEN 1 ELSE 0

OpenBelow(stack, k) == stack[k].base + Begun(stack[k].hand) + Level(k)

AgreesWith(stack, n) ==
    /\ \A k \in 1..Len(stack) - 1 : stack[k + 1].base = OpenBelow(stack, k)
    /\ n = OpenBelow(stack, Len(stack))

StackAgrees == ~unpaired => AgreesWith(acts, Len(nest))

\* Which C call is running, and what the activation that made it is like.
CallAgrees ==
    phase # "idle" =>
        /\ doing = "write" => op.kind = "field"
        /\ doing \in {"keep", "end", "begin"} => op.kind = "begin" /\ op.result = "ok"
        /\ doing \in {"finish", "close"} =>
              /\ op.result = "ok"
              /\ op.kind = IF nest = <<>> THEN "stray" ELSE "end"
        /\ doing = "finish" => Current.hand # <<>>
        /\ doing = "close" => Len(acts) > 1 /\ Current.hand = <<>>
        /\ doing # "close" /\ ~discarded => Current.code = "ok"

CppInductive ==
    /\ Inductive
    /\ CppTypeOK
    /\ StackAgrees
    /\ CallAgrees
    /\ ~discarded => Current.code = latch

\* Every opener by hand succeeded.
AllBegun(h) == \A j \in 1..Len(h) : h[j] = j

\* A good verdict leaves nothing out: whatever failed, whichever chain it was
\* in and whether or not its Result was looked at, the latch knows.
VerdictCovers ==
    /\ acts[1].base = 0
    /\ latch = "ok" =>
          /\ ~unpaired
          /\ ~failed
          /\ \A k \in 1..Len(acts) : acts[k].code = "ok" /\ AllBegun(acts[k].hand)
=============================================================================
