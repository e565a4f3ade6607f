----------------------------- MODULE Collectors -----------------------------
(***************************************************************************)
(* The C++ input stream and its wrapper-array collectors, IStreamImpl in   *)
(* sofab.hpp and the collectors there and in seq.hpp: what a message does  *)
(* with a field when its header arrives, before the decoder of module      *)
(* IStream fills what was bound.  The message has a wrapper array (id 0)   *)
(* and a string (id 1); the elements of the array are strings or blobs     *)
(* ("text"), arrays ("row") or messages of one scalar (id 0), or the array *)
(* is read straight into a vector of strings or blobs ("vector").  A field *)
(* of fixed length that is not of the element's type, a blob among strings *)
(* or a floating-point number, is "fixed".                                 *)
(*                                                                         *)
(* The storage is inline, with a capacity that is part of its type, or     *)
(* growable.  -1 stands for a capacity a type does not publish, a bound    *)
(* the schema does not declare and a DynCap that was not stated.           *)
(***************************************************************************)
EXTENDS Integers, Sequences, SequencesExt

CONSTANTS
    Setups,  \* the receivers considered
    Ids,     \* bound: ids on the wire
    Sizes,   \* bound: lengths and counts on the wire
    Widths,  \* bound: lengths of other fields of fixed length
    Values,  \* bound: what a payload consists of
    MaxOpen, \* bound: sequences open, at most SOFAB_MAX_DEPTH (module IStream)
    MaxLen   \* bound: elements of a vector that no index and no cap limits

ASSUME CollectorsAssumption ==
    /\ Ids \subseteq Nat /\ Sizes \subseteq Nat /\ Widths \subseteq Nat
    /\ Values \subseteq Nat /\ MaxOpen \in Nat /\ MaxLen \in Nat
    /\ Setups \subseteq [elem : {"text", "row", "message", "vector"}, inline : BOOLEAN,
                        capacity : Int, cap : Int, dynCap : Int, elemCapacity : Int,
                        elemMax : Int, dynElemMax : Int, nameCapacity : Int,
                        nameMax : Int, nameCap : Int]
    /\ \A s \in Setups :
          /\ s.inline => s.capacity \in Nat
          /\ s.inline /\ s.elem = "text" => s.elemCapacity > 0
          /\ ~s.inline /\ s.elem = "text" => s.elemCapacity = -1
          /\ s.nameCap >= 0 => s.nameMax = -1

VARIABLES
    setup,    \* the receiver
    out,      \* the container the elements are collected in
    name,     \* the string
    open,     \* decoders active below the root: "list", "elem", "skip"
    at,       \* the element that is open
    due,      \* the payload of a field is outstanding
    target,   \* what it was bound to: <<"name">>, <<"out", index>>, Nowhere
    refusal,  \* refusal_
    invalid,  \* ctx_.invalid
    report,   \* what the last feed() returned
    last      \* history: the field header or marker just taken

vars == <<setup, out, name, open, at, due, target, refusal, invalid, report, last>>

None == "none"

Nowhere == <<>>

Here == IF open = <<>> THEN "root" ELSE Last(open)

DefaultElement == IF setup.elem = "message" THEN <<0>> ELSE <<>>

WireOfElement == IF setup.elem = "message" THEN "start" ELSE setup.elem

Resized(s, n) == [i \in 1..n |-> IF i <= Len(s) THEN s[i] ELSE 0]

\* while (out->size() <= id) out->emplace_back()
Grown(id) ==
    [i \in 1..(IF id < Len(out) THEN Len(out) ELSE id + 1) |->
        IF i <= Len(out) THEN out[i] ELSE DefaultElement]

-----------------------------------------------------------------------------
(* The tests of one bound each: a category, or None.                       *)

Refuse(n, room) == IF room >= 0 /\ n > room THEN "argument" ELSE None
RefuseSchema(n, bound) == IF bound >= 0 /\ n > bound THEN "invalid" ELSE None
RefuseCap(n, cap) == IF n > cap THEN "limit" ELSE None
RefuseUnbounded(bound, room) == IF bound < 0 /\ room < 0 THEN "argument" ELSE None

\* refuseBound, seqRefuse.
RefuseBound(n, bound, cap) ==
    IF bound >= 0 THEN RefuseSchema(n, bound)
    ELSE IF cap < 0 THEN "argument" ELSE RefuseCap(n, cap)

First(a, b) == IF a = None THEN b ELSE a

\* readString, readBlob, readArray, and with a cap their ...Capped twins; the
\* last test is that of bindString_, bindBlob_ and bindArray_.
ReadRefusal(n, bound, cap, room) ==
    First(IF cap >= 0 THEN RefuseCap(n, cap)
          ELSE First(RefuseUnbounded(bound, room), RefuseSchema(n, bound)),
          Refuse(n, room))

\* The index test of the collectors.
IndexRefusal(id) ==
    IF setup.inline THEN RefuseSchema(id + 1, setup.capacity)
    ELSE RefuseBound(id + 1, setup.cap, setup.dynCap)

\* The row read of FixedMessageSeq and MessageSeq.
RowRefusal(n) ==
    IF setup.inline THEN ReadRefusal(n, setup.elemCapacity, -1, setup.elemCapacity)
    ELSE IF setup.elemMax >= 0
         THEN ReadRefusal(n, setup.elemMax, -1, setup.elemCapacity)
         ELSE ReadRefusal(n, -1, setup.dynElemMax, setup.elemCapacity)

-----------------------------------------------------------------------------
(* One field header.  The callback decides, binds or refuses.              *)

Payload(t) == due' = (t.type # "start")

\* Not of the declared type, or unknown: skipped with all that is in it.
Decline(t) ==
    /\ Payload(t)
    /\ open' = IF t.type = "start" THEN Append(open, "skip") ELSE open
    /\ target' = Nowhere
    /\ UNCHANGED <<out, name, at, refusal, invalid>>

\* latchRefusal_: the first category stays, the decoder is told to stop.
Latch(category) ==
    /\ refusal' = First(refusal, category)
    /\ invalid' = TRUE
    /\ due' = FALSE
    /\ target' = Nowhere
    /\ UNCHANGED <<open, at>>

\* Nothing is bound for an empty payload.
Bind(t, place) ==
    /\ Payload(t)
    /\ target' = IF t.size > 0 THEN place ELSE Nowhere
    /\ UNCHANGED <<open, at, refusal, invalid>>

InSkipped(t) == Here = "skip" /\ Decline(t)

Unknown(t) == Here = "root" /\ t.id \notin {0, 1} /\ Decline(t)

\* A slip: the array is emptied before its type is looked at.
ReadSequenceClearFirst(t) ==
    /\ Here = "root"
    /\ t.id = 0
    /\ out' = <<>>
    /\ open' = IF t.type = "start" THEN <<"list">> ELSE open
    /\ Payload(t)
    /\ target' = Nowhere
    /\ UNCHANGED <<name, at, refusal, invalid>>

\* A wrapper array replaces what the container held; a vector of strings
\* goes on growing.
ReadSequence(t) ==
    /\ Here = "root"
    /\ t.id = 0
    /\ \/ t.type # "start" /\ Decline(t)
       \/ /\ t.type = "start"
          /\ out' = IF setup.elem = "vector" THEN out ELSE <<>>
          /\ open' = <<"list">>
          /\ Payload(t)
          /\ target' = Nowhere
          /\ UNCHANGED <<name, at, refusal, invalid>>

ReadString(t) ==
    /\ Here = "root"
    /\ t.id = 1
    /\ LET refused == ReadRefusal(t.size, setup.nameMax, setup.nameCap, setup.nameCapacity)
       IN  \/ t.type # "text" /\ Decline(t)
           \/ /\ t.type = "text" /\ refused # None
              /\ Latch(refused)
              /\ UNCHANGED <<out, name>>
           \/ /\ t.type = "text" /\ refused = None
              /\ name' = Resized(name, t.size)
              /\ Bind(t, <<"name">>)
              /\ UNCHANGED out

\* FixedStringSeq, FixedBlobSeq: set_len clamps, and the decoder refuses the
\* length that is more than what was bound.
FixedTextElement(t) ==
    IF t.size > setup.elemCapacity
    THEN /\ out' = [Grown(t.id) EXCEPT ![t.id + 1] = Resized(@, setup.elemCapacity)]
         /\ invalid' = TRUE
         /\ due' = FALSE
         /\ target' = Nowhere
         /\ UNCHANGED <<open, at, refusal>>
    ELSE /\ out' = [Grown(t.id) EXCEPT ![t.id + 1] = Resized(@, t.size)]
         /\ Bind(t, <<"out", t.id>>)

\* StringSeq, BlobSeq.
TextElement(t) ==
    LET refused == RefuseBound(t.size, setup.elemMax, setup.dynElemMax)
    IN  IF refused # None
        THEN Latch(refused) /\ UNCHANGED out
        ELSE /\ out' = [Grown(t.id) EXCEPT ![t.id + 1] = Resized(<<>>, t.size)]
             /\ Bind(t, <<"out", t.id>>)

\* FixedMessageSeq, MessageSeq, FixedRowSeq, RowSeq with a row of scalars:
\* the row is placed before its count is judged.
RowElement(t) ==
    LET refused == RowRefusal(t.size)
    IN  IF refused # None
        THEN out' = Grown(t.id) /\ Latch(refused)
        ELSE /\ out' = [Grown(t.id) EXCEPT ![t.id + 1] = Resized(@, t.size)]
             /\ Bind(t, <<"out", t.id>>)

\* The same with a message: it is continued if it exists.
MessageElement(t) ==
    /\ out' = Grown(t.id)
    /\ open' = Append(open, "elem")
    /\ at' = t.id
    /\ Payload(t)
    /\ target' = Nowhere
    /\ UNCHANGED <<refusal, invalid>>

PlaceElement(t) ==
    \/ setup.elem = "message" /\ MessageElement(t)
    \/ setup.elem = "row" /\ RowElement(t)
    \/ setup.elem = "text" /\ setup.inline /\ FixedTextElement(t)
    \/ setup.elem = "text" /\ ~setup.inline /\ TextElement(t)

\* A slip: the fields of an element reach the callback of the array.
ElementAnywhere(t) ==
    /\ Here \in {"list", "elem"}
    /\ setup.elem # "vector"
    /\ t.type = WireOfElement /\ IndexRefusal(t.id) = None
    /\ PlaceElement(t)
    /\ UNCHANGED name

\* A slip: the container grows before the index is judged.
ElementGrowFirst(t) ==
    /\ Here = "list"
    /\ setup.elem # "vector"
    /\ \/ t.type # WireOfElement /\ Decline(t)
       \/ /\ t.type = WireOfElement
          /\ IF IndexRefusal(t.id) # None
             THEN Latch(IndexRefusal(t.id)) /\ out' = Grown(t.id)
             ELSE PlaceElement(t)
          /\ UNCHANGED name

\* deserialize of the collectors: type, index, placement, in this order.
Element(t) ==
    /\ Here = "list"
    /\ setup.elem # "vector"
    /\ \/ t.type # WireOfElement /\ Decline(t)
       \/ /\ t.type = WireOfElement
          /\ IF IndexRefusal(t.id) # None
             THEN Latch(IndexRefusal(t.id)) /\ UNCHANGED out
             ELSE PlaceElement(t)
          /\ UNCHANGED name

\* strArrayElem_, blobArrayElem_: every field gets an element of the length
\* its header states, whatever its id, its type and their number; integers,
\* arrays of them and sequences state none.  The decoder undoes the read of a
\* field of another type, not the element: a blob or an fp32 among strings
\* leaves that many zeros.
Appended(t) ==
    /\ Here = "list"
    /\ setup.elem = "vector"
    /\ Len(out) < MaxLen
    /\ LET n == IF t.type \in {"text", "fixed"} THEN t.size ELSE 0
       IN  /\ out' = Append(out, Resized(<<>>, n))
           /\ target' = IF t.type = "text" /\ n > 0 THEN <<"out", Len(out)>> ELSE Nowhere
    /\ Payload(t)
    /\ open' = IF t.type = "start" THEN Append(open, "skip") ELSE open
    /\ UNCHANGED <<name, at, refusal, invalid>>

\* A scalar is bound unseen; the decoder undoes a read of the wrong type.
ElementField(t) ==
    /\ Here = "elem"
    /\ \/ (t.id # 0 \/ t.type # "num") /\ Decline(t)
       \/ t.id = 0 /\ t.type = "num" /\ Bind(t, <<"out", at>>) /\ UNCHANGED <<out, name>>

\* Headers are looked at until a callback has refused.
Header(t) ==
    /\ ~invalid
    /\ ~due
    /\ t.type = "start" => Len(open) < MaxOpen
    /\ last' = t
    /\ \/ InSkipped(t)
       \/ Unknown(t)
       \/ ReadSequence(t)
       \/ ReadString(t)
       \/ Element(t)
       \/ Appended(t)
       \/ ElementField(t)
    /\ UNCHANGED <<setup, report>>

Marker(type, n) == [id |-> 0, type |-> type, size |-> n]

\* The decoder stores the payload where the callback bound it.
Fill(v) ==
    /\ due
    /\ due' = FALSE
    /\ target' = Nowhere
    /\ last' = Marker("data", v)
    /\ out' = [i \in 1..Len(out) |->
                  IF target = <<"out", i - 1>> THEN [b \in 1..Len(out[i]) |-> v] ELSE out[i]]
    /\ name' = IF target = <<"name">> THEN [b \in 1..Len(name) |-> v] ELSE name
    /\ UNCHANGED <<setup, open, at, refusal, invalid, report>>

SequenceEnd ==
    /\ ~invalid
    /\ ~due
    /\ open # <<>>
    /\ open' = Front(open)
    /\ last' = Marker("end", 0)
    /\ UNCHANGED <<setup, out, name, at, due, target, refusal, invalid, report>>

\* feed() returns, at any byte; the next one goes on.
FeedReturns ==
    /\ report' = IF refusal # None THEN refusal
                 ELSE IF invalid THEN "invalid"
                 ELSE IF due \/ open # <<>> THEN "incomplete" ELSE "ok"
    /\ UNCHANGED <<setup, out, name, open, at, due, target, refusal, invalid, last>>

Tokens == [id : Ids, type : {"text", "row", "num"}, size : Sizes]
              \cup [id : Ids, type : {"fixed"}, size : Widths]
              \cup [id : Ids, type : {"start"}, size : {0}]

\* A scalar has a payload of its own.
WellSized(t) == t.type = "num" => t.size = 1

Init ==
    /\ setup \in Setups
    /\ out = <<>>
    /\ name = <<>>
    /\ open = <<>>
    /\ at = 0
    /\ due = FALSE
    /\ target = Nowhere
    /\ refusal = None
    /\ invalid = FALSE
    /\ report = None
    /\ last = Marker("begin", 0)

Next ==
    \/ \E t \in Tokens : WellSized(t) /\ Header(t)
    \/ \E v \in Values : Fill(v)
    \/ SequenceEnd
    \/ FeedReturns

Spec == Init /\ [][Next]_vars

-----------------------------------------------------------------------------
\* The bounds as the schema, the deployment and the storage state them.
IndexLimit ==
    IF setup.inline THEN [schema |-> setup.capacity, receiver |-> -1, room |-> -1]
    ELSE [schema |-> setup.cap, receiver |-> setup.dynCap, room |-> -1]

ElementLimit ==
    CASE setup.inline /\ setup.elem = "text" ->
            [schema |-> setup.elemCapacity, receiver |-> -1, room |-> -1]
      [] setup.inline /\ setup.elem # "text" ->
            [schema |-> setup.elemCapacity, receiver |-> -1, room |-> setup.elemCapacity]
      [] OTHER -> [schema |-> setup.elemMax, receiver |-> setup.dynElemMax,
                   room |-> setup.elemCapacity]

NameLimit ==
    [schema |-> setup.nameMax, receiver |-> setup.nameCap, room |-> setup.nameCapacity]

\* What is being received has no contents yet.
Masked(s) == [i \in 1..Len(s) |-> 0]

Value ==
    [list |-> [i \in 0..Len(out) - 1 |->
                  IF target = <<"out", i>> /\ setup.elem # "message" THEN Masked(out[i + 1])
                  ELSE out[i + 1]],
     name |-> IF target = <<"name">> THEN Masked(name) ELSE name]

Limits == [index |-> IndexLimit, element |-> ElementLimit, name |-> NameLimit]

\* What the message has been judged so far.
Standing == IF refusal # None THEN refusal ELSE IF invalid THEN "invalid" ELSE None

Abstract == INSTANCE ElementArray
    WITH limits <- Limits, kind <- setup.elem, longest <- MaxLen, val <- Value,
         verdict <- Standing

\* Decoding through collectors yields the array the message means: elements
\* sit at their id, gaps hold defaults, the length is the highest id plus
\* one, an element that comes again is continued or replaced, a field of the
\* wrong type leaves no trace.  A value that breaks a bound is refused with
\* the category of the first bound it breaks, and that is what every later
\* feed reports.  Not so when the array is read straight into a vector: there
\* every field, of whatever type, leaves one element more, although read()
\* documents one element per string or blob (sofab.hpp:3458, 3470), and
\* nothing is refused.  (IStreamImpl, the collectors, strArrayElem_)
ImplementsArray == Abstract!Spec

\* No number the sender chose sizes a string, the container of a collector or
\* one of its elements beyond a bound that was stated to the receiver, not
\* even in a message that is then refused; where none was stated nothing is
\* sized at all.  A vector that is read without a collector is the exception:
\* its number of elements and their lengths are the sender's, no bound applies
\* (strArrayElem_, blobArrayElem_).  (refuseBound, refuseSchema, refuseCap,
\* refuseUnbounded, refuse)
SizedWithinBounds ==
    /\ setup.elem # "vector" => Abstract!Judge(Len(out), IndexLimit) = None \/ out = <<>>
    /\ \A i \in 1..Len(out) :
          setup.elem \in {"text", "row"} =>
              (Abstract!Judge(Len(out[i]), ElementLimit) = None \/ out[i] = <<>>)
    /\ Abstract!Judge(Len(name), NameLimit) = None \/ name = <<>>

\* A growable container may move its elements when it grows, and the decoder
\* keeps the address of what it is to fill next: of a payload, of a message.
\* It does not grow while such an address is outstanding.  (the collectors,
\* strArrayElem_)
TargetsStayPut ==
    [][ Len(out') > Len(out) => target = Nowhere /\ "elem" \notin ToSet(open) ]_vars

\* Types, and how the decoders that are active nest: the array is the field of
\* the message, its elements are the messages in it, whose place is kept.
Nested ==
    \A i \in 1..Len(open) :
        /\ open[i] = "list" => i = 1
        /\ open[i] = "elem" => i = 2 /\ setup.elem = "message" /\ at < Len(out)

TypeOK ==
    /\ setup \in Setups
    /\ out \in Seq(Seq(Nat)) /\ name \in Seq(Nat)
    /\ open \in Seq({"list", "elem", "skip"})
    /\ at \in Nat
    /\ due \in BOOLEAN /\ invalid \in BOOLEAN
    /\ refusal \in {None, "argument", "invalid", "limit"}
    /\ target \in {Nowhere, <<"name">>} \cup {<<"out", i>> : i \in 0..Len(out) - 1}

\* What every step of the collectors preserves: a payload has a place only
\* while it is outstanding, a refusal is never without the stop of the decoder.
Inductive ==
    /\ TypeOK
    /\ Nested
    /\ SizedWithinBounds
    /\ refusal # None => invalid
    /\ target # Nowhere => due
=============================================================================
