---------------------------- MODULE ObjectEncode ----------------------------
(***************************************************************************)
(* sofab_object_encode, src/src/object.c: the walk over a descriptor that  *)
(* writes an object, one field per step, with the C call stack as a        *)
(* variable.  The stream it writes to may run out of room at any write and *)
(* then stays full (module OStream); a write is all or nothing here, since *)
(* nobody reads a message whose encoding failed.                           *)
(***************************************************************************)
EXTENDS ObjectSchema, Integers

CONSTANT MayFill    \* the stream can run out of room

ASSUME EncodeAssumption == MayFill \in BOOLEAN

VARIABLES
    src,    \* the object
    stack,  \* activations of sofab_object_encode: [node, i, ret]
    wire,   \* the message so far: [tok, id, type, val]
    full,   \* the stream is out of room
    errors, \* history: the errors of all calls made
    result  \* what the outermost call returned, "none" before

vars == <<src, stack, wire, full, errors, result>>

Frame(n) == [node |-> n, i |-> 1, ret |-> "ok"]

Top == stack[Len(stack)]

\* Slots of an array past its length are not walked.
Count(n) == IF Wrapper(n) THEN SeqLen(n, src) ELSE Len(Schema[n].kids)

Looping == stack # <<>> /\ Top.ret = "ok" /\ Top.i <= Count(Top.node)

Field == Schema[Top.node].kids[Top.i]

\* The last element carries the length of a wrapper array.
ElementHeld == Wrapper(Top.node) /\ Top.i = Count(Top.node)

Skipped == ~ElementHeld /\ IsDefault(src)[<<Top.node, Field>>]

\* A slip: the last call's result stands.
OrLast(a, b) == b

\* ret |= other: SOFAB_RET_E_ARGUMENT is 2, SOFAB_RET_E_BUFFER_FULL is 3.
Or(a, b) ==
    IF "full" \in {a, b} THEN "full" ELSE IF "arg" \in {a, b} THEN "arg" ELSE "ok"

\* A write of the token t returns r.
Write(t, r) ==
    /\ r \in IF full THEN {"full"} ELSE IF MayFill THEN {"ok", "full"} ELSE {"ok"}
    /\ full' = (r = "full")
    /\ wire' = IF r = "ok" THEN Append(wire, t) ELSE wire
    /\ errors' = errors \cup ({r} \ {"ok"})

FrameResult(r) == [stack EXCEPT ![Len(stack)].ret = r]
Onward(frame, r) == [node |-> frame.node, i |-> frame.i + 1, ret |-> r]
NextField(r) == [stack EXCEPT ![Len(stack)] = Onward(Top, r)]

SkipField ==
    /\ Looping
    /\ Skipped
    /\ stack' = NextField("ok")
    /\ UNCHANGED <<src, wire, full, errors, result>>

\* A string without a terminator, a field of an unsupported type.
Refused(n) == \/ Kind(n) = "str" /\ Len(src[n]) > Cap(n)
              \/ Kind(n) = "odd"

RefuseField ==
    /\ Looping
    /\ ~Skipped
    /\ Refused(Field)
    /\ stack' = FrameResult("arg")
    /\ errors' = errors \cup {"arg"}
    /\ UNCHANGED <<src, wire, full, result>>

WriteField ==
    /\ Looping
    /\ ~Skipped
    /\ Leaf(Field)
    /\ ~Refused(Field)
    /\ \E r \in {"ok", "full"} :
          /\ Write([tok |-> "leaf", id |-> Id(Field), type |-> WireType(Field),
                    val |-> Used(Field, src)], r)
          /\ stack' = NextField(r)
    /\ UNCHANGED <<src, result>>

\* The nested object is walked whatever became of its header.
EnterSequence ==
    /\ Looping
    /\ ~Skipped
    /\ ~Leaf(Field)
    /\ \E r \in {"ok", "full"} :
          /\ Write([tok |-> "start", id |-> Id(Field), type |-> "start", val |-> <<>>], r)
          /\ stack' = Append(FrameResult(r), Frame(Field))
    /\ UNCHANGED <<src, result>>

Returning == stack # <<>> /\ ~Looping

\* A slip: a nested object that failed is not closed.
LeaveUnclosed ==
    /\ Returning
    /\ Len(stack) > 1
    /\ LET caller == stack[Len(stack) - 1] IN
       \E r \in {"ok", "arg", "full"} :
          /\ IF Top.ret = "ok"
             THEN Write([tok |-> "end", id |-> 0, type |-> "end", val |-> <<>>], r)
             ELSE r = Top.ret /\ UNCHANGED <<wire, full, errors>>
          /\ stack' = Append(SubSeq(stack, 1, Len(stack) - 2),
                             Onward(caller, Or(caller.ret, Or(Top.ret, r))))
    /\ UNCHANGED <<src, result>>

\* Back in the caller, which closes the sequence whatever the nested call
\* returned.
LeaveSequence ==
    /\ Returning
    /\ Len(stack) > 1
    /\ LET caller == stack[Len(stack) - 1] IN
       \E r \in {"ok", "full"} :
          /\ Write([tok |-> "end", id |-> 0, type |-> "end", val |-> <<>>], r)
          /\ stack' = Append(SubSeq(stack, 1, Len(stack) - 2),
                             Onward(caller, Or(Or(caller.ret, Top.ret), r)))
    /\ UNCHANGED <<src, result>>

Finish ==
    /\ Returning
    /\ Len(stack) = 1
    /\ stack' = <<>>
    /\ result' = Top.ret
    /\ UNCHANGED <<src, wire, full, errors>>

Init(objects) ==
    /\ src \in objects
    /\ stack = <<Frame(Root)>>
    /\ wire = <<>>
    /\ full = FALSE
    /\ errors = {}
    /\ result = "none"

Next ==
    \/ SkipField
    \/ RefuseField
    \/ WriteField
    \/ EnterSequence
    \/ LeaveSequence
    \/ Finish

EncodeSpec(objects) == Init(objects) /\ [][Next]_vars

-----------------------------------------------------------------------------
Errors == {"arg", "full"}

Frames == [node : Nodes, i : Nat \ {0}, ret : Errors \cup {"ok"}]

TypeOK ==
    /\ src \in Memory
    /\ stack \in Seq(Frames)
    /\ wire \in Seq(Token)
    /\ full \in BOOLEAN
    /\ errors \subseteq Errors
    /\ result \in Errors \cup {"none", "ok"}

\* How many sequences the message leaves open.
Sent(tok) == {j \in 1..Len(wire) : wire[j].tok = tok}
StillOpen == Cardinality(Sent("start")) - Cardinality(Sent("end"))

\* The gravest of some errors.
Gravest(errs) == IF "full" \in errs THEN "full" ELSE IF "arg" \in errs THEN "arg" ELSE "ok"

\* The encoder reports an error if and only if one happened, however deep:
\* it is carried through every "ret |=" to the outermost call, as the graver
\* of the errors that occurred.  (sofab_object_encode)
ErrorsSurface ==
    result # "none" => result = Gravest(errors)

\* Whatever fails inside a nested object, the sequences on the wire are
\* closed again, as long as there is room.  (sofab_object_encode)
FramesClosed ==
    (result # "none" /\ ~full) => StillOpen = 0

\* Only a value other than that of a fresh object costs bytes; its value is
\* all that decides.  (_field_is_default, sofab_object_encode)
DefaultIsEmpty ==
    result = "ok" => (wire = <<>> <=> View(Normal(src)) = View(InitObject))

-----------------------------------------------------------------------------
(* What makes ErrorsSurface and FramesClosed inductive.                    *)

\* An error that happened is still in one of the activations on its way out.
ErrorsCarried ==
    stack # <<>> => Gravest(errors) = Gravest({stack[j].ret : j \in 1..Len(stack)})

\* Every activation but the outermost has its sequence open on the wire.
FramesOpen ==
    stack # <<>> /\ ~full => StillOpen = Len(stack) - 1

\* The walk ends once, with the outermost activation.
WalkEnds == stack = <<>> <=> result # "none"

Inductive ==
    TypeOK /\ ErrorsCarried /\ FramesOpen /\ WalkEnds /\ ErrorsSurface /\ FramesClosed
=============================================================================
