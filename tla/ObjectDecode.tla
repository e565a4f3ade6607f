---------------------------- MODULE ObjectDecode ----------------------------
(***************************************************************************)
(* sofab_object_field_cb, src/src/object.c: the field callback with which  *)
(* the streaming decoder fills an object.  The caller provides an array of *)
(* handles, one per nesting level; opening a nested object initialises the *)
(* next one.  One step is a field header with what the decoder then does   *)
(* with the payload, or an end marker; what the decoder of module IStream  *)
(* contributes (skipping, the roll-back of a contradicting read, the       *)
(* capacity checks) is part of the step.                                   *)
(***************************************************************************)
EXTENDS ObjectSchema

CONSTANTS
    MaxLevels,  \* handles in the caller's array
    MaxDepth,   \* SOFAB_MAX_DEPTH, nesting the decoder admits
    Tokens      \* bound: the tokens a message is made of

ASSUME DecodeAssumption ==
    /\ MaxLevels \in Nat \ {0}
    /\ MaxDepth \in Nat
    /\ Tokens \subseteq Token
    /\ "none" \notin Nodes

VARIABLES
    obj,      \* the object
    handles,  \* handles[1..level]: info and dst of the open levels
    level,    \* the handle of the active level
    skip,     \* levels being skipped within it
    invalid,  \* ctx->invalid
    last      \* history: the token just taken

decodeVars == <<obj, handles, level, skip, invalid, last>>

Info == handles[level]

Slot(t) == {k \in Kids(Info) : Id(k) = t.id}

Nothing == [n \in {} |-> <<>>]

\* A slip: the element received last ends the array.
ObserveLast(k) ==
    CASE Kind(Info) = "sized" -> At(Info, <<Id(k) + 1>>)
      [] Kind(Info) = "union" -> At(Info, <<Id(k)>>)
      [] OTHER -> Nothing

\* _seq_len_observe: what a field k of the active object that was bound does
\* to the count or the tag of that object.
Observe(k) ==
    CASE Kind(Info) = "sized" ->
            LET length == AtMost(Id(k) + 1, Len(Schema[Info].kids))
            IN  At(Info, <<IF length > obj[Info][1] THEN length ELSE obj[Info][1]>>)
      [] Kind(Info) = "union" -> At(Info, <<Id(k)>>)
      [] OTHER -> Nothing

\* What the decoder refuses to store (module IStream).
TooLarge(k, val) == IF Kind(k) = "num" THEN val[1] > Cap(k) ELSE Len(val) > Cap(k)

\* What is in the storage of field k after the payload: the decoder clears
\* the tail of an array, and leaves that of a blob alone; the length member
\* is the callback's.
Payload(k, val) ==
    CASE Kind(k) = "arr" -> [i \in 1..Cap(k) |-> IF i <= Len(val) THEN val[i] ELSE 0]
      [] Kind(k) = "blob" -> val \o SubSeq(obj[k], Len(val) + 1, Len(obj[k]))
      [] OTHER -> val

Invalidate == invalid' = TRUE /\ UNCHANGED <<handles, level, skip>>

\* An id no slot has is an element of a wrapper beyond its bound, if its type
\* is that of the elements; anywhere else it is a field of a later version.
OverIndex(t) ==
    /\ Wrapper(Info)
    /\ Slot(t) = {}
    /\ Kids(Info) # {}
    /\ WireType(Schema[Info].kids[1]) \in {t.type, "none"}

TooDeep(t) == t.tok = "start" /\ level - 1 + skip = MaxDepth

RejectDepth(t) == TooDeep(t) /\ Invalidate /\ UNCHANGED obj

\* Nested in something that is skipped: no callback runs.
Masked(t) ==
    /\ skip > 0
    /\ skip' = CASE t.tok = "start" -> skip + 1
                 [] t.tok = "end" -> skip - 1
                 [] OTHER -> skip
    /\ UNCHANGED <<obj, handles, level, invalid>>

RejectIndex(t) ==
    /\ skip = 0
    /\ t.tok # "end"
    /\ OverIndex(t)
    /\ Invalidate
    /\ UNCHANGED obj

\* The callback binds nothing, or a read whose type contradicts the header.
Unbound(t) ==
    /\ skip = 0
    /\ t.tok # "end"
    /\ ~OverIndex(t)
    /\ \A k \in Slot(t) : WireType(k) # t.type
    /\ skip' = IF t.tok = "start" THEN 1 ELSE 0
    /\ UNCHANGED <<obj, handles, level, invalid>>

\* After a rejection the contents of the refused field are of no concern and
\* stay what they were; the code may have stored part of them.
BindLeaf(t) ==
    /\ skip = 0
    /\ t.tok = "leaf"
    /\ \E k \in Slot(t) :
          /\ WireType(k) = t.type
          /\ IF TooLarge(k, t.val)
             THEN obj' = Store(obj, Observe(k)) /\ Invalidate
             ELSE /\ obj' = Store(obj, With(Observe(k), At(k, Payload(k, t.val))))
                  /\ UNCHANGED <<handles, level, skip, invalid>>

\* A slip: the end of the caller's handles is not looked for.
OpenUnchecked(t) ==
    /\ skip = 0
    /\ t.tok = "start"
    /\ \E k \in Slot(t) :
          /\ WireType(k) = "start"
          /\ obj' = LET opened == IF Wrapper(k) \/ NotHeld(obj, Info, k)
                                  THEN Seed(obj, k) ELSE obj
                    IN  Store(opened, Observe(k))
          /\ handles' = [handles EXCEPT ![level + 1] = k]
          /\ level' = level + 1
    /\ UNCHANGED <<skip, invalid>>

\* A wrapper array is replaced when it is opened again; an option that the
\* union did not hold starts from its default.
OpenSequence(t) ==
    /\ skip = 0
    /\ t.tok = "start"
    /\ level < MaxLevels
    /\ \E k \in Slot(t) :
          /\ WireType(k) = "start"
          /\ obj' = LET opened == IF Wrapper(k) \/ NotHeld(obj, Info, k)
                                  THEN Seed(obj, k) ELSE obj
                    IN  Store(opened, Observe(k))
          /\ handles' = [handles EXCEPT ![level + 1] = k]
          /\ level' = level + 1
    /\ UNCHANGED <<skip, invalid>>

\* No handle is left for a nested object: it is skipped.
OutOfHandles(t) ==
    /\ skip = 0
    /\ t.tok = "start"
    /\ level = MaxLevels
    /\ \E k \in Slot(t) : WireType(k) = "start"
    /\ skip' = 1
    /\ UNCHANGED <<obj, handles, level, invalid>>

CloseSequence(t) ==
    /\ skip = 0
    /\ t.tok = "end"
    /\ IF level > 1
       THEN level' = level - 1 /\ UNCHANGED <<obj, handles, skip, invalid>>
       ELSE Invalidate /\ UNCHANGED obj

Receive(t) ==
    /\ ~invalid
    /\ last' = t
    /\ \/ RejectDepth(t)
       \/ /\ ~TooDeep(t)
          /\ \/ Masked(t)
             \/ RejectIndex(t)
             \/ Unbound(t)
             \/ BindLeaf(t)
             \/ OpenSequence(t)
             \/ OutOfHandles(t)
             \/ CloseSequence(t)

DecodeInit ==
    /\ obj = InitObject
    /\ handles = [l \in 1..MaxLevels |-> Root]
    /\ level = 1
    /\ skip = 0
    /\ invalid = FALSE
    /\ last = "none"

DecodeNext == \E t \in Tokens : Receive(t)

DecodeSpec == DecodeInit /\ [][DecodeNext]_decodeVars

-----------------------------------------------------------------------------
\* The open levels use the caller's handles and no more, are nested in each
\* other from the root on, and stay within the nesting that is admitted,
\* those that are skipped included.
\* (sofab_object_field_cb, the handle array of sofab_object_decoder_t)
DecodeTypeOK ==
    /\ obj \in Memory
    /\ handles \in [1..MaxLevels -> Nodes]
    /\ level \in 1..MaxLevels
    /\ skip \in Nat
    /\ level - 1 + skip <= MaxDepth
    /\ invalid \in BOOLEAN
    /\ handles[1] = Root
    /\ \A l \in 1..level : ~Leaf(handles[l])
    /\ \A l \in 2..level : handles[l] \in Kids(handles[l - 1])

\* What makes ImplementsValue inductive: the active object is part of the
\* value, and the elements beyond the length of an array are at their defaults,
\* so that they can become part of it.
DecodeInductive ==
    /\ DecodeTypeOK
    /\ ~invalid =>
          /\ Info \in Live(obj)
          /\ \A n \in Live(obj) : \A k \in Kids(n) :
                (Kind(n) = "sized" /\ ~Chosen(obj, n, k)) =>
                    \A x \in Seeded[k] : obj[x] = Default(x)

\* The sequences open, as the abstract value sees them.
OpenLevels == [l \in 1..level + skip |-> IF l <= level THEN handles[l] ELSE "none"]

Value == INSTANCE ObjectValue
            WITH val <- View(obj), open <- OpenLevels, rejected <- invalid

\* Decoding in place has the meaning of the message: the last occurrence of a
\* field counts, structs are continued, wrapper arrays replaced, a union holds
\* the option received last, from its default or as it was; an element array
\* is as long as its highest element; a field of the wrong type, an unknown
\* one and one too deep leave no trace.  In particular no byte of another
\* option, of an earlier array or of a skipped field shows up in the value.
\* (sofab_object_field_cb, _seq_len_observe, sofab_object_init)
ImplementsValue == Value!Spec
=============================================================================
