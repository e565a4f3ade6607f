---------------------------- MODULE ObjectValue -----------------------------
(***************************************************************************)
(* What decoding into an object promises: the meaning of a message as a    *)
(* value, with no memory behind it.  A value has no storage for what is    *)
(* not part of it: the options a union does not hold and the elements an   *)
(* array does not have are not there, so nothing stale can show through.   *)
(* A field of the wrong type and a field nobody knows have no effect.      *)
(***************************************************************************)
EXTENDS ObjectSchema

CONSTANTS
    MaxLevels,  \* nested objects that can be told apart, the root included
    MaxDepth,   \* nesting of sequences that is admitted at all
    Tokens      \* what a message is made of

VARIABLES
    val,      \* the value: contents of the nodes that are part of it
    open,     \* the sequences open, outermost first; None if not understood
    last,     \* the token just taken
    rejected  \* the message has been rejected

vars == <<val, open, last, rejected>>

None == "none"

Parts ==
    Down([n \in Nodes |->
             {k \in Kids(n) : /\ Kind(n) # "sized"
                              /\ Kind(n) = "union" => Default(n) = <<Id(k)>>}])

Fresh(n) == [x \in Parts[n] |-> Default(x)]

Without(f, gone) == [x \in DOMAIN f \ gone |-> f[x]]

Here == open[Len(open)]

\* The field a token is for.
Target(t) ==
    {k \in IF Here = None THEN {} ELSE Kids(Here) : Id(k) = t.id}

Understood(t) == {k \in Target(t) : WireType(k) = t.type}

\* The value once its field k, of the object that is open, exists: a union
\* changes over to the option, an array grows to the element.
Reach(k) ==
    LET new == {c \in Kids(Here) : Id(c) <= Id(k) /\ Id(c) >= val[Here][1]}
    IN  CASE Kind(Here) = "union" /\ val[Here] # <<Id(k)>> ->
                With(With(Without(val, Below[Here]), At(Here, <<Id(k)>>)), Fresh(k))
          [] Kind(Here) = "sized" /\ Id(k) >= val[Here][1] ->
                With(With(val, At(Here, <<Id(k) + 1>>)),
                     [x \in UNION {Parts[c] : c \in new} |-> Default(x)])
          [] OTHER -> val

TooLarge(k, v) == IF Kind(k) = "num" THEN v[1] > Cap(k) ELSE Len(v) > Cap(k)

\* The contents of a field of fixed extent that was sent in part.
Filled(k, v, old) ==
    CASE Kind(k) = "arr" -> [i \in 1..Cap(k) |-> IF i <= Len(v) THEN v[i] ELSE 0]
      [] Kind(k) = "blob" -> v \o SubSeq(old, Len(v) + 1, Len(old))
      [] OTHER -> v

\* An element beyond the last slot of a wrapper.
OverIndex(t) ==
    /\ Here # None
    /\ Wrapper(Here)
    /\ Target(t) = {}
    /\ \E k \in Kids(Here) : WireType(k) \in {t.type, "none"}

Reject == rejected' = TRUE /\ UNCHANGED open

TakeLeaf(t) ==
    /\ t.tok = "leaf"
    /\ \/ OverIndex(t) /\ Reject
       \/ \E k \in Understood(t) : TooLarge(k, t.val) /\ Reject
       \/ \E k \in Understood(t) :
             /\ ~TooLarge(k, t.val)
             /\ val' = [Reach(k) EXCEPT ![k] = Filled(k, t.val, @)]
             /\ UNCHANGED <<open, rejected>>
       \/ /\ Understood(t) = {}
          /\ ~OverIndex(t)
          /\ UNCHANGED <<val, open, rejected>>

\* A wrapper array that is opened again is replaced; a struct is continued.
Opened(k) ==
    IF Wrapper(k) THEN With(Without(Reach(k), Below[k]), Fresh(k)) ELSE Reach(k)

TakeStart(t) ==
    /\ t.tok = "start"
    /\ \/ (Len(open) > MaxDepth \/ OverIndex(t)) /\ Reject
       \/ \E k \in Understood(t) :
             /\ Len(open) < MaxLevels
             /\ Len(open) <= MaxDepth
             /\ val' = Opened(k)
             /\ open' = Append(open, k)
             /\ UNCHANGED rejected
       \/ /\ Understood(t) = {} \/ Len(open) >= MaxLevels
          /\ Len(open) <= MaxDepth
          /\ ~OverIndex(t)
          /\ open' = Append(open, None)
          /\ UNCHANGED <<val, rejected>>

TakeEnd(t) ==
    /\ t.tok = "end"
    /\ IF Len(open) > 1
       THEN open' = Front(open) /\ UNCHANGED <<val, rejected>>
       ELSE Reject

Init ==
    /\ val = Fresh(Root)
    /\ open = <<Root>>
    /\ last = None
    /\ rejected = FALSE

Next ==
    /\ ~rejected
    /\ \E t \in Tokens :
          /\ last' = t
          /\ TakeLeaf(t) \/ TakeStart(t) \/ TakeEnd(t)

Spec == Init /\ [][Next]_vars
=============================================================================
