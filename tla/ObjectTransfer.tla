--------------------------- MODULE ObjectTransfer ---------------------------
(***************************************************************************)
(* An object on its way: sofab_object_encode writes it (ObjectEncode), a   *)
(* receiver decodes the message into an object of the same descriptor that *)
(* was just initialised (ObjectDecode), and encodes what it got once more. *)
(***************************************************************************)
EXTENDS ObjectEncode, ObjectDecode

VARIABLES
    phase,  \* "encode", "decode", "again"
    sent,   \* the object sent and its message
    got     \* tokens the receiver has consumed

transferVars == <<vars, decodeVars, phase, sent, got>>

TransferInit(objects) ==
    /\ Init(objects)
    /\ DecodeInit
    /\ phase = "encode"
    /\ sent = [obj |-> src, wire |-> <<>>]
    /\ got = 0

Encode ==
    /\ phase \in {"encode", "again"}
    /\ Next
    /\ UNCHANGED <<decodeVars, phase, sent, got>>

Send ==
    /\ phase = "encode"
    /\ result = "ok"
    /\ phase' = "decode"
    /\ sent' = [sent EXCEPT !.wire = wire]
    /\ UNCHANGED <<vars, decodeVars, got>>

Arrived == phase = "decode" /\ got = Len(wire)

\* The message is consumed token by token.
Deliver ==
    /\ phase = "decode"
    /\ got < Len(wire)
    /\ Receive(wire[got + 1])
    /\ got' = got + 1
    /\ UNCHANGED <<vars, phase, sent>>

EncodeAgain ==
    /\ Arrived
    /\ phase' = "again"
    /\ src' = obj
    /\ stack' = <<Frame(Root)>>
    /\ wire' = <<>>
    /\ full' = FALSE
    /\ errors' = {}
    /\ result' = "none"
    /\ UNCHANGED <<decodeVars, sent, got>>

TransferNext == Encode \/ Send \/ Deliver \/ EncodeAgain

TransferSpec(objects) == TransferInit(objects) /\ [][TransferNext]_transferVars

-----------------------------------------------------------------------------
\* The contents of an object of this descriptor: a number is one of its C
\* type, an array and a blob fill the storage they have.
Fit(m) ==
    \A n \in Live(m) :
        /\ Kind(n) = "num" => Len(m[n]) = 1 /\ m[n][1] <= Cap(n)
        /\ Kind(n) \in {"arr", "blob"} => Len(m[n]) = Cap(n)

\* How deep every node is, and no deeper than the receiver has handles for and
\* its decoder follows.
Depths ==
    {d \in [Nodes -> Nat] :
        /\ d[Root] = 1
        /\ \A p \in Nodes : \A k \in Kids(p) :
              /\ d[k] = d[p] + 1
              /\ ~Leaf(k) => d[k] <= MaxLevels /\ d[k] <= MaxDepth + 1}

\* What arrives is what was sent: the elided defaults, the elements and
\* options left out, the length of every array, the option a union holds are
\* all restored, and the message ends where the receiver is at the top level
\* again.  (sofab_object_encode with sofab_object_field_cb)
RoundTrip ==
    phase = "decode" =>
        /\ ~invalid
        /\ Arrived => /\ level = 1 /\ skip = 0
                      /\ View(obj) = View(Normal(sent.obj))

\* The encoding is canonical: what a receiver makes of a message encodes to
\* the same message, if there is room for it, whatever was left in storage
\* that is not in use.
\* (_field_is_default, sofab_object_encode)
Reencodes ==
    (phase = "again" /\ result # "none" /\ ~full) => result = "ok" /\ wire = sent.wire
=============================================================================
