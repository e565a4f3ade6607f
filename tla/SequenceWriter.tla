--------------------------- MODULE SequenceWriter ---------------------------
(***************************************************************************)
(* What the encoder promises about structure, with no buffer, no sink and  *)
(* no varints: the wire is a growing list of tokens in which sequences     *)
(* nest properly.  A sequence may be opened without reaching the wire; it  *)
(* then either gets its header before anything else is written, or         *)
(* disappears without a trace.                                             *)
(***************************************************************************)
EXTENDS Naturals, Sequences, SequencesExt

CONSTANTS
    Ids,        \* field ids
    HoldLimit   \* how many headers may be held back at once

VARIABLES
    wire,   \* tokens on the wire, [tok, id]
    open,   \* ids of the open sequences with a header on the wire
    held    \* ids of the open sequences that are not on the wire

vars == <<wire, open, held>>

Init == wire = <<>> /\ open = <<>> /\ held = <<>>

Put(tok, id) == wire' = Append(wire, [tok |-> tok, id |-> id])

\* An open sequence that has not reached the wire.
Hold ==
    /\ Len(held) < HoldLimit
    /\ \E id \in Ids : held' = Append(held, id)
    /\ UNCHANGED <<wire, open>>

\* Headers reach the wire outermost first.
Commit ==
    /\ held # <<>>
    /\ held' = Tail(held)
    /\ open' = Append(open, Head(held))
    /\ Put("held", Head(held))

\* Anything else is written only when every enclosing sequence is framed.
Write ==
    /\ held = <<>>
    /\ UNCHANGED <<open, held>>
    /\ \E id \in Ids : Put("field", id)

Open ==
    /\ held = <<>>
    /\ UNCHANGED held
    /\ \E id \in Ids : open' = Append(open, id) /\ Put("start", id)

Close(tok) ==
    /\ held = <<>>
    /\ open # <<>>
    /\ open' = Front(open)
    /\ UNCHANGED held
    /\ Put(tok, 0)

\* A closer with nothing to close.
Stray ==
    /\ held = <<>>
    /\ open = <<>>
    /\ UNCHANGED <<open, held>>
    /\ Put("stray", 0)

\* The innermost sequence had no content: it leaves no trace.
Drop ==
    /\ held # <<>>
    /\ held' = Front(held)
    /\ UNCHANGED <<wire, open>>

Next ==
    \/ Hold
    \/ Commit
    \/ Write
    \/ Open
    \/ \E tok \in {"end", "keep"} : Close(tok)
    \/ Stray
    \/ Drop

Spec == Init /\ [][Next]_vars
=============================================================================
