----------------------------- MODULE MCOStream -----------------------------
(* Values for the constants of OStreamWire.                                *)
EXTENDS OStreamWire

\* Header varints of one and of two bytes.
MCIdLen == [id \in Ids |-> IF id = 1 THEN 1 ELSE 2]

\* A streaming buffer with room for a framing header, and what an NDEBUG build
\* does not reject: a buffer with nothing but that room, and an empty one.
StreamInstalls ==
    {[len |-> 3, off |-> 1], [len |-> 1, off |-> 1], [len |-> 0, off |-> 0]}

MCBodyLens == {0, 1}
=============================================================================
