----------------------------- MODULE MCIStream -----------------------------
(* Values for the constants of IStreamProps.                               *)
EXTENDS IStreamReads

\* One read of each kind, with a destination that is too small for some of
\* what the wire may carry, and two of a width the decoder cannot store to.
MCReads ==
    {Decline, ReadSequence, ReadBool, ReadString(2), ReadStringNoterm(1), ReadBlob(2),
     ReadInteger("VU", 1), ReadInteger("VS", 1), ReadFloat("fp32"),
     ReadIntegers("ARR_U", 2, 1), ReadIntegers("ARR_S", 0, 2), ReadBools(1),
     ReadFloats("fp32", 1), ReadFloats("fp64", 2),
     ReadInteger("VU", 3), ReadIntegers("ARR_S", 2, 3)}

\* The NULL destination of a zero-element array, as read_array admits it.
NullReads ==
    {Decline, [ReadIntegers("ARR_U", 0, 1) EXCEPT !.null = TRUE]}

SequenceReads == {ReadSequence}
=============================================================================
