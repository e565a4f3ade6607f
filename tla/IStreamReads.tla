---------------------------- MODULE IStreamReads ----------------------------
(***************************************************************************)
(* The typed reads of src/src/include/sofab/istream.h: what each passes to *)
(* read_field and read_array of module IStream as size and option word.    *)
(***************************************************************************)
EXTENDS IStreamProps

Opt(ft, sub, term, bool) == [ft |-> ft, sub |-> sub, term |-> term, bool |-> bool]

ReadField(opt0, size) ==
    [call |-> "field", size |-> size, num |-> 0, opt |-> opt0, null |-> FALSE]

ReadArray(opt0, num, size) ==
    [call |-> "array", size |-> size, num |-> num, opt |-> opt0, null |-> FALSE]

ReadSequence ==
    [call |-> "sequence", size |-> 1, num |-> 0, null |-> FALSE,
     opt |-> Opt("START", "none", FALSE, FALSE)]

\* read_i8 .. read_u64: "VU" or "VS", and the width of the variable.
ReadInteger(ft, width) == ReadField(Opt(ft, "none", FALSE, FALSE), width)

ReadBool == ReadField(Opt("VU", "none", FALSE, TRUE), 1)

\* read_fp32, read_fp64.
ReadFloat(sub) == ReadField(Opt("FIX", sub, FALSE, FALSE), Width(sub))

ReadString(size) == ReadField(Opt("FIX", "string", TRUE, FALSE), size)

ReadStringNoterm(size) == ReadField(Opt("FIX", "string", FALSE, FALSE), size)

ReadBlob(size) == ReadField(Opt("FIX", "blob", FALSE, FALSE), size)

\* read_array_of_i8 .. read_array_of_u64.
ReadIntegers(ft, num, width) == ReadArray(Opt(ft, "none", FALSE, FALSE), num, width)

ReadBools(num) == ReadArray(Opt("ARR_U", "none", FALSE, TRUE), num, 1)

\* read_array_of_fp32, read_array_of_fp64.
ReadFloats(sub, num) == ReadArray(Opt("ARR_F", sub, FALSE, FALSE), num, Width(sub))
=============================================================================
