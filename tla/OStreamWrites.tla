--------------------------- MODULE OStreamWrites ---------------------------
(***************************************************************************)
(* The typed writers of src/src/include/sofab/ostream.h: each names the    *)
(* wire form and the number of bytes of one C type and leaves the rest to  *)
(* an operation of module OStream.                                         *)
(***************************************************************************)
EXTENDS OStreamWire

\* write_boolean: 0 or 1 as an unsigned integer, one byte.
WriteBoolean(id) == WriteScalar(id, 1)

WriteFp32(id) == WriteFixlen(id, 4, TRUE)

WriteFp64(id) == WriteFixlen(id, 8, TRUE)

\* Only a string has an encoding that may be refused.
WriteString(id, n, valid) == WriteFixlen(id, n, valid)

WriteBlob(id, n) == WriteFixlen(id, n, TRUE)

\* write_array_of_i8 .. _u64 state the element size themselves.
WriteArrayOfIntegers(id, n) == WriteVarintArray(id, n, TRUE)

WriteArrayOfFp32(id, n) == WriteFixlenArray(id, 4 * n)

WriteArrayOfFp64(id, n) == WriteFixlenArray(id, 8 * n)
=============================================================================
