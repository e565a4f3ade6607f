------------------------------- MODULE Varint -------------------------------
(***************************************************************************)
(* The wire's integers: LEB128 varints, ZigZag, header words and width     *)
(* checks, as src/src/ostream.c writes them and src/src/istream.c reads    *)
(* them.  A byte is a group of GroupBits (7) value bits, least significant *)
(* group first, and a continuation flag; a value has ValueBits (64 or 32)  *)
(* bits.  Both widths are parameters, so that every value and every byte   *)
(* string is enumerated at a small scale with the same uneven last group.  *)
(*                                                                         *)
(* Two behaviours are explored: a decoder that is fed arbitrary bytes, and *)
(* one that is fed what the encoder's loop writes for a value.             *)
(***************************************************************************)
EXTENDS Integers, Sequences

CONSTANTS
    GroupBits,  \* value bits of one byte: 7
    ValueBits,  \* bits of sofab_unsigned_t: 64, or 32 without INT64 support
    Widths      \* destination widths, in bits, of the range checks

ASSUME VarintAssumption ==
    /\ GroupBits \in Nat \ {0}
    /\ ValueBits \in Nat /\ ValueBits > 3
    /\ Widths \subseteq Nat \ {0}

\* 1 << n.
Pow2[n \in Nat] == IF n = 0 THEN 1 ELSE 2 * Pow2[n - 1]

Group == Pow2[GroupBits]    \* the continuation flag, 0x80
Modulus == Pow2[ValueBits]
Values == 0 .. Modulus - 1
ByteValues == 0 .. 2 * Group - 1

Flagged(byte) == byte >= Group
Low(byte) == byte % Group

\* A bit pattern read as two's complement.
Signed(u) == IF u >= Modulus \div 2 THEN u - Modulus ELSE u
Unsigned(s) == s % Modulus
Complement(u) == Modulus - 1 - u

-----------------------------------------------------------------------------
(* Conversions.                                                            *)

\* A slip: the shift right is not arithmetic.
ZigzagEncodeLogical(s) ==
    LET shifted == (2 * Unsigned(s)) % Modulus
    IN  IF s < 0 THEN shifted + 1 ELSE shifted

\* ((unsigned)v << 1) ^ (unsigned)(v >> (bits - 1))
ZigzagEncode(s) ==
    LET shifted == (2 * Unsigned(s)) % Modulus
    IN  IF s < 0 THEN Complement(shifted) ELSE shifted

\* (u >> 1) ^ -(u & 1)
ZigzagDecode(u) ==
    Signed(IF u % 2 = 1 THEN Complement(u \div 2) ELSE u \div 2)

\* A slip: the sign bit is not one of the n.
FitsSignedOneMore(x, n) ==
    n >= ValueBits \/ x \div Pow2[n] = x \div Pow2[ValueBits - 1]

\* _fits_unsigned_n, _fits_signed_n: does the value fit in n bits?
FitsUnsigned(x, n) == n >= ValueBits \/ x \div Pow2[n] = 0
FitsSigned(x, n) ==
    n >= ValueBits \/ x \div Pow2[n - 1] = x \div Pow2[ValueBits - 1]

\* What a store to an n-bit destination keeps (_store_scalar).
StoreLow(x, n) == x % Pow2[n]

-----------------------------------------------------------------------------
(* _varint_decode: one byte into the accumulator.                          *)

Fresh == [value |-> 0, shift |-> 0, status |-> "more"]

\* Slips of the boundary: the last group is taken whole, is cut to the width,
\* is refused whatever it holds, or may be followed by another.
DecodeByteWhole(d, byte) ==
    LET value == d.value + Low(byte) * Pow2[d.shift]
        shift == d.shift + GroupBits
    IN  IF d.shift >= ValueBits
        THEN [d EXCEPT !.status = "overflow"]
        ELSE [value |-> value, shift |-> IF Flagged(byte) THEN shift ELSE 0,
              status |-> IF Flagged(byte) THEN "more" ELSE "done"]

DecodeByteCut(d, byte) ==
    LET r == DecodeByteWhole(d, byte) IN [r EXCEPT !.value = @ % Modulus]

DecodeByteStrict(d, byte) ==
    IF ValueBits - d.shift < GroupBits
    THEN [d EXCEPT !.status = "overflow"]
    ELSE DecodeByteWhole(d, byte)

DecodeByteLate(d, byte) ==
    IF ValueBits - d.shift < GroupBits /\ Low(byte) \div Pow2[ValueBits - d.shift] # 0
    THEN [d EXCEPT !.status = "overflow"]
    ELSE DecodeByteWhole(d, byte)

DecodeByte(d, byte) ==
    LET left == ValueBits - d.shift
        value == d.value + Low(byte) * Pow2[d.shift]
        shift == d.shift + GroupBits
    IN  IF d.shift >= ValueBits \/ (left < GroupBits /\ Low(byte) \div Pow2[left] # 0)
        THEN [d EXCEPT !.status = "overflow"]
        ELSE IF ~Flagged(byte)
        THEN [value |-> value, shift |-> 0, status |-> "done"]
        ELSE [value |-> value, shift |-> shift,
              status |-> IF shift >= ValueBits THEN "overflow" ELSE "more"]

VARIABLES
    num,   \* the value encoded, or -1 when the bytes are arbitrary
    rest,  \* what the encoder's loop has still to write, -1 when it is through
    fed,   \* the bytes given to the decoder
    dec    \* the decoder's accumulator

vars == <<num, rest, fed, dec>>

Init ==
    /\ num \in Values \cup {-1}
    /\ rest = num
    /\ fed = <<>>
    /\ dec = Fresh

Feed(byte) ==
    /\ fed' = Append(fed, byte)
    /\ dec' = DecodeByte(dec, byte)

\* One turn of the loop of _varint_encode.
EncodeByte ==
    /\ rest >= 0
    /\ LET more == rest \div Group
       IN  /\ Feed(Low(rest) + (IF more # 0 THEN Group ELSE 0))
           /\ rest' = IF more # 0 THEN more ELSE -1
    /\ UNCHANGED num

ArbitraryByte ==
    /\ num = -1
    /\ dec.status = "more"
    /\ \E byte \in ByteValues : Feed(byte)
    /\ UNCHANGED <<num, rest>>

Next == EncodeByte \/ ArbitraryByte

Spec == Init /\ [][Next]_vars

-----------------------------------------------------------------------------
(* Reference: the number a byte string denotes, however wide.              *)

Denoted(bytes) ==
    LET number[n \in 0..Len(bytes)] ==
            IF n = 0 THEN 0
            ELSE number[n - 1] + Low(bytes[n]) * Pow2[(n - 1) * GroupBits]
    IN  number[Len(bytes)]

Number == Denoted(fed)

\* A decoded value is the number its bytes denote: no bit was dropped at the
\* boundary of the value type.  (_varint_decode)
DecodesTheNumber == dec.status = "done" => dec.value = Number

\* The decoder gives up on exactly the byte strings no further byte can turn
\* into a value of the type, and on the first byte that settles it.
\* (_varint_decode)
OverflowIsExact ==
    fed # <<>> =>
        (dec.status = "overflow") <=>
            \/ Number >= Modulus
            \/ Flagged(fed[Len(fed)]) /\ Len(fed) * GroupBits >= ValueBits

\* Whatever the encoder writes, the decoder reads back: it is through exactly
\* when the encoder is, with the value that was written, in the fewest bytes.
\* (_varint_encode, _varint_decode)
RoundTrip ==
    (num >= 0 /\ fed # <<>>) =>
        /\ dec.status = (IF rest = -1 THEN "done" ELSE "more")
        /\ rest = -1 => dec.value = num
        /\ rest = -1 /\ Len(fed) > 1 => fed[Len(fed)] # 0

\* ZigZag is lossless in both directions, also at the most negative value,
\* and gives numbers of small magnitude small codes.  (_zigzag_encode,
\* _zigzag_decode)
ZigzagIsInverse ==
    num >= 0 =>
        LET s == Signed(num)
        IN  /\ ZigzagDecode(ZigzagEncode(s)) = s
            /\ ZigzagEncode(ZigzagDecode(num)) = num
            /\ ZigzagEncode(s) = IF s < 0 THEN -2 * s - 1 ELSE 2 * s

\* The range checks accept exactly the values a narrow destination holds:
\* what they accept survives the store, what they reject would not.
\* (_fits_unsigned_n, _fits_signed_n, _store_scalar)
FitsIsExact ==
    num >= 0 => \A n \in Widths :
        LET s == Signed(num)
            stored == StoreLow(num, n)
            resigned == IF stored >= Pow2[n - 1] THEN stored - Pow2[n] ELSE stored
        IN  /\ FitsUnsigned(num, n) <=> stored = num
            /\ n <= ValueBits => (FitsSigned(s, n) <=> resigned = s)

-----------------------------------------------------------------------------
(* What makes the first three inductive.                                   *)

TypeOK ==
    /\ num \in Values \cup {-1}
    /\ rest \in Values \cup {-1}
    /\ fed \in Seq(ByteValues)
    /\ dec \in [value : Nat, shift : Nat, status : {"more", "done", "overflow"}]

\* While a varint is open the accumulator holds the groups that were read, and
\* there is room for at least a part of the next.
Accumulated ==
    dec.status = "more" =>
        /\ dec.shift = Len(fed) * GroupBits
        /\ dec.shift < ValueBits
        /\ dec.value = Number
        /\ dec.value < Pow2[dec.shift]

\* What the encoder has written and what it has left make up the value.
Remaining ==
    /\ num = -1 => rest = -1
    /\ rest >= 0 =>
          /\ dec.status = "more"
          /\ num = Number + rest * Pow2[dec.shift]
          /\ fed # <<>> => rest > 0

Inductive ==
    /\ TypeOK
    /\ Accumulated
    /\ Remaining
    /\ DecodesTheNumber
    /\ OverflowIsExact
    /\ RoundTrip
=============================================================================
