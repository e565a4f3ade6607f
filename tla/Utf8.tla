-------------------------------- MODULE Utf8 --------------------------------
(***************************************************************************)
(* sofab_utf8_valid, src/src/utf8.c: a hand-written validator that walks   *)
(* a complete text one encoded character at a time.  One step is one turn  *)
(* of its loop.  The reference it is checked against goes the other way,   *)
(* from code points to bytes.  And detail::utf8Prefix of sofab.hpp, which  *)
(* cuts a text that is too long for a FixedString without decoding it.     *)
(***************************************************************************)
EXTENDS Integers, Sequences

CONSTANTS
    Bytes,      \* the bytes texts are made of
    MaxLen      \* bound: length of a text

ASSUME Utf8Assumption ==
    /\ \A byte \in Bytes : byte \in Nat /\ byte < 256
    /\ MaxLen \in Nat

VARIABLES
    text,    \* the payload
    pos,     \* bytes consumed, i
    verdict  \* "none" while the loop runs

textVars == <<text, pos, verdict>>

Continuation(byte) == byte \div 64 = 2

\* The lead bytes of a multi-byte character: how many bytes follow, the first
\* bits of the code point, and the least code point that needs that length.
Leads ==
    {[tag |-> 6,  width |-> 32, need |-> 1, least |-> 128],
     [tag |-> 14, width |-> 16, need |-> 2, least |-> 2048],
     [tag |-> 30, width |-> 8,  need |-> 3, least |-> 65536]}

LeadOf(byte) == {l \in Leads : byte \div l.width = l.tag}

\* (cp << 6) | (byte & 0x3F), over the n bytes that follow position p.
CodePoint(l, p) ==
    LET cp[n \in 0..l.need] ==
            IF n = 0 THEN text[p] % l.width ELSE cp[n - 1] * 64 + (text[p + n] % 64)
    IN  cp[l.need]

\* A slip: a surrogate is taken for a character.
AcceptableSurrogate(l, cp) == cp >= l.least /\ cp <= 1114111

Acceptable(l, cp) ==
    /\ cp >= l.least
    /\ cp <= 1114111
    /\ ~(cp >= 55296 /\ cp <= 57343)

Unread == Len(text) - pos

Ascii ==
    /\ text[pos + 1] < 128
    /\ pos' = pos + 1
    /\ UNCHANGED verdict

\* What must hold of the multi-byte character at the current position.
WholeCharacter(l) ==
    /\ l.need < Unread
    /\ \A k \in 1..l.need : Continuation(text[pos + 1 + k])
    /\ Acceptable(l, CodePoint(l, pos + 1))

MultiByte(l) ==
    /\ WholeCharacter(l)
    /\ pos' = pos + l.need + 1
    /\ UNCHANGED verdict

IllFormed ==
    /\ text[pos + 1] >= 128
    /\ \A l \in LeadOf(text[pos + 1]) : ~WholeCharacter(l)
    /\ verdict' = "invalid"
    /\ UNCHANGED pos

TextInit ==
    /\ text \in UNION {[1..n -> Bytes] : n \in 0..MaxLen}
    /\ pos = 0
    /\ verdict = "none"

Step ==
    /\ verdict = "none"
    /\ pos < Len(text)
    /\ \/ Ascii
       \/ \E l \in LeadOf(text[pos + 1]) : MultiByte(l)
       \/ IllFormed
    /\ UNCHANGED text

Done ==
    /\ verdict = "none"
    /\ pos = Len(text)
    /\ verdict' = "valid"
    /\ UNCHANGED <<text, pos>>

TextNext == Step \/ Done

TextSpec == TextInit /\ [][TextNext]_textVars

-----------------------------------------------------------------------------
(* FixedString<n>::assign, for a text of more than n bytes.                *)

\* A slip: it is the last byte kept that is looked at.
UnfinishedAtLast(k) == Continuation(text[k])

\* A cut behind k bytes: the first byte left out belongs to the character
\* before it.
Unfinished(k) == Continuation(text[k + 1])

Utf8Prefix[n \in 0..Len(text) - 1] ==
    IF n > 0 /\ Unfinished(n) THEN Utf8Prefix[n - 1] ELSE n

-----------------------------------------------------------------------------
(* Reference: the encoding form of Unicode, from the code point.           *)

Scalar(c) == c < 55296 \/ (c > 57343 /\ c <= 1114111)

Encode(c) ==
    LET tail(d) == 128 + ((c \div d) % 64)
    IN  IF c < 128 THEN <<c>>
        ELSE IF c < 2048 THEN <<192 + c \div 64, tail(1)>>
        ELSE IF c < 65536 THEN <<224 + c \div 4096, tail(64), tail(1)>>
        ELSE <<240 + c \div 262144, tail(4096), tail(64), tail(1)>>

\* The only code point the n bytes s could stand for.
Candidate(s) ==
    CASE Len(s) = 1 -> s[1]
      [] Len(s) = 2 -> (s[1] % 32) * 64 + (s[2] % 64)
      [] Len(s) = 3 -> (s[1] % 16) * 4096 + (s[2] % 64) * 64 + (s[3] % 64)
      [] Len(s) = 4 -> (s[1] % 8) * 262144 + (s[2] % 64) * 4096 + (s[3] % 64) * 64 + (s[4] % 64)

Encodes(s) == Scalar(Candidate(s)) /\ Encode(Candidate(s)) = s

\* The first n bytes of the text are the encoding of some code points.
WellFormed[n \in 0..Len(text)] ==
    \/ n = 0
    \/ \E k \in 1..4 : k <= n /\ Encodes(SubSeq(text, n - k + 1, n)) /\ WellFormed[n - k]

\* A text is accepted if and only if it is the concatenation of encodings of
\* Unicode scalar values: no overlong form, no surrogate, nothing above
\* U+10FFFF, no truncated character, and NUL like any other.
\* (sofab_utf8_valid)
VerdictIsExact ==
    verdict # "none" => (verdict = "valid" <=> WellFormed[Len(text)])

\* A text that is cut to n bytes keeps whole characters, and as many as fit:
\* the kept part is well formed whenever the text is.  (utf8Prefix)
CutsBetweenCharacters ==
    (pos = 0 /\ WellFormed[Len(text)]) =>
        \A n \in 0..Len(text) - 1 :
            /\ Utf8Prefix[n] <= n
            /\ \A k \in 0..n : WellFormed[k] => k <= Utf8Prefix[n]
            /\ WellFormed[Utf8Prefix[n]]

\* What makes VerdictIsExact inductive: what was read is well formed.
TextKnown ==
    /\ text \in Seq(Bytes)
    /\ pos \in 0..Len(text)
    /\ WellFormed[pos]
    /\ verdict \in {"none", "valid", "invalid"}
    /\ verdict = "valid" => pos = Len(text)
    /\ verdict = "invalid" => ~WellFormed[Len(text)]
=============================================================================
