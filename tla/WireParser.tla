----------------------------- MODULE WireParser -----------------------------
(***************************************************************************)
(* The wire format as a parser without callbacks, destinations or decoder  *)
(* chain: where in a message the bytes so far have led, and which bytes    *)
(* are malformed there.  It is what the decoder promises about framing:    *)
(* nothing a callback binds, and nothing it declines, moves the position.  *)
(* A receiver may refuse a well-formed message at any byte; a verdict of   *)
(* malformed is passed on the bytes alone.                                 *)
(***************************************************************************)
EXTENDS Naturals

CONSTANTS MaxDepth, MaxGroups, Fp32Len, Fp64Len, FixlenMax, ArrayMax

VARIABLES
    running,  \* bytes are being taken
    answer,   \* the last outcome reported
    verdict,  \* "fine", "refused", or what makes the message malformed
    expect,   \* what the next byte belongs to
    ftype,    \* wire type of the current field
    sub,      \* its fixed-length subtype, once known
    nesting,  \* sequences open
    elems,    \* array elements still to come
    bytes,    \* payload bytes still to come
    groups    \* bytes of the current varint so far

position == <<expect, ftype, sub, nesting, elems, bytes, groups>>
vars == <<running, answer, verdict, expect, ftype, sub, nesting, elems, bytes,
          groups>>

Width(s) == IF s = "fp32" THEN Fp32Len ELSE Fp64Len

InVarint == expect \in {"idle", "vu", "vs", "fixlen_len", "array_count"}

Boundary == expect = "idle" /\ groups = 0 /\ nesting = 0

Init ==
    /\ running = FALSE /\ answer = "none" /\ verdict = "fine"
    /\ expect = "idle" /\ ftype = "VU" /\ sub = "none"
    /\ nesting = 0 /\ elems = 0 /\ bytes = 0 /\ groups = 0

\* A chunk starts; a condemned message takes no more bytes.
Begin ==
    /\ ~running
    /\ running' = (verdict = "fine")
    /\ answer' = IF verdict = "fine" THEN answer ELSE "invalid"
    /\ UNCHANGED <<verdict, position>>

\* A chunk ends.
End ==
    /\ running
    /\ running' = FALSE
    /\ answer' = IF verdict # "fine" THEN "invalid"
                 ELSE IF Boundary THEN "ok" ELSE "incomplete"
    /\ UNCHANGED <<verdict, position>>

\* A destination nothing can be stored to: the chunk is given up behind the
\* value, which stays outstanding; the message is not condemned.
Abandon ==
    /\ running
    /\ expect \in {"vu", "vs"}
    /\ running' = FALSE
    /\ answer' = "arg"
    /\ groups' = 0
    /\ UNCHANGED <<verdict, expect, ftype, sub, nesting, elems, bytes>>

Condemn(v) ==
    /\ running
    /\ running' = FALSE
    /\ answer' = "invalid"
    /\ verdict' = IF verdict = "fine" THEN v ELSE verdict
    /\ UNCHANGED position

Refuse == Condemn("refused")

\* The bytes no continuation can make a message of, by what is wrong.
Malformed ==
    \/ InVarint /\ groups + 1 >= MaxGroups /\ Condemn("varint")
    \/ expect = "idle" /\ Condemn("id")
    \/ expect = "idle" /\ nesting = MaxDepth /\ Condemn("depth")
    \/ expect = "idle" /\ nesting = 0 /\ Condemn("end")
    \/ expect = "array_count" /\ Condemn("count")
    \/ expect = "fixlen_len" /\ Condemn("fixlen")

\* A byte was taken; a callback it triggered may have refused the message.
Taken ==
    /\ running
    /\ UNCHANGED <<running, answer>>
    /\ verdict' \in {verdict, IF verdict = "fine" THEN "refused" ELSE verdict}

More ==
    /\ Taken
    /\ InVarint
    /\ groups + 1 < MaxGroups
    /\ groups' = groups + 1
    /\ UNCHANGED <<expect, ftype, sub, nesting, elems, bytes>>

StateAfterHeader(t) ==
    CASE t = "VU"  -> "vu"
      [] t = "VS"  -> "vs"
      [] t = "FIX" -> "fixlen_len"
      [] t \in {"ARR_U", "ARR_S", "ARR_F"} -> "array_count"
      [] OTHER -> "idle"

Header(t) ==
    /\ Taken
    /\ expect = "idle"
    /\ expect' = StateAfterHeader(t)
    /\ ftype' = t
    /\ sub' = "none"
    /\ \/ t = "START" /\ nesting < MaxDepth /\ nesting' = nesting + 1
       \/ t = "END" /\ nesting > 0 /\ nesting' = nesting - 1
       \/ t \notin {"START", "END"} /\ nesting' = nesting
    /\ elems' = 0
    /\ groups' = 0
    /\ UNCHANGED bytes

\* A scalar, or one element of an integer array.
Value ==
    /\ Taken
    /\ expect \in {"vu", "vs"}
    /\ IF elems > 1 THEN UNCHANGED expect ELSE expect' = "idle"
    /\ elems' = IF elems > 0 THEN elems - 1 ELSE 0
    /\ groups' = 0
    /\ UNCHANGED <<ftype, sub, nesting, bytes>>

Count(n) ==
    /\ Taken
    /\ expect = "array_count"
    /\ n <= ArrayMax
    /\ elems' = n
    /\ expect' = IF ftype = "ARR_F" THEN "fixlen_len"
                 ELSE IF n = 0 THEN "idle"
                 ELSE IF ftype = "ARR_U" THEN "vu" ELSE "vs"
    /\ groups' = 0
    /\ UNCHANGED <<ftype, sub, nesting, bytes>>

\* An empty array still carries the word with its element type.
Word(n, s) ==
    /\ Taken
    /\ expect = "fixlen_len"
    /\ n <= FixlenMax
    /\ s \in {"fp32", "fp64"} => n = Width(s)
    /\ ftype = "ARR_F" => s \in {"fp32", "fp64"}
    /\ sub' = s
    /\ IF n = 0 \/ (ftype = "ARR_F" /\ elems = 0)
       THEN expect' = "idle" /\ UNCHANGED bytes
       ELSE /\ expect' = IF s \in {"fp32", "fp64"} THEN "fixlen_val" ELSE "fixlen_raw"
            /\ bytes' = n
    /\ groups' = 0
    /\ UNCHANGED <<ftype, nesting, elems>>

PayloadByte ==
    /\ Taken
    /\ expect \in {"fixlen_val", "fixlen_raw"}
    /\ IF bytes > 1
       THEN bytes' = bytes - 1 /\ UNCHANGED <<expect, elems>>
       ELSE IF elems > 1
       THEN bytes' = Width(sub) /\ elems' = elems - 1 /\ UNCHANGED expect
       ELSE bytes' = 0 /\ elems' = 0 /\ expect' = "idle"
    /\ UNCHANGED <<ftype, sub, nesting, groups>>

Next ==
    \/ Begin \/ End \/ Refuse \/ Abandon \/ Malformed \/ More
    \/ \E t \in {"VU", "VS", "FIX", "ARR_U", "ARR_S", "ARR_F", "START", "END"} :
          Header(t)
    \/ Value
    \/ \E n \in 0..ArrayMax : Count(n)
    \/ \E n \in 0..FixlenMax, s \in {"fp32", "fp64", "string", "blob"} : Word(n, s)
    \/ PayloadByte

Spec == Init /\ [][Next]_vars
=============================================================================
