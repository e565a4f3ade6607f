---------------------------- MODULE ElementArray ----------------------------
(***************************************************************************)
(* What the C++ input stream promises of a message with a wrapper array    *)
(* and a string.  The array is a function from element ids; a bound is     *)
(* stated by the schema, by the receiver or by the storage, in this order, *)
(* and each has a verdict of its own, and a field of the wrong type is not *)
(* part of the value.  An array that is read into a vector has no index,   *)
(* no bound and no such fields: whatever comes is its next element, filled *)
(* only if it is of the element's type.                                    *)
(***************************************************************************)
EXTENDS Integers, Sequences, SequencesExt, FiniteSets

CONSTANTS
    Ids, Sizes, Widths, Values,  \* what is on the wire
    longest                      \* bound: elements of a vector

VARIABLES
    limits,   \* of an index, an element and the string: schema, receiver, room
    kind,     \* what the elements are: "text", "row", "message", "vector"
    val,      \* the value
    open,     \* sequences open
    at,       \* the element that is open
    due,      \* a payload is outstanding
    target,   \* for which part of the value
    verdict,  \* of the message so far
    report,   \* what feeding it reported
    last      \* the token just taken

vars == <<limits, kind, val, open, at, due, target, verdict, report, last>>

Judge(n, limit) ==
    IF limit.schema >= 0 /\ n > limit.schema THEN "invalid"
    ELSE IF limit.schema < 0 /\ limit.receiver >= 0 /\ n > limit.receiver THEN "limit"
    ELSE IF limit.schema < 0 /\ limit.receiver < 0 /\ limit.room < 0 THEN "argument"
    ELSE IF limit.room >= 0 /\ n > limit.room THEN "argument" ELSE "none"

Here == IF open = <<>> THEN "root" ELSE Last(open)

\* What the field is of this message, if its type is the declared one.
Part(t) ==
    CASE Here = "root" /\ t.id = 0 /\ t.type = "start" -> "list"
      [] Here = "root" /\ t.id = 1 /\ t.type = "text" -> "name"
      [] Here = "list" /\ kind = "vector" -> "next"
      [] Here = "list" /\ t.type = (IF kind = "message" THEN "start" ELSE kind) -> "element"
      [] Here = "elem" /\ t.id = 0 /\ t.type = "num" -> "field"
      [] OTHER -> "none"

Verdict(t) ==
    CASE Part(t) = "name" -> Judge(t.size, limits.name)
      [] Part(t) = "element" ->
            LET index == Judge(t.id + 1, limits.index)
            IN  IF index # "none" \/ kind = "message" THEN index
                ELSE Judge(t.size, limits.element)
      [] OTHER -> "none"

Zeros(n) == [i \in 1..n |-> 0]

\* The length a header states, which only fields of fixed length do.
Stated(t) == IF t.type \in {"text", "fixed"} THEN t.size ELSE 0

\* The array with the element, which is there from now on.
Placed(t) ==
    [i \in DOMAIN val.list \cup 0..t.id |->
        IF i = t.id /\ kind # "message" THEN Zeros(t.size)
        ELSE IF i \in DOMAIN val.list THEN val.list[i]
        ELSE IF kind = "message" THEN <<0>> ELSE <<>>]

Changed(t) ==
    CASE Part(t) = "list" /\ kind # "vector" -> [val EXCEPT !.list = <<>>]
      [] Part(t) = "name" -> [val EXCEPT !.name = Zeros(t.size)]
      [] Part(t) = "element" -> [val EXCEPT !.list = Placed(t)]
      [] Part(t) = "next" ->
            [val EXCEPT !.list = [i \in DOMAIN @ \cup {Cardinality(DOMAIN @)} |->
                IF i \in DOMAIN @ THEN @[i] ELSE Zeros(Stated(t))]]
      [] OTHER -> val

\* The sequence a start marker opens.
Opens(t) ==
    CASE Part(t) = "list" -> "list" [] Part(t) = "element" -> "elem" [] OTHER -> "skip"

\* The part of the value the payload is for.
Destination(t) ==
    IF t.type = "start" \/ t.size = 0 THEN <<>> ELSE
    CASE Part(t) = "name" -> <<"name">>
      [] Part(t) = "element" -> <<"out", t.id>>
      [] Part(t) = "next" /\ t.type = "text" -> <<"out", Cardinality(DOMAIN val.list)>>
      [] Part(t) = "field" -> <<"out", at>>
      [] OTHER -> <<>>

Announce(t) ==
    /\ verdict = "none"
    /\ ~due
    /\ Part(t) = "next" => Cardinality(DOMAIN val.list) < longest
    /\ last' = t
    /\ verdict' = Verdict(t)
    /\ verdict' = "none" =>
          /\ val' = Changed(t)
          /\ open' = IF t.type = "start" THEN Append(open, Opens(t)) ELSE open
          /\ at' = IF Part(t) = "element" /\ kind = "message" THEN t.id ELSE at
          /\ due' = (t.type # "start")
          /\ target' = Destination(t)
    /\ UNCHANGED <<limits, kind, report>>

Deliver(v) ==
    /\ due
    /\ due' = FALSE
    /\ target' = <<>>
    /\ last' = [id |-> 0, type |-> "data", size |-> v]
    /\ val' = CASE target = <<"name">> -> [val EXCEPT !.name = [i \in DOMAIN @ |-> v]]
                [] Len(target) = 2 -> [val EXCEPT !.list[target[2]] = [i \in DOMAIN @ |-> v]]
                [] OTHER -> val
    /\ UNCHANGED <<limits, kind, open, at, verdict, report>>

Close ==
    /\ verdict = "none"
    /\ ~due
    /\ open # <<>>
    /\ open' = Front(open)
    /\ last' = [id |-> 0, type |-> "end", size |-> 0]
    /\ UNCHANGED <<limits, kind, val, at, due, target, verdict, report>>

Report ==
    /\ report' = IF verdict # "none" THEN verdict
                 ELSE IF due \/ open # <<>> THEN "incomplete" ELSE "ok"
    /\ UNCHANGED <<limits, kind, val, open, at, due, target, verdict, last>>

Init ==
    /\ val = [list |-> <<>>, name |-> <<>>]
    /\ open = <<>>
    /\ at = 0
    /\ due = FALSE
    /\ target = <<>>
    /\ verdict = "none"
    /\ report = "none"
    /\ last = [id |-> 0, type |-> "begin", size |-> 0]

Tokens == [id : Ids, type : {"text", "row", "num"}, size : Sizes]
              \cup [id : Ids, type : {"fixed"}, size : Widths]
              \cup [id : Ids, type : {"start"}, size : {0}]

Next ==
    \/ \E t \in Tokens : Announce(t)
    \/ \E v \in Values : Deliver(v)
    \/ Close
    \/ Report

Spec == Init /\ [][Next]_vars
=============================================================================
