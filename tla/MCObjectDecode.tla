--------------------------- MODULE MCObjectDecode ---------------------------
(* A schema and tokens for ObjectDecode.                                   *)
EXTENDS ObjectDecode

Node(kind, id, kids, cap, dflt) ==
    [kind |-> kind, id |-> id, kids |-> kids, cap |-> cap, dflt |-> dflt]

\* A wrapper array with a count of two structs; a union of a native array and
\* a struct; a wrapper array without a count of one blob; a field of a type
\* that is not supported.
MCSchema ==
    [root |-> Node("struct", 0, <<"l", "u", "h", "o">>, 0, <<>>),
     l    |-> Node("sized", 0, <<"l0", "l1">>, 0, <<0>>),
     l0   |-> Node("struct", 0, <<"p0">>, 0, <<>>),
     p0   |-> Node("num", 1, <<>>, 1, <<1>>),
     l1   |-> Node("struct", 1, <<"p1">>, 0, <<>>),
     p1   |-> Node("num", 1, <<>>, 1, <<1>>),
     u    |-> Node("union", 1, <<"x", "z">>, 0, <<0>>),
     x    |-> Node("arr", 0, <<>>, 2, <<0, 1>>),
     z    |-> Node("struct", 1, <<"c", "e">>, 0, <<>>),
     c    |-> Node("num", 1, <<>>, 1, <<1>>),
     e    |-> Node("struct", 2, <<>>, 0, <<>>),
     h    |-> Node("holder", 2, <<"h0">>, 0, <<>>),
     h0   |-> Node("blob", 0, <<>>, 2, <<0, 0>>),
     o    |-> Node("odd", 3, <<>>, 1, <<0>>)]

Leaves(ids, type, vals) ==
    {[tok |-> "leaf", id |-> i, type |-> type, val |-> v] : i \in ids, v \in vals}

\* Ids from 0 to one that no field has.
MCTokens ==
    {[tok |-> "start", id |-> i, type |-> "start", val |-> <<>>] : i \in 0..2}
        \cup {[tok |-> "end", id |-> 0, type |-> "end", val |-> <<>>]}
        \cup Leaves({1}, "num", {<<0>>, <<2>>}) \cup Leaves({3}, "num", {<<0>>})
        \cup Leaves({0}, "arr", {<<>>, <<1, 1, 1>>})
        \cup Leaves({0, 1}, "blob", {<<1>>, <<2, 2, 2>>})
=============================================================================
