-------------------------- MODULE MCObjectTransfer --------------------------
(* Objects to send: an array of unions, one of strings, a struct with a    *)
(* field of a type that is not supported.                                  *)
EXTENDS ObjectTransfer

Node(kind, id, kids, cap, dflt) ==
    [kind |-> kind, id |-> id, kids |-> kids, cap |-> cap, dflt |-> dflt]

MCSchema ==
    [root |-> Node("struct", 0, <<"l", "h", "z">>, 0, <<>>),
     l    |-> Node("sized", 0, <<"u", "v">>, 0, <<0>>),
     u    |-> Node("union", 0, <<"ux", "uy">>, 0, <<0>>),
     ux   |-> Node("num", 0, <<>>, 1, <<1>>),
     uy   |-> Node("sarr", 1, <<>>, 1, <<>>),
     v    |-> Node("union", 1, <<"vx", "vy">>, 0, <<0>>),
     vx   |-> Node("num", 0, <<>>, 1, <<1>>),
     vy   |-> Node("sarr", 1, <<>>, 1, <<>>),
     h    |-> Node("holder", 1, <<"h0">>, 0, <<>>),
     h0   |-> Node("str", 0, <<>>, 1, <<>>),
     z    |-> Node("struct", 2, <<"d", "o">>, 0, <<>>),
     d    |-> Node("arr", 2, <<>>, 2, <<0, 1>>),
     o    |-> Node("odd", 3, <<>>, 1, <<0>>)]

\* The contents of a union and of its two options, one of which is Junk: it
\* holds the first one, the second one or, by a stray write, none.
Unions ==
    {<<<<0>>, x, Junk>> : x \in {<<0>>, <<1>>}}
        \cup {<<<<1>>, Junk, y>> : y \in {<<>>, <<0, 0>>}}
        \cup {<<<<9>>, Junk, Junk>>}

\* The contents of all nodes, given that of some of them.
Object(l, u, v, h0, d, o) ==
    [root |-> Junk, l |-> l, u |-> u[1], ux |-> u[2], uy |-> u[3],
     v |-> v[1], vx |-> v[2], vy |-> v[3],
     h |-> Junk, h0 |-> h0, z |-> <<>>, d |-> d, o |-> o]

\* Lengths up to beyond the capacity, a string without a terminator.
Objects ==
    {Object(l, u, v, h0, d, o) :
        l \in {<<n>> : n \in 0..3}, u \in Unions, v \in Unions,
        h0 \in {<<>>, <<1>>, <<1, 1>>}, d \in {<<0, 0>>, <<0, 1>>},
        o \in {<<0>>, <<1>>}}

\* The objects have contents of their C types, and the handles and the decoder
\* of the receiver reach as deep as their descriptors.
ASSUME MCFit == \A m \in Objects : Fit(m)

MCDepth ==
    [root |-> 1, l |-> 2, h |-> 2, z |-> 2, u |-> 3, v |-> 3, h0 |-> 3, d |-> 3, o |-> 3,
     ux |-> 4, uy |-> 4, vx |-> 4, vy |-> 4]

ASSUME MCDeep == MCDepth \in Depths

\* TransferSpec(Objects), spelled out as TLC asks for it.
Spec == TransferInit(Objects) /\ [][TransferNext]_transferVars
=============================================================================
