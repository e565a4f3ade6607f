---------------------------- MODULE MCCollectors ----------------------------
(* Receivers with inline and growable storage, and bounds stated by the    *)
(* schema, by the receiver or by nobody.                                   *)
EXTENDS Collectors

Receiver(elem, inline, capacity, cap, dynCap, elemCapacity, elemMax, dynElemMax, string) ==
    [elem |-> elem, inline |-> inline, capacity |-> capacity, cap |-> cap,
     dynCap |-> dynCap, elemCapacity |-> elemCapacity, elemMax |-> elemMax,
     dynElemMax |-> dynElemMax,
     nameCapacity |-> string[1], nameMax |-> string[2], nameCap |-> string[3]]

\* FixedString<1> with a maxlen, with a cap, with one that is too small for
\* its maxlen; std::string with a maxlen, with a cap, with neither.
Names == {<<1, 1, -1>>, <<1, -1, 0>>, <<0, 1, -1>>, <<-1, 1, -1>>, <<-1, -1, 1>>, <<-1, -1, -1>>}

MCSetups ==
    {Receiver("text", TRUE, 2, -1, -1, 1, -1, -1, n) : n \in Names}
        \cup {Receiver("text", FALSE, -1, 2, 1, -1, 1, -1, <<1, 1, -1>>),
              Receiver("text", FALSE, -1, -1, 2, -1, -1, 1, <<1, 1, -1>>),
              Receiver("text", FALSE, -1, -1, -1, -1, 1, 0, <<1, 1, -1>>),
              Receiver("text", FALSE, -1, 1, -1, -1, -1, -1, <<1, 1, -1>>),
              Receiver("row", TRUE, 2, -1, -1, 1, -1, -1, <<1, 1, -1>>),
              Receiver("row", TRUE, 1, -1, -1, -1, -1, -1, <<1, 1, -1>>),
              Receiver("row", FALSE, -1, -1, 2, 1, 2, -1, <<1, 1, -1>>),
              Receiver("row", FALSE, -1, 2, -1, -1, -1, 1, <<1, 1, -1>>),
              Receiver("row", FALSE, -1, 1, -1, -1, -1, -1, <<1, 1, -1>>),
              Receiver("message", TRUE, 2, -1, -1, -1, -1, -1, <<1, 1, -1>>),
              Receiver("message", FALSE, -1, -1, 2, -1, -1, -1, <<1, 1, -1>>),
              Receiver("vector", FALSE, -1, -1, -1, -1, -1, -1, <<1, 1, -1>>)}
=============================================================================
