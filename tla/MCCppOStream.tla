--------------------------- MODULE MCCppOStream ---------------------------
(* Values for the constants of CppOStream.                                 *)
EXTENDS CppOStream

MCIdLen == [id \in Ids |-> IF id = 1 THEN 1 ELSE 2]

\* Caller storage that holds a field and a level, or a float, behind a
\* reserved byte.
MCInstalls == {[len |-> 8, off |-> 1]}

\* A value of each type, short ones where the type lets one choose; a string
\* refused for its bytes and one refused for its length.
MCValues ==
    {[type |-> "integer", n |-> 1, valid |-> TRUE],
     [type |-> "bool", n |-> 0, valid |-> TRUE],
     [type |-> "float", n |-> 0, valid |-> TRUE],
     [type |-> "double", n |-> 0, valid |-> TRUE],
     [type |-> "string", n |-> 0, valid |-> TRUE],
     [type |-> "string", n |-> 0, valid |-> FALSE],
     [type |-> "oversize", n |-> 0, valid |-> TRUE],
     [type |-> "blob", n |-> 1, valid |-> TRUE],
     [type |-> "integers", n |-> 0, valid |-> TRUE],
     [type |-> "floats", n |-> 0, valid |-> TRUE],
     [type |-> "doubles", n |-> 0, valid |-> TRUE]}
=============================================================================
