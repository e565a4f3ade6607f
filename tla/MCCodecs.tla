------------------------------ MODULE MCCodecs ------------------------------
(***************************************************************************)
(* The algorithms on single values, checked over bounded inputs: either    *)
(* the varint of module Varint or the text of module Utf8 is worked on.    *)
(*                                                                         *)
(* Three-bit groups and seven-bit values: as with 7 and 64, the last group *)
(* has room for one bit.  Bytes on both sides of every boundary of UTF-8:  *)
(* NUL and the last ASCII byte; continuation bytes at the ends of the      *)
(* ranges a lead may narrow; leads that are never, sometimes and always    *)
(* legal.                                                                  *)
(***************************************************************************)
EXTENDS Varint, Utf8

MCWidths == {1, 2, 4, 6, 7, 8}

MCBytes == {0, 127, 128, 143, 144, 159, 160, 191, 192, 193, 194, 223, 224, 225,
            237, 239, 240, 244, 245, 248}

MCInit ==
    \/ Init /\ text = <<>> /\ pos = 0 /\ verdict = "valid"
    \/ TextInit /\ num = -1 /\ rest = -1 /\ fed = <<>> /\ dec = [Fresh EXCEPT !.status = "done"]

MCNext ==
    \/ Next /\ UNCHANGED textVars
    \/ TextNext /\ UNCHANGED vars

MCSpec == MCInit /\ [][MCNext]_<<vars, textVars>>
=============================================================================
