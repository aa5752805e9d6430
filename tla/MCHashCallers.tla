----------------------------- MODULE MCHashCallers ----------------------------
(***************************************************************************)
(* An instance of HashCallers for TLC.                                     *)
(***************************************************************************)
EXTENDS HashCallers

\* In every lane no key, or a key of up to two blocks and a tail, aligned or
\* not; two lanes may have the same key.
MCTests == [AllLanes -> {[ptr |-> 0, len |-> 0]} \cup [ptr : {100, 103}, len : {0, 1, 3, 4, 7, 8, 9}]]

MCSizes == {<<1, 1, 2>>, <<1, 3, 2>>, <<2, 2, 1>>, <<3, 3, 2>>}
==============================================================================
