------------------------------- MODULE MCLog --------------------------------
(***************************************************************************)
(* Instances of Log for TLC.                                               *)
(***************************************************************************)
EXTENDS Log

CONSTANTS n1, n2

\* An empty log, one with a block, one with two, one with a block twice.
MCHeads  == {<<>>, <<n1>>, <<n1, n2>>, <<n2, n2>>}
NoLog    == {<<>>}
=============================================================================
