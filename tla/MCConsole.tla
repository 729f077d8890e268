------------------------------ MODULE MCConsole ------------------------------
(***************************************************************************)
(* Instance of Console for TLC.                                            *)
(***************************************************************************)
EXTENDS Console

MCCpus  == {0, 1}
MCSizes == {1, 3}
=============================================================================
