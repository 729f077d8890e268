------------------------------- MODULE MCProc -------------------------------
(***************************************************************************)
(* Instances of Proc for TLC.                                              *)
(***************************************************************************)
EXTENDS Proc, TLC

CONSTANTS k1

\* The kernel's channels share a bucket with initproc, so that wakeup1() meets
\* processes that sleep on another channel.
MCHash == [ch \in Chans \cup {NULL} |-> IF ch \in {NULL, initproc} \cup KChans THEN 0 ELSE HASHENTRIES - 1]

Symmetry == Permutations(CPUs)
=============================================================================
