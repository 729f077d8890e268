---------------------------- MODULE MCSleepLock -----------------------------
(***************************************************************************)
(* Instances of SleepLock for TLC.                                         *)
(***************************************************************************)
EXTENDS SleepLock, TLC

CONSTANTS sl, io

\* The sleeplock and the other channel collide; processes have a bucket of
\* their own.
MCHash == [ch \in Chans \cup {NULL} |-> IF ch \in {NULL, sl, io} THEN 0 ELSE HASHENTRIES - 1]

Symmetry == Permutations(CPUs)
=============================================================================
