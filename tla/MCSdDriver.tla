----------------------------- MODULE MCSdDriver -----------------------------
(***************************************************************************)
(* Instance of SdCard, and the driver below it, for TLC.                   *)
(***************************************************************************)
EXTENDS SdCard

CONSTANTS b1, v0

\* A high-capacity card that is slow to power up, and cards of both older kinds.
MCCards == {[kind |-> "hc",  bus4 |-> TRUE,  busy |-> Retries],
            [kind |-> "sc2", bus4 |-> FALSE, busy |-> 0],
            [kind |-> "v1",  bus4 |-> TRUE,  busy |-> 1]}

\* The buffers and the card start with one of the contents.
MCInit ==
    /\ SdInit
    /\ \A p \in Procs : data[p] = v0 /\ blockno[p] = b1
    /\ disk = [n \in Blocks |-> v0]

MCSpec == MCInit /\ [][SdNext]_sdVars /\ SdFairness
=============================================================================
