-------------------------------- MODULE Cpus --------------------------------
(***************************************************************************)
(* The CPUs, which run the scheduler and use the locks of kern/spinlock.c. *)
(***************************************************************************)
CONSTANTS CPUs,  \* the cores
          NoCpu  \* the null pointer, where a lock names a CPU or its node

ASSUME CpuAssumption == NoCpu \notin CPUs
=============================================================================
