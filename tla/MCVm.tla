-------------------------------- MODULE MCVm --------------------------------
(***************************************************************************)
(* Instance of Vm for TLC.                                                 *)
(***************************************************************************)
EXTENDS Vm

\* A program of one page, and one whose second segment ends below the first and
\* does not start at a page.
MCPrograms == {<<[end |-> 1, odd |-> FALSE]>>,
               <<[end |-> 2, odd |-> FALSE], [end |-> 1, odd |-> TRUE]>>}
=============================================================================
