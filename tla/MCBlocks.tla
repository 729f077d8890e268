------------------------------ MODULE MCBlocks -------------------------------
(***************************************************************************)
(* Instances of Blocks for TLC.                                            *)
(***************************************************************************)
EXTENDS Blocks

\* A program with an indirect block, a file of one block and an empty one.
MCMkfsSize == <<2, 1, 0>>
MCBase     == <<2, 5, 6, 6>>

\* Programs are written below the indirect block at most; anything is written.
MCSpared   == <<1, 3, 3>>
MCAnything == <<3, 3, 3>>
=============================================================================
