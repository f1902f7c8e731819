---------------------------- MODULE MCCommandPath ---------------------------
(***************************************************************************)
(* Instances of CommandPath for TLC.                                       *)
(***************************************************************************)
EXTENDS CommandPath, TLC

CONSTANTS n1, n2

\* The nodes are alike.
Alike == Permutations(Bda)
=============================================================================
