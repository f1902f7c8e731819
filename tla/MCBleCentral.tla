---------------------------- MODULE MCBleCentral ----------------------------
(***************************************************************************)
(* Instances of BleCentral for TLC.                                        *)
(***************************************************************************)
EXTENDS BleCentral

CONSTANTS n1, n2, n3
=============================================================================
