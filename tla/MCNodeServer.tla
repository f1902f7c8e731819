---------------------------- MODULE MCNodeServer ----------------------------
(***************************************************************************)
(* Instances of NodeServer for TLC.                                        *)
(***************************************************************************)
EXTENDS NodeServer, TLC
=============================================================================
