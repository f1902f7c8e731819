----------------------------- MODULE MCHostView -----------------------------
(***************************************************************************)
(* Instances of HostView for TLC.                                          *)
(***************************************************************************)
EXTENDS HostView, TLC

CONSTANTS n1, n2

TwoNames == (n1 :> "bed") @@ (n2 :> "tool")
=============================================================================
