------------------------- MODULE MCHeartbeatMonitor -------------------------
(***************************************************************************)
(* Instances of HeartbeatMonitor for TLC.                                  *)
(***************************************************************************)
EXTENDS HeartbeatMonitor, TLC
=============================================================================
