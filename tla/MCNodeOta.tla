----------------------------- MODULE MCNodeOta -----------------------------
(***************************************************************************)
(* Instances of NodeOta for TLC: a factory app, an app, an app whose CRC   *)
(* is 0, and an image that is no app.                                      *)
(***************************************************************************)
EXTENDS NodeOta, TLC

CONSTANTS fact, app, zero, raw

Sizes == (fact :> 1) @@ (app :> 2) @@ (zero :> 2) @@ (raw :> 1)
=============================================================================
