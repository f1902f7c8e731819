-------------------------- MODULE MCFirmwareUpload --------------------------
(***************************************************************************)
(* Instances of FirmwareUpload for TLC: two or three uploads, of apps or   *)
(* of an app and an image that is no app.                                  *)
(***************************************************************************)
EXTENDS FirmwareUpload, TLC

CONSTANTS fact, app, app2, raw, u1, u2, u3

Sizes == (fact :> 1) @@ (app :> 2) @@ (app2 :> 1) @@ (raw :> 1)

TwoApps == (u1 :> app) @@ (u2 :> app2)
AppsAndRaw == TwoApps @@ (u3 :> raw)
=============================================================================
