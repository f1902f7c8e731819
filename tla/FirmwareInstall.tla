--------------------------- MODULE FirmwareInstall ---------------------------
(***************************************************************************)
(* What uploading firmware promises: the firmware of the node changes in   *)
(* one step, to an image some upload was started for, and an upload is     *)
(* reported as a success only if its image was installed.                  *)
(***************************************************************************)
CONSTANTS
    Uploads,    \* the uploads
    Image,      \* the image of each
    Factory     \* the first firmware

VARIABLES
    firmware,   \* what the node boots
    installed,  \* the images installed so far
    verdict     \* "idle", "open", "true" or "false", for each upload

installVars == <<firmware, installed, verdict>>

InstallInit ==
    /\ firmware = Factory
    /\ installed = {}
    /\ verdict = [u \in Uploads |-> "idle"]

Start(u) ==
    /\ verdict[u] = "idle"
    /\ verdict' = [verdict EXCEPT ![u] = "open"]
    /\ UNCHANGED <<firmware, installed>>

\* The upload may have been given up before its image is installed.
Install(u) ==
    /\ verdict[u] # "idle"
    /\ firmware' = Image[u]
    /\ installed' = installed \cup {Image[u]}
    /\ UNCHANGED verdict

Succeed(u) ==
    /\ verdict[u] = "open"
    /\ Image[u] \in installed
    /\ verdict' = [verdict EXCEPT ![u] = "true"]
    /\ UNCHANGED <<firmware, installed>>

\* Any number of uploads are given up, as when the host restarts.
GiveUp(us) ==
    /\ \A u \in us : verdict[u] \in {"idle", "open"}
    /\ verdict' = [u \in Uploads |-> IF u \in us THEN "false" ELSE verdict[u]]
    /\ UNCHANGED <<firmware, installed>>

InstallNext ==
    \/ \E u \in Uploads : Start(u) \/ Install(u) \/ Succeed(u)
    \/ \E us \in SUBSET Uploads : GiveUp(us)

InstallSpec == InstallInit /\ [][InstallNext]_installVars
=============================================================================
