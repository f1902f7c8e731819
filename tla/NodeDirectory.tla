---------------------------- MODULE NodeDirectory ---------------------------
(***************************************************************************)
(* What node_registry.h promises the host about node ids ("preserves       *)
(* stable indices"): a directory that gives every node that ever connected *)
(* one id, the same for good and no other node's, and reports which ids    *)
(* are online.  The router keeps the promise only for as long as it gives  *)
(* no conn_id of one node to another (IndexStable of BleCentral); what it  *)
(* keeps in any case is NodeSessions.                                      *)
(***************************************************************************)
EXTENDS Naturals, Sequences

CONSTANT Bda        \* the nodes

VARIABLES
    directory,      \* directory[i]: the node whose id is i
    online          \* the ids reported online

dirVars == <<directory, online>>

Ids == 1..Len(directory)

DirInit ==
    /\ directory = <<>>
    /\ online = {}

\* A node that was here before comes back under its id.
Return(i) ==
    /\ i \in Ids \ online
    /\ online' = online \cup {i}
    /\ UNCHANGED directory

\* A node that was never here gets the next id.
Join(b) ==
    /\ \A i \in Ids : directory[i] # b
    /\ directory' = Append(directory, b)
    /\ online' = online \cup {Len(directory) + 1}

Leave(i) ==
    /\ i \in online
    /\ online' = online \ {i}
    /\ UNCHANGED directory

DirNext ==
    \/ \E i \in Ids : Return(i) \/ Leave(i)
    \/ \E b \in Bda : Join(b)

DirSpec == DirInit /\ [][DirNext]_dirVars
=============================================================================
