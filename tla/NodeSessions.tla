----------------------------- MODULE NodeSessions ----------------------------
(***************************************************************************)
(* What the frames of the router tell the host.  A PING begins a session   *)
(* of a node under an id, an ERROR ends it.  While it lasts all frames     *)
(* under the id come from that node, and the node has no other session.    *)
(* Under an id without a session the host has no node to expect, and a     *)
(* frame may come from any.                                                *)
(***************************************************************************)
CONSTANTS
    Ids,        \* the ids on the serial line
    Nodes,      \* the nodes
    None        \* no node

VARIABLES
    session,    \* the node each id stands for
    frame       \* the last frame, and the node it came from

sessVars == <<session, frame>>

SessInit ==
    /\ session = [i \in Ids |-> None]
    /\ frame.cmd = "NONE"

Emits(i, cmd, b) == frame' = [id |-> i, cmd |-> cmd, from |-> b]

Begin(i, b) ==
    /\ session[i] = None
    /\ \A j \in Ids : session[j] # b
    /\ session' = [session EXCEPT ![i] = b]
    /\ Emits(i, "PING", b)

Forward(i) ==
    /\ session[i] # None
    /\ Emits(i, "DATA", session[i])
    /\ UNCHANGED session

End(i) ==
    /\ session[i] # None
    /\ session' = [session EXCEPT ![i] = None]
    /\ Emits(i, "ERROR", session[i])

Stray(i, b) ==
    /\ session[i] = None
    /\ Emits(i, "DATA", b) \/ Emits(i, "ERROR", b)
    /\ UNCHANGED session

Quiet == frame'.cmd = "NONE" /\ UNCHANGED session

SessNext ==
    \/ \E i \in Ids : Forward(i) \/ End(i)
    \/ \E i \in Ids, b \in Nodes : Begin(i, b) \/ Stray(i, b)
    \/ Quiet

SessSpec == SessInit /\ [][SessNext]_sessVars
=============================================================================
