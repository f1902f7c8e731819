---------------------------- MODULE NodeRegistry ----------------------------
(***************************************************************************)
(* The router's table of nodes (router/main/node_registry.c).              *)
(*                                                                         *)
(* A slot of s_nodes is never given back: a node that disconnects keeps    *)
(* its slot, because the index of the slot is the node id the host uses on *)
(* the serial line.  The C index of a slot is its index here minus one.    *)
(*                                                                         *)
(* The module has the table, the lookups and the operations; BleCentral    *)
(* calls them from its event handlers.  Of the description in a slot and   *)
(* the endstop states that belong to it the model keeps which node sent    *)
(* what was stored last.                                                   *)
(***************************************************************************)
EXTENDS Naturals

CONSTANTS
    Bda,            \* the Bluetooth addresses of the nodes
    NoPeer,         \* no address
    MaxLinks,       \* the links the Bluetooth stack can hold at a time
    NODE_MAX_COUNT  \* the slots of the table

ASSUME RegistryAssumption ==
    /\ NoPeer \notin Bda
    /\ MaxLinks \in Nat \ {0}
    /\ NODE_MAX_COUNT \in Nat \ {0}

ConnIds == 0..(MaxLinks - 1)
NodeIds == 1..NODE_MAX_COUNT

\* A bda, or the owner of some stored data, or none.
Owner == Bda \cup {NoPeer}

VARIABLES
    s_nodes,        \* the slots
    s_count         \* the number of slots in use

registryVars == <<s_nodes, s_count>>

node_t == [bda : Owner, conn_id : ConnIds, connected : BOOLEAN, info : Owner]

BlankNode == [bda |-> NoPeer, conn_id |-> 0, connected |-> FALSE,
              info |-> NoPeer]

NodeRegistryTypeOK ==
    /\ s_nodes \in [NodeIds -> node_t]
    /\ s_count \in 0..NODE_MAX_COUNT

node_registry_init ==
    /\ s_nodes = [i \in NodeIds |-> BlankNode]
    /\ s_count = 0

-----------------------------------------------------------------------------
(***************************************************************************)
(* Lookups: the loops of the C code stop at the first slot that matches.   *)
(***************************************************************************)
Used == 1..s_count

\* Mutant of Holding: the mark is not tested.
HoldingAnyMark(c) == {i \in Used : s_nodes[i].conn_id = c}

\* The slots that node_add may reuse for b.
Reusable(b) == {i \in Used : ~s_nodes[i].connected /\ s_nodes[i].bda = b}

\* The slots that carry conn_id c, connected or not.
Carrying(c) == {i \in Used : s_nodes[i].conn_id = c}

\* The slots that carry conn_id c and are marked connected.
Holding(c) == {i \in Used : s_nodes[i].conn_id = c /\ s_nodes[i].connected}

IsFirst(i, S) == i \in S /\ \A j \in S : i <= j

\* i is the slot node_by_conn_id(c) returns (NULL: no slot is).
node_by_conn_id(i, c) == IsFirst(i, Carrying(c))

\* i is the id node_id_by_conn_id(c) returns (-1: no slot is).
node_id_by_conn_id(i, c) == IsFirst(i, Holding(c))

\* node_get(i) && node->connected, the check of the serial command path.
IsConnected(i) == i \in Used /\ s_nodes[i].connected

-----------------------------------------------------------------------------
(***************************************************************************)
(* Operations.                                                             *)
(***************************************************************************)

\* A full table: no slot to reuse and none to append.
TableFull(b) == Reusable(b) = {} /\ s_count >= NODE_MAX_COUNT

\* node_add takes the first disconnected slot of the same address ...
NodeReuse(b, c) ==
    /\ \E i \in Reusable(b) :
          /\ IsFirst(i, Reusable(b))
          /\ s_nodes' = [s_nodes EXCEPT ![i].conn_id = c, ![i].connected = TRUE]
    /\ UNCHANGED s_count

\* ... or appends one.
NodeAppend(b, c) ==
    /\ Reusable(b) = {}
    /\ s_count < NODE_MAX_COUNT
    /\ s_count' = s_count + 1
    /\ s_nodes' = [s_nodes EXCEPT ![s_count + 1] =
                      [BlankNode EXCEPT !.bda = b, !.conn_id = c,
                                        !.connected = TRUE]]

node_add(b, c) == NodeReuse(b, c) \/ NodeAppend(b, c)

\* node_remove marks the first slot that carries c, connected or not.
node_remove(c) ==
    /\ \/ \E i \in Carrying(c) :
             /\ IsFirst(i, Carrying(c))
             /\ s_nodes' = [s_nodes EXCEPT ![i].connected = FALSE]
       \/ Carrying(c) = {} /\ UNCHANGED s_nodes
    /\ UNCHANGED s_count

\* node_update_info with a description that parses, sent by b.
node_update_info(i, b) ==
    /\ s_nodes' = [s_nodes EXCEPT ![i].info = b]
    /\ UNCHANGED s_count

\* node_set_endstop: an index the description does not have is ignored, and a
\* slot without a description has none.
node_set_endstop(i, b) ==
    /\ s_nodes' = IF s_nodes[i].info = NoPeer
                     THEN s_nodes
                     ELSE [s_nodes EXCEPT ![i].info = b]
    /\ UNCHANGED s_count
=============================================================================
