----------------------------- MODULE BleCentral -----------------------------
(***************************************************************************)
(* The router's BLE central (router/main/ble_central.c): it scans for      *)
(* KlipLink nodes, opens links to them, discovers their characteristics,   *)
(* and tells the host over the serial line which nodes come and go and     *)
(* what they notify.                                                       *)
(*                                                                         *)
(* The Bluetooth stack (Bluedroid) is not in the repository.  Its links    *)
(* change in a task of its own, and every change is posted to the queue of *)
(* the BTC task, which calls gattc_event_handler and gap_event_handler one *)
(* event at a time.  So the tables of the router lag behind the links by   *)
(* the events in the queue, and that lag is what this module is about.     *)
(* The stack numbers a new link with the lowest conn_id that is free.      *)
(*                                                                         *)
(* QUEUE_MAX bounds the queue; a stack action waits while it is full.      *)
(***************************************************************************)
EXTENDS NodeRegistry, Sequences, FiniteSets

CONSTANTS
    MAX_CONNS,      \* the entries of s_conns
    QUEUE_MAX,      \* the bound of the event queue
    Kinds           \* the packets to explore, among AllKinds

\* What a packet can be to the handler: a description, an endstop state,
\* another one that is only forwarded, or bytes with no header or magic.
AllKinds == {"info", "endstop", "other", "junk"}

ASSUME CentralAssumption ==
    /\ MAX_CONNS \in Nat \ {0}
    /\ QUEUE_MAX \in Nat \ {0}
    /\ Kinds # {}
    /\ Kinds \subseteq AllKinds

VARIABLES
    s_conns,        \* the router's connection entries, stale ones included
    s_conn_count,   \* how many of them are in use
    link,           \* the stack: the link under each conn_id
    opening,        \* the stack: the addresses gattc_open waits for
    scanning,       \* the stack: the radio scans
    evq,            \* the BTC queue
    out,            \* the frame the last handler emitted on the serial line
    told            \* ghost: the node whose CONNECT the last PING for an id
                    \* reported, until an ERROR for the id is emitted

centralVars == <<s_conns, s_conn_count>>
stackVars == <<link, opening, scanning, evq>>
hostVars == <<out, told>>
vars == <<registryVars, centralVars, stackVars, hostVars>>

-----------------------------------------------------------------------------
(***************************************************************************)
(* Types.                                                                  *)
(***************************************************************************)
ConnSlots == 1..MAX_CONNS

\* The entry of a link: cmd_found says the write characteristic is known; peer
\* (ghost) is the node whose CONNECT made the entry.
gattc_conn_t == [conn_id : ConnIds, cmd_found : BOOLEAN, peer : Owner]
BlankConn == [conn_id |-> 0, cmd_found |-> FALSE, peer |-> NoPeer]

\* A link: its peer, whether a service search runs on it, and whether the
\* peer's CCCD is on.
Link == [peer : Owner, search : BOOLEAN, notify : BOOLEAN]
NoLink == [peer |-> NoPeer, search |-> FALSE, notify |-> FALSE]

EventTypes == {"REG", "SCAN_PARAM", "SCAN_RESULT", "CONNECT", "SEARCH_CMPL",
               "NOTIFY", "DISCONNECT"}
Event == [type : EventTypes, conn : ConnIds, peer : Owner]

GapEvent(t, b) == [type |-> t, conn |-> 0, peer |-> b]
LinkEvent(t, c, b) == [type |-> t, conn |-> c, peer |-> b]

\* A serial frame: the node id in front of it, what it says, and (ghost) the
\* node the handled event came from.
Frame == [id : 0..NODE_MAX_COUNT, cmd : {"PING", "ERROR", "DATA", "NONE"},
          from : Owner]
NoFrame == [id |-> 0, cmd |-> "NONE", from |-> NoPeer]

TypeOK ==
    /\ NodeRegistryTypeOK
    /\ s_conns \in [ConnSlots -> gattc_conn_t]
    /\ s_conn_count \in 0..MAX_CONNS
    /\ link \in [ConnIds -> Link]
    /\ opening \in SUBSET Bda
    /\ scanning \in BOOLEAN
    /\ evq \in Seq(Event)
    /\ out \in Frame
    /\ told \in [NodeIds -> Owner]

Init ==
    /\ node_registry_init
    /\ s_conns = [k \in ConnSlots |-> BlankConn]
    /\ s_conn_count = 0
    /\ link = [c \in ConnIds |-> NoLink]
    /\ opening = {}
    /\ scanning = FALSE
    /\ evq = <<GapEvent("REG", NoPeer)>>
    /\ out = NoFrame
    /\ told = [i \in NodeIds |-> NoPeer]

-----------------------------------------------------------------------------
(***************************************************************************)
(* The stack.                                                              *)
(***************************************************************************)
Up(c) == link[c].peer # NoPeer
Linked(b) == \E c \in ConnIds : link[c].peer = b

Post(e) == Len(evq) < QUEUE_MAX /\ evq' = Append(evq, e)

\* A stack step leaves the router's tables alone and emits nothing.
StackStep ==
    /\ out' = NoFrame
    /\ UNCHANGED <<registryVars, centralVars, told>>

\* A node without a link advertises; duplicates are not filtered.
Advertise(b) ==
    /\ scanning
    /\ ~Linked(b)
    /\ Post(GapEvent("SCAN_RESULT", b))
    /\ UNCHANGED <<link, opening, scanning>>
    /\ StackStep

LowestFree(c) == ~Up(c) /\ \A d \in ConnIds : d < c => Up(d)

\* gattc_open succeeds.
OpenOk(b) ==
    /\ b \in opening
    /\ ~Linked(b)
    /\ \E c \in ConnIds :
          /\ LowestFree(c)
          /\ link' = [link EXCEPT ![c] = [NoLink EXCEPT !.peer = b]]
          /\ Post(LinkEvent("CONNECT", c, b))
    /\ opening' = opening \ {b}
    /\ UNCHANGED scanning
    /\ StackStep

\* gattc_open ends without a new link: the node is linked already, there is no
\* free conn_id or it does not answer.  The OPEN event says so, and the
\* handler has no case for it.
OpenFail(b) ==
    /\ b \in opening
    /\ opening' = opening \ {b}
    /\ UNCHANGED <<link, scanning, evq>>
    /\ StackStep

\* A link is lost, or the node closes it.
Drop(c) ==
    /\ Up(c)
    /\ Post(LinkEvent("DISCONNECT", c, link[c].peer))
    /\ link' = [link EXCEPT ![c] = NoLink]
    /\ UNCHANGED <<opening, scanning>>
    /\ StackStep

\* The service search ends, with or without a result.
SearchDone(c) ==
    /\ link[c].search
    /\ Post(LinkEvent("SEARCH_CMPL", c, link[c].peer))
    /\ link' = [link EXCEPT ![c].search = FALSE]
    /\ UNCHANGED <<opening, scanning>>
    /\ StackStep

\* The node notifies: of itself, or in answer to a command.  Which kind of
\* packet it is matters when the handler looks at it.
Notify(c) ==
    /\ link[c].notify
    /\ Post(LinkEvent("NOTIFY", c, link[c].peer))
    /\ UNCHANGED <<link, opening, scanning>>
    /\ StackStep

Stack ==
    \/ \E b \in Bda : Advertise(b) \/ OpenOk(b) \/ OpenFail(b)
    \/ \E c \in ConnIds : Drop(c) \/ SearchDone(c) \/ Notify(c)

-----------------------------------------------------------------------------
(***************************************************************************)
(* s_conns.                                                                *)
(***************************************************************************)
InUse == 1..s_conn_count

\* The entries of c; find_conn returns the first.
Entries(c) == {k \in InUse : s_conns[k].conn_id = c}
find_conn(k, c) == IsFirst(k, Entries(c))

Recorded == {s_conns[k].conn_id : k \in InUse}

\* Mutant: s_conns is found full one entry too late.
alloc_conn_late(c, b) ==
    /\ s_conn_count <= MAX_CONNS
    /\ s_conn_count' = s_conn_count + 1
    /\ s_conns' = [s_conns EXCEPT ![s_conn_count + 1] =
                      [BlankConn EXCEPT !.conn_id = c, !.peer = b]]

alloc_conn(c, b) ==
    /\ s_conn_count < MAX_CONNS
    /\ s_conn_count' = s_conn_count + 1
    /\ s_conns' = [s_conns EXCEPT ![s_conn_count + 1] =
                      [BlankConn EXCEPT !.conn_id = c, !.peer = b]]

\* Mutant: memmove starts one entry too late, so the entry of c stays and the
\* last one is lost.
free_conn_late(c) ==
    \/ \E k \in Entries(c) :
          /\ find_conn(k, c)
          /\ s_conn_count' = s_conn_count - 1
          /\ s_conns' = [j \in ConnSlots |->
                            IF j > k /\ j < s_conn_count THEN s_conns[j + 1]
                                                         ELSE s_conns[j]]
    \/ Entries(c) = {} /\ UNCHANGED centralVars

\* memmove closes the gap and leaves a copy of the last entry behind it.
free_conn(c) ==
    \/ \E k \in Entries(c) :
          /\ find_conn(k, c)
          /\ s_conn_count' = s_conn_count - 1
          /\ s_conns' = [j \in ConnSlots |->
                            IF j >= k /\ j < s_conn_count THEN s_conns[j + 1]
                                                          ELSE s_conns[j]]
    \/ Entries(c) = {} /\ UNCHANGED centralVars

-----------------------------------------------------------------------------
(***************************************************************************)
(* The handlers, run by the BTC task on the event at the head of evq.      *)
(***************************************************************************)
Handle(e) == evq # <<>> /\ Head(evq) = e

Consume == evq' = Tail(evq)

\* serial_bridge_emit under the id node_id_by_conn_id returns, the first of the
\* slots ids; nothing if it returns -1.
Emit(ids, cmd, b) ==
    \/ \E i \in ids : IsFirst(i, ids) /\ out' = [id |-> i, cmd |-> cmd, from |-> b]
    \/ ids = {} /\ out' = NoFrame

Silent == out' = NoFrame /\ UNCHANGED told

\* ESP_GATTC_REG_EVT: the scan parameters are set, and the stack confirms it.
RegEvt ==
    /\ Handle(GapEvent("REG", NoPeer))
    /\ evq' = Append(Tail(evq), GapEvent("SCAN_PARAM", NoPeer))
    /\ Silent
    /\ UNCHANGED <<registryVars, centralVars, link, opening, scanning>>

\* ESP_GAP_BLE_SCAN_PARAM_SET_COMPLETE_EVT
ScanParamEvt ==
    /\ Handle(GapEvent("SCAN_PARAM", NoPeer))
    /\ Consume
    /\ scanning' = TRUE
    /\ Silent
    /\ UNCHANGED <<registryVars, centralVars, link, opening>>

\* ESP_GAP_BLE_SCAN_RESULT_EVT with the KlipLink service in it.
ScanResultEvt(b) ==
    /\ Handle(GapEvent("SCAN_RESULT", b))
    /\ Consume
    /\ scanning' = FALSE
    /\ opening' = opening \cup {b}
    /\ Silent
    /\ UNCHANGED <<registryVars, centralVars, link>>

\* ESP_GATTC_CONNECT_EVT: no entry is left in s_conns ...
ConnectNoConn ==
    /\ s_conn_count >= MAX_CONNS
    /\ Silent
    /\ UNCHANGED <<registryVars, centralVars, link>>

\* ... or there is one, but no slot in s_nodes ...
ConnectNoNode(c, b) ==
    /\ alloc_conn(c, b)
    /\ TableFull(b)
    /\ Silent
    /\ UNCHANGED <<registryVars, link>>

\* Mutant: the id is looked up before the node is added.
ConnectAddedEarly(c, b) ==
    /\ alloc_conn(c, b)
    /\ node_add(b, c)
    /\ Emit(Holding(c), "PING", b)
    /\ told' = [i \in NodeIds |-> IF out'.id = i THEN b ELSE told[i]]
    /\ link' = [link EXCEPT ![c].search = Up(c)]

\* ... or the node is added, the host told, and a service search started.
ConnectAdded(c, b) ==
    /\ alloc_conn(c, b)
    /\ node_add(b, c)
    /\ Emit(Holding(c)', "PING", b)
    /\ told' = [i \in NodeIds |-> IF out'.id = i THEN b ELSE told[i]]
    /\ link' = [link EXCEPT ![c].search = Up(c)]

ConnectEvt(c, b) ==
    /\ Handle(LinkEvent("CONNECT", c, b))
    /\ Consume
    /\ ConnectNoConn \/ ConnectNoNode(c, b) \/ ConnectAdded(c, b)
    /\ UNCHANGED <<opening, scanning>>

\* ESP_GATTC_SEARCH_CMPL_EVT: the characteristics found in the stack's cache
\* (cmd, and cccd with tel) are stored in the entry; the CCCD is written if it
\* was found, and the node asked for its description.  Without an entry nothing
\* happens.
SearchFound(k, c, cmd, cccd) ==
    /\ find_conn(k, c)
    /\ cmd \/ cccd => Up(c)
    /\ s_conns' = [s_conns EXCEPT ![k].cmd_found = @ \/ cmd]
    /\ link' = [link EXCEPT ![c].notify = @ \/ cccd]

SearchCmplEvt(c, b) ==
    /\ Handle(LinkEvent("SEARCH_CMPL", c, b))
    /\ Consume
    /\ \/ \E k \in InUse, cmd, cccd \in BOOLEAN : SearchFound(k, c, cmd, cccd)
       \/ Entries(c) = {} /\ UNCHANGED <<s_conns, link>>
    /\ Silent
    /\ UNCHANGED <<registryVars, s_conn_count, opening, scanning>>

\* node_by_conn_id: the first slot that carries c is updated, even that of a
\* node that is gone.
Store(c, b, k) ==
    \/ \E i \in Used : /\ node_by_conn_id(i, c)
                       /\ \/ k = "info" /\ node_update_info(i, b)
                          \/ k = "endstop" /\ node_set_endstop(i, b)
                          \/ k = "other" /\ UNCHANGED registryVars
    \/ Carrying(c) = {} /\ UNCHANGED registryVars

\* ESP_GATTC_NOTIFY_EVT: the registry is updated, and the packet forwarded
\* under the slot that holds c.
NotifyEvt(c, b, k) ==
    /\ Handle(LinkEvent("NOTIFY", c, b))
    /\ Consume
    /\ \/ k # "junk" /\ Store(c, b, k) /\ Emit(Holding(c), "DATA", b)
       \/ k = "junk" /\ UNCHANGED registryVars /\ out' = NoFrame
    /\ UNCHANGED <<centralVars, link, opening, scanning, told>>

\* Mutant: the slot is marked before its id is looked up for the host.
DisconnectEvtSwapped(c, b) ==
    /\ Handle(LinkEvent("DISCONNECT", c, b))
    /\ Consume
    /\ node_remove(c)
    /\ Emit(Holding(c)', "ERROR", b)
    /\ told' = [i \in NodeIds |-> IF out'.id = i THEN NoPeer ELSE told[i]]
    /\ free_conn(c)
    /\ scanning' = TRUE
    /\ UNCHANGED <<link, opening>>

\* ESP_GATTC_DISCONNECT_EVT: the host is told before the slot is marked, the
\* entry is freed, and the scan starts again.
DisconnectEvt(c, b) ==
    /\ Handle(LinkEvent("DISCONNECT", c, b))
    /\ Consume
    /\ Emit(Holding(c), "ERROR", b)
    /\ told' = [i \in NodeIds |-> IF out'.id = i THEN NoPeer ELSE told[i]]
    /\ node_remove(c)
    /\ free_conn(c)
    /\ scanning' = TRUE
    /\ UNCHANGED <<link, opening>>

LinkHandler(c, b) ==
    \/ ConnectEvt(c, b)
    \/ SearchCmplEvt(c, b)
    \/ \E k \in Kinds : NotifyEvt(c, b, k)
    \/ DisconnectEvt(c, b)

Handler ==
    \/ RegEvt
    \/ ScanParamEvt
    \/ \E b \in Bda : ScanResultEvt(b)
    \/ \E c \in ConnIds, b \in Bda : LinkHandler(c, b)

Next == Stack \/ Handler

Spec == Init /\ [][Next]_vars

\* The BTC task runs whenever its queue is not empty.
FairSpec == Spec /\ WF_vars(Handler)
-----------------------------------------------------------------------------
(***************************************************************************)
(* Properties.                                                             *)
(***************************************************************************)
Queued(t, c) == \E j \in 1..Len(evq) : evq[j].type = t /\ evq[j].conn = c

Online(i) == told[i] # NoPeer

\* s_conns: no link and no node has two entries, and the entry of a link that
\* is gone waits for a DISCONNECT event that is still to be handled.
ConnTableSound ==
    /\ \A j, k \in InUse :
          j # k => /\ s_conns[j].conn_id # s_conns[k].conn_id
                   /\ s_conns[j].peer # s_conns[k].peer
    /\ \A c \in Recorded : Up(c) \/ Queued("DISCONNECT", c)

\* What the host was told: a node it takes for connected has a slot marked
\* connected and a link the router still has an entry for, and no two of them
\* have the same link.
HostViewSound ==
    /\ \A i \in NodeIds :
          Online(i) => IsConnected(i) /\ s_nodes[i].conn_id \in Recorded
    /\ \A i, j \in NodeIds :
          Online(i) /\ Online(j) /\ s_nodes[i].conn_id = s_nodes[j].conn_id => i = j

\* The id under which a link's packets reach the host does not change while
\* the link has its entry, whatever other nodes do meanwhile.
IdStableStep ==
    \A c \in Recorded \cap Recorded', i \in NodeIds :
       node_id_by_conn_id(i, c) => node_id_by_conn_id(i, c)'

LinkIdStable == [][IdStableStep]_vars

\* A lost link is eventually reported: once no link has conn_id c for good,
\* the host takes no node on c for connected.
LossReported ==
    \A c \in ConnIds :
       <>[](~Up(c)) => <>[](\A i \in NodeIds : Online(i) => s_nodes[i].conn_id # c)

\* "Keep the slot so the index remains stable" (node_registry.c): a node that
\* comes back has the index it had before.
IndexStable ==
    \A i, j \in Used : s_nodes[i].bda = s_nodes[j].bda => i = j

-----------------------------------------------------------------------------
(***************************************************************************)
(* However conn_ids pass from node to node, what the host receives is      *)
(* NodeSessions: the sessions are those of told, the frames those of out.  *)
(***************************************************************************)
Sessions == INSTANCE NodeSessions
               WITH Ids <- NodeIds, Nodes <- Bda, None <- NoPeer,
                    session <- told, frame <- out

\* From a PING for an id to the ERROR for it every frame under the id comes
\* from the node the PING announced, and no node is announced under two ids.
SessionSpec == Sessions!SessSpec

-----------------------------------------------------------------------------
(***************************************************************************)
(* The inductive invariant.                                                *)
(*                                                                         *)
(* A link is a conn_id and a node.  QueueInv says that the events of links *)
(* are in an order that fits the links R the router has entries of and the *)
(* links U that are up: what can come only After a link that was connected *)
(* follows its DISCONNECT, and what is down has its DISCONNECT queued.     *)
(***************************************************************************)
LinkTypes == {"CONNECT", "SEARCH_CMPL", "NOTIFY", "DISCONNECT"}

LinkOf(e) == <<e.conn, e.peer>>
IsConnect(e) == e.type = "CONNECT"
IsDisconnect(e, l) == e.type = "DISCONNECT" /\ LinkOf(e) = l

\* e tells of another link of the conn_id or the node of l, or of a new l.
After(e, l) ==
    /\ e.type \in LinkTypes
    /\ e.conn = l[1] \/ e.peer = l[2]
    /\ IsConnect(e) \/ LinkOf(e) # l

ConnectsSeparated(q) ==
    \A i, j \in 1..Len(q) :
       i < j /\ IsConnect(q[i]) /\ After(q[j], LinkOf(q[i]))
          => \E k \in (i + 1)..(j - 1) : IsDisconnect(q[k], LinkOf(q[i]))

RecordedGoFirst(q, R) ==
    \A l \in R, j \in 1..Len(q) :
       After(q[j], l) => \E k \in 1..(j - 1) : IsDisconnect(q[k], l)

ConnectsEnd(q, U) ==
    \A i \in 1..Len(q) :
       IsConnect(q[i]) /\ LinkOf(q[i]) \notin U
          => \E k \in (i + 1)..Len(q) : IsDisconnect(q[k], LinkOf(q[i]))

RecordedEnd(q, R, U) ==
    \A l \in R \ U : \E k \in 1..Len(q) : IsDisconnect(q[k], l)

QueueInv(q, R, U) ==
    /\ ConnectsSeparated(q)
    /\ RecordedGoFirst(q, R)
    /\ ConnectsEnd(q, U)
    /\ RecordedEnd(q, R, U)

UpLinks == {l \in ConnIds \X Bda : link[l[1]].peer = l[2]}

RecordedLinks == {<<s_conns[k].conn_id, s_conns[k].peer>> : k \in InUse}

LinksDistinct ==
    \A c, d \in ConnIds : Up(c) /\ link[c].peer = link[d].peer => c = d

ConnsDistinct ==
    \A j, k \in InUse :
       j # k => /\ s_conns[j].conn_id # s_conns[k].conn_id
                /\ s_conns[j].peer # s_conns[k].peer

\* The slot of a node the host takes for connected carries the conn_id of the
\* node's entry, and is the one that entry's DISCONNECT will be reported for.
ToldHolds ==
    \A i \in NodeIds :
       Online(i) => /\ <<s_nodes[i].conn_id, told[i]>> \in RecordedLinks
                    /\ node_id_by_conn_id(i, s_nodes[i].conn_id)

IInv ==
    /\ TypeOK
    /\ LinksDistinct
    /\ QueueInv(evq, RecordedLinks, UpLinks)
    /\ ConnsDistinct
    /\ ToldHolds

-----------------------------------------------------------------------------
(***************************************************************************)
(* "Starts scanning for KlipLink GATT-server nodes and connects            *)
(* automatically" (ble_central.h).                                         *)
(***************************************************************************)

\* The stack when every open of a node that is not linked succeeds, and every
\* node advertises for as long as the radio listens.
AnsweringNext ==
    \/ \E b \in Bda : Advertise(b) \/ OpenOk(b) \/ (Linked(b) /\ OpenFail(b))
    \/ \E c \in ConnIds : SearchDone(c)
    \/ Handler

AnsweringSpec ==
    /\ Init /\ [][AnsweringNext]_vars
    /\ WF_vars(Handler)
    /\ \A b \in Bda : SF_vars(Advertise(b)) /\ SF_vars(OpenOk(b))

\* Every node is eventually linked.
EveryNodeLinked == \A b \in Bda : <>Linked(b)
=============================================================================
