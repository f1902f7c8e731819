------------------------------ MODULE HostView ------------------------------
(***************************************************************************)
(* The host's picture of the nodes (linux-host/src: device_manager.py, the *)
(* zone requests of api_server.py, on_packet of main.py) over what the     *)
(* router's node_registry.h promises, NodeDirectory.  Its properties hold  *)
(* for as long as the router keeps that promise.                           *)
(*                                                                         *)
(* Reports go up and commands go down the serial line in order.  Packets   *)
(* are handled by the poll thread; each HTTP request runs in a thread of   *)
(* its own: it finds the node by its name, sends the command, and notes in *)
(* the host's mirror what it sent, three steps that others may come        *)
(* between.  The zones of a node do not touch each other: the model has    *)
(* one.  Links come and go, nodes and the host restart, the router does    *)
(* not: its ids would start over.                                          *)
(*                                                                         *)
(* UP_MAX and DOWN_MAX bound the frames on the line, MAX_RESTARTS the      *)
(* restarts.                                                               *)
(***************************************************************************)
EXTENDS NodeDirectory, FiniteSets

CONSTANTS
    device_name,    \* the name each node is configured with
    Long,           \* the nodes whose description is cut at 243 bytes
    Thread,         \* the threads of the HTTP server
    Wanted,         \* the names that requests are made for
    Zone,           \* the settings a zone can have
    NoZone,         \* no setting: the zone is cleared
    UP_MAX,
    DOWN_MAX,
    MAX_RESTARTS

DefaultName == "node_"      \* node_<id>, until the node describes itself

ASSUME HostAssumption ==
    /\ \A a, b \in Bda : device_name[a] = device_name[b] => a = b
    /\ \A b \in Bda : device_name[b] # DefaultName
    /\ Long \subseteq Bda
    /\ Wanted \subseteq {device_name[b] : b \in Bda}
    /\ NoZone \notin Zone
    /\ UP_MAX \in Nat \ {0}
    /\ DOWN_MAX \in Nat \ {0}
    /\ MAX_RESTARTS \in Nat

VARIABLES
    _nodes,     \* the host's registry, in the order of its dict
    request,    \* what each thread is doing
    up, down,   \* the frames on the line
    asked,      \* the ids whose DEVICE_INFO_REQ is still to be answered
    lit,        \* the setting each node shows
    restarts,
    forgotten,  \* ghost: the ids that came online before the host started
    crossed,    \* ghost: the ids two of whose requests overlapped last
    missed      \* ghost: the ids whose node did not get, or lost, a setting

hostVars == <<_nodes, request>>
lineVars == <<up, down>>
ghosts == <<forgotten, crossed, missed>>
vars == <<dirVars, hostVars, lineVars, asked, lit, restarts, ghosts>>

Setting == Zone \cup {NoZone}
Names == {device_name[b] : b \in Bda}
MaxId == Cardinality(Bda)

Entry == [id : Nat \ {0}, name : Names \cup {DefaultName}, connected : BOOLEAN,
          zone : Setting]
Report == [id : Nat \ {0}, cmd : {"PING", "ERROR", "DEVICE_INFO_RESP"},
           name : Names \cup {DefaultName}]
\* A command on the line; kept (ghost): the host that sent it still runs.
Command == [id : Nat \ {0}, name : Names, zone : Setting, kept : BOOLEAN]
Request == [at : {"idle", "found", "sent"}, id : Nat \ {0},
            name : Names \cup {DefaultName}, zone : Setting]

TypeOK ==
    /\ directory \in Seq(Bda)
    /\ online \subseteq Ids
    /\ _nodes \in Seq(Entry)
    /\ request \in [Thread -> Request]
    /\ up \in Seq(Report)
    /\ down \in Seq(Command)
    /\ asked \subseteq Ids
    /\ lit \in [Bda -> Setting]
    /\ restarts \in 0..MAX_RESTARTS
    /\ forgotten \subseteq Ids /\ crossed \subseteq Ids /\ missed \subseteq Ids

Idle == [at |-> "idle", id |-> 1, name |-> DefaultName, zone |-> NoZone]

Init ==
    /\ DirInit
    /\ _nodes = <<>>
    /\ request = [t \in Thread |-> Idle]
    /\ up = <<>> /\ down = <<>>
    /\ asked = {}
    /\ lit = [b \in Bda |-> NoZone]
    /\ restarts = 0
    /\ forgotten = {} /\ crossed = {} /\ missed = {}

-----------------------------------------------------------------------------
(***************************************************************************)
(* The nodes and the router.                                               *)
(***************************************************************************)
Reports(i, cmd, name) ==
    /\ Len(up) < UP_MAX
    /\ up' = Append(up, [id |-> i, cmd |-> cmd, name |-> name])

\* A link comes up: the host is told by a PING, the node asked to describe
\* itself.
Online(i) ==
    /\ Reports(i, "PING", DefaultName)
    /\ asked' = asked \cup {i}
    /\ forgotten' = forgotten \ {i}
    /\ UNCHANGED <<hostVars, down, lit, restarts, crossed, missed>>

NodeJoins(b) == Join(b) /\ Online(Len(directory) + 1)
NodeReturns(i) == Return(i) /\ Online(i)

\* The node answers; a description that is cut does not parse at the host.
NodeDescribes(i) ==
    /\ i \in asked
    /\ Reports(i, "DEVICE_INFO_RESP",
               IF directory[i] \in Long THEN DefaultName ELSE device_name[directory[i]])
    /\ asked' = asked \ {i}
    /\ UNCHANGED <<dirVars, hostVars, down, lit, restarts, ghosts>>

\* The link is lost, or the node restarts: then it shows nothing.
NodeLeaves(i) ==
    /\ Leave(i)
    /\ Reports(i, "ERROR", DefaultName)
    /\ asked' = asked \ {i}
    /\ \/ UNCHANGED <<lit, restarts, missed>>
       \/ /\ restarts < MAX_RESTARTS
          /\ restarts' = restarts + 1
          /\ lit' = [lit EXCEPT ![directory[i]] = NoZone]
          /\ missed' = missed \cup {i}
    /\ UNCHANGED <<hostVars, down, forgotten, crossed>>

\* The router passes a command on, or drops it: the node is offline, its
\* characteristics are not known yet, or its link is just breaking.
Delivered ==
    /\ down # <<>>
    /\ down' = Tail(down)
    /\ LET c == Head(down)
       IN \/ /\ c.id \in online
             /\ lit' = [lit EXCEPT ![directory[c.id]] = c.zone]
             /\ missed' = IF c.kept THEN missed \ {c.id} ELSE missed \cup {c.id}
          \/ /\ missed' = missed \cup {c.id}
             /\ UNCHANGED lit
    /\ UNCHANGED <<dirVars, hostVars, up, asked, restarts, forgotten, crossed>>

-----------------------------------------------------------------------------
(***************************************************************************)
(* The poll thread: DeviceManager.on_packet.                               *)
(***************************************************************************)
Known(i) == \E k \in 1..Len(_nodes) : _nodes[k].id = i

\* The registry with the entry of i, if there is one, replaced by f of it.
Updated(i, f(_)) ==
    [k \in 1..Len(_nodes) |-> IF _nodes[k].id = i THEN f(_nodes[k]) ELSE _nodes[k]]

NewEntry(i) == [id |-> i, name |-> DefaultName, connected |-> TRUE, zone |-> NoZone]

\* Mutant: a node the host knows already is left as it is.
PingFirstOnly(r) ==
    /\ r.cmd = "PING"
    /\ _nodes' = IF Known(r.id) THEN _nodes ELSE Append(_nodes, NewEntry(r.id))

Ping(r) ==
    /\ r.cmd = "PING"
    /\ _nodes' = IF Known(r.id)
                    THEN Updated(r.id, LAMBDA e : [e EXCEPT !.connected = TRUE])
                    ELSE Append(_nodes, NewEntry(r.id))

Error(r) ==
    /\ r.cmd = "ERROR"
    /\ _nodes' = Updated(r.id, LAMBDA e : [e EXCEPT !.connected = FALSE])

\* Mutant: the description is taken for that of the newest node.
DeviceInfoRespNewest(r) ==
    /\ r.cmd = "DEVICE_INFO_RESP"
    /\ _nodes' = IF r.name = DefaultName \/ _nodes = <<>> THEN _nodes
                    ELSE [_nodes EXCEPT ![Len(_nodes)].name = r.name]

DeviceInfoResp(r) ==
    /\ r.cmd = "DEVICE_INFO_RESP"
    /\ _nodes' = IF r.name = DefaultName THEN _nodes
                    ELSE Updated(r.id, LAMBDA e : [e EXCEPT !.name = r.name])

HostPolls ==
    /\ up # <<>>
    /\ up' = Tail(up)
    /\ LET r == Head(up) IN Ping(r) \/ Error(r) \/ DeviceInfoResp(r)
    /\ UNCHANGED <<dirVars, request, down, asked, lit, restarts, ghosts>>

\* The host process starts again, with an empty registry and an empty line.
HostRestarts ==
    /\ restarts < MAX_RESTARTS
    /\ restarts' = restarts + 1
    /\ _nodes' = <<>>
    /\ request' = [t \in Thread |-> Idle]
    /\ up' = <<>>
    /\ down' = [j \in 1..Len(down) |-> [down[j] EXCEPT !.kept = FALSE]]
    /\ forgotten' = online
    /\ missed' = Ids
    /\ UNCHANGED <<dirVars, asked, lit, crossed>>

-----------------------------------------------------------------------------
(***************************************************************************)
(* A request for a zone: set_led_zone, or clear_led_zone with NoZone.      *)
(***************************************************************************)

\* k is the entry get_node_by_name(name) returns: the first of that name.
get_node_by_name(k, name) ==
    /\ _nodes[k].name = name
    /\ \A j \in 1..(k - 1) : _nodes[j].name # name

\* _get_node: the node must be connected, as far as the host knows.
RequestFinds(t, name, z) ==
    /\ request[t].at = "idle"
    /\ \E k \in 1..Len(_nodes) :
          /\ get_node_by_name(k, name)
          /\ _nodes[k].connected
          /\ request' = [request EXCEPT ![t] = [at |-> "found", id |-> _nodes[k].id,
                                                name |-> name, zone |-> z]]
    /\ UNCHANGED <<dirVars, _nodes, lineVars, asked, lit, restarts, ghosts>>

\* send_packet.  The request overlaps those that have sent but not noted it.
RequestSends(t) ==
    LET r == request[t]
        overlap == \E s \in Thread \ {t} : request[s].at = "sent" /\ request[s].id = r.id
    IN /\ r.at = "found"
       /\ Len(down) < DOWN_MAX
       /\ down' = Append(down, [id |-> r.id, name |-> r.name, zone |-> r.zone,
                                kept |-> TRUE])
       /\ request' = [request EXCEPT ![t].at = "sent"]
       /\ crossed' = IF overlap THEN crossed \cup {r.id} ELSE crossed \ {r.id}
       /\ UNCHANGED <<dirVars, _nodes, up, asked, lit, restarts, forgotten, missed>>

\* Mutant: a cleared zone stays in the mirror.
RequestNotesSet(t) ==
    LET r == request[t]
    IN /\ r.at = "sent"
       /\ _nodes' = IF r.zone = NoZone THEN _nodes
                       ELSE Updated(r.id, LAMBDA e : [e EXCEPT !.zone = r.zone])
       /\ request' = [request EXCEPT ![t] = Idle]
       /\ UNCHANGED <<dirVars, lineVars, asked, lit, restarts, ghosts>>

\* DeviceManager.set_zone or clear_zone.
RequestNotes(t) ==
    LET r == request[t]
    IN /\ r.at = "sent"
       /\ _nodes' = Updated(r.id, LAMBDA e : [e EXCEPT !.zone = r.zone])
       /\ request' = [request EXCEPT ![t] = Idle]
       /\ UNCHANGED <<dirVars, lineVars, asked, lit, restarts, ghosts>>

Requests ==
    \E t \in Thread :
       \/ \E n \in Wanted, z \in Setting : RequestFinds(t, n, z)
       \/ RequestSends(t)
       \/ RequestNotes(t)

Next ==
    \/ \E b \in Bda : NodeJoins(b)
    \/ \E i \in Ids : NodeReturns(i) \/ NodeDescribes(i) \/ NodeLeaves(i)
    \/ Delivered
    \/ HostPolls \/ HostRestarts
    \/ Requests

Spec == Init /\ [][Next]_vars

\* The poll thread reads what there is, and a node that is asked answers, the
\* line being free again and again; no link has to come up and no request has
\* to be made.
FairSpec ==
    /\ Spec
    /\ WF_vars(HostPolls)
    /\ \A i \in 1..MaxId : SF_vars(i \in Ids /\ NodeDescribes(i))

-----------------------------------------------------------------------------
(***************************************************************************)
(* Properties.                                                             *)
(***************************************************************************)

\* When every report is read the host takes exactly those nodes for connected
\* that are online and came online since it started; those it found online it
\* never learns of.
ViewFollows ==
    up = <<>> => {_nodes[k].id : k \in {j \in 1..Len(_nodes) : _nodes[j].connected}}
                    = online \ forgotten

\* A command is only ever addressed to the node of the name it was made for.
Addressed ==
    \A j \in 1..Len(down) : device_name[directory[down[j].id]] = down[j].name

\* When nothing for a node is on its way the host's mirror of its zone is what
\* the node shows, unless the last requests overlapped, the last command did
\* not reach it, or the node or the host restarted since.
MirrorAgrees ==
    \A k \in 1..Len(_nodes) :
       LET i == _nodes[k].id
           quiet == /\ \A t \in Thread : request[t].at = "sent" => request[t].id # i
                    /\ \A j \in 1..Len(down) : down[j].id # i
       IN quiet /\ i \notin crossed \cup missed
             => _nodes[k].zone = lit[directory[i]]

\* The name of b finds the id of b, connected.
Addressable(b) ==
    \E k \in 1..Len(_nodes) :
       /\ get_node_by_name(k, device_name[b])
       /\ _nodes[k].connected
       /\ directory[_nodes[k].id] = b

\* A node that stays online, whose description fits its packet, can in the end
\* be addressed by its name, if the host was there when it came.
AddressableInTheEnd ==
    \A b \in Bda \ Long :
       <>[](\E i \in online \ forgotten : directory[i] = b) => <>[]Addressable(b)
=============================================================================
