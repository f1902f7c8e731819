----------------------------- MODULE CommandPath ----------------------------
(***************************************************************************)
(* The way of a host command through the router (router/main:              *)
(* command_parser_feed's dispatch and ble_central_send_to_node): the       *)
(* serial task takes the node id of a frame for a slot of s_nodes, reads   *)
(* the slot's conn_id, walks s_conns for its entry and writes to the link  *)
(* of that number.  It holds no lock, so the BTC task may run any handler  *)
(* of BleCentral between two of its reads.  What the bytes of a frame are  *)
(* is SerialFraming's matter.                                              *)
(***************************************************************************)
EXTENDS BleCentral

VARIABLES
    serial,     \* the serial task, see Task
    sent,       \* the node that gets the write of this step, if there is one
    aim,        \* ghost: the node the id served was online for when it was
                \* checked, for as long as it is
    shifted     \* ghost: free_conn ran since the walk of s_conns began

pathVars == <<serial, sent, aim, shifted>>
allVars == <<vars, pathVars>>

\* Where the task is, the id it serves, whether the frame goes to all ids, the
\* conn_id it read and the entry of s_conns it looks at.
Task == [pc : {"idle", "check", "conn", "walk", "entry", "write"},
         id : NodeIds, all : BOOLEAN, conn : ConnIds, k : 1..(MAX_CONNS + 1)]
IdleTask == [pc |-> "idle", id |-> 1, all |-> FALSE, conn |-> 0, k |-> 1]

PathTypeOK ==
    /\ serial \in Task
    /\ sent \in Owner
    /\ aim \in Owner
    /\ shifted \in BOOLEAN

PathInit ==
    /\ Init
    /\ serial = IdleTask
    /\ sent = NoPeer
    /\ aim = NoPeer
    /\ shifted = FALSE

\* A broadcast (0xFF) goes on with the next slot, a command for one is done.
Done ==
    /\ serial' = IF serial.all /\ serial.id < NODE_MAX_COUNT
                    THEN [IdleTask EXCEPT !.pc = "check", !.all = TRUE,
                                          !.id = serial.id + 1]
                    ELSE IdleTask
    /\ aim' = NoPeer
    /\ shifted' = FALSE

\* command_parser_feed has a whole frame.
Parsed ==
    /\ serial.pc = "idle"
    /\ \/ \E i \in NodeIds : serial' = [IdleTask EXCEPT !.pc = "check", !.id = i]
       \/ serial' = [IdleTask EXCEPT !.pc = "check", !.all = TRUE]
    /\ sent' = NoPeer
    /\ UNCHANGED <<aim, shifted>>

\* node_get and the test of node->connected; the broadcast's loop ends at
\* node_count().
Check ==
    /\ serial.pc = "check"
    /\ \/ /\ IsConnected(serial.id)
          /\ serial' = [serial EXCEPT !.pc = "conn"]
          /\ aim' = told[serial.id]
          /\ UNCHANGED shifted
       \/ ~IsConnected(serial.id) /\ Done
    /\ sent' = NoPeer

\* Mutant: the id is taken for the number of the link.
ReadId ==
    /\ serial.pc = "conn"
    /\ serial' = [serial EXCEPT !.pc = "walk", !.conn = (serial.id - 1) % MaxLinks]
    /\ sent' = NoPeer
    /\ UNCHANGED <<aim, shifted>>

\* node->conn_id is read, and find_conn begins.
ReadConn ==
    /\ serial.pc = "conn"
    /\ serial' = [serial EXCEPT !.pc = "walk", !.conn = s_nodes[serial.id].conn_id]
    /\ sent' = NoPeer
    /\ UNCHANGED <<aim, shifted>>

\* The loop of find_conn goes on, or stops at the entry it looks at.
GoOn == serial' = [serial EXCEPT !.k = @ + 1] /\ UNCHANGED <<aim, shifted>>
Found == serial' = [serial EXCEPT !.pc = "entry"] /\ UNCHANGED <<aim, shifted>>

\* Mutants: the walk leaves out the last entry; it takes any entry.
WalkShort ==
    /\ serial.pc = "walk"
    /\ \/ serial.k >= s_conn_count /\ Done
       \/ serial.k < s_conn_count /\ s_conns[serial.k].conn_id = serial.conn /\ Found
       \/ serial.k < s_conn_count /\ s_conns[serial.k].conn_id # serial.conn /\ GoOn
    /\ sent' = NoPeer

WalkAny ==
    /\ serial.pc = "walk"
    /\ \/ serial.k > s_conn_count /\ Done
       \/ serial.k <= s_conn_count /\ Found
    /\ sent' = NoPeer

\* One turn of the loop: past the last entry the command is dropped.
Walk ==
    /\ serial.pc = "walk"
    /\ \/ serial.k > s_conn_count /\ Done
       \/ serial.k <= s_conn_count /\ s_conns[serial.k].conn_id = serial.conn /\ Found
       \/ serial.k <= s_conn_count /\ s_conns[serial.k].conn_id # serial.conn /\ GoOn
    /\ sent' = NoPeer

\* The write characteristic must be known.
ReadEntry ==
    /\ serial.pc = "entry"
    /\ \/ /\ s_conns[serial.k].cmd_found
          /\ serial' = [serial EXCEPT !.pc = "write"]
          /\ UNCHANGED <<aim, shifted>>
       \/ ~s_conns[serial.k].cmd_found /\ Done
    /\ sent' = NoPeer

\* esp_ble_gattc_write_char: the stack writes to the link, if it is up.
WriteChar ==
    /\ serial.pc = "write"
    /\ sent' = link[serial.conn].peer
    /\ Done

SerialTask ==
    /\ Parsed \/ Check \/ ReadConn \/ Walk \/ ReadEntry \/ WriteChar
    /\ UNCHANGED vars

\* A step of BleCentral meanwhile.
CentralStep ==
    /\ Next
    /\ shifted' = /\ serial.pc \in {"walk", "entry", "write"}
                  /\ shifted \/ s_conn_count' < s_conn_count
    /\ aim' = IF told'[serial.id] = aim THEN aim ELSE NoPeer
    /\ sent' = NoPeer
    /\ UNCHANGED serial

PathNext == SerialTask \/ CentralStep

PathSpec == PathInit /\ [][PathNext]_allVars

-----------------------------------------------------------------------------
(***************************************************************************)
(* Properties.                                                             *)
(***************************************************************************)

LossQueued(c, b) == \E j \in 1..Len(evq) : IsDisconnect(evq[j], <<c, b>>)

\* A command for an id that was online for a node when it was checked, and has
\* not been reported lost since, is written to that node's link and no other's,
\* unless the link is gone and its DISCONNECT not handled yet.
ReachStep ==
    WriteChar /\ aim # NoPeer
        => sent' = aim \/ LossQueued(serial.conn, aim)

CommandReachesSession == [][ReachStep]_allVars

\* The entry the task uses is that of the link it writes to, unless free_conn
\* moved the entries under it.
EntryOwn ==
    serial.pc \in {"entry", "write"} /\ ~shifted =>
        /\ serial.k \in InUse
        /\ s_conns[serial.k].conn_id = serial.conn

\* A command is dropped for want of an entry only if there is none, or if
\* free_conn moved the entries during the walk.
MissedStep ==
    serial.pc = "walk" /\ serial'.pc \notin {"walk", "entry"}
        => serial.conn \notin Recorded \/ shifted

DroppedOnlyIfGone == [][MissedStep]_allVars
=============================================================================
