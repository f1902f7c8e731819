------------------------- MODULE CommandPathProofs -------------------------
(***************************************************************************)
(* Proofs about CommandPath, for any number of nodes, links, slots and     *)
(* entries, from what BleCentralProofs shows of the tables.                *)
(***************************************************************************)
EXTENDS CommandPath, BleCentralProofs

-----------------------------------------------------------------------------
(***************************************************************************)
(* What the BTC task leaves alone while the serial task is on its way.     *)
(***************************************************************************)

\* The slot of a node keeps its conn_id for as long as the node's session lasts.
LEMMA SessionsKeepConnId ==
    ASSUME IInv, [Next]_vars, NEW i \in NodeIds, Online(i), told'[i] = told[i]
    PROVE  s_nodes'[i].conn_id = s_nodes[i].conn_id
  <1>1. NodeRegistryTypeOK
    BY DEF IInv, TypeOK
  <1>2. CASE UNCHANGED registryVars
    BY <1>2 DEF registryVars
  <1>3. ASSUME NEW c, NEW b, NEW k, Store(c, b, k)
        PROVE  s_nodes'[i].conn_id = s_nodes[i].conn_id
    BY <1>1, <1>3, StoreKeepsIdentity
  <1>4. ASSUME NEW c \in ConnIds, NEW b \in Bda,
               ConnectEvt(c, b), ConnectAdded(c, b)
        PROVE  s_nodes'[i].conn_id = s_nodes[i].conn_id
    <2>1. Handle(LinkEvent("CONNECT", c, b))
      BY <1>4 DEF ConnectEvt
    <2>2. s_nodes'[i] = s_nodes[i]
      BY <1>4, <2>1, AddedSlots
    <2> QED  BY <2>2
  <1>5. ASSUME NEW c \in ConnIds, NEW b \in Bda, ConnectEvt(c, b)
        PROVE  s_nodes'[i].conn_id = s_nodes[i].conn_id
    <2>1. CASE ConnectAdded(c, b)
      BY <1>4, <1>5, <2>1
    <2>2. CASE UNCHANGED registryVars
      BY <1>2, <2>2
    <2> QED  BY <1>5, <2>1, <2>2 DEF ConnectEvt, ConnectNoConn, ConnectNoNode
  <1>6. ASSUME NEW c \in ConnIds, NEW b \in Bda, DisconnectEvt(c, b)
        PROVE  s_nodes'[i].conn_id = s_nodes[i].conn_id
    <2>1. node_remove(c)
      BY <1>6 DEF DisconnectEvt
    <2> QED  BY <1>1, <2>1, RemoveKeepsOthers
  <1> QED
    BY <1>2, <1>3, <1>5, <1>6, RegistrySteps

\* An entry of s_conns stays where it is, and that of its link, unless one is
\* freed.
LEMMA EntriesKeepLink ==
    ASSUME IInv, [Next]_vars, ~(s_conn_count' < s_conn_count), NEW k \in InUse
    PROVE  k \in InUse' /\ s_conns'[k].conn_id = s_conns[k].conn_id
  <1>1. /\ s_conns \in [ConnSlots -> gattc_conn_t]
        /\ s_conn_count \in 0..MAX_CONNS /\ InUse \subseteq ConnSlots
    <2>1. s_conns \in [ConnSlots -> gattc_conn_t] /\ s_conn_count \in 0..MAX_CONNS
      BY DEF IInv, TypeOK
    <2> QED  BY <2>1, CentralAssumption DEF InUse, ConnSlots
  <1>2. CASE UNCHANGED centralVars
    BY <1>2 DEF centralVars, InUse
  <1>3. ASSUME NEW c, NEW b, alloc_conn(c, b)
        PROVE  k \in InUse' /\ s_conns'[k].conn_id = s_conns[k].conn_id
    BY <1>1, <1>3 DEF alloc_conn, InUse, ConnSlots
  <1>4. ASSUME NEW c, free_conn(c)
        PROVE  UNCHANGED centralVars
    BY <1>1, <1>4 DEF free_conn
  <1>5. ASSUME NEW c, NEW b, SearchCmplEvt(c, b)
        PROVE  k \in InUse' /\ s_conns'[k].conn_id = s_conns[k].conn_id
    <2>1. s_conn_count' = s_conn_count
      BY <1>5 DEF SearchCmplEvt
    <2>2. \/ s_conns' = s_conns
          \/ \E j \in InUse, cmd \in BOOLEAN :
                s_conns' = [s_conns EXCEPT ![j].cmd_found = @ \/ cmd]
      BY <1>5 DEF SearchCmplEvt, SearchFound
    <2>3. s_conns'[k].conn_id = s_conns[k].conn_id
      BY <1>1, <2>2 DEF gattc_conn_t
    <2> QED  BY <2>1, <2>3 DEF InUse
  <1>6. CASE Stack
    BY <1>2, <1>6 DEF Stack, Advertise, OpenOk, OpenFail, Drop, SearchDone, Notify, StackStep
  <1>7. CASE UNCHANGED vars
    BY <1>2, <1>7 DEF vars
  <1>8. CASE RegEvt \/ ScanParamEvt \/ \E b \in Bda : ScanResultEvt(b)
    BY <1>2, <1>8 DEF RegEvt, ScanParamEvt, ScanResultEvt
  <1>9. ASSUME NEW c, NEW b, LinkHandler(c, b)
        PROVE  k \in InUse' /\ s_conns'[k].conn_id = s_conns[k].conn_id
    <2>1. CASE ConnectEvt(c, b)
      BY <1>2, <1>3, <2>1 DEF ConnectEvt, ConnectNoConn, ConnectNoNode, ConnectAdded
    <2>2. CASE DisconnectEvt(c, b)
      BY <1>2, <1>4, <2>2 DEF DisconnectEvt
    <2>3. ASSUME NEW kind, NotifyEvt(c, b, kind)
          PROVE  UNCHANGED centralVars
      BY <2>3 DEF NotifyEvt
    <2> QED  BY <1>2, <1>5, <1>9, <2>1, <2>2, <2>3 DEF LinkHandler
  <1> QED
    BY <1>6, <1>7, <1>8, <1>9 DEF Next, Handler

-----------------------------------------------------------------------------
(***************************************************************************)
(* The serial task on its way.                                             *)
(***************************************************************************)

\* Before its walk of s_conns nothing is passed and nothing has shifted, and
\* before its check it aims at no node.
Fresh ==
    /\ serial.pc \in {"idle", "check", "conn"} => serial.k = 1 /\ ~shifted
    /\ serial.pc \in {"idle", "check"} => aim = NoPeer

\* The node it aims at is online under its id, and the conn_id it read is that of
\* the node's session.
Aimed ==
    aim # NoPeer =>
        /\ told[serial.id] = aim
        /\ serial.pc \in {"walk", "entry", "write"}
              => serial.conn = s_nodes[serial.id].conn_id

\* The entries the walk has passed are other links', unless free_conn ran.
Passed ==
    serial.pc = "walk" /\ ~shifted
        => \A j \in 1..(serial.k - 1) : j \in InUse /\ s_conns[j].conn_id # serial.conn

PathIInv ==
    /\ IInv
    /\ PathTypeOK
    /\ Fresh
    /\ Aimed
    /\ Passed
    /\ EntryOwn

\* In a state of PathIInv.
LEMMA PathFacts ==
    ASSUME PathIInv
    PROVE  /\ NodeRegistryTypeOK
           /\ s_conn_count \in 0..MAX_CONNS
           /\ serial \in Task
           /\ serial.pc \in {"idle", "check", "conn", "walk", "entry", "write"}
           /\ serial.id \in NodeIds /\ serial.conn \in ConnIds
           /\ serial.k \in 1..(MAX_CONNS + 1)
           /\ aim \in Owner /\ shifted \in BOOLEAN
  <1>1. NodeRegistryTypeOK /\ s_conn_count \in 0..MAX_CONNS
    BY DEF PathIInv, IInv, TypeOK
  <1>2. serial \in Task /\ aim \in Owner /\ shifted \in BOOLEAN
    BY DEF PathIInv, PathTypeOK
  <1>3. /\ serial.pc \in {"idle", "check", "conn", "walk", "entry", "write"}
        /\ serial.id \in NodeIds /\ serial.conn \in ConnIds
        /\ serial.k \in 1..(MAX_CONNS + 1)
    BY <1>2 DEF Task
  <1> QED  BY <1>1, <1>2, <1>3

LEMMA IdleTyped == IdleTask \in Task /\ IdleTask.pc = "idle" /\ IdleTask.k = 1
  <1>1. 1 \in NodeIds /\ 0 \in ConnIds /\ 1 \in 1..(MAX_CONNS + 1)
    BY RegistryAssumption, CentralAssumption DEF NodeIds, ConnIds
  <1> QED  BY <1>1 DEF IdleTask, Task

LEMMA PathInitial == PathInit => PathIInv
  <1> SUFFICES ASSUME PathInit PROVE PathIInv
    OBVIOUS
  <1>1. IInv
    BY InitIInv DEF PathInit
  <1>2. serial \in Task /\ serial.pc = "idle" /\ serial.k = 1
    BY IdleTyped DEF PathInit
  <1>3. PathTypeOK
    BY <1>2 DEF PathInit, PathTypeOK, Owner
  <1>4. Fresh /\ Aimed
    BY <1>2 DEF PathInit, Fresh, Aimed
  <1> QED
    BY <1>1, <1>2, <1>3, <1>4 DEF PathIInv, Passed, EntryOwn

\* Whatever the BTC task does, what the serial task has read stays good for the
\* session it aims at, but for the places of the entries when one is freed.
LEMMA CentralKeepsPath == PathIInv /\ CentralStep => PathIInv'
  <1> SUFFICES ASSUME PathIInv, CentralStep PROVE PathIInv'
    OBVIOUS
  <1>1. IInv /\ Next /\ serial' = serial /\ sent' = NoPeer
    BY DEF PathIInv, CentralStep
  <1>2. IInv'
    BY <1>1, NextKeepsIInv
  <1>3. aim' = aim \/ aim' = NoPeer
    BY DEF CentralStep
  <1>4. PathTypeOK'
    <2>1. shifted' \in BOOLEAN
      BY DEF CentralStep
    <2> QED  BY <1>1, <1>3, <2>1 DEF PathIInv, PathTypeOK, Owner
  <1>5. Fresh'
    <2>1. serial.pc \in {"idle", "check", "conn"} => shifted' = FALSE
      BY DEF CentralStep
    <2> QED  BY <1>1, <1>3, <2>1 DEF PathIInv, Fresh
  <1>6. Aimed'
    <2> SUFFICES ASSUME aim' # NoPeer
                 PROVE  /\ told'[serial.id] = aim'
                        /\ serial.pc \in {"walk", "entry", "write"}
                              => serial.conn = s_nodes'[serial.id].conn_id
      BY <1>1 DEF Aimed
    <2>1. aim' = aim /\ told'[serial.id] = aim
      BY DEF CentralStep
    <2>2. told[serial.id] = aim
      BY <2>1 DEF PathIInv, Aimed
    <2>3. Online(serial.id) /\ serial.id \in NodeIds
      BY <2>1, <2>2, PathFacts DEF Online
    <2>4. s_nodes'[serial.id].conn_id = s_nodes[serial.id].conn_id
      BY <1>1, <2>1, <2>2, <2>3, SessionsKeepConnId
    <2> QED  BY <2>1, <2>4 DEF PathIInv, Aimed
  <1>7. serial.pc \in {"walk", "entry", "write"} /\ ~shifted'
          => ~shifted /\ ~(s_conn_count' < s_conn_count)
    BY DEF CentralStep
  <1>8. serial.pc \in {"walk", "entry", "write"} /\ ~shifted'
          => \A k \in InUse : k \in InUse' /\ s_conns'[k].conn_id = s_conns[k].conn_id
    BY <1>1, <1>7, EntriesKeepLink
  <1>9. Passed'
    BY <1>1, <1>7, <1>8 DEF PathIInv, Passed
  <1>10. EntryOwn'
    BY <1>1, <1>7, <1>8 DEF PathIInv, EntryOwn
  <1> QED
    BY <1>2, <1>4, <1>5, <1>6, <1>9, <1>10 DEF PathIInv

\* The task is back at its start, or at the next slot of a broadcast.
LEMMA DoneIdle ==
    ASSUME PathIInv, Done
    PROVE  /\ serial' \in Task /\ serial'.pc \in {"idle", "check"} /\ serial'.k = 1
           /\ aim' = NoPeer /\ shifted' = FALSE
  <1>1. serial.id \in NodeIds
    BY PathFacts
  <1>2. CASE serial' = IdleTask
    BY <1>2, IdleTyped DEF Done
  <1>3. CASE /\ serial.id < NODE_MAX_COUNT
             /\ serial' = [IdleTask EXCEPT !.pc = "check", !.all = TRUE, !.id = serial.id + 1]
    <2>1. serial.id + 1 \in NodeIds
      BY <1>1, <1>3, RegistryAssumption DEF NodeIds
    <2>2. serial' = [pc |-> "check", id |-> serial.id + 1, all |-> TRUE, conn |-> 0, k |-> 1]
      BY <1>3 DEF IdleTask
    <2>3. 0 \in ConnIds /\ 1 \in 1..(MAX_CONNS + 1)
      BY RegistryAssumption, CentralAssumption DEF ConnIds
    <2>4. /\ serial' \in Task /\ serial'.pc \in {"idle", "check"} /\ serial'.k = 1
      BY <2>1, <2>2, <2>3 DEF Task
    <2>5. aim' = NoPeer /\ shifted' = FALSE
      BY DEF Done
    <2> QED  BY <2>4, <2>5
  <1> QED  BY <1>2, <1>3 DEF Done

\* A step of the serial task leaves the tables as they are.
LEMMA SerialKeepsTables ==
    ASSUME PathIInv, UNCHANGED vars
    PROVE  /\ IInv /\ IInv' /\ told' = told
           /\ s_nodes' = s_nodes /\ s_conns' = s_conns /\ InUse' = InUse
  <1>1. IInv /\ IInv'
    BY NextKeepsIInv DEF PathIInv
  <1> QED
    BY <1>1 DEF vars, registryVars, centralVars, hostVars, InUse

\* A step that ends the command at hand.
LEMMA DoneKeepsPath ==
    ASSUME PathIInv, UNCHANGED vars, Done, sent' \in Owner
    PROVE  PathIInv'
  <1>1. PathTypeOK'
    BY DoneIdle DEF PathTypeOK, Owner
  <1>2. Fresh' /\ Aimed' /\ Passed' /\ EntryOwn'
    BY DoneIdle DEF Fresh, Aimed, Passed, EntryOwn
  <1> QED  BY <1>1, <1>2, SerialKeepsTables DEF PathIInv

\* A step that goes on to the next pc for the same id.
LEMMA GoingOnKeepsPath ==
    ASSUME PathIInv, UNCHANGED vars, sent' = NoPeer, UNCHANGED <<aim, shifted>>,
           serial' \in Task, serial'.id = serial.id, serial'.conn = serial.conn,
           serial.pc \in {"walk", "entry", "write"},
           serial'.pc \in {"walk", "entry", "write"},
           Passed', EntryOwn'
    PROVE  PathIInv'
  <1>1. PathTypeOK'
    BY DEF PathIInv, PathTypeOK, Owner
  <1>2. Fresh' /\ Aimed'
    BY SerialKeepsTables DEF PathIInv, Fresh, Aimed
  <1> QED  BY <1>1, <1>2, SerialKeepsTables DEF PathIInv

\* The steps up to the walk.
LEMMA ReadsKeepPath ==
    ASSUME PathIInv, UNCHANGED vars, Parsed \/ Check \/ ReadConn
    PROVE  PathIInv'
  <1> USE PathFacts
  <1>1. CASE Parsed
    <2>1. sent' = NoPeer /\ aim' = aim /\ shifted' = shifted /\ serial.pc = "idle"
      BY <1>1 DEF Parsed
    <2>2. serial' \in Task /\ serial'.pc = "check" /\ serial'.k = 1
      <3>1. 1 \in NodeIds /\ 0 \in ConnIds /\ 1 \in 1..(MAX_CONNS + 1)
        BY RegistryAssumption, CentralAssumption DEF NodeIds, ConnIds
      <3>2. ASSUME NEW i \in NodeIds, serial' = [IdleTask EXCEPT !.pc = "check", !.id = i]
            PROVE  serial' \in Task /\ serial'.pc = "check" /\ serial'.k = 1
        <4>1. serial' = [pc |-> "check", id |-> i, all |-> FALSE, conn |-> 0, k |-> 1]
          BY <3>2 DEF IdleTask
        <4> QED  BY <3>1, <4>1 DEF Task
      <3>3. ASSUME serial' = [IdleTask EXCEPT !.pc = "check", !.all = TRUE]
            PROVE  serial' \in Task /\ serial'.pc = "check" /\ serial'.k = 1
        <4>1. serial' = [pc |-> "check", id |-> 1, all |-> TRUE, conn |-> 0, k |-> 1]
          BY <3>3 DEF IdleTask
        <4> QED  BY <3>1, <4>1 DEF Task
      <3> QED  BY <1>1, <3>2, <3>3 DEF Parsed
    <2>3. aim = NoPeer /\ ~shifted
      BY <2>1 DEF PathIInv, Fresh
    <2>4. PathTypeOK'
      BY <2>1, <2>2 DEF PathTypeOK, Owner
    <2> QED
      BY <2>1, <2>2, <2>3, <2>4, SerialKeepsTables
         DEF PathIInv, Fresh, Aimed, Passed, EntryOwn
  <1>2. CASE Check
    <2>1. CASE Done
      BY <1>2, <2>1, DoneKeepsPath DEF Check, Owner
    <2>2. CASE /\ serial' = [serial EXCEPT !.pc = "conn"]
               /\ aim' = told[serial.id]
               /\ shifted' = shifted
      <3>1. serial' \in Task /\ serial'.pc = "conn" /\ serial'.id = serial.id
            /\ serial'.k = serial.k
        BY <2>2 DEF Task
      <3>2. told[serial.id] \in Owner
        BY DEF PathIInv, IInv, TypeOK
      <3>3. PathTypeOK'
        BY <1>2, <2>2, <3>1, <3>2 DEF Check, PathTypeOK, Owner
      <3>4. Fresh'
        BY <1>2, <2>2, <3>1 DEF Check, PathIInv, Fresh
      <3>5. Aimed'
        BY <2>2, <3>1, SerialKeepsTables DEF Aimed
      <3> QED
        BY <3>1, <3>3, <3>4, <3>5, SerialKeepsTables DEF PathIInv, Passed, EntryOwn
    <2> QED  BY <1>2, <2>1, <2>2 DEF Check
  <1>3. CASE ReadConn
    <2>1. s_nodes[serial.id].conn_id \in ConnIds
      BY DEF NodeRegistryTypeOK, node_t
    <2>2. /\ serial' \in Task /\ serial'.pc = "walk" /\ serial'.id = serial.id
          /\ serial'.k = serial.k /\ serial'.conn = s_nodes[serial.id].conn_id
      BY <1>3, <2>1 DEF ReadConn, Task
    <2>3. serial.k = 1 /\ ~shifted
      BY <1>3 DEF ReadConn, PathIInv, Fresh
    <2>4. sent' = NoPeer /\ aim' = aim /\ shifted' = shifted
      BY <1>3 DEF ReadConn
    <2>5. PathTypeOK'
      BY <2>2, <2>4 DEF PathTypeOK, Owner
    <2>6. Fresh' /\ EntryOwn'
      BY <2>2 DEF Fresh, EntryOwn
    <2>7. Aimed'
      BY <2>2, <2>4, SerialKeepsTables DEF PathIInv, Aimed
    <2>8. Passed'
      BY <2>2, <2>3 DEF Passed
    <2> QED  BY <2>5, <2>6, <2>7, <2>8, SerialKeepsTables DEF PathIInv
  <1> QED  BY <1>1, <1>2, <1>3

\* One turn of the walk.
LEMMA WalkKeepsPath ==
    ASSUME PathIInv, UNCHANGED vars, Walk
    PROVE  PathIInv'
  <1> USE PathFacts
  <1>1. sent' = NoPeer /\ serial.pc = "walk"
    BY DEF Walk
  <1>2. CASE Done
    BY <1>1, <1>2, DoneKeepsPath DEF Owner
  <1>3. ASSUME serial.k <= s_conn_count, s_conns[serial.k].conn_id = serial.conn, Found
        PROVE  PathIInv'
    <2>1. /\ serial' \in Task /\ serial'.pc = "entry" /\ serial'.id = serial.id
          /\ serial'.k = serial.k /\ serial'.conn = serial.conn
          /\ UNCHANGED <<aim, shifted>>
      BY <1>3 DEF Found, Task
    <2>2. serial.k \in InUse
      BY <1>3 DEF InUse
    <2>3. Passed' /\ EntryOwn'
      BY <1>3, <2>1, <2>2, SerialKeepsTables DEF Passed, EntryOwn
    <2> QED  BY <1>1, <2>1, <2>3, GoingOnKeepsPath
  <1>4. ASSUME serial.k <= s_conn_count, s_conns[serial.k].conn_id # serial.conn, GoOn
        PROVE  PathIInv'
    <2>1. /\ serial' \in Task /\ serial'.pc = "walk" /\ serial'.id = serial.id
          /\ serial'.k = serial.k + 1 /\ serial'.conn = serial.conn
          /\ UNCHANGED <<aim, shifted>>
      <3>1. serial.k + 1 \in 1..(MAX_CONNS + 1)
        BY <1>4, CentralAssumption
      <3> QED  BY <1>1, <1>4, <3>1 DEF GoOn, Task
    <2>2. serial.k \in InUse
      BY <1>4 DEF InUse
    <2>3. Passed'
      <3>1. \A j \in 1..(serial'.k - 1) : j \in 1..(serial.k - 1) \/ j = serial.k
        BY <2>1
      <3> QED
        BY <1>1, <1>4, <2>1, <2>2, <3>1, SerialKeepsTables DEF PathIInv, Passed
    <2>4. EntryOwn'
      BY <2>1 DEF EntryOwn
    <2> QED  BY <1>1, <2>1, <2>3, <2>4, GoingOnKeepsPath
  <1> QED  BY <1>2, <1>3, <1>4 DEF Walk

\* The entry is read and the write made.
LEMMA WriteKeepsPath ==
    ASSUME PathIInv, UNCHANGED vars, ReadEntry \/ WriteChar
    PROVE  PathIInv'
  <1> USE PathFacts
  <1>1. CASE ReadEntry
    <2>1. CASE Done
      BY <1>1, <2>1, DoneKeepsPath DEF ReadEntry, Owner
    <2>2. CASE serial' = [serial EXCEPT !.pc = "write"] /\ UNCHANGED <<aim, shifted>>
      <3>1. /\ serial' \in Task /\ serial'.pc = "write" /\ serial'.id = serial.id
            /\ serial'.k = serial.k /\ serial'.conn = serial.conn
        BY <2>2 DEF Task
      <3>2. Passed'
        BY <3>1 DEF Passed
      <3>3. EntryOwn'
        BY <1>1, <2>2, <3>1, SerialKeepsTables DEF ReadEntry, PathIInv, EntryOwn
      <3> QED  BY <1>1, <2>2, <3>1, <3>2, <3>3, GoingOnKeepsPath DEF ReadEntry
    <2> QED  BY <1>1, <2>1, <2>2 DEF ReadEntry
  <1>2. CASE WriteChar
    <2>1. sent' \in Owner
      <3>1. link \in [ConnIds -> Link]
        BY DEF PathIInv, IInv, TypeOK
      <3> QED  BY <1>2, <3>1 DEF WriteChar, Link
    <2> QED  BY <1>2, <2>1, DoneKeepsPath DEF WriteChar
  <1> QED  BY <1>1, <1>2

\* The invariant of the serial task between the steps of the BTC task.
THEOREM PathInvariant == PathSpec => []PathIInv
  <1>1. PathIInv /\ SerialTask => PathIInv'
    BY ReadsKeepPath, WalkKeepsPath, WriteKeepsPath DEF SerialTask
  <1>2. PathIInv /\ UNCHANGED allVars => PathIInv'
    <2> SUFFICES ASSUME PathIInv, UNCHANGED allVars PROVE PathIInv'
      OBVIOUS
    <2>1. UNCHANGED vars /\ UNCHANGED pathVars
      BY DEF allVars
    <2> QED
      BY <2>1, SerialKeepsTables
         DEF pathVars, PathIInv, PathTypeOK, Fresh, Aimed, Passed, EntryOwn
  <1>3. PathIInv /\ [PathNext]_allVars => PathIInv'
    BY <1>1, <1>2, CentralKeepsPath DEF PathNext
  <1> QED  BY <1>3, PathInitial, PTL DEF PathSpec

\* However conn_ids pass from node to node between the reads of the serial task, a
\* command for an id that is online reaches the node of that session and no other,
\* unless the link is gone and its DISCONNECT waits to be handled.
THEOREM ReachesSession == PathSpec => CommandReachesSession
  <1>1. PathIInv /\ [PathNext]_allVars => [ReachStep]_allVars
    <2> SUFFICES ASSUME PathIInv, WriteChar, aim # NoPeer, sent' # aim
                 PROVE  LossQueued(serial.conn, aim)
      BY DEF ReachStep
    <2>1. serial.pc = "write" /\ sent' = link[serial.conn].peer
      BY DEF WriteChar
    <2>2. told[serial.id] = aim /\ serial.conn = s_nodes[serial.id].conn_id
      BY <2>1 DEF PathIInv, Aimed
    <2>3. <<serial.conn, aim>> \in RecordedLinks
      BY <2>2, PathFacts DEF PathIInv, IInv, ToldHolds, Online
    <2>4. <<serial.conn, aim>> \notin UpLinks
      BY <2>1 DEF UpLinks
    <2>5. \E j \in 1..Len(evq) : IsDisconnect(evq[j], <<serial.conn, aim>>)
      BY <2>3, <2>4 DEF PathIInv, IInv, QueueInv, RecordedEnd
    <2> QED  BY <2>5 DEF LossQueued
  <1> QED  BY <1>1, PathInvariant, PTL DEF PathSpec, CommandReachesSession

\* For any use of conn_ids the entry the task has found is its link's, unless
\* free_conn moved the entries.
THEOREM FoundOwn == PathSpec => []EntryOwn
  <1>1. PathIInv => EntryOwn
    BY DEF PathIInv
  <1> QED  BY <1>1, PathInvariant, PTL

\* The task gives a command up for want of an entry only if its link has none, or
\* free_conn moved the entries while it looked.
THEOREM NotMissed == PathSpec => DroppedOnlyIfGone
  <1>1. PathIInv /\ [PathNext]_allVars => [MissedStep]_allVars
    <2> SUFFICES ASSUME PathIInv, PathNext, serial.pc = "walk",
                        serial'.pc \notin {"walk", "entry"}, ~shifted
                 PROVE  serial.conn \notin Recorded
      BY DEF MissedStep
    <2>1. SerialTask
      BY DEF PathNext, CentralStep
    <2>2. Walk
      BY <2>1 DEF SerialTask, Parsed, Check, ReadConn, ReadEntry, WriteChar
    <2>3. serial.k > s_conn_count
      <3>1. serial \in Task
        BY PathFacts
      <3>2. Found => serial'.pc = "entry"
        BY <3>1 DEF Found, Task
      <3>3. GoOn => serial'.pc = "walk"
        BY <3>1 DEF GoOn, Task
      <3> QED  BY <2>2, <3>2, <3>3 DEF Walk
    <2>4. \A j \in InUse : s_conns[j].conn_id # serial.conn
      <3>1. \A j \in InUse : j \in 1..(serial.k - 1)
        BY <2>3, PathFacts DEF InUse
      <3> QED  BY <3>1 DEF PathIInv, Passed
    <2> QED  BY <2>4 DEF Recorded
  <1> QED  BY <1>1, PathInvariant, PTL DEF PathSpec, DroppedOnlyIfGone
=============================================================================
