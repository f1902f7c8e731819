-------------------------- MODULE BleCentralProofs --------------------------
(***************************************************************************)
(* Proofs about BleCentral, for every set of nodes, every table size and   *)
(* every bound of the event queue.                                         *)
(***************************************************************************)
EXTENDS BleCentral, TLAPS

-----------------------------------------------------------------------------
(***************************************************************************)
(* The event queue: what posting and handling an event does to QueueInv.   *)
(***************************************************************************)

\* e may be posted when the links that are up change from U to V: it comes
\* After none of U, it ends every link that goes down, and a CONNECT is of a
\* link that is up.
Postable(e, U, V) ==
    /\ \A l \in U : ~After(e, l)
    /\ \A l \in U \ V : IsDisconnect(e, l)
    /\ IsConnect(e) => LinkOf(e) \in V

LEMMA PostEvent ==
    ASSUME NEW q \in Seq(Event), NEW R, NEW U, NEW V, NEW e \in Event,
           QueueInv(q, R, U), Postable(e, U, V)
    PROVE  QueueInv(Append(q, e), R, V)
  <1> DEFINE p == Append(q, e)
             n == Len(q) + 1
  <1>1. /\ Len(p) = n
        /\ n \in Nat \ {0}
        /\ n = Len(q) + 1
        /\ p[n] = e
        /\ \A i \in 1..Len(q) : p[i] = q[i]
        /\ Len(q) \in Nat
    OBVIOUS
  <1> HIDE DEF p, n
  <1>3. ConnectsSeparated(p)
    <2> SUFFICES ASSUME NEW i \in 1..n, NEW j \in 1..n, i < j,
                        IsConnect(p[i]), After(p[j], LinkOf(p[i]))
                 PROVE  \E k \in (i + 1)..(j - 1) : IsDisconnect(p[k], LinkOf(p[i]))
      BY <1>1 DEF ConnectsSeparated
    <2>1. i \in 1..Len(q) /\ p[i] = q[i]
      BY <1>1
    <2>2. CASE j = n
      <3>1. LinkOf(q[i]) \notin U
        BY <2>1, <2>2, <1>1 DEF Postable
      <3>2. PICK k \in (i + 1)..Len(q) : IsDisconnect(q[k], LinkOf(q[i]))
        BY <2>1, <3>1 DEF QueueInv, ConnectsEnd
      <3> QED  BY <1>1, <2>1, <2>2, <3>2
    <2>3. CASE j # n
      <3>1. j \in 1..Len(q) /\ p[j] = q[j]
        BY <1>1, <2>3
      <3>2. PICK k \in (i + 1)..(j - 1) : IsDisconnect(q[k], LinkOf(q[i]))
        BY <2>1, <3>1 DEF QueueInv, ConnectsSeparated
      <3> QED  BY <1>1, <2>1, <3>1, <3>2
    <2> QED  BY <2>2, <2>3
  <1>4. RecordedGoFirst(p, R)
    <2> SUFFICES ASSUME NEW l \in R, NEW j \in 1..n, After(p[j], l)
                 PROVE  \E k \in 1..(j - 1) : IsDisconnect(p[k], l)
      BY <1>1 DEF RecordedGoFirst
    <2>1. CASE j = n
      <3>1. l \in R \ U
        BY <2>1, <1>1 DEF Postable
      <3>2. PICK k \in 1..Len(q) : IsDisconnect(q[k], l)
        BY <3>1 DEF QueueInv, RecordedEnd
      <3> QED  BY <1>1, <2>1, <3>2
    <2>2. CASE j # n
      <3>1. j \in 1..Len(q) /\ p[j] = q[j]
        BY <1>1, <2>2
      <3>2. PICK k \in 1..(j - 1) : IsDisconnect(q[k], l)
        BY <3>1 DEF QueueInv, RecordedGoFirst
      <3> QED  BY <1>1, <3>1, <3>2
    <2> QED  BY <2>1, <2>2
  <1>5. ConnectsEnd(p, V)
    <2> SUFFICES ASSUME NEW i \in 1..n, IsConnect(p[i]), LinkOf(p[i]) \notin V
                 PROVE  \E k \in (i + 1)..n : IsDisconnect(p[k], LinkOf(p[i]))
      BY <1>1 DEF ConnectsEnd
    <2>1. i \in 1..Len(q) /\ p[i] = q[i]
      BY <1>1 DEF Postable
    <2>2. CASE LinkOf(q[i]) \in U
      BY <1>1, <2>1, <2>2 DEF Postable
    <2>3. CASE LinkOf(q[i]) \notin U
      <3>1. PICK k \in (i + 1)..Len(q) : IsDisconnect(q[k], LinkOf(q[i]))
        BY <2>1, <2>3 DEF QueueInv, ConnectsEnd
      <3> QED  BY <1>1, <2>1, <3>1
    <2> QED  BY <2>2, <2>3
  <1>6. RecordedEnd(p, R, V)
    <2> SUFFICES ASSUME NEW l \in R \ V
                 PROVE  \E k \in 1..n : IsDisconnect(p[k], l)
      BY <1>1 DEF RecordedEnd
    <2>1. CASE l \in U
      BY <1>1, <2>1 DEF Postable
    <2>2. CASE l \notin U
      <3>1. PICK k \in 1..Len(q) : IsDisconnect(q[k], l)
        BY <2>2 DEF QueueInv, RecordedEnd
      <3> QED  BY <1>1, <3>1
    <2> QED  BY <2>1, <2>2
  <1> QED  BY <1>3, <1>4, <1>5, <1>6 DEF QueueInv, p

\* Handling the event at the head: S is what the handler leaves recorded.
LEMMA PopEvent ==
    ASSUME NEW q \in Seq(Event), NEW R, NEW U, NEW S,
           QueueInv(q, R, U), q # <<>>,
           S \subseteq (IF IsConnect(Head(q)) THEN R \cup {LinkOf(Head(q))} ELSE R),
           \A l \in S : ~IsDisconnect(Head(q), l)
    PROVE  QueueInv(Tail(q), S, U)
  <1> DEFINE p == Tail(q)
  <1>1. /\ Len(q) \in Nat \ {0}
        /\ Len(p) = Len(q) - 1
        /\ \A i \in 1..Len(p) : i + 1 \in 1..Len(q) /\ p[i] = q[i + 1]
        /\ Head(q) = q[1]
        /\ 1 \in 1..Len(q)
    OBVIOUS
  <1>a. Len(p) \in Nat /\ Len(q) = Len(p) + 1
    BY <1>1
  <1> HIDE DEF p
  <1>2. ConnectsSeparated(p)
    <2> SUFFICES ASSUME NEW i \in 1..Len(p), NEW j \in 1..Len(p), i < j,
                        IsConnect(p[i]), After(p[j], LinkOf(p[i]))
                 PROVE  \E k \in (i + 1)..(j - 1) : IsDisconnect(p[k], LinkOf(p[i]))
      BY DEF ConnectsSeparated
    <2>1. PICK k \in (i + 2)..j : IsDisconnect(q[k], LinkOf(q[i + 1]))
      <3>1. /\ i + 1 \in 1..Len(q) /\ j + 1 \in 1..Len(q) /\ i + 1 < j + 1
            /\ p[i] = q[i + 1] /\ p[j] = q[j + 1]
        BY <1>1, <1>a
      <3>2. \E k \in ((i + 1) + 1)..((j + 1) - 1) : IsDisconnect(q[k], LinkOf(q[i + 1]))
        BY <3>1 DEF QueueInv, ConnectsSeparated
      <3> QED  BY <3>2
    <2>2. k - 1 \in (i + 1)..(j - 1) /\ k - 1 \in 1..Len(p) /\ (k - 1) + 1 = k
      BY <1>a
    <2> QED  BY <1>1, <2>1, <2>2
  <1>3. RecordedGoFirst(p, S)
    <2> SUFFICES ASSUME NEW l \in S, NEW j \in 1..Len(p), After(p[j], l)
                 PROVE  \E k \in 1..(j - 1) : IsDisconnect(p[k], l)
      BY DEF RecordedGoFirst
    <2>1. j + 1 \in 1..Len(q) /\ p[j] = q[j + 1]
      BY <1>1
    <2>2. \E k \in 2..j : IsDisconnect(q[k], l)
      <3>1. CASE l \in R
        <4>1. PICK k \in 1..((j + 1) - 1) : IsDisconnect(q[k], l)
          BY <2>1, <3>1 DEF QueueInv, RecordedGoFirst
        <4>2. k # 1
          BY <4>1, <1>1
        <4> QED  BY <4>1, <4>2
      <3>2. CASE l \notin R
        <4>1. IsConnect(q[1]) /\ l = LinkOf(q[1])
          BY <3>2, <1>1
        <4>2. \E k \in (1 + 1)..((j + 1) - 1) : IsDisconnect(q[k], LinkOf(q[1]))
          BY <2>1, <4>1, <1>1, 1 < j + 1 DEF QueueInv, ConnectsSeparated
        <4> QED  BY <4>1, <4>2
      <3> QED  BY <3>1, <3>2
    <2>3. PICK k \in 2..j : IsDisconnect(q[k], l)
      BY <2>2
    <2>4. k - 1 \in 1..(j - 1) /\ k - 1 \in 1..Len(p) /\ (k - 1) + 1 = k
      BY <1>a
    <2> QED  BY <1>1, <2>3, <2>4
  <1>4. ConnectsEnd(p, U)
    <2> SUFFICES ASSUME NEW i \in 1..Len(p), IsConnect(p[i]), LinkOf(p[i]) \notin U
                 PROVE  \E k \in (i + 1)..Len(p) : IsDisconnect(p[k], LinkOf(p[i]))
      BY DEF ConnectsEnd
    <2>1. i + 1 \in 1..Len(q) /\ p[i] = q[i + 1]
      BY <1>1
    <2>2. PICK k \in ((i + 1) + 1)..Len(q) : IsDisconnect(q[k], LinkOf(q[i + 1]))
      BY <2>1 DEF QueueInv, ConnectsEnd
    <2>3. k - 1 \in (i + 1)..Len(p) /\ k - 1 \in 1..Len(p) /\ (k - 1) + 1 = k
      BY <1>a
    <2> QED  BY <1>1, <2>1, <2>2, <2>3
  <1>5. RecordedEnd(p, S, U)
    <2> SUFFICES ASSUME NEW l \in S \ U
                 PROVE  \E k \in 1..Len(p) : IsDisconnect(p[k], l)
      BY DEF RecordedEnd
    <2>1. \E k \in 2..Len(q) : IsDisconnect(q[k], l)
      <3>1. CASE l \in R
        <4>1. PICK k \in 1..Len(q) : IsDisconnect(q[k], l)
          BY <3>1 DEF QueueInv, RecordedEnd
        <4>2. k # 1
          BY <4>1, <1>1
        <4> QED  BY <4>1, <4>2
      <3>2. CASE l \notin R
        <4>1. IsConnect(q[1]) /\ l = LinkOf(q[1])
          BY <3>2, <1>1
        <4>2. \E k \in (1 + 1)..Len(q) : IsDisconnect(q[k], LinkOf(q[1]))
          BY <4>1, <1>1 DEF QueueInv, ConnectsEnd
        <4> QED  BY <4>1, <4>2
      <3> QED  BY <3>1, <3>2
    <2>2. PICK k \in 2..Len(q) : IsDisconnect(q[k], l)
      BY <2>1
    <2>3. k - 1 \in 1..Len(p) /\ (k - 1) + 1 = k
      BY <1>a
    <2> QED  BY <1>1, <2>2, <2>3
  <1> QED  BY <1>2, <1>3, <1>4, <1>5 DEF QueueInv, p

-----------------------------------------------------------------------------
(***************************************************************************)
(* Types.                                                                  *)
(***************************************************************************)
USE RegistryAssumption, CentralAssumption

LEMMA EventsTyped ==
    /\ \A b \in Owner, t \in EventTypes : GapEvent(t, b) \in Event
    /\ \A b \in Owner, t \in EventTypes, c \in ConnIds : LinkEvent(t, c, b) \in Event
  BY DEF GapEvent, LinkEvent, Event, EventTypes, ConnIds, Owner

LEMMA SlotsTyped ==
    ASSUME NEW n \in node_t
    PROVE  /\ \A b \in Owner : [n EXCEPT !.info = b] \in node_t
           /\ [n EXCEPT !.connected = FALSE] \in node_t
  BY DEF node_t

LEMMA LinksTyped ==
    ASSUME NEW l \in Link
    PROVE  /\ l.peer \in Owner
           /\ [l EXCEPT !.search = FALSE] \in Link
           /\ \A x \in BOOLEAN : [l EXCEPT !.search = x] \in Link
           /\ \A x \in BOOLEAN : [l EXCEPT !.notify = x] \in Link
  BY DEF Link

\* A stack step keeps the types of what it leaves alone.
LEMMA StackStepTypes ==
    ASSUME TypeOK, StackStep
    PROVE  /\ NodeRegistryTypeOK'
           /\ s_conns' \in [ConnSlots -> gattc_conn_t]
           /\ s_conn_count' \in 0..MAX_CONNS
           /\ out' \in Frame
           /\ told' \in [NodeIds -> Owner]
  <1>1. NodeRegistryTypeOK'
    <2>1. s_nodes' = s_nodes /\ s_count' = s_count
      BY DEF StackStep, registryVars
    <2> QED  BY <2>1 DEF TypeOK, NodeRegistryTypeOK
  <1>2. NoFrame \in Frame
    BY DEF NoFrame, Frame, Owner
  <1>3. s_conns' = s_conns /\ s_conn_count' = s_conn_count /\ told' = told
    BY DEF StackStep, centralVars
  <1>4. out' = NoFrame
    BY DEF StackStep
  <1> QED  BY <1>1, <1>2, <1>3, <1>4 DEF TypeOK

LEMMA StackTypes ==
    ASSUME TypeOK, Stack
    PROVE  TypeOK'
  <1>a. link \in [ConnIds -> Link] /\ evq \in Seq(Event)
    BY DEF TypeOK
  <1>b. opening \in SUBSET Bda /\ scanning \in BOOLEAN
    BY DEF TypeOK
  <1>c. NoLink \in Link
    BY DEF NoLink, Link, Owner
  <1> DEFINE StackTypesNext == /\ link' \in [ConnIds -> Link]
                              /\ evq' \in Seq(Event)
                              /\ opening' \in SUBSET Bda
                              /\ scanning' \in BOOLEAN
                              /\ StackStep
  <1>2. ASSUME NEW e \in Event, Post(e)
        PROVE  evq' \in Seq(Event)
    BY <1>a, <1>2 DEF Post
  <1>3. ASSUME NEW b \in Bda, Advertise(b)
        PROVE  StackTypesNext
    <2>1. GapEvent("SCAN_RESULT", b) \in Event
      BY EventsTyped DEF EventTypes, Owner
    <2> QED  BY <1>a, <1>b, <1>2, <1>3, <2>1 DEF Advertise
  <1>4. ASSUME NEW b \in Bda, OpenOk(b)
        PROVE  StackTypesNext
    <2>1. [NoLink EXCEPT !.peer = b] \in Link
      BY <1>c DEF NoLink, Link, Owner
    <2>2. PICK c \in ConnIds :
             /\ link' = [link EXCEPT ![c] = [NoLink EXCEPT !.peer = b]]
             /\ Post(LinkEvent("CONNECT", c, b))
      BY <1>4 DEF OpenOk
    <2>3. LinkEvent("CONNECT", c, b) \in Event
      BY EventsTyped DEF EventTypes, Owner
    <2>4. link' \in [ConnIds -> Link] /\ evq' \in Seq(Event)
      BY <1>a, <1>2, <2>1, <2>2, <2>3
    <2> QED  BY <1>b, <1>4, <2>4 DEF OpenOk
  <1>5. ASSUME NEW b \in Bda, OpenFail(b)
        PROVE  StackTypesNext
    BY <1>a, <1>b, <1>5 DEF OpenFail
  <1>6. ASSUME NEW c \in ConnIds, Drop(c)
        PROVE  StackTypesNext
    <2>1. LinkEvent("DISCONNECT", c, link[c].peer) \in Event
      BY <1>a, LinksTyped, EventsTyped DEF EventTypes
    <2> QED  BY <1>a, <1>b, <1>c, <1>2, <1>6, <2>1 DEF Drop
  <1>7. ASSUME NEW c \in ConnIds, SearchDone(c)
        PROVE  StackTypesNext
    <2>1. link[c] \in Link
      BY <1>a
    <2>2. LinkEvent("SEARCH_CMPL", c, link[c].peer) \in Event
      BY <2>1, LinksTyped, EventsTyped DEF EventTypes
    <2>3. link' = [link EXCEPT ![c] = [link[c] EXCEPT !.search = FALSE]]
      BY <1>7 DEF SearchDone
    <2>4. link' \in [ConnIds -> Link]
      BY <1>a, <2>1, <2>3, LinksTyped
    <2> QED  BY <1>b, <1>2, <1>7, <2>2, <2>4 DEF SearchDone
  <1>8. ASSUME NEW c \in ConnIds, Notify(c)
        PROVE  StackTypesNext
    <2>1. LinkEvent("NOTIFY", c, link[c].peer) \in Event
      BY <1>a, LinksTyped, EventsTyped DEF EventTypes
    <2> QED  BY <1>a, <1>b, <1>2, <1>8, <2>1 DEF Notify
  <1>9. StackTypesNext
    BY <1>3, <1>4, <1>5, <1>6, <1>7, <1>8 DEF Stack
  <1> QED  BY <1>9, StackStepTypes DEF TypeOK

\* What Emit puts on the serial line is a frame.
LEMMA EmitTypes ==
    ASSUME NEW ids \in SUBSET NodeIds, NEW b \in Owner,
           NEW cmd \in {"PING", "ERROR", "DATA"}, Emit(ids, cmd, b)
    PROVE  out' \in Frame
  <1>1. CASE ids = {} /\ out' = NoFrame
    BY <1>1 DEF NoFrame, Frame, Owner
  <1>2. ASSUME NEW i \in ids, out' = [id |-> i, cmd |-> cmd, from |-> b]
        PROVE  out' \in Frame
    <2>1. i \in 0..NODE_MAX_COUNT
      BY DEF NodeIds
    <2> QED  BY <1>2, <2>1 DEF Frame
  <1> QED  BY <1>1, <1>2 DEF Emit

LEMMA NodeAddTypes ==
    ASSUME NodeRegistryTypeOK, NEW b \in Bda, NEW c \in ConnIds, node_add(b, c)
    PROVE  NodeRegistryTypeOK'
  <1>1. CASE NodeReuse(b, c)
    BY <1>1 DEF NodeRegistryTypeOK, NodeReuse, Reusable, Used, NodeIds, node_t
  <1>2. CASE NodeAppend(b, c)
    <2>1. [BlankNode EXCEPT !.bda = b, !.conn_id = c, !.connected = TRUE] \in node_t
      BY DEF BlankNode, node_t, Owner
    <2> QED  BY <1>2, <2>1 DEF NodeRegistryTypeOK, NodeAppend, NodeIds
  <1> QED  BY <1>1, <1>2 DEF node_add

LEMMA AllocTypes ==
    ASSUME TypeOK, NEW c \in ConnIds, NEW b \in Bda, alloc_conn(c, b)
    PROVE  s_conns' \in [ConnSlots -> gattc_conn_t] /\ s_conn_count' \in 0..MAX_CONNS
  <1>1. [BlankConn EXCEPT !.conn_id = c, !.peer = b] \in gattc_conn_t
    BY DEF BlankConn, gattc_conn_t, Owner
  <1> QED  BY <1>1 DEF TypeOK, alloc_conn, ConnSlots

LEMMA FreeTypes ==
    ASSUME TypeOK, NEW c \in ConnIds, free_conn(c)
    PROVE  s_conns' \in [ConnSlots -> gattc_conn_t] /\ s_conn_count' \in 0..MAX_CONNS
  BY DEF TypeOK, free_conn, Entries, InUse, ConnSlots, centralVars

LEMMA HandlerTypes ==
    ASSUME TypeOK, Handler
    PROVE  TypeOK'
  <1> USE DEF TypeOK
  <1>a. NoFrame \in Frame
    BY DEF NoFrame, Frame, Owner
  <1>b. evq # <<>> => Tail(evq) \in Seq(Event)
    OBVIOUS
  <1>c. Used \subseteq NodeIds
    BY DEF Used, NodeIds, NodeRegistryTypeOK
  <1>d. \A c : Holding(c) \subseteq NodeIds /\ Carrying(c) \subseteq NodeIds
    BY <1>c DEF Holding, Carrying
  <1>1. ASSUME RegEvt PROVE TypeOK'
    BY <1>1, <1>a, <1>b, EventsTyped
       DEF RegEvt, Handle, Silent, registryVars, centralVars,
           NodeRegistryTypeOK, EventTypes, Owner
  <1>2. ASSUME ScanParamEvt PROVE TypeOK'
    BY <1>2, <1>a, <1>b
       DEF ScanParamEvt, Handle, Consume, Silent, registryVars, centralVars,
           NodeRegistryTypeOK
  <1>3. ASSUME NEW b \in Bda, ScanResultEvt(b) PROVE TypeOK'
    BY <1>3, <1>a, <1>b
       DEF ScanResultEvt, Handle, Consume, Silent, registryVars, centralVars,
           NodeRegistryTypeOK
  <1>4. ASSUME NEW c \in ConnIds, NEW b \in Bda, ConnectEvt(c, b) PROVE TypeOK'
    <2>1. evq' \in Seq(Event) /\ opening' \in SUBSET Bda /\ scanning' \in BOOLEAN
      BY <1>4, <1>b DEF ConnectEvt, Handle, Consume
    <2>2. CASE ConnectNoConn
      BY <1>a, <2>1, <2>2
         DEF ConnectNoConn, Silent, registryVars, centralVars, NodeRegistryTypeOK
    <2>3. CASE ConnectNoNode(c, b)
      BY <1>a, <2>1, <2>3, AllocTypes
         DEF ConnectNoNode, Silent, registryVars, NodeRegistryTypeOK
    <2>4. CASE ConnectAdded(c, b)
      <3>1. NodeRegistryTypeOK'
        BY <2>4, NodeAddTypes DEF ConnectAdded
      <3>2. Holding(c)' \subseteq NodeIds
        BY <3>1 DEF Holding, Used, NodeIds, NodeRegistryTypeOK
      <3>3. out' \in Frame
        BY <2>4, <3>2, EmitTypes DEF ConnectAdded, Owner
      <3>4. link' \in [ConnIds -> Link] /\ told' \in [NodeIds -> Owner]
        <4>a. told' \in [NodeIds -> Owner]
          BY <2>4 DEF ConnectAdded, Owner
        <4>1. link[c] \in Link /\ Up(c) \in BOOLEAN
          BY DEF Up
        <4>2. link' = [link EXCEPT ![c] = [link[c] EXCEPT !.search = Up(c)]]
          BY <2>4 DEF ConnectAdded
        <4>3. link' \in [ConnIds -> Link]
          BY <4>1, <4>2, LinksTyped
        <4> QED  BY <4>a, <4>3
      <3> QED  BY <2>1, <2>4, <3>1, <3>3, <3>4, AllocTypes DEF ConnectAdded
    <2> QED  BY <1>4, <2>2, <2>3, <2>4 DEF ConnectEvt
  <1>5. ASSUME NEW c \in ConnIds, NEW b \in Bda, SearchCmplEvt(c, b) PROVE TypeOK'
    <2>1. /\ evq' \in Seq(Event) /\ opening' \in SUBSET Bda /\ scanning' \in BOOLEAN
          /\ out' \in Frame /\ told' \in [NodeIds -> Owner]
          /\ NodeRegistryTypeOK' /\ s_conn_count' \in 0..MAX_CONNS
      BY <1>5, <1>a, <1>b
         DEF SearchCmplEvt, Handle, Consume, Silent, registryVars, NodeRegistryTypeOK
    <2>2. ASSUME NEW k \in InUse, NEW cmd \in BOOLEAN, NEW cccd \in BOOLEAN,
                 SearchFound(k, c, cmd, cccd)
          PROVE  s_conns' \in [ConnSlots -> gattc_conn_t] /\ link' \in [ConnIds -> Link]
      <3>1. s_conns' \in [ConnSlots -> gattc_conn_t] /\ k \in ConnSlots
        <4>1. k \in ConnSlots
          BY DEF InUse, ConnSlots
        <4>2. [s_conns[k] EXCEPT !.cmd_found = @ \/ cmd] \in gattc_conn_t
          BY <4>1 DEF gattc_conn_t
        <4>3. s_conns' = [s_conns EXCEPT ![k] = [s_conns[k] EXCEPT !.cmd_found = @ \/ cmd]]
          BY <2>2 DEF SearchFound
        <4> QED  BY <4>1, <4>2, <4>3
      <3>2. link' = [link EXCEPT ![c] = [link[c] EXCEPT !.notify = link[c].notify \/ cccd]]
        BY <2>2 DEF SearchFound
      <3>3. (link[c].notify \/ cccd) \in BOOLEAN /\ link[c] \in Link
        OBVIOUS
      <3>4. [link[c] EXCEPT !.notify = link[c].notify \/ cccd] \in Link
        BY <3>3, LinksTyped
      <3> QED  BY <3>1, <3>2, <3>4
    <2> QED  BY <1>5, <2>1, <2>2 DEF SearchCmplEvt
  <1>6. ASSUME NEW c \in ConnIds, NEW b \in Bda, NEW k \in Kinds, NotifyEvt(c, b, k)
        PROVE  TypeOK'
    <2>1. /\ evq' \in Seq(Event) /\ opening' \in SUBSET Bda /\ scanning' \in BOOLEAN
          /\ told' \in [NodeIds -> Owner] /\ link' \in [ConnIds -> Link]
          /\ s_conns' \in [ConnSlots -> gattc_conn_t] /\ s_conn_count' \in 0..MAX_CONNS
      BY <1>6, <1>b DEF NotifyEvt, Handle, Consume, centralVars
    <2>2. out' \in Frame
      BY <1>6, <1>a, <1>d, EmitTypes DEF NotifyEvt, Owner
    <2>3. Store(c, b, k) => NodeRegistryTypeOK'
      <3>1. ASSUME NEW i \in Used, node_update_info(i, b)
            PROVE  NodeRegistryTypeOK'
        <4>1. s_nodes[i] \in node_t /\ b \in Owner
          BY <1>c DEF NodeRegistryTypeOK, Owner
        <4>2. s_nodes' = [s_nodes EXCEPT ![i] = [s_nodes[i] EXCEPT !.info = b]]
          BY <3>1 DEF node_update_info
        <4>3. [s_nodes[i] EXCEPT !.info = b] \in node_t
          BY <4>1, SlotsTyped
        <4>4. s_nodes' \in [NodeIds -> node_t]
          BY <1>c, <4>2, <4>3 DEF NodeRegistryTypeOK
        <4> QED  BY <1>c, <3>1, <4>4 DEF node_update_info, NodeRegistryTypeOK
      <3>2. ASSUME NEW i \in Used, node_set_endstop(i, b)
            PROVE  NodeRegistryTypeOK'
        <4>1. s_nodes[i] \in node_t /\ b \in Owner
          BY <1>c DEF NodeRegistryTypeOK, Owner
        <4>2. \/ s_nodes' = s_nodes
              \/ s_nodes' = [s_nodes EXCEPT ![i] = [s_nodes[i] EXCEPT !.info = b]]
          BY <3>2 DEF node_set_endstop
        <4> QED  BY <1>c, <3>2, <4>1, <4>2, SlotsTyped
                 DEF node_set_endstop, NodeRegistryTypeOK
      <3>3. (UNCHANGED registryVars) => NodeRegistryTypeOK'
        BY DEF registryVars, NodeRegistryTypeOK
      <3> QED  BY <3>1, <3>2, <3>3 DEF Store
    <2> QED  BY <1>6, <2>1, <2>2, <2>3 DEF NotifyEvt, registryVars, NodeRegistryTypeOK
  <1>7. ASSUME NEW c \in ConnIds, NEW b \in Bda, DisconnectEvt(c, b) PROVE TypeOK'
    <2>1. /\ evq' \in Seq(Event) /\ opening' \in SUBSET Bda /\ scanning' \in BOOLEAN
          /\ told' \in [NodeIds -> Owner] /\ link' \in [ConnIds -> Link]
      BY <1>7, <1>b DEF DisconnectEvt, Handle, Consume, Owner
    <2>2. out' \in Frame
      BY <1>7, <1>d, EmitTypes DEF DisconnectEvt, Owner
    <2>3. NodeRegistryTypeOK'
      <3>1. ASSUME NEW i \in Carrying(c),
                   s_nodes' = [s_nodes EXCEPT ![i].connected = FALSE]
            PROVE  s_nodes' \in [NodeIds -> node_t]
        <4>1. s_nodes[i] \in node_t
          BY <1>d DEF NodeRegistryTypeOK
        <4>2. s_nodes' = [s_nodes EXCEPT ![i] = [s_nodes[i] EXCEPT !.connected = FALSE]]
          BY <3>1
        <4> QED  BY <1>d, <4>1, <4>2, SlotsTyped DEF NodeRegistryTypeOK
      <3> QED  BY <1>7, <3>1 DEF DisconnectEvt, node_remove, NodeRegistryTypeOK
    <2> QED  BY <1>7, <2>1, <2>2, <2>3, FreeTypes DEF DisconnectEvt
  <1> QED
    BY <1>1, <1>2, <1>3, <1>4, <1>5, <1>6, <1>7 DEF Handler, LinkHandler

LEMMA InitTypes == Init => TypeOK
  <1> SUFFICES ASSUME Init PROVE TypeOK
    OBVIOUS
  <1>1. 0 \in ConnIds
    BY DEF ConnIds
  <1>2. NodeRegistryTypeOK
    BY <1>1 DEF Init, node_registry_init, NodeRegistryTypeOK, BlankNode, node_t, Owner
  <1>3. evq \in Seq(Event)
    BY EventsTyped DEF Init, EventTypes, Owner
  <1>4. BlankConn \in gattc_conn_t /\ NoLink \in Link /\ NoFrame \in Frame
    BY <1>1 DEF BlankConn, gattc_conn_t, NoLink, Link, NoFrame, Frame, Owner
  <1>5. s_conn_count \in 0..MAX_CONNS /\ opening \in SUBSET Bda
    BY DEF Init
  <1>6. scanning \in BOOLEAN /\ told \in [NodeIds -> Owner]
    BY DEF Init, Owner
  <1>7. s_conns \in [ConnSlots -> gattc_conn_t] /\ link \in [ConnIds -> Link]
    BY <1>4 DEF Init
  <1> QED  BY <1>2, <1>3, <1>4, <1>5, <1>6, <1>7 DEF Init, TypeOK

\* The tables, the queue and the frames keep their types.
THEOREM TypeInvariant == Spec => []TypeOK
  <1>1. Init => TypeOK
    BY InitTypes
  <1>2. TypeOK /\ [Next]_vars => TypeOK'
    <2>1. CASE UNCHANGED vars
      BY <2>1 DEF vars, registryVars, centralVars, stackVars, hostVars, TypeOK,
                  NodeRegistryTypeOK
    <2> QED  BY <2>1, StackTypes, HandlerTypes DEF Next
  <1> QED  BY <1>1, <1>2, PTL DEF Spec

-----------------------------------------------------------------------------
(***************************************************************************)
(* The inductive invariant.                                                *)
(***************************************************************************)

\* The parts of IInv about the tables and the host.
RouterInv == ConnsDistinct /\ ToldHolds

LEMMA UpLinksKept ==
    ASSUME \A d \in ConnIds : link'[d].peer = link[d].peer
    PROVE  /\ UpLinks' = UpLinks
           /\ LinksDistinct => LinksDistinct'
  <1>1. \A l \in ConnIds \X Bda : link'[l[1]].peer = link[l[1]].peer
    OBVIOUS
  <1> QED  BY <1>1 DEF UpLinks, LinksDistinct, Up

\* A step that changes none of the tables and emits no report.
LEMMA RouterUntouched ==
    ASSUME RouterInv, UNCHANGED <<registryVars, s_conn_count, told>>,
           \A k \in InUse : /\ s_conns'[k].conn_id = s_conns[k].conn_id
                            /\ s_conns'[k].peer = s_conns[k].peer
    PROVE  RouterInv' /\ RecordedLinks' = RecordedLinks
  <1> USE DEF registryVars
  <1>1. Used' = Used /\ InUse' = InUse
    BY DEF Used, InUse
  <1>2. RecordedLinks' = RecordedLinks
    BY <1>1 DEF RecordedLinks
  <1>3. ConnsDistinct'
    BY <1>1 DEF RouterInv, ConnsDistinct
  <1>4. ToldHolds'
    BY <1>1, <1>2
       DEF RouterInv, ToldHolds, Online, node_id_by_conn_id, IsFirst, Holding
  <1> QED  BY <1>2, <1>3, <1>4 DEF RouterInv

LEMMA StackKeepsIInv ==
    ASSUME IInv, Stack
    PROVE  IInv'
  <1> USE DEF StackStep
  <1>1. TypeOK /\ TypeOK'
    BY StackTypes DEF IInv
  <1>2. /\ evq \in Seq(Event) /\ link \in [ConnIds -> Link]
        /\ QueueInv(evq, RecordedLinks, UpLinks) /\ LinksDistinct
    BY <1>1 DEF IInv, TypeOK
  <1>3. StackStep
    BY DEF Stack, Advertise, OpenOk, OpenFail, Drop, SearchDone, Notify
  <1>4. RouterInv' /\ RecordedLinks' = RecordedLinks
    BY <1>3, RouterUntouched DEF IInv, RouterInv, centralVars
  <1>5. ASSUME QueueInv(evq', RecordedLinks, UpLinks'), LinksDistinct'
        PROVE  IInv'
    BY <1>1, <1>4, <1>5 DEF IInv, RouterInv
  <1>6. \A c \in ConnIds : link[c].peer \in Owner
    BY <1>2 DEF Link
  <1>7. ASSUME NEW e \in Event, Post(e), Postable(e, UpLinks, UpLinks')
        PROVE  QueueInv(evq', RecordedLinks, UpLinks')
    <2>1. PICK V : V = UpLinks'
      OBVIOUS
    <2>2. evq' = Append(evq, e) /\ Postable(e, UpLinks, V)
      BY <1>7, <2>1 DEF Post
    <2>3. QueueInv(Append(evq, e), RecordedLinks, V)
      BY <1>2, <2>2, PostEvent
    <2> QED  BY <2>1, <2>2, <2>3
  \* An event of the link under c comes After no link that is up.
  <1>8. ASSUME NEW c \in ConnIds, NEW e \in Event,
               e.conn = c, e.peer = link[c].peer, ~IsConnect(e)
        PROVE  \A l \in UpLinks : ~After(e, l)
    <2> SUFFICES ASSUME NEW d \in ConnIds, NEW a \in Bda, link[d].peer = a,
                        After(e, <<d, a>>)
                 PROVE  FALSE
      BY DEF UpLinks
    <2>1. a # NoPeer
      OBVIOUS
    <2>2. c = d \/ link[c].peer = a
      BY <1>8 DEF After
    <2>3. c = d /\ e.peer = a
      BY <1>2, <1>8, <2>1, <2>2 DEF LinksDistinct, Up
    <2> QED  BY <1>8, <2>3 DEF After, LinkOf
  <1>9. ASSUME NEW c \in ConnIds, NEW t \in {"SEARCH_CMPL", "NOTIFY"},
               Post(LinkEvent(t, c, link[c].peer)),
               \A d \in ConnIds : link'[d].peer = link[d].peer
        PROVE  IInv'
    <2> DEFINE e == LinkEvent(t, c, link[c].peer)
    <2>1. e \in Event /\ e.conn = c /\ e.peer = link[c].peer /\ ~IsConnect(e)
      BY <1>6, EventsTyped DEF EventTypes, LinkEvent, IsConnect
    <2>2. UpLinks' = UpLinks /\ LinksDistinct'
      BY <1>2, <1>9, UpLinksKept
    <2> HIDE DEF e
    <2>3. Postable(e, UpLinks, UpLinks')
      BY <1>8, <2>1, <2>2 DEF Postable
    <2>4. Post(e)
      BY <1>9 DEF e
    <2> QED  BY <1>5, <1>7, <2>1, <2>2, <2>3, <2>4
  <1>10. ASSUME NEW b \in Bda, Advertise(b) PROVE IInv'
    <2> DEFINE e == GapEvent("SCAN_RESULT", b)
    <2>1. e \in Event /\ Post(e) /\ e.type = "SCAN_RESULT"
      BY <1>10, EventsTyped DEF Owner, EventTypes, Advertise, GapEvent
    <2>2. UpLinks' = UpLinks /\ LinksDistinct'
      BY <1>2, <1>10, UpLinksKept DEF Advertise
    <2> HIDE DEF e
    <2>3. Postable(e, UpLinks, UpLinks')
      BY <2>1, <2>2 DEF Postable, After, LinkTypes, IsConnect
    <2> QED  BY <1>5, <1>7, <2>1, <2>2, <2>3
  <1>11. ASSUME NEW b \in Bda, OpenOk(b) PROVE IInv'
    <2>1. PICK c \in ConnIds :
             /\ LowestFree(c)
             /\ link' = [link EXCEPT ![c] = [NoLink EXCEPT !.peer = b]]
             /\ Post(LinkEvent("CONNECT", c, b))
      BY <1>11 DEF OpenOk
    <2> DEFINE e == LinkEvent("CONNECT", c, b)
    <2>2. e \in Event /\ Post(e) /\ e.conn = c /\ e.peer = b
      BY <2>1, EventsTyped DEF Owner, EventTypes, LinkEvent
    <2>3. link'[c].peer = b /\ b # NoPeer
      BY <1>2, <2>1 DEF NoLink
    <2>4. \A d \in ConnIds \ {c} : link'[d] = link[d]
      BY <1>2, <2>1
    <2>5. \A d \in ConnIds : link[d].peer # b
      BY <1>11 DEF OpenOk, Linked
    <2>6. link[c].peer = NoPeer
      BY <2>1 DEF LowestFree, Up
    <2>7. LinksDistinct'
      BY <1>2, <2>3, <2>4, <2>5 DEF LinksDistinct, Up
    <2>8. LinkOf(e) \in UpLinks'
      BY <2>2, <2>3 DEF LinkOf, UpLinks
    <2>9. \A l \in UpLinks : l[1] # c /\ l[2] # b /\ l \in UpLinks'
      BY <2>4, <2>5, <2>6 DEF UpLinks
    <2> HIDE DEF e
    <2>10. Postable(e, UpLinks, UpLinks')
      BY <2>2, <2>8, <2>9 DEF Postable, After
    <2> QED  BY <1>5, <1>7, <2>2, <2>7, <2>10
  <1>12. ASSUME NEW b \in Bda, OpenFail(b) PROVE IInv'
    <2>1. UpLinks' = UpLinks /\ LinksDistinct' /\ evq' = evq
      BY <1>2, <1>12, UpLinksKept DEF OpenFail
    <2> QED  BY <1>2, <1>5, <2>1
  <1>13. ASSUME NEW c \in ConnIds, Drop(c) PROVE IInv'
    <2> DEFINE e == LinkEvent("DISCONNECT", c, link[c].peer)
    <2>1. /\ e \in Event /\ Post(e) /\ e.conn = c /\ e.peer = link[c].peer
          /\ e.type = "DISCONNECT"
      BY <1>6, <1>13, EventsTyped DEF EventTypes, LinkEvent, Drop
    <2>2. link'[c].peer = NoPeer
      BY <1>2, <1>13 DEF Drop, NoLink
    <2>3. \A d \in ConnIds \ {c} : link'[d] = link[d]
      BY <1>2, <1>13 DEF Drop
    <2>4. LinksDistinct'
      BY <1>2, <2>2, <2>3 DEF LinksDistinct, Up
    <2>5. \A l \in UpLinks \ UpLinks' : l = <<c, link[c].peer>>
      BY <2>3 DEF UpLinks
    <2> HIDE DEF e
    <2>6. ~IsConnect(e)
      BY <2>1 DEF IsConnect
    <2>7. Postable(e, UpLinks, UpLinks')
      BY <1>8, <2>1, <2>5, <2>6 DEF Postable, IsDisconnect, LinkOf
    <2> QED  BY <1>5, <1>7, <2>1, <2>4, <2>7
  <1>14. ASSUME NEW c \in ConnIds, SearchDone(c) PROVE IInv'
    <2>1. \A d \in ConnIds : link'[d].peer = link[d].peer
      BY <1>2, <1>14 DEF SearchDone, Link
    <2> QED  BY <1>9, <1>14, <2>1 DEF SearchDone
  <1>15. ASSUME NEW c \in ConnIds, Notify(c) PROVE IInv'
    BY <1>9, <1>15 DEF Notify
  <1> QED
    BY <1>10, <1>11, <1>12, <1>13, <1>14, <1>15 DEF Stack

-----------------------------------------------------------------------------
(***************************************************************************)
(* What the operations on the tables do to what IInv speaks of.            *)
(***************************************************************************)
LEMMA AllocRecords ==
    ASSUME TypeOK, NEW c \in ConnIds, NEW b \in Bda, alloc_conn(c, b), ConnsDistinct,
           \A l \in RecordedLinks : l[1] # c /\ l[2] # b
    PROVE  ConnsDistinct' /\ RecordedLinks' = RecordedLinks \cup {<<c, b>>}
  <1> DEFINE n == s_conn_count + 1
  <1>1. /\ n \in ConnSlots /\ s_conn_count \in Nat
        /\ InUse' = InUse \cup {n} /\ n \notin InUse /\ InUse \subseteq ConnSlots
    BY DEF TypeOK, alloc_conn, ConnSlots, InUse
  <1>2. /\ s_conns'[n].conn_id = c /\ s_conns'[n].peer = b
        /\ \A k \in InUse : s_conns'[k] = s_conns[k]
    BY <1>1 DEF TypeOK, alloc_conn, gattc_conn_t, BlankConn
  <1>3. \A k \in InUse : s_conns[k].conn_id # c /\ s_conns[k].peer # b
    <2>1. \A k \in InUse : <<s_conns[k].conn_id, s_conns[k].peer>> \in RecordedLinks
      BY DEF RecordedLinks
    <2> QED  BY <2>1
  <1> HIDE DEF n
  <1>4. RecordedLinks' = RecordedLinks \cup {<<c, b>>}
    BY <1>1, <1>2 DEF RecordedLinks
  <1>5. ConnsDistinct'
    BY <1>1, <1>2, <1>3 DEF ConnsDistinct
  <1> QED  BY <1>4, <1>5

LEMMA FreeRecords ==
    ASSUME TypeOK, NEW c \in ConnIds, free_conn(c), ConnsDistinct
    PROVE  ConnsDistinct' /\ RecordedLinks' = {l \in RecordedLinks : l[1] # c}
  <1>1. CASE Entries(c) = {} /\ UNCHANGED centralVars
    <2>1. InUse' = InUse /\ RecordedLinks' = RecordedLinks
      BY <1>1 DEF centralVars, InUse, RecordedLinks
    <2>2. \A l \in RecordedLinks : l[1] # c
      BY <1>1 DEF Entries, RecordedLinks
    <2> QED  BY <1>1, <2>1, <2>2 DEF centralVars, ConnsDistinct
  <1>2. ASSUME NEW k \in Entries(c),
               s_conn_count' = s_conn_count - 1,
               s_conns' = [j \in ConnSlots |->
                              IF j >= k /\ j < s_conn_count THEN s_conns[j + 1]
                                                            ELSE s_conns[j]]
        PROVE  ConnsDistinct' /\ RecordedLinks' = {l \in RecordedLinks : l[1] # c}
    <2> DEFINE from(j) == IF j >= k THEN j + 1 ELSE j
    <2>1. /\ k \in InUse /\ s_conns[k].conn_id = c
          /\ InUse = 1..s_conn_count /\ InUse' = 1..(s_conn_count - 1)
          /\ s_conn_count \in 1..MAX_CONNS
      BY <1>2 DEF Entries, InUse, TypeOK
    <2>2. \A j \in InUse' : /\ from(j) \in InUse \ {k}
                            /\ s_conns'[j] = s_conns[from(j)]
      BY <1>2, <2>1 DEF ConnSlots
    <2>3. \A i, j \in InUse' : from(i) = from(j) => i = j
      BY <2>1
    <2>4. \A m \in InUse \ {k} : \E j \in InUse' : from(j) = m
      <3> SUFFICES ASSUME NEW m \in InUse \ {k} PROVE \E j \in InUse' : from(j) = m
        OBVIOUS
      <3>1. CASE m < k
        BY <2>1, <3>1
      <3>2. CASE m > k
        <4>1. m - 1 \in InUse' /\ from(m - 1) = m
          BY <2>1, <3>2
        <4> QED  BY <4>1
      <3> QED  BY <2>1, <3>1, <3>2
    <2> HIDE DEF from
    <2>5. ConnsDistinct'
      BY <2>2, <2>3 DEF ConnsDistinct
    <2>6. \A m \in InUse \ {k} : s_conns[m].conn_id # c
      BY <2>1 DEF ConnsDistinct
    <2>7. RecordedLinks' \subseteq {l \in RecordedLinks : l[1] # c}
      BY <2>2, <2>6 DEF RecordedLinks
    <2>8. {l \in RecordedLinks : l[1] # c} \subseteq RecordedLinks'
      <3> SUFFICES ASSUME NEW m \in InUse, s_conns[m].conn_id # c
                   PROVE  <<s_conns[m].conn_id, s_conns[m].peer>> \in RecordedLinks'
        BY DEF RecordedLinks
      <3>1. PICK j \in InUse' : from(j) = m
        BY <2>1, <2>4
      <3> QED  BY <2>2, <3>1 DEF RecordedLinks
    <2> QED  BY <2>5, <2>7, <2>8
  <1> QED  BY <1>1, <1>2 DEF free_conn

\* node_add fills one slot, a new one or a disconnected one.
LEMMA NodeAddFills ==
    ASSUME NodeRegistryTypeOK, NEW b \in Bda, NEW c \in ConnIds, node_add(b, c)
    PROVE  \E i \in NodeIds :
              /\ Used' = Used \cup {i}
              /\ i \in Used => ~s_nodes[i].connected
              /\ s_nodes'[i].conn_id = c /\ s_nodes'[i].connected
              /\ \A j \in NodeIds \ {i} : s_nodes'[j] = s_nodes[j]
  <1>1. CASE NodeReuse(b, c)
    <2>1. PICK i \in Reusable(b) :
             s_nodes' = [s_nodes EXCEPT ![i].conn_id = c, ![i].connected = TRUE]
      BY <1>1 DEF NodeReuse
    <2>2. i \in Used /\ i \in NodeIds /\ ~s_nodes[i].connected
      BY DEF Reusable, Used, NodeIds, NodeRegistryTypeOK
    <2>3. Used' = Used \cup {i}
      BY <1>1, <2>2 DEF NodeReuse, Used
    <2>4. /\ s_nodes'[i].conn_id = c /\ s_nodes'[i].connected
          /\ \A j \in NodeIds \ {i} : s_nodes'[j] = s_nodes[j]
      BY <2>1, <2>2 DEF NodeRegistryTypeOK, node_t
    <2> QED  BY <2>2, <2>3, <2>4
  <1>2. CASE NodeAppend(b, c)
    <2> DEFINE i == s_count + 1
    <2>1. i \in NodeIds /\ i \notin Used /\ Used' = Used \cup {i}
      BY <1>2 DEF NodeAppend, Used, NodeIds, NodeRegistryTypeOK
    <2>2. /\ s_nodes'[i] = [BlankNode EXCEPT !.bda = b, !.conn_id = c, !.connected = TRUE]
          /\ \A j \in NodeIds \ {i} : s_nodes'[j] = s_nodes[j]
      BY <1>2, <2>1 DEF NodeAppend, NodeRegistryTypeOK
    <2> HIDE DEF i
    <2> QED  BY <2>1, <2>2 DEF BlankNode
  <1> QED  BY <1>1, <1>2 DEF node_add

\* At most one slot is the first of a set.
LEMMA FirstUnique ==
    ASSUME NEW S \in SUBSET NodeIds, NEW i, NEW j, IsFirst(i, S), IsFirst(j, S)
    PROVE  i = j
  BY DEF IsFirst, NodeIds

\* What node_remove does: at most one slot is marked, and nothing else changes.
LEMMA RemoveMarks ==
    ASSUME NodeRegistryTypeOK, NEW c \in ConnIds, node_remove(c)
    PROVE  /\ Used' = Used
           /\ \/ s_nodes' = s_nodes
              \/ \E k \in Carrying(c) :
                    /\ s_nodes' = [s_nodes EXCEPT ![k].connected = FALSE]
                    /\ k \in NodeIds
  BY DEF node_remove, Used, Carrying, NodeRegistryTypeOK, NodeIds

LEMMA RemoveKeepsOthers ==
    ASSUME NodeRegistryTypeOK, NEW c \in ConnIds, node_remove(c)
    PROVE  /\ \A j \in NodeIds : s_nodes'[j].conn_id = s_nodes[j].conn_id
           /\ \A d : d # c => Holding(d)' = Holding(d)
  <1>1. Used' = Used /\ Used \subseteq NodeIds
    BY RemoveMarks DEF NodeRegistryTypeOK, Used, NodeIds
  <1>2. CASE s_nodes' = s_nodes
    BY <1>1, <1>2 DEF Holding
  <1>3. ASSUME NEW k \in Carrying(c), k \in NodeIds,
               s_nodes' = [s_nodes EXCEPT ![k].connected = FALSE]
        PROVE  /\ \A j \in NodeIds : s_nodes'[j].conn_id = s_nodes[j].conn_id
               /\ \A d : d # c => Holding(d)' = Holding(d)
    <2>1. /\ s_nodes[k].conn_id = c /\ s_nodes'[k].conn_id = c
          /\ \A j \in NodeIds \ {k} : s_nodes'[j] = s_nodes[j]
      BY <1>3 DEF NodeRegistryTypeOK, node_t, Carrying
    <2> QED  BY <1>1, <2>1 DEF Holding
  <1> QED  BY <1>2, <1>3, RemoveMarks

\* Storing a packet's data changes no conn_id and no mark.
LEMMA StoreKeepsIdentity ==
    ASSUME NodeRegistryTypeOK, NEW c, NEW b, NEW k, Store(c, b, k)
    PROVE  /\ Used' = Used
           /\ \A j \in NodeIds : /\ s_nodes'[j].conn_id = s_nodes[j].conn_id
                                 /\ s_nodes'[j].connected = s_nodes[j].connected
           /\ \A d : Holding(d)' = Holding(d)
  <1> DEFINE Kept == \A j \in NodeIds : /\ s_nodes'[j].conn_id = s_nodes[j].conn_id
                                        /\ s_nodes'[j].connected = s_nodes[j].connected
  <1>1. CASE UNCHANGED registryVars
    BY <1>1 DEF registryVars, Used, Holding
  <1>2. ASSUME NEW i \in Used, node_update_info(i, b) \/ node_set_endstop(i, b)
        PROVE  Used' = Used /\ Kept
    <2>1. Used' = Used
      BY <1>2 DEF node_update_info, node_set_endstop, Used
    <2>2. CASE s_nodes' = s_nodes
      BY <2>1, <2>2
    <2>3. ASSUME s_nodes' = [s_nodes EXCEPT ![i] = [s_nodes[i] EXCEPT !.info = b]]
          PROVE  Kept
      BY <2>3 DEF NodeRegistryTypeOK, node_t
    <2> QED  BY <1>2, <2>1, <2>2, <2>3 DEF node_update_info, node_set_endstop
  <1>3. ASSUME Used' = Used, Kept PROVE \A d : Holding(d)' = Holding(d)
    <2>1. Used \subseteq NodeIds
      BY DEF NodeRegistryTypeOK, Used, NodeIds
    <2> QED  BY <1>3, <2>1 DEF Holding
  <1> QED  BY <1>1, <1>2, <1>3 DEF Store

-----------------------------------------------------------------------------
(***************************************************************************)
(* The handlers keep IInv, those of the link events first.                 *)
(***************************************************************************)

\* What is at the head of the queue is in its place after every recorded link:
\* a link that shares the conn_id or the node of the event is the event's own,
\* and there is none before a CONNECT.
LEMMA HeadFits ==
    ASSUME IInv, NEW e, Handle(e), e.type \in LinkTypes,
           NEW l \in RecordedLinks, l[1] = e.conn \/ l[2] = e.peer
    PROVE  ~IsConnect(e) /\ l = <<e.conn, e.peer>>
  <1>1. evq \in Seq(Event) /\ 1 \in 1..Len(evq) /\ evq[1] = e
    BY DEF IInv, TypeOK, Handle
  <1>2. ~After(e, l)
    BY <1>1 DEF IInv, QueueInv, RecordedGoFirst
  <1> QED  BY <1>2 DEF After, LinkOf

\* The queue after any handler that posts nothing.
LEMMA PopKeepsQueue ==
    ASSUME IInv, NEW e, Handle(e), Consume, UpLinks' = UpLinks,
           RecordedLinks' \subseteq
              (IF IsConnect(e) THEN RecordedLinks \cup {LinkOf(e)} ELSE RecordedLinks),
           \A l \in RecordedLinks' : ~IsDisconnect(e, l)
    PROVE  QueueInv(evq', RecordedLinks', UpLinks')
  <1>1. evq \in Seq(Event) /\ evq # <<>> /\ Head(evq) = e /\ evq' = Tail(evq)
    BY DEF IInv, TypeOK, Handle, Consume
  <1>2. PICK S : S = RecordedLinks'
    OBVIOUS
  <1>3. QueueInv(Tail(evq), S, UpLinks)
    BY <1>1, <1>2, PopEvent DEF IInv
  <1> QED  BY <1>1, <1>2, <1>3

\* A CONNECT handled: no entry has its conn_id or its node, and the entry made
\* is the only new one.
LEMMA ConnectRecords ==
    ASSUME IInv, NEW c \in ConnIds, NEW b \in Bda,
           Handle(LinkEvent("CONNECT", c, b)), alloc_conn(c, b)
    PROVE  /\ \A l \in RecordedLinks : l[1] # c /\ l[2] # b
           /\ ConnsDistinct'
           /\ RecordedLinks' = RecordedLinks \cup {<<c, b>>}
  <1> DEFINE e == LinkEvent("CONNECT", c, b)
  <1>1. Handle(e) /\ e.type = "CONNECT" /\ e.conn = c /\ e.peer = b
    BY DEF LinkEvent
  <1> HIDE DEF e
  <1>2. \A l \in RecordedLinks : l[1] # c /\ l[2] # b
    BY <1>1, HeadFits DEF LinkTypes, IsConnect
  <1> QED  BY <1>2, AllocRecords DEF IInv

\* The slot whose id a PING carries, and what told and the slots are after it.
LEMMA AddedSlots ==
    ASSUME IInv, NEW c \in ConnIds, NEW b \in Bda,
           Handle(LinkEvent("CONNECT", c, b)), ConnectAdded(c, b)
    PROVE  \E k \in NodeIds :
              /\ IsFirst(k, Holding(c)')
              /\ out' = [id |-> k, cmd |-> "PING", from |-> b]
              /\ told' = [told EXCEPT ![k] = b]
              /\ ~Online(k)
              /\ s_nodes'[k].conn_id = c
              /\ \A j \in NodeIds : Online(j) => s_nodes'[j] = s_nodes[j]
  <1>1. \A l \in RecordedLinks : l[1] # c /\ l[2] # b
    BY ConnectRecords DEF ConnectAdded
  <1>2. PICK i \in NodeIds :
           /\ Used' = Used \cup {i}
           /\ i \in Used => ~s_nodes[i].connected
           /\ s_nodes'[i].conn_id = c /\ s_nodes'[i].connected
           /\ \A j \in NodeIds \ {i} : s_nodes'[j] = s_nodes[j]
    BY NodeAddFills DEF IInv, TypeOK, ConnectAdded
  <1>3. Used \subseteq NodeIds
    BY DEF IInv, TypeOK, NodeRegistryTypeOK, Used, NodeIds
  <1>4. i \in Holding(c)' /\ Holding(c)' \subseteq NodeIds
    BY <1>2, <1>3 DEF Holding
  <1>5. PICK k \in Holding(c)' :
           IsFirst(k, Holding(c)') /\ out' = [id |-> k, cmd |-> "PING", from |-> b]
    BY <1>4 DEF ConnectAdded, Emit
  <1>6. k \in NodeIds /\ s_nodes'[k].conn_id = c
    BY <1>4 DEF Holding
  <1>7. \A j \in NodeIds : Online(j) => /\ j \in Used /\ s_nodes[j].connected
                                       /\ s_nodes[j].conn_id # c
    BY <1>1 DEF IInv, ToldHolds, node_id_by_conn_id, IsFirst, Holding
  <1>8. \A j \in NodeIds : Online(j) => j # i /\ s_nodes'[j] = s_nodes[j]
    BY <1>2, <1>7
  <1>9. ~Online(k)
    BY <1>6, <1>7, <1>8
  <1>10. told' = [told EXCEPT ![k] = b]
    BY <1>5, <1>6 DEF ConnectAdded, IInv, TypeOK
  <1> QED  BY <1>5, <1>6, <1>8, <1>9, <1>10

LEMMA ConnectAddedKeepsRouter ==
    ASSUME IInv, NEW c \in ConnIds, NEW b \in Bda,
           Handle(LinkEvent("CONNECT", c, b)), ConnectAdded(c, b)
    PROVE  RouterInv'
  <1>1. /\ \A l \in RecordedLinks : l[1] # c /\ l[2] # b
        /\ ConnsDistinct'
        /\ RecordedLinks' = RecordedLinks \cup {<<c, b>>}
    BY ConnectRecords DEF ConnectAdded
  <1>2. PICK k \in NodeIds :
           /\ IsFirst(k, Holding(c)')
           /\ out' = [id |-> k, cmd |-> "PING", from |-> b]
           /\ told' = [told EXCEPT ![k] = b]
           /\ ~Online(k)
           /\ s_nodes'[k].conn_id = c
           /\ \A j \in NodeIds : Online(j) => s_nodes'[j] = s_nodes[j]
    BY AddedSlots
  <1>3. told \in [NodeIds -> Owner] /\ NodeRegistryTypeOK
    BY DEF IInv, TypeOK
  <1>4. \A d : d # c => Holding(d)' = Holding(d)
    <2>1. Used \subseteq NodeIds
      BY <1>3 DEF NodeRegistryTypeOK, Used, NodeIds
    <2> QED  BY <1>3, <2>1, NodeAddFills DEF Holding, ConnectAdded
  <1>5. ToldHolds'
    <2> SUFFICES ASSUME NEW j \in NodeIds, Online(j)', NEW d, d = s_nodes'[j].conn_id
                 PROVE  /\ <<d, told'[j]>> \in RecordedLinks'
                        /\ IsFirst(j, Holding(d)')
      BY DEF ToldHolds, node_id_by_conn_id, IsFirst, Holding
    <2>1. CASE j = k
      BY <1>1, <1>2, <1>3, <2>1
    <2>2. CASE j # k
      <3>1. told'[j] = told[j] /\ Online(j)
        BY <1>2, <1>3, <2>2 DEF Online
      <3>2. s_nodes'[j] = s_nodes[j]
        BY <1>2, <3>1
      <3>3. /\ <<s_nodes[j].conn_id, told[j]>> \in RecordedLinks
            /\ IsFirst(j, Holding(s_nodes[j].conn_id))
        BY <3>1 DEF IInv, ToldHolds, node_id_by_conn_id
      <3>4. d # c /\ d = s_nodes[j].conn_id
        BY <1>1, <3>2, <3>3
      <3> QED  BY <1>1, <1>4, <3>1, <3>3, <3>4
    <2> QED  BY <2>1, <2>2
  <1> QED  BY <1>1, <1>5 DEF RouterInv

LEMMA ConnectKeepsIInv ==
    ASSUME IInv, NEW c \in ConnIds, NEW b \in Bda, ConnectEvt(c, b)
    PROVE  IInv'
  <1> DEFINE e == LinkEvent("CONNECT", c, b)
  <1>1. /\ Handle(e) /\ Consume /\ IsConnect(e) /\ LinkOf(e) = <<c, b>>
        /\ \A l : ~IsDisconnect(e, l)
    BY DEF ConnectEvt, LinkEvent, IsConnect, LinkOf, IsDisconnect
  <1>2. TypeOK'
    BY HandlerTypes DEF IInv, Handler, LinkHandler
  <1>3. RouterInv' /\ RecordedLinks' \subseteq RecordedLinks \cup {<<c, b>>}
    <2>1. CASE ConnectNoConn
      BY <2>1, RouterUntouched
         DEF ConnectNoConn, Silent, centralVars, IInv, RouterInv
    <2>2. CASE ConnectNoNode(c, b)
      <3>1. ConnsDistinct' /\ RecordedLinks' = RecordedLinks \cup {<<c, b>>}
        BY <1>1, <2>2, ConnectRecords DEF ConnectNoNode
      <3>2. UNCHANGED registryVars /\ UNCHANGED told
        BY <2>2 DEF ConnectNoNode, Silent
      <3>3. ToldHolds'
        BY <3>1, <3>2
           DEF IInv, ToldHolds, Online, node_id_by_conn_id, IsFirst, Holding, Used,
               registryVars
      <3> QED  BY <3>1, <3>3 DEF RouterInv
    <2>3. CASE ConnectAdded(c, b)
      <3>1. RouterInv'
        BY <1>1, <2>3, ConnectAddedKeepsRouter
      <3>2. RecordedLinks' = RecordedLinks \cup {<<c, b>>}
        BY <1>1, <2>3, ConnectRecords DEF ConnectAdded
      <3> QED  BY <3>1, <3>2
    <2> QED  BY <2>1, <2>2, <2>3 DEF ConnectEvt
  <1>4. UpLinks' = UpLinks /\ LinksDistinct'
    <2>1. link \in [ConnIds -> Link]
      BY DEF IInv, TypeOK
    <2>2. \A d \in ConnIds : link'[d].peer = link[d].peer
      BY <2>1 DEF ConnectEvt, ConnectNoConn, ConnectNoNode, ConnectAdded, Link
    <2> QED  BY <2>2, UpLinksKept DEF IInv
  <1> HIDE DEF e
  <1>5. QueueInv(evq', RecordedLinks', UpLinks')
    BY <1>1, <1>3, <1>4, PopKeepsQueue
  <1> QED  BY <1>2, <1>3, <1>4, <1>5 DEF IInv, RouterInv

LEMMA SearchCmplKeepsIInv ==
    ASSUME IInv, NEW c \in ConnIds, NEW b \in Bda, SearchCmplEvt(c, b)
    PROVE  IInv'
  <1> DEFINE e == LinkEvent("SEARCH_CMPL", c, b)
  <1>1. Handle(e) /\ Consume /\ ~IsConnect(e) /\ \A l : ~IsDisconnect(e, l)
    BY DEF SearchCmplEvt, LinkEvent, IsConnect, IsDisconnect
  <1>2. TypeOK' /\ TypeOK
    BY HandlerTypes DEF IInv, Handler, LinkHandler
  <1> DEFINE SameConns == \A m \in InUse : /\ s_conns'[m].conn_id = s_conns[m].conn_id
                                           /\ s_conns'[m].peer = s_conns[m].peer
             SamePeers == \A d \in ConnIds : link'[d].peer = link[d].peer
  <1>3. SameConns /\ SamePeers
    <2>1. InUse \subseteq ConnSlots
      BY <1>2 DEF TypeOK, InUse, ConnSlots
    <2>2. ASSUME NEW k \in InUse, NEW cmd \in BOOLEAN, NEW cccd \in BOOLEAN,
                 SearchFound(k, c, cmd, cccd)
          PROVE  SameConns /\ SamePeers
      <3>1. SameConns
        BY <1>2, <2>1, <2>2 DEF SearchFound, TypeOK, gattc_conn_t
      <3>2. SamePeers
        BY <1>2, <2>2 DEF SearchFound, TypeOK, Link
      <3> QED  BY <3>1, <3>2
    <2> QED  BY <2>2 DEF SearchCmplEvt
  <1> HIDE DEF e
  <1>4. RouterInv' /\ RecordedLinks' = RecordedLinks
    BY <1>3, RouterUntouched DEF SearchCmplEvt, Silent, IInv, RouterInv
  <1>5. UpLinks' = UpLinks /\ LinksDistinct'
    BY <1>3, UpLinksKept DEF IInv
  <1>6. QueueInv(evq', RecordedLinks', UpLinks')
    BY <1>1, <1>4, <1>5, PopKeepsQueue
  <1> QED  BY <1>2, <1>4, <1>5, <1>6 DEF IInv, RouterInv

LEMMA NotifyKeepsIInv ==
    ASSUME IInv, NEW c \in ConnIds, NEW b \in Bda, NEW k \in Kinds, NotifyEvt(c, b, k)
    PROVE  IInv'
  <1> DEFINE e == LinkEvent("NOTIFY", c, b)
  <1>1. /\ Handle(e) /\ Consume /\ ~IsConnect(e) /\ \A l : ~IsDisconnect(e, l)
        /\ UNCHANGED <<centralVars, link, told>>
    BY DEF NotifyEvt, LinkEvent, IsConnect, IsDisconnect
  <1>2. TypeOK' /\ TypeOK
    BY HandlerTypes DEF IInv, Handler, LinkHandler
  <1>3. /\ UpLinks' = UpLinks /\ LinksDistinct'
        /\ RecordedLinks' = RecordedLinks /\ ConnsDistinct'
    <2>1. InUse' = InUse
      BY <1>1 DEF centralVars, InUse
    <2> QED  BY <1>1, <2>1, UpLinksKept DEF IInv, centralVars, RecordedLinks, ConnsDistinct
  <1>4. /\ \A j \in NodeIds : s_nodes'[j].conn_id = s_nodes[j].conn_id
        /\ \A d : Holding(d)' = Holding(d)
    <2>1. CASE UNCHANGED registryVars
      BY <2>1 DEF registryVars, Holding, Used
    <2>2. CASE Store(c, b, k)
      BY <1>2, <2>2, StoreKeepsIdentity DEF TypeOK
    <2> QED  BY <2>1, <2>2 DEF NotifyEvt
  <1>5. ToldHolds'
    <2> SUFFICES ASSUME NEW i \in NodeIds, Online(i)', NEW d, d = s_nodes'[i].conn_id
                 PROVE  <<d, told'[i]>> \in RecordedLinks' /\ IsFirst(i, Holding(d)')
      BY DEF ToldHolds, node_id_by_conn_id, IsFirst, Holding
    <2>1. Online(i) /\ told'[i] = told[i] /\ d = s_nodes[i].conn_id
      BY <1>1, <1>4 DEF Online
    <2>2. <<d, told[i]>> \in RecordedLinks /\ IsFirst(i, Holding(d))
      BY <2>1 DEF IInv, ToldHolds, node_id_by_conn_id
    <2> QED  BY <1>3, <1>4, <2>1, <2>2
  <1> HIDE DEF e
  <1>6. QueueInv(evq', RecordedLinks', UpLinks')
    BY <1>1, <1>3, PopKeepsQueue
  <1> QED  BY <1>2, <1>3, <1>5, <1>6 DEF IInv

\* What a DISCONNECT leaves recorded, and who is online after it.
LEMMA DisconnectEnds ==
    ASSUME IInv, NEW c \in ConnIds, NEW b \in Bda, DisconnectEvt(c, b)
    PROVE  /\ ConnsDistinct'
           /\ RecordedLinks' = {l \in RecordedLinks : l[1] # c}
           /\ \A i \in NodeIds : Online(i)' => /\ told'[i] = told[i]
                                              /\ s_nodes[i].conn_id # c
  <1>1. ConnsDistinct' /\ RecordedLinks' = {l \in RecordedLinks : l[1] # c}
    BY FreeRecords DEF DisconnectEvt, IInv
  <1>2. \A i \in NodeIds : Online(i)' => told'[i] = told[i] /\ out'.id # i
    BY DEF DisconnectEvt, Online
  <1>3. Holding(c) \in SUBSET NodeIds
    BY DEF Holding, IInv, TypeOK, NodeRegistryTypeOK, Used, NodeIds
  <1>4. ASSUME NEW i \in NodeIds, Online(i)' PROVE s_nodes[i].conn_id # c
    <2> SUFFICES ASSUME s_nodes[i].conn_id = c PROVE FALSE
      OBVIOUS
    <2>1. Online(i) /\ out'.id # i
      BY <1>2, <1>4 DEF Online
    <2>2. IsFirst(i, Holding(c))
      BY <2>1 DEF IInv, ToldHolds, node_id_by_conn_id
    <2>3. IsFirst(out'.id, Holding(c))
      BY <2>2 DEF DisconnectEvt, Emit, IsFirst
    <2> QED  BY <1>3, <2>1, <2>2, <2>3, FirstUnique
  <1> QED  BY <1>1, <1>2, <1>4

LEMMA DisconnectKeepsIInv ==
    ASSUME IInv, NEW c \in ConnIds, NEW b \in Bda, DisconnectEvt(c, b)
    PROVE  IInv'
  <1> DEFINE e == LinkEvent("DISCONNECT", c, b)
  <1>1. /\ Handle(e) /\ Consume /\ ~IsConnect(e)
        /\ \A l : IsDisconnect(e, l) => l = <<c, b>>
    BY DEF DisconnectEvt, LinkEvent, IsConnect, IsDisconnect, LinkOf
  <1>2. TypeOK' /\ TypeOK
    BY HandlerTypes DEF IInv, Handler, LinkHandler
  <1>3. /\ ConnsDistinct'
        /\ RecordedLinks' = {l \in RecordedLinks : l[1] # c}
        /\ \A i \in NodeIds : Online(i)' => /\ told'[i] = told[i]
                                           /\ s_nodes[i].conn_id # c
    BY DisconnectEnds
  <1>4. UpLinks' = UpLinks /\ LinksDistinct'
    BY UpLinksKept DEF DisconnectEvt, IInv
  <1>5. /\ \A j \in NodeIds : s_nodes'[j].conn_id = s_nodes[j].conn_id
        /\ \A d : d # c => Holding(d)' = Holding(d)
    BY <1>2, RemoveKeepsOthers DEF DisconnectEvt, TypeOK
  <1>6. ToldHolds'
    <2> SUFFICES ASSUME NEW i \in NodeIds, Online(i)', NEW d, d = s_nodes'[i].conn_id
                 PROVE  <<d, told'[i]>> \in RecordedLinks' /\ IsFirst(i, Holding(d)')
      BY DEF ToldHolds, node_id_by_conn_id, IsFirst, Holding
    <2>1. Online(i) /\ told'[i] = told[i] /\ d = s_nodes[i].conn_id /\ d # c
      BY <1>3, <1>5 DEF Online
    <2>2. <<d, told[i]>> \in RecordedLinks /\ IsFirst(i, Holding(d))
      BY <2>1 DEF IInv, ToldHolds, node_id_by_conn_id
    <2> QED  BY <1>3, <1>5, <2>1, <2>2
  <1> HIDE DEF e
  <1>7. QueueInv(evq', RecordedLinks', UpLinks')
    BY <1>1, <1>3, <1>4, PopKeepsQueue
  <1> QED  BY <1>2, <1>3, <1>4, <1>6, <1>7 DEF IInv

LEMMA GapKeepsIInv ==
    ASSUME IInv, RegEvt \/ ScanParamEvt \/ \E b \in Bda : ScanResultEvt(b)
    PROVE  IInv'
  <1>1. TypeOK' /\ TypeOK
    BY HandlerTypes DEF IInv, Handler
  <1>2. UNCHANGED <<registryVars, centralVars, link>> /\ Silent
    BY DEF RegEvt, ScanParamEvt, ScanResultEvt
  <1>3. RouterInv' /\ RecordedLinks' = RecordedLinks
    BY <1>2, RouterUntouched DEF Silent, centralVars, IInv, RouterInv
  <1>4. UpLinks' = UpLinks /\ LinksDistinct'
    BY <1>2, UpLinksKept DEF IInv
  <1>5. ASSUME NEW e, Handle(e), e.type \notin {"CONNECT", "DISCONNECT"}
        PROVE  QueueInv(Tail(evq), RecordedLinks, UpLinks)
    <2>1. evq \in Seq(Event) /\ evq # <<>> /\ Head(evq) = e
      BY <1>1, <1>5 DEF TypeOK, Handle
    <2>2. ~IsConnect(e) /\ \A l : ~IsDisconnect(e, l)
      BY <1>5 DEF IsConnect, IsDisconnect
    <2> QED  BY <2>1, <2>2, PopEvent DEF IInv
  <1>6. QueueInv(evq', RecordedLinks, UpLinks)
    <2>1. CASE RegEvt
      <3> DEFINE e == GapEvent("SCAN_PARAM", NoPeer)
      <3>1. QueueInv(Tail(evq), RecordedLinks, UpLinks)
        BY <1>5, <2>1 DEF RegEvt, GapEvent
      <3>2. e \in Event /\ e.type = "SCAN_PARAM" /\ Tail(evq) \in Seq(Event)
        BY <1>1, <2>1, EventsTyped DEF GapEvent, Owner, EventTypes, TypeOK, RegEvt, Handle
      <3>3. evq' = Append(Tail(evq), e)
        BY <2>1 DEF RegEvt
      <3> HIDE DEF e
      <3>4. Postable(e, UpLinks, UpLinks)
        BY <3>2 DEF Postable, After, LinkTypes, IsConnect
      <3> QED  BY <3>1, <3>2, <3>3, <3>4, PostEvent
    <2>2. CASE ScanParamEvt
      BY <1>5, <2>2 DEF ScanParamEvt, GapEvent, Consume
    <2>3. ASSUME NEW b \in Bda, ScanResultEvt(b)
          PROVE  QueueInv(evq', RecordedLinks, UpLinks)
      BY <1>5, <2>3 DEF ScanResultEvt, GapEvent, Consume
    <2> QED  BY <2>1, <2>2, <2>3
  <1> QED  BY <1>1, <1>3, <1>4, <1>6 DEF IInv, RouterInv

LEMMA InitIInv == Init => IInv
  <1> SUFFICES ASSUME Init PROVE IInv
    OBVIOUS
  <1>1. TypeOK
    BY InitTypes
  <1>2. InUse = {} /\ RecordedLinks = {}
    BY DEF Init, InUse, RecordedLinks
  <1>3. Len(evq) = 1 /\ evq[1].type = "REG"
    BY DEF Init, GapEvent
  <1>4. QueueInv(evq, RecordedLinks, UpLinks)
    BY <1>2, <1>3
       DEF QueueInv, ConnectsSeparated, RecordedGoFirst, ConnectsEnd, RecordedEnd, IsConnect
  <1>5. ConnsDistinct /\ ToldHolds
    BY <1>2 DEF Init, ConnsDistinct, ToldHolds, Online
  <1>6. LinksDistinct
    BY DEF Init, LinksDistinct, Up, NoLink
  <1> QED  BY <1>1, <1>4, <1>5, <1>6 DEF IInv

LEMMA NextKeepsIInv == IInv /\ [Next]_vars => IInv'
  <1> SUFFICES ASSUME IInv, [Next]_vars PROVE IInv'
    OBVIOUS
  <1>1. CASE Stack
    BY <1>1, StackKeepsIInv
  <1>2. CASE Handler
    BY <1>2, GapKeepsIInv, ConnectKeepsIInv, SearchCmplKeepsIInv, NotifyKeepsIInv,
       DisconnectKeepsIInv DEF Handler, LinkHandler
  <1>3. CASE UNCHANGED vars
    <2> USE <1>3 DEF vars, registryVars, centralVars, stackVars, hostVars
    <2>1. TypeOK'
      BY DEF IInv, TypeOK, NodeRegistryTypeOK
    <2>2. UpLinks' = UpLinks /\ LinksDistinct'
      BY UpLinksKept DEF IInv
    <2>3. RouterInv' /\ RecordedLinks' = RecordedLinks
      BY RouterUntouched DEF IInv, RouterInv
    <2>4. QueueInv(evq', RecordedLinks', UpLinks')
      BY <2>2, <2>3 DEF IInv
    <2> QED  BY <2>1, <2>2, <2>3, <2>4 DEF IInv, RouterInv
  <1> QED  BY <1>1, <1>2, <1>3 DEF Next

\* The events of links that share a conn_id or a node are queued in an order
\* that fits the connection table and the links, and whoever the host takes
\* for connected has the slot its link's events are reported under.
THEOREM InductiveInvariant == Spec => []IInv
  BY InitIInv, NextKeepsIInv, PTL DEF Spec

-----------------------------------------------------------------------------
(***************************************************************************)
(* What follows.                                                           *)
(***************************************************************************)

\* However conn_ids are reused, s_conns has one entry per link and per node, and
\* the entry of a lost link has its DISCONNECT event queued.
THEOREM ConnTable == Spec => []ConnTableSound
  <1>1. IInv => ConnTableSound
    <2> SUFFICES ASSUME IInv PROVE ConnTableSound
      OBVIOUS
    <2>1. ASSUME NEW j \in InUse PROVE Up(s_conns[j].conn_id) \/
                                       Queued("DISCONNECT", s_conns[j].conn_id)
      <3> DEFINE l == <<s_conns[j].conn_id, s_conns[j].peer>>
      <3>1. l \in RecordedLinks
        BY DEF RecordedLinks
      <3>2. CASE l \in UpLinks
        BY <3>2 DEF UpLinks, Up
      <3>3. CASE l \notin UpLinks
        <4>1. PICK k \in 1..Len(evq) : IsDisconnect(evq[k], l)
          BY <3>1, <3>3 DEF IInv, QueueInv, RecordedEnd
        <4> QED  BY <4>1 DEF IsDisconnect, LinkOf, Queued
      <3> QED  BY <3>2, <3>3
    <2> QED  BY <2>1 DEF IInv, ConnsDistinct, ConnTableSound, Recorded
  <1> QED  BY <1>1, InductiveInvariant, PTL

\* However conn_ids are reused, every node the host takes for connected has a
\* connected slot and a link of its own that the router still has.
THEOREM HostView == Spec => []HostViewSound
  <1>1. IInv => HostViewSound
    <2> SUFFICES ASSUME IInv PROVE HostViewSound
      OBVIOUS
    <2>1. \A i \in NodeIds :
             Online(i) => IsConnected(i) /\ s_nodes[i].conn_id \in Recorded
      BY DEF IInv, ToldHolds, RecordedLinks, Recorded, node_id_by_conn_id, IsFirst,
             Holding, IsConnected
    <2>2. ASSUME NEW i \in NodeIds, NEW j \in NodeIds, Online(i), Online(j),
                 s_nodes[i].conn_id = s_nodes[j].conn_id
          PROVE  i = j
      <3>1. Holding(s_nodes[i].conn_id) \in SUBSET NodeIds
        BY DEF Holding, Used, NodeIds, IInv, TypeOK, NodeRegistryTypeOK
      <3> QED
        BY <2>2, <3>1, FirstUnique DEF IInv, ToldHolds, node_id_by_conn_id
    <2> QED  BY <2>1, <2>2 DEF HostViewSound
  <1> QED  BY <1>1, InductiveInvariant, PTL

-----------------------------------------------------------------------------
(***************************************************************************)
(* Action properties and refinement.                                       *)
(***************************************************************************)
LEMMA AddKeepsOthers ==
    ASSUME NodeRegistryTypeOK, NEW b \in Bda, NEW c \in ConnIds, node_add(b, c),
           NEW d, d # c
    PROVE  Holding(d)' = Holding(d)
  <1>1. Used \subseteq NodeIds
    BY DEF NodeRegistryTypeOK, Used, NodeIds
  <1> QED  BY <1>1, NodeAddFills DEF Holding

\* A step leaves the registry alone, but for the three operations.
LEMMA RegistrySteps ==
    ASSUME [Next]_vars
    PROVE  \/ UNCHANGED registryVars
           \/ \E c \in ConnIds, b \in Bda, k \in Kinds : Store(c, b, k)
           \/ \E c \in ConnIds, b \in Bda :
                 ConnectEvt(c, b) /\ alloc_conn(c, b) /\ node_add(b, c)
           \/ \E c \in ConnIds, b \in Bda : DisconnectEvt(c, b)
  <1>1. CASE Stack
    BY <1>1 DEF Stack, Advertise, OpenOk, OpenFail, Drop, SearchDone, Notify, StackStep
  <1>2. CASE UNCHANGED vars
    BY <1>2 DEF vars
  <1>3. CASE RegEvt \/ ScanParamEvt \/ \E b \in Bda : ScanResultEvt(b)
    BY <1>3 DEF RegEvt, ScanParamEvt, ScanResultEvt
  <1>4. ASSUME NEW c \in ConnIds, NEW b \in Bda, ConnectEvt(c, b)
        PROVE  UNCHANGED registryVars \/ (alloc_conn(c, b) /\ node_add(b, c))
    BY <1>4 DEF ConnectEvt, ConnectNoConn, ConnectNoNode, ConnectAdded
  <1>5. ASSUME NEW c \in ConnIds, NEW b \in Bda, SearchCmplEvt(c, b)
        PROVE  UNCHANGED registryVars
    BY <1>5 DEF SearchCmplEvt
  <1>6. ASSUME NEW c \in ConnIds, NEW b \in Bda, NEW k \in Kinds, NotifyEvt(c, b, k)
        PROVE  UNCHANGED registryVars \/ Store(c, b, k)
    BY <1>6 DEF NotifyEvt
  <1> QED
    BY <1>1, <1>2, <1>3, <1>4, <1>5, <1>6 DEF Next, Handler, LinkHandler

\* However conn_ids are reused, the id of a link stays the same while the router
\* has its entry.
THEOREM IdStability == Spec => LinkIdStable
  <1>1. ASSUME IInv, [Next]_vars
        PROVE  [IdStableStep]_vars
    <2> SUFFICES ASSUME NEW c \in Recorded \cap Recorded', NEW i \in NodeIds
                 PROVE  Holding(c)' = Holding(c)
      BY DEF IdStableStep, node_id_by_conn_id, IsFirst
    <2>1. NodeRegistryTypeOK
      BY <1>1 DEF IInv, TypeOK
    <2>2. CASE UNCHANGED registryVars
      BY <2>2 DEF registryVars, Holding, Used
    <2>3. ASSUME NEW d, NEW b, NEW k, Store(d, b, k)
          PROVE  Holding(c)' = Holding(c)
      BY <2>1, <2>3, StoreKeepsIdentity
    <2>4. ASSUME NEW d \in ConnIds, NEW b \in Bda,
                 ConnectEvt(d, b), alloc_conn(d, b), node_add(b, d)
          PROVE  Holding(c)' = Holding(c)
      <3>1. \A l \in RecordedLinks : l[1] # d
        BY <1>1, <2>4, ConnectRecords DEF ConnectEvt
      <3>2. PICK j \in InUse : c = s_conns[j].conn_id
        BY DEF Recorded
      <3>3. <<c, s_conns[j].peer>> \in RecordedLinks
        BY <3>2 DEF RecordedLinks
      <3> QED  BY <2>1, <2>4, <3>1, <3>3, AddKeepsOthers
    <2>5. ASSUME NEW d \in ConnIds, NEW b \in Bda, DisconnectEvt(d, b)
          PROVE  Holding(c)' = Holding(c)
      <3>1. \A l \in RecordedLinks' : l[1] # d
        BY <1>1, <2>5, DisconnectEnds
      <3>2. PICK j \in InUse' : c = s_conns'[j].conn_id
        BY DEF Recorded
      <3>3. <<c, s_conns'[j].peer>> \in RecordedLinks'
        BY <3>2 DEF RecordedLinks
      <3> QED  BY <2>1, <2>5, <3>1, <3>3, RemoveKeepsOthers DEF DisconnectEvt
    <2> QED  BY <1>1, <2>2, <2>3, <2>4, <2>5, RegistrySteps
  <1> QED  BY <1>1, InductiveInvariant, PTL DEF Spec, LinkIdStable

\* A frame of the link under c, sent to the host under the id of its slot: if
\* the id is online it is so for the node of the link.
LEMMA FrameFromSession ==
    ASSUME IInv, NEW e, Handle(e), e.type \in LinkTypes,
           NEW i \in NodeIds, IsFirst(i, Holding(e.conn)), Online(i)
    PROVE  told[i] = e.peer
  <1>1. s_nodes[i].conn_id = e.conn
    BY DEF IsFirst, Holding
  <1>2. <<e.conn, told[i]>> \in RecordedLinks
    BY <1>1 DEF IInv, ToldHolds
  <1> QED  BY <1>2, HeadFits

\* Every step of the router is one of NodeSessions or leaves it unchanged.
LEMMA StepRefines ==
    ASSUME IInv, [Next]_vars
    PROVE  [Sessions!SessNext]_<<told, out>>
  <1>1. told \in [NodeIds -> Owner]
    BY DEF IInv, TypeOK
  <1>2. \A c : Holding(c) \subseteq NodeIds
    BY DEF Holding, IInv, TypeOK, NodeRegistryTypeOK, Used, NodeIds
  <1>3. ASSUME out' = NoFrame, UNCHANGED told
        PROVE  Sessions!SessNext
    BY <1>3 DEF NoFrame, Sessions!Quiet, Sessions!SessNext
  <1>4. CASE Stack
    <2>1. out' = NoFrame /\ UNCHANGED told
      BY <1>4 DEF Stack, Advertise, OpenOk, OpenFail, Drop, SearchDone, Notify, StackStep
    <2> QED  BY <1>3, <2>1
  <1>5. CASE UNCHANGED vars
    BY <1>5 DEF vars, hostVars
  <1>6. CASE RegEvt \/ ScanParamEvt \/ \E b \in Bda : ScanResultEvt(b)
    <2>1. out' = NoFrame /\ UNCHANGED told
      BY <1>6 DEF RegEvt, ScanParamEvt, ScanResultEvt, Silent
    <2> QED  BY <1>3, <2>1
  <1>7. ASSUME NEW c \in ConnIds, NEW b \in Bda, ConnectEvt(c, b)
        PROVE  Sessions!SessNext
    <2>1. CASE ConnectNoConn \/ ConnectNoNode(c, b)
      <3>1. out' = NoFrame /\ UNCHANGED told
        BY <2>1 DEF ConnectNoConn, ConnectNoNode, Silent
      <3> QED  BY <1>3, <3>1
    <2>2. CASE ConnectAdded(c, b)
      <3>1. Handle(LinkEvent("CONNECT", c, b))
        BY <1>7 DEF ConnectEvt
      <3>2. PICK k \in NodeIds :
               /\ out' = [id |-> k, cmd |-> "PING", from |-> b]
               /\ told' = [told EXCEPT ![k] = b]
               /\ ~Online(k)
        BY <2>2, <3>1, AddedSlots
      <3>3. \A l \in RecordedLinks : l[2] # b
        BY <2>2, <3>1, ConnectRecords DEF ConnectAdded
      <3>4. ASSUME NEW j \in NodeIds PROVE told[j] # b
        <4>1. CASE Online(j)
          <5>1. <<s_nodes[j].conn_id, told[j]>> \in RecordedLinks
            BY <4>1 DEF IInv, ToldHolds
          <5> QED  BY <3>3, <5>1
        <4>2. CASE ~Online(j)
          BY <4>2 DEF Online
        <4> QED  BY <4>1, <4>2
      <3>5. Sessions!Begin(k, b)
        BY <3>2, <3>4 DEF Sessions!Begin, Sessions!Emits, Online
      <3> QED  BY <3>5 DEF Sessions!SessNext
    <2> QED  BY <1>7, <2>1, <2>2 DEF ConnectEvt
  <1>8. ASSUME NEW c \in ConnIds, NEW b \in Bda, SearchCmplEvt(c, b)
        PROVE  Sessions!SessNext
    BY <1>3, <1>8 DEF SearchCmplEvt, Silent
  <1>9. ASSUME NEW c \in ConnIds, NEW b \in Bda, NEW k \in Kinds, NotifyEvt(c, b, k)
        PROVE  Sessions!SessNext
    <2> DEFINE e == LinkEvent("NOTIFY", c, b)
    <2>1. Handle(e) /\ e.type \in LinkTypes /\ e.conn = c /\ e.peer = b /\ UNCHANGED told
      BY <1>9 DEF NotifyEvt, LinkEvent, LinkTypes
    <2> HIDE DEF e
    <2>2. CASE out' = NoFrame
      BY <1>3, <2>1, <2>2
    <2>3. ASSUME NEW i \in Holding(c), IsFirst(i, Holding(c)),
                 out' = [id |-> i, cmd |-> "DATA", from |-> b]
          PROVE  Sessions!SessNext
      <3>1. i \in NodeIds
        BY <1>2
      <3>2. CASE Online(i)
        <4>1. told[i] = b
          BY <2>1, <2>3, <3>1, <3>2, FrameFromSession
        <4>2. Sessions!Forward(i)
          BY <2>1, <2>3, <3>2, <4>1 DEF Sessions!Forward, Sessions!Emits, Online
        <4> QED  BY <3>1, <4>2 DEF Sessions!SessNext
      <3>3. CASE ~Online(i)
        <4>1. Sessions!Stray(i, b)
          BY <2>1, <2>3, <3>3 DEF Sessions!Stray, Sessions!Emits, Online
        <4> QED  BY <3>1, <4>1 DEF Sessions!SessNext
      <3> QED  BY <3>2, <3>3
    <2> QED  BY <1>9, <2>2, <2>3 DEF NotifyEvt, Emit
  <1>10. ASSUME NEW c \in ConnIds, NEW b \in Bda, DisconnectEvt(c, b)
         PROVE  Sessions!SessNext
    <2> DEFINE e == LinkEvent("DISCONNECT", c, b)
    <2>1. Handle(e) /\ e.type \in LinkTypes /\ e.conn = c /\ e.peer = b
      BY <1>10 DEF DisconnectEvt, LinkEvent, LinkTypes
    <2>2. told' = [i \in NodeIds |-> IF out'.id = i THEN NoPeer ELSE told[i]]
      BY <1>10 DEF DisconnectEvt
    <2> HIDE DEF e
    <2>3. CASE out' = NoFrame
      <3>1. \A i \in NodeIds : out'.id # i
        BY <2>3 DEF NoFrame, NodeIds
      <3>2. told' = told
        BY <1>1, <2>2, <3>1
      <3> QED  BY <1>3, <2>3, <3>2
    <2>4. ASSUME NEW i \in Holding(c), IsFirst(i, Holding(c)),
                 out' = [id |-> i, cmd |-> "ERROR", from |-> b]
          PROVE  Sessions!SessNext
      <3>1. i \in NodeIds
        BY <1>2
      <3>2. told' = [told EXCEPT ![i] = NoPeer]
        BY <1>1, <2>2, <2>4
      <3>3. CASE Online(i)
        <4>1. told[i] = b
          BY <2>1, <2>4, <3>1, <3>3, FrameFromSession
        <4>2. Sessions!End(i)
          BY <2>4, <3>2, <3>3, <4>1 DEF Sessions!End, Sessions!Emits, Online
        <4> QED  BY <3>1, <4>2 DEF Sessions!SessNext
      <3>4. CASE ~Online(i)
        <4>1. told' = told
          BY <1>1, <3>2, <3>4 DEF Online
        <4>2. Sessions!Stray(i, b)
          BY <2>4, <3>4, <4>1 DEF Sessions!Stray, Sessions!Emits, Online
        <4> QED  BY <3>1, <4>2 DEF Sessions!SessNext
      <3> QED  BY <3>3, <3>4
    <2> QED  BY <1>10, <2>3, <2>4 DEF DisconnectEvt, Emit
  <1> QED
    BY <1>4, <1>5, <1>6, <1>7, <1>8, <1>9, <1>10 DEF Next, Handler, LinkHandler

\* However conn_ids are reused, what the host receives is a run of NodeSessions:
\* while an id is announced for a node, every frame under it is that node's.
THEOREM SessionsRefine == Spec => SessionSpec
  <1>1. Init => Sessions!SessInit
    BY DEF Init, NoFrame, Sessions!SessInit
  <1>2. IInv /\ [Next]_vars => [Sessions!SessNext]_<<told, out>>
    BY StepRefines
  <1> QED
    BY <1>1, <1>2, InductiveInvariant, PTL
       DEF Spec, SessionSpec, Sessions!SessSpec, Sessions!sessVars
=============================================================================
