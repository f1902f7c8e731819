-------------------------- MODULE NodeServerProofs --------------------------
(***************************************************************************)
(* Proofs about NodeServer, for any number of centrals and links and any   *)
(* size of the queue.                                                      *)
(***************************************************************************)
EXTENDS NodeServer, SequenceTheorems, TLAPS

-----------------------------------------------------------------------------
(***************************************************************************)
(* The queue.                                                              *)
(***************************************************************************)

\* What is in the queue after one entry was taken and perhaps another added.
LEMMA QueuedAppend ==
    ASSUME NEW q \in Seq(Item), NEW e \in Item, NEW t
    PROVE  (\E j \in 1..Len(Append(q, e)) : Append(q, e)[j].type = t)
              <=> (e.type = t \/ \E j \in 1..Len(q) : q[j].type = t)
<1>1. Len(Append(q, e)) = Len(q) + 1 /\ Append(q, e)[Len(q) + 1] = e
  OBVIOUS
<1>2. \A j \in 1..Len(q) : Append(q, e)[j] = q[j]
  OBVIOUS
<1> QED BY <1>1, <1>2

LEMMA QueuedTail ==
    ASSUME NEW q \in Seq(Item), q # <<>>, NEW t, Head(q).type # t
    PROVE  (\E j \in 1..Len(Tail(q)) : Tail(q)[j].type = t)
              <=> (\E j \in 1..Len(q) : q[j].type = t)
<1>1. Len(q) \in Nat \ {0} /\ Len(Tail(q)) = Len(q) - 1
  OBVIOUS
<1>2. \A j \in 1..Len(Tail(q)) : Tail(q)[j] = q[j + 1]
  OBVIOUS
<1>3. Head(q) = q[1]
  OBVIOUS
<1>4. ASSUME NEW j \in 1..Len(q), q[j].type = t
      PROVE  j - 1 \in 1..Len(Tail(q)) /\ Tail(q)[j - 1] = q[j]
  <2>1. j # 1 BY <1>3, <1>4
  <2> QED BY <1>1, <1>2, <2>1
<1>5. ASSUME NEW j \in 1..Len(Tail(q))
      PROVE  j + 1 \in 1..Len(q)
  BY <1>1
<1> QED BY <1>2, <1>4, <1>5
-----------------------------------------------------------------------------
(***************************************************************************)
(* The types.                                                              *)
(***************************************************************************)
LEMMA EntryType ==
    ASSUME NEW t \in {"REG", "CREAT_ATTR_TAB", "START", "CONNECT", "WRITE",
                      "DISCONNECT", "ADVERTISE", "INDICATE"},
           NEW c \in ConnIds \cup {NoConn}, NEW p \in Central \cup {NoPeer},
           NEW w \in Writes
    PROVE  /\ Entry(t, c, p) \in Item /\ Entry(t, c, p).type = t
           /\ [Entry(t, c, p) EXCEPT !.write = w] \in Item
           /\ [Entry(t, c, p) EXCEPT !.write = w].type = t
<1> DEFINE e == [type |-> t, conn |-> c, peer |-> p, write |-> "other"]
           f == [type |-> t, conn |-> c, peer |-> p, write |-> w]
<1>1. Entry(t, c, p) = e
  BY DEF Entry
<1>2. [e EXCEPT !.write = w] = f
  OBVIOUS
<1>3. e \in Item
  BY DEF Item, Writes
<1>4. f \in Item
  BY DEF Item
<1>5. e.type = t /\ f.type = t
  OBVIOUS
<1> QED BY <1>1, <1>2, <1>3, <1>4, <1>5

LEMMA BareType ==
    ASSUME NEW t \in {"REG", "CREAT_ATTR_TAB", "START", "ADVERTISE"}
    PROVE  Bare(t) \in Item /\ Bare(t).type = t
<1> DEFINE e == [type |-> t, conn |-> NoConn, peer |-> NoPeer, write |-> "other"]
<1>1. Bare(t) = e
  BY DEF Bare, Entry
<1>2. e \in Item
  BY DEF Item, Writes
<1>3. e.type = t
  OBVIOUS
<1> QED BY <1>1, <1>2, <1>3

LEMMA HeadItem ==
    ASSUME btc \in Seq(Item), btc # <<>>
    PROVE  /\ Head(btc) \in Item /\ Tail(btc) \in Seq(Item)
           /\ Head(btc).conn \in ConnIds \cup {NoConn}
           /\ Head(btc).peer \in Central \cup {NoPeer}
           /\ Head(btc).write \in Writes
<1>1. Head(btc) \in Item /\ Tail(btc) \in Seq(Item)
  OBVIOUS
<1> QED BY <1>1 DEF Item

\* How each step changes the queue: it stays, it grows at its end, its head is
\* taken, or its head is taken and a call put at its end.
LEMMA QueueSteps ==
    ASSUME btc \in Seq(Item)
    PROVE  /\ \A e \in Item : Post(e) => btc' \in Seq(Item)
           /\ \A t : Handle(t) /\ Consume => btc' \in Seq(Item)
           /\ \A t, e : e \in Item /\ Handle(t) /\ ConsumeAndCall(e) => btc' \in Seq(Item)
<1>1. ASSUME NEW e \in Item, Post(e)
      PROVE  btc' \in Seq(Item)
  BY <1>1 DEF Post
<1>2. ASSUME NEW t, Handle(t)
      PROVE  Tail(btc) \in Seq(Item)
  BY <1>2, HeadItem DEF Handle
<1>3. ASSUME NEW t, Handle(t), Consume
      PROVE  btc' \in Seq(Item)
  BY <1>2, <1>3 DEF Consume
<1>4. ASSUME NEW t, NEW e \in Item, Handle(t), ConsumeAndCall(e)
      PROVE  btc' \in Seq(Item)
  BY <1>2, <1>4 DEF ConsumeAndCall
<1> QED BY <1>1, <1>3, <1>4

LEMMA TypesInit == Init => TypeOK
<1> SUFFICES ASSUME Init PROVE TypeOK
  OBVIOUS
<1>1. Bare("REG") \in Item
  BY BareType
<1>2. btc \in Seq(Item)
  BY <1>1 DEF Init
<1> QED BY <1>2 DEF Init, TypeOK

LEMMA StackTypes == TypeOK /\ Stack => TypeOK'
<1> SUFFICES ASSUME TypeOK, Stack PROVE TypeOK'
  OBVIOUS
<1>1. btc \in Seq(Item) /\ link \in [ConnIds -> Central \cup {NoPeer}]
  BY DEF TypeOK
<1>2. "other" \in Writes
  BY DEF Writes
<1>3. ASSUME NEW p \in Central, LinkUp(p)
      PROVE  TypeOK'
  <2>1. PICK c \in ConnIds : /\ link' = [link EXCEPT ![c] = p]
                             /\ Post(Entry("CONNECT", c, p))
    BY <1>3 DEF LinkUp
  <2>2. Entry("CONNECT", c, p) \in Item
    BY <1>2, EntryType
  <2>3. btc' \in Seq(Item)
    BY <1>1, <2>1, <2>2, QueueSteps
  <2>4. link' \in [ConnIds -> Central \cup {NoPeer}]
    BY <1>1, <2>1
  <2> QED BY <1>3, <2>3, <2>4 DEF TypeOK, LinkUp, heaterVars
<1>4. ASSUME NEW c \in ConnIds, LinkLost(c)
      PROVE  TypeOK'
  <2>1. Entry("DISCONNECT", c, link[c]) \in Item
    BY <1>1, <1>2, EntryType
  <2>2. btc' \in Seq(Item)
    BY <1>1, <1>4, <2>1, QueueSteps DEF LinkLost
  <2>3. link' \in [ConnIds -> Central \cup {NoPeer}]
    BY <1>1, <1>4 DEF LinkLost
  <2> QED BY <1>4, <2>2, <2>3 DEF TypeOK, LinkLost, heaterVars
<1>5. ASSUME NEW c \in ConnIds, NEW w \in Writes, CentralWrites(c, w)
      PROVE  TypeOK'
  <2>1. WriteOf(c, link[c], w) \in Item
    BY <1>1, EntryType DEF WriteOf
  <2>2. btc' \in Seq(Item)
    BY <1>1, <1>5, <2>1, QueueSteps DEF CentralWrites
  <2> QED BY <1>5, <2>2 DEF TypeOK, CentralWrites, linkVars, heaterVars
<1> QED BY <1>3, <1>4, <1>5 DEF Stack

LEMMA BtcTypes == TypeOK /\ BtcTask => TypeOK'
<1> SUFFICES ASSUME TypeOK, BtcTask PROVE TypeOK'
  OBVIOUS
<1>1. btc \in Seq(Item)
  BY DEF TypeOK
<1>2. /\ Bare("CREAT_ATTR_TAB") \in Item
      /\ Bare("START") \in Item
      /\ Bare("ADVERTISE") \in Item
  BY BareType
<1>3. s_conn_id \in ConnIds \cup {NoConn}
  BY DEF TypeOK
<1>4. ASSUME NEW t, Handle(t)
      PROVE  /\ Head(btc).conn \in ConnIds \cup {NoConn}
             /\ Head(btc).peer \in Central \cup {NoPeer}
  BY <1>1, <1>4, HeadItem DEF Handle
<1>5. CASE RegEvt
  <2>1. btc' \in Seq(Item)
    BY <1>1, <1>2, <1>5, QueueSteps DEF RegEvt
  <2> QED BY <1>5, <2>1 DEF TypeOK, RegEvt, heaterVars
<1>6. CASE CreatAttrTabEvt
  <2>1. btc' \in Seq(Item)
    BY <1>1, <1>2, <1>6, QueueSteps DEF CreatAttrTabEvt
  <2> QED BY <1>6, <2>1 DEF TypeOK, CreatAttrTabEvt, heaterVars
<1>7. CASE StartEvt
  <2>1. btc' \in Seq(Item)
    BY <1>1, <1>2, <1>7, QueueSteps DEF StartEvt
  <2> QED BY <1>7, <2>1 DEF TypeOK, StartEvt, heaterVars
<1>8. CASE ConnectEvt
  <2>1. btc' \in Seq(Item)
    BY <1>1, <1>8, QueueSteps DEF ConnectEvt
  <2>2. s_conn_id' \in ConnIds \cup {NoConn}
    BY <1>4, <1>8 DEF ConnectEvt
  <2> QED BY <1>8, <2>1, <2>2 DEF TypeOK, ConnectEvt, heaterVars
<1>9. CASE WriteEvt
  <2> DEFINE w == Head(btc).write
  <2>1. CASE CccdWritten(w)
    <3>1. btc' \in Seq(Item)
      BY <1>1, <1>9, <2>1, QueueSteps DEF WriteEvt, CccdWritten
    <3>2. s_notify_enabled' \in BOOLEAN
      BY <2>1 DEF CccdWritten
    <3> QED BY <2>1, <3>1, <3>2 DEF TypeOK, CccdWritten, heaterVars
  <2>2. CASE Answered(w)
    <3>1. Entry("INDICATE", s_conn_id, Head(btc).peer) \in Item
      <4>1. "other" \in Writes
        BY DEF Writes
      <4>2. Head(btc).peer \in Central \cup {NoPeer}
        BY <1>4, <1>9 DEF WriteEvt
      <4> QED BY <1>3, <4>1, <4>2, EntryType
    <3>2. btc' \in Seq(Item)
      BY <1>1, <1>9, <2>2, <3>1, QueueSteps DEF WriteEvt, Answered
    <3> QED BY <2>2, <3>2 DEF TypeOK, Answered, linkVars, heaterVars
  <2>3. CASE HeaterSet(w)
    <3>1. btc' \in Seq(Item)
      BY <1>1, <1>9, <2>3, QueueSteps DEF WriteEvt, HeaterSet
    <3> QED BY <2>3, <3>1 DEF TypeOK, HeaterSet, linkVars
  <2>4. CASE Ignored(w)
    <3>1. btc' \in Seq(Item)
      BY <1>1, <1>9, <2>4, QueueSteps DEF WriteEvt, Ignored
    <3> QED BY <2>4, <3>1 DEF TypeOK, Ignored, linkVars, heaterVars
  <2> QED BY <1>9, <2>1, <2>2, <2>3, <2>4 DEF WriteEvt
<1>10. CASE DisconnectEvt
  <2>1. btc' \in Seq(Item)
    BY <1>1, <1>2, <1>10, QueueSteps DEF DisconnectEvt
  <2> QED BY <1>10, <2>1 DEF TypeOK, DisconnectEvt
<1>11. CASE StartAdvertising
  <2>1. btc' \in Seq(Item)
    BY <1>1, <1>11, QueueSteps DEF StartAdvertising
  <2> QED BY <1>11, <2>1 DEF TypeOK, StartAdvertising, heaterVars
<1>12. CASE SendIndicate
  <2>1. btc' \in Seq(Item)
    BY <1>1, <1>12, QueueSteps DEF SendIndicate
  <2> QED BY <1>12, <2>1 DEF TypeOK, SendIndicate, linkVars, heaterVars
<1> QED BY <1>5, <1>6, <1>7, <1>8, <1>9, <1>10, <1>11, <1>12 DEF BtcTask

LEMMA HeaterTypes == TypeOK /\ (heater_init \/ HeaterTask) => TypeOK'
<1> SUFFICES ASSUME TypeOK, heater_init \/ HeaterTask PROVE TypeOK'
  OBVIOUS
<1>1. CASE heater_init
  BY <1>1 DEF TypeOK, heater_init, linkVars
<1>2. CASE Wake
  BY <1>2 DEF TypeOK, Wake, linkVars
<1>3. CASE SetDuty
  BY <1>3 DEF TypeOK, SetDuty, linkVars
<1>4. CASE NotifyCheck
  BY <1>4 DEF TypeOK, NotifyCheck, linkVars
<1>5. CASE NotifySend
  <2>1. Entry("INDICATE", s_conn_id, NoPeer) \in Item
    <3>1. "other" \in Writes /\ NoPeer \in Central \cup {NoPeer}
      BY DEF Writes
    <3>2. s_conn_id \in ConnIds \cup {NoConn}
      BY DEF TypeOK
    <3> QED BY <3>1, <3>2, EntryType
  <2>2. btc' \in Seq(Item)
    BY <1>5, <2>1, QueueSteps DEF NotifySend, TypeOK
  <2> QED BY <1>5, <2>2 DEF TypeOK, NotifySend, linkVars
<1> QED BY <1>1, <1>2, <1>3, <1>4, <1>5 DEF HeaterTask

LEMMA StepTypes == TypeOK /\ [Next]_vars => TypeOK'
<1>1. TypeOK /\ UNCHANGED vars => TypeOK'
  BY DEF TypeOK, vars, linkVars, heaterVars
<1> QED BY <1>1, StackTypes, BtcTypes, HeaterTypes DEF Next

\* Whatever the order of links, events and passes, the state is well typed.
THEOREM TypeInvariant == Spec => []TypeOK
BY TypesInit, StepTypes, PTL DEF Spec

-----------------------------------------------------------------------------
(***************************************************************************)
(* The node can be found.                                                  *)
(***************************************************************************)

\* Posting and handling leave an entry of another type in the queue, and what
\* is put there is there.
LEMMA QueuedPost ==
    ASSUME btc \in Seq(Item), NEW e \in Item, Post(e)
    PROVE  Queued(e.type)' /\ \A t : Queued(t) => Queued(t)'
<1>1. btc' = Append(btc, e)
  BY DEF Post
<1> QED BY <1>1, QueuedAppend DEF Queued

LEMMA QueuedConsume ==
    ASSUME btc \in Seq(Item), NEW u, Handle(u), Consume, NEW t, t # u, Queued(t)
    PROVE  Queued(t)'
<1>1. btc # <<>> /\ Head(btc).type # t
  BY DEF Handle
<1> QED BY <1>1, QueuedTail DEF Consume, Queued

LEMMA QueuedCall ==
    ASSUME btc \in Seq(Item), NEW e \in Item, NEW u, Handle(u), ConsumeAndCall(e)
    PROVE  Queued(e.type)' /\ \A t : t # u /\ Queued(t) => Queued(t)'
<1>1. btc # <<>> /\ Tail(btc) \in Seq(Item) /\ btc' = Append(Tail(btc), e)
  BY HeadItem DEF Handle, ConsumeAndCall
<1>2. Queued(e.type)'
  BY <1>1, QueuedAppend DEF Queued
<1>3. ASSUME NEW t, t # u, Queued(t)
      PROVE  Queued(t)'
  <2>1. Head(btc).type # t
    BY <1>3 DEF Handle
  <2>2. \E j \in 1..Len(Tail(btc)) : Tail(btc)[j].type = t
    BY <1>1, <1>3, <2>1, QueuedTail DEF Queued
  <2> DEFINE q == Tail(btc)
  <2>3. q \in Seq(Item) /\ btc' = Append(q, e) /\ \E j \in 1..Len(q) : q[j].type = t
    BY <1>1, <2>2
  <2> HIDE DEF q
  <2>4. \E j \in 1..Len(Append(q, e)) : Append(q, e)[j].type = t
    BY <2>3, QueuedAppend
  <2> QED BY <2>3, <2>4 DEF Queued
<1> QED BY <1>2, <1>3

\* What a step must keep for the node to stay findable.
LEMMA FindableKept ==
    ASSUME Findable,
           service' = "started" => service = "started",
           advertising' = advertising, link' = link,
           Queued("ADVERTISE") => Queued("ADVERTISE")',
           Queued("DISCONNECT") => Queued("DISCONNECT")'
    PROVE  Findable'
BY DEF Findable, NoLinks, Up

\* A handler that starts no advertising and handles no disconnect.
LEMMA FindableHandled ==
    ASSUME TypeOK, Findable, NEW u, Handle(u), u \notin {"ADVERTISE", "DISCONNECT"},
           Consume \/ \E e \in Item : ConsumeAndCall(e),
           service' = "started" => service = "started",
           advertising' = advertising, link' = link
    PROVE  Findable'
<1>1. btc \in Seq(Item)
  BY DEF TypeOK
<1>2. ASSUME NEW t \in {"ADVERTISE", "DISCONNECT"}, Queued(t)
      PROVE  Queued(t)'
  <2>1. CASE Consume
    BY <1>1, <1>2, <2>1, QueuedConsume
  <2>2. CASE \E e \in Item : ConsumeAndCall(e)
    BY <1>1, <1>2, <2>2, QueuedCall
  <2> QED BY <2>1, <2>2
<1> QED BY <1>2, FindableKept

LEMMA FindableStack == TypeOK /\ Findable /\ Stack => Findable'
<1> SUFFICES ASSUME TypeOK, Findable, Stack PROVE Findable'
  OBVIOUS
<1>1. btc \in Seq(Item) /\ link \in [ConnIds -> Central \cup {NoPeer}]
  BY DEF TypeOK
<1>2. "other" \in Writes
  BY DEF Writes
<1>3. ASSUME NEW p \in Central, LinkUp(p)
      PROVE  Findable'
  <2>1. PICK c \in ConnIds : link' = [link EXCEPT ![c] = p]
    BY <1>3 DEF LinkUp
  <2>2. link'[c] = p /\ p # NoPeer
    BY <1>1, <2>1, ServerAssumption
  <2> QED BY <2>2 DEF Findable, NoLinks, Up
<1>4. ASSUME NEW c \in ConnIds, LinkLost(c)
      PROVE  Findable'
  <2>1. Entry("DISCONNECT", c, link[c]) \in Item
    BY <1>1, <1>2, EntryType
  <2>3. Entry("DISCONNECT", c, link[c]).type = "DISCONNECT"
    BY DEF Entry
  <2>2. Queued("DISCONNECT")'
    BY <1>1, <1>4, <2>1, <2>3, QueuedPost DEF LinkLost
  <2> QED BY <2>2 DEF Findable
<1>5. ASSUME NEW c \in ConnIds, NEW w \in Writes, CentralWrites(c, w)
      PROVE  Findable'
  <2>1. WriteOf(c, link[c], w) \in Item
    BY <1>1, EntryType DEF WriteOf
  <2>2. \A t : Queued(t) => Queued(t)'
    BY <1>1, <1>5, <2>1, QueuedPost DEF CentralWrites
  <2>3. service' = service /\ advertising' = advertising /\ link' = link
    BY <1>5 DEF CentralWrites, linkVars
  <2> QED BY <2>2, <2>3, FindableKept
<1> QED BY <1>3, <1>4, <1>5 DEF Stack

LEMMA FindableBtc == TypeOK /\ Findable /\ BtcTask => Findable'
<1> SUFFICES ASSUME TypeOK, Findable, BtcTask PROVE Findable'
  OBVIOUS
<1>1. btc \in Seq(Item) /\ s_conn_id \in ConnIds \cup {NoConn}
  BY DEF TypeOK
<1>2. /\ Bare("CREAT_ATTR_TAB") \in Item /\ Bare("START") \in Item
      /\ Bare("ADVERTISE") \in Item /\ Bare("ADVERTISE").type = "ADVERTISE"
  BY BareType
<1>3. CASE RegEvt
  BY <1>3 DEF RegEvt, Findable
<1>4. CASE CreatAttrTabEvt
  <2>1. service' = "started" => service = "started"
    BY <1>4 DEF CreatAttrTabEvt
  <2>2. Consume \/ \E e \in Item : ConsumeAndCall(e)
    BY <1>2, <1>4 DEF CreatAttrTabEvt
  <2> QED BY <1>4, <2>1, <2>2, FindableHandled DEF CreatAttrTabEvt
<1>5. CASE StartEvt
  <2>1. CASE ConsumeAndCall(Bare("ADVERTISE"))
    <3>1. Queued("ADVERTISE")'
      BY <1>1, <1>2, <1>5, <2>1, QueuedCall DEF StartEvt
    <3> QED BY <3>1 DEF Findable
  <2>2. CASE Consume /\ UNCHANGED service
    BY <1>5, <2>2, FindableHandled DEF StartEvt
  <2> QED BY <1>5, <2>1, <2>2 DEF StartEvt
<1>6. CASE ConnectEvt
  BY <1>6, FindableHandled DEF ConnectEvt
<1>7. CASE WriteEvt
  <2> DEFINE w == Head(btc).write
             answer == Entry("INDICATE", s_conn_id, Head(btc).peer)
  <2>1. answer \in Item
    <3>1. "other" \in Writes
      BY DEF Writes
    <3>2. Head(btc).peer \in Central \cup {NoPeer}
      BY <1>1, <1>7, HeadItem DEF WriteEvt, Handle
    <3> QED BY <1>1, <3>1, <3>2, EntryType
  <2>2. CccdWritten(w) \/ Answered(w) \/ HeaterSet(w) \/ Ignored(w)
    BY <1>7 DEF WriteEvt
  <2>3. Consume \/ ConsumeAndCall(answer)
    BY <2>2 DEF CccdWritten, Answered, HeaterSet, Ignored
  <2>4. service' = service /\ advertising' = advertising /\ link' = link
    BY <2>2 DEF CccdWritten, Answered, HeaterSet, Ignored, linkVars
  <2>5. Handle("WRITE")
    BY <1>7 DEF WriteEvt
  <2> HIDE DEF answer
  <2>6. Consume \/ \E e \in Item : ConsumeAndCall(e)
    BY <2>1, <2>3
  <2> QED BY <2>4, <2>5, <2>6, FindableHandled
<1>8. CASE DisconnectEvt
  <2>1. Queued("ADVERTISE")'
    BY <1>1, <1>2, <1>8, QueuedCall DEF DisconnectEvt
  <2> QED BY <2>1 DEF Findable
<1>9. CASE StartAdvertising
  BY <1>9 DEF StartAdvertising, Findable
<1>10. CASE SendIndicate
  BY <1>10, FindableHandled DEF SendIndicate, linkVars
<1> QED BY <1>3, <1>4, <1>5, <1>6, <1>7, <1>8, <1>9, <1>10 DEF BtcTask

LEMMA FindableHeater == TypeOK /\ Findable /\ (heater_init \/ HeaterTask) => Findable'
<1> SUFFICES ASSUME TypeOK, Findable, heater_init \/ HeaterTask PROVE Findable'
  OBVIOUS
<1>1. CASE UNCHANGED <<linkVars, btc>>
  BY <1>1 DEF linkVars, Findable, NoLinks, Up, Queued
<1>2. CASE NotifySend
  <2>1. Entry("INDICATE", s_conn_id, NoPeer) \in Item
    <3>1. "other" \in Writes /\ NoPeer \in Central \cup {NoPeer}
      BY DEF Writes
    <3>2. s_conn_id \in ConnIds \cup {NoConn}
      BY DEF TypeOK
    <3> QED BY <3>1, <3>2, EntryType
  <2>2. \A t : Queued(t) => Queued(t)'
    BY <1>2, <2>1, QueuedPost DEF NotifySend, TypeOK
  <2>3. service' = service /\ advertising' = advertising /\ link' = link
    BY <1>2 DEF NotifySend, linkVars
  <2> QED BY <2>2, <2>3, FindableKept
<1> QED BY <1>1, <1>2 DEF HeaterTask, heater_init, Wake, SetDuty, NotifyCheck

\* However links come and go, a node that serves never falls silent.
THEOREM StaysFindable == Spec => []Findable
<1>1. Init => Findable
  BY DEF Init, Findable
<1>2. TypeOK /\ Findable /\ [Next]_vars => Findable'
  <2>1. Findable /\ UNCHANGED vars => Findable'
    BY DEF vars, linkVars, Findable, NoLinks, Up, Queued
  <2> QED BY <2>1, FindableStack, FindableBtc, FindableHeater DEF Next
<1> QED BY <1>1, <1>2, TypeInvariant, PTL DEF Spec

-----------------------------------------------------------------------------
(***************************************************************************)
(* The heater stays off.                                                   *)
(***************************************************************************)

\* A pass that saw the emergency is the last: until a target is set the flag
\* stays and heater_task goes from one wait to the next.
CutMeansOff == cut => s_emergency /\ duty = 0 /\ heater = "delay"

\* Whatever the pass under way did when the central was lost, once a pass has
\* seen the emergency the duty stays 0 until a central sets a target.
THEOREM StaysOff == Spec => []OffSticks
<1>1. Init => CutMeansOff
  BY DEF Init, CutMeansOff
<1>2. CutMeansOff /\ [Next]_vars => CutMeansOff'
  <2> SUFFICES ASSUME CutMeansOff, [Next]_vars PROVE CutMeansOff'
    OBVIOUS
  <2>1. CASE UNCHANGED heaterVars
    BY <2>1 DEF heaterVars, CutMeansOff
  <2>2. CASE Stack
    <3>1. UNCHANGED heaterVars
      BY <2>2 DEF Stack, LinkUp, LinkLost, CentralWrites
    <3> QED BY <2>1, <3>1
  <2>3. CASE BtcTask
    <3>1. CASE WriteEvt
      <4>1. CASE HeaterSet(Head(btc).write)
        BY <4>1 DEF HeaterSet, CutMeansOff
      <4>2. CASE ~HeaterSet(Head(btc).write)
        BY <2>1, <3>1, <4>2 DEF WriteEvt, CccdWritten, Answered, Ignored
      <4> QED BY <4>1, <4>2
    <3>2. CASE DisconnectEvt
      BY <3>2 DEF DisconnectEvt, CutMeansOff
    <3>3. CASE ~WriteEvt /\ ~DisconnectEvt
      <4>1. UNCHANGED heaterVars
        BY <2>3, <3>3 DEF BtcTask, RegEvt, CreatAttrTabEvt, StartEvt, ConnectEvt,
                          StartAdvertising, SendIndicate
      <4> QED BY <2>1, <4>1
    <3> QED BY <3>1, <3>2, <3>3
  <2>4. CASE heater_init
    BY <2>4 DEF heater_init, CutMeansOff
  <2>5. CASE HeaterTask
    BY <2>5 DEF HeaterTask, Wake, SetDuty, NotifyCheck, NotifySend, CutMeansOff
  <2>6. CASE UNCHANGED vars
    BY <2>1, <2>6 DEF vars
  <2> QED BY <2>2, <2>3, <2>4, <2>5, <2>6 DEF Next
<1>3. CutMeansOff => OffSticks
  BY DEF CutMeansOff, OffSticks
<1> QED BY <1>1, <1>2, <1>3, PTL DEF Spec

-----------------------------------------------------------------------------
(***************************************************************************)
(* Answers reach who asked.                                                *)
(*                                                                         *)
(* One thing is passed on from the bring-up to the advertising, from there *)
(* to the one link, from its DISCONNECT to the next advertising: the right *)
(* to let a central in.  While it waits in the queue, nobody has a link.   *)
(***************************************************************************)
Turn(e) == e.type \in {"REG", "CREAT_ATTR_TAB", "START", "ADVERTISE", "DISCONNECT"}
Reply(e) == e.type = "INDICATE" /\ e.peer # NoPeer

NoTurns(q) == \A j \in 1..Len(q) : ~Turn(q[j])
Unasked(q) == \A j \in 1..Len(q) : q[j].type # "WRITE" /\ ~Reply(q[j])
AskedBy(q, p) ==
    \A j \in 1..Len(q) : q[j].type = "WRITE" \/ Reply(q[j]) => q[j].peer = p

\* What a central wrote comes before its DISCONNECT, what it was answered before
\* the node advertises again.
TurnsOrdered(q) ==
    \A j, k \in 1..Len(q) : Turn(q[k]) =>
       /\ Turn(q[j]) => j = k
       /\ q[j].type = "WRITE" => q[k].type = "DISCONNECT" /\ j < k
       /\ Reply(q[j]) => q[k].type = "DISCONNECT" \/ j < k

InTurn(q) ==
    /\ TurnsOrdered(q)
    /\ \A c, d \in ConnIds : Up(c) /\ Up(d) => c = d
    /\ advertising => NoLinks /\ NoTurns(q) /\ Unasked(q)
    /\ \A c \in ConnIds : Up(c) => NoTurns(q) /\ AskedBy(q, link[c])

LEMMA TailTurns ==
    ASSUME NEW q \in Seq(Item), q # <<>>, TurnsOrdered(q)
    PROVE  /\ TurnsOrdered(Tail(q))
           /\ NoTurns(q) => NoTurns(Tail(q))
           /\ Unasked(q) => Unasked(Tail(q))
           /\ \A p : AskedBy(q, p) => AskedBy(Tail(q), p)
           /\ Turn(Head(q)) =>
                 /\ NoTurns(Tail(q))
                 /\ \A j \in 1..Len(Tail(q)) : Tail(q)[j].type # "WRITE"
                 /\ Head(q).type # "DISCONNECT" => Unasked(Tail(q))
<1> DEFINE t == Tail(q)
<1>1. /\ Len(q) \in Nat \ {0} /\ Len(t) = Len(q) - 1 /\ Head(q) = q[1]
      /\ \A j \in 1..Len(t) : j + 1 \in 1..Len(q) /\ t[j] = q[j + 1]
  OBVIOUS
<1> HIDE DEF t
<1>2. TurnsOrdered(t)
  BY <1>1 DEF TurnsOrdered
<1>3. NoTurns(q) => NoTurns(t)
  BY <1>1 DEF NoTurns
<1>4. Unasked(q) => Unasked(t)
  BY <1>1 DEF Unasked
<1>5. ASSUME NEW p, AskedBy(q, p) PROVE AskedBy(t, p)
  BY <1>1, <1>5 DEF AskedBy
<1>6. ASSUME Turn(Head(q))
      PROVE  /\ NoTurns(t)
             /\ \A j \in 1..Len(t) : t[j].type # "WRITE"
             /\ Head(q).type # "DISCONNECT" => Unasked(t)
  <2>1. ASSUME NEW j \in 1..Len(t)
        PROVE  /\ ~Turn(t[j]) /\ t[j].type # "WRITE"
               /\ Head(q).type # "DISCONNECT" => ~Reply(t[j])
    <3>1. /\ 1 \in 1..Len(q) /\ j + 1 \in 1..Len(q) /\ j + 1 # 1 /\ ~(j + 1 < 1)
          /\ t[j] = q[j + 1] /\ Turn(q[1])
      BY <1>1, <1>6
    <3>2. /\ Turn(q[j + 1]) => j + 1 = 1
          /\ q[j + 1].type = "WRITE" => q[1].type = "DISCONNECT" /\ j + 1 < 1
          /\ Reply(q[j + 1]) => q[1].type = "DISCONNECT" \/ j + 1 < 1
      BY <3>1 DEF TurnsOrdered
    <3> QED BY <1>1, <3>1, <3>2
  <2> QED BY <2>1 DEF NoTurns, Unasked
<1> QED BY <1>2, <1>3, <1>4, <1>5, <1>6 DEF t

LEMMA AppendTurns ==
    ASSUME NEW q \in Seq(Item), NEW e \in Item, TurnsOrdered(q)
    PROVE  /\ /\ Turn(e) => NoTurns(q)
              /\ Turn(e) /\ e.type # "DISCONNECT" =>
                    \A j \in 1..Len(q) : q[j].type # "WRITE"
              /\ e.type = "WRITE" => NoTurns(q)
              /\ Reply(e) => \A k \in 1..Len(q) : Turn(q[k]) => q[k].type = "DISCONNECT"
              => TurnsOrdered(Append(q, e))
           /\ NoTurns(q) /\ ~Turn(e) => NoTurns(Append(q, e))
           /\ Unasked(q) /\ e.type # "WRITE" /\ ~Reply(e) => Unasked(Append(q, e))
           /\ \A p : AskedBy(q, p) /\ (e.type = "WRITE" \/ Reply(e) => e.peer = p)
                       => AskedBy(Append(q, e), p)
<1> DEFINE a == Append(q, e)
           n == Len(q)
<1>1. n \in Nat /\ Len(a) = n + 1 /\ a[n + 1] = e
  OBVIOUS
<1>2. \A j \in 1..n : a[j] = q[j]
  OBVIOUS
<1>3. \A j \in 1..Len(a) : j \in 1..n \/ j = n + 1
  BY <1>1
<1>4. \A j \in 1..n : j < n + 1 /\ j # n + 1
  BY <1>1
<1>5. ASSUME Turn(e) => NoTurns(q),
             Turn(e) /\ e.type # "DISCONNECT" => \A j \in 1..n : q[j].type # "WRITE",
             e.type = "WRITE" => NoTurns(q),
             Reply(e) => \A k \in 1..n : Turn(q[k]) => q[k].type = "DISCONNECT"
      PROVE  TurnsOrdered(a)
  <2> SUFFICES ASSUME NEW j \in 1..Len(a), NEW k \in 1..Len(a), Turn(a[k])
               PROVE  /\ Turn(a[j]) => j = k
                      /\ a[j].type = "WRITE" => a[k].type = "DISCONNECT" /\ j < k
                      /\ Reply(a[j]) => a[k].type = "DISCONNECT" \/ j < k
    BY DEF TurnsOrdered
  <2>1. CASE j \in 1..n /\ k \in 1..n
    BY <1>2, <2>1 DEF TurnsOrdered
  <2>2. CASE j = n + 1 /\ k = n + 1
    BY <1>1, <2>2 DEF Turn, Reply
  <2>3. CASE j \in 1..n /\ k = n + 1
    <3>1. /\ Turn(e) /\ a[k] = e /\ a[j] = q[j] /\ j < k
      BY <1>1, <1>2, <1>4, <2>3
    <3> QED BY <1>5, <2>3, <3>1 DEF NoTurns
  <2>4. CASE j = n + 1 /\ k \in 1..n
    <3>1. a[j] = e /\ a[k] = q[k] /\ Turn(q[k]) /\ ~NoTurns(q)
      BY <1>1, <1>2, <2>4 DEF NoTurns
    <3> QED BY <1>5, <2>4, <3>1
  <2> QED BY <1>3, <2>1, <2>2, <2>3, <2>4
<1>6. NoTurns(q) /\ ~Turn(e) => NoTurns(a)
  BY <1>1, <1>2, <1>3 DEF NoTurns
<1>7. Unasked(q) /\ e.type # "WRITE" /\ ~Reply(e) => Unasked(a)
  BY <1>1, <1>2, <1>3 DEF Unasked
<1>8. ASSUME NEW p, AskedBy(q, p), e.type = "WRITE" \/ Reply(e) => e.peer = p
      PROVE  AskedBy(a, p)
  BY <1>1, <1>2, <1>3, <1>8 DEF AskedBy
<1> QED BY <1>5, <1>6, <1>7, <1>8

\* With nobody let in yet.
LEMMA NoQueueTurns ==
    ASSUME NEW q, NoTurns(q)
    PROVE  TurnsOrdered(q)
BY DEF NoTurns, TurnsOrdered

\* A step that lets nobody in or out and queues no write and no answer.
LEMMA QuietStep ==
    ASSUME TypeOK, InTurn(btc), link' = link, advertising' = advertising,
           \/ btc' = btc
           \/ btc # <<>> /\ Consume
           \/ \E e \in Item : /\ ~Turn(e) /\ e.type # "WRITE" /\ ~Reply(e)
                               /\ btc' = Append(btc, e)
    PROVE  InTurn(btc)'
<1>1. btc \in Seq(Item) /\ TurnsOrdered(btc)
  BY DEF TypeOK, InTurn
<1>2. /\ TurnsOrdered(btc')
      /\ NoTurns(btc) => NoTurns(btc')
      /\ Unasked(btc) => Unasked(btc')
      /\ \A p : AskedBy(btc, p) => AskedBy(btc', p)
  <2>1. CASE btc' = btc
    BY <1>1, <2>1
  <2>2. CASE btc # <<>> /\ Consume
    BY <1>1, <2>2, TailTurns DEF Consume
  <2>3. ASSUME NEW e \in Item, ~Turn(e), e.type # "WRITE", ~Reply(e), btc' = Append(btc, e)
        PROVE  /\ TurnsOrdered(btc')
               /\ NoTurns(btc) => NoTurns(btc')
               /\ Unasked(btc) => Unasked(btc')
               /\ \A p : AskedBy(btc, p) => AskedBy(btc', p)
    BY <1>1, <2>3, AppendTurns
  <2> QED BY <2>1, <2>2, <2>3
<1>3. InTurn(btc')
  BY <1>2 DEF InTurn
<1> QED BY <1>3 DEF InTurn, NoLinks, Up

\* The turn is passed on within the queue: a step of the bring-up, or the
\* DISCONNECT that ends in the next advertising.
LEMMA TurnPassed ==
    ASSUME TypeOK, InTurn(btc), link' = link, advertising' = advertising,
           btc # <<>>, Turn(Head(btc)),
           NEW e \in Item, Turn(e), e.type # "DISCONNECT", ConsumeAndCall(e)
    PROVE  InTurn(btc)'
<1>1. btc \in Seq(Item) /\ TurnsOrdered(btc)
  BY DEF TypeOK, InTurn
<1>2. Len(btc) \in Nat \ {0} /\ Head(btc) = btc[1]
  BY <1>1
<1>3. ~NoTurns(btc)
  BY <1>2 DEF NoTurns
<1>4. ~advertising' /\ \A c \in ConnIds : link'[c] = NoPeer
  BY <1>3 DEF InTurn, Up
<1>5. /\ Tail(btc) \in Seq(Item) /\ TurnsOrdered(Tail(btc)) /\ NoTurns(Tail(btc))
      /\ \A j \in 1..Len(Tail(btc)) : Tail(btc)[j].type # "WRITE"
  BY <1>1, TailTurns
<1>6. e.type # "WRITE" /\ ~Reply(e)
  BY DEF Turn, Reply
<1>7. TurnsOrdered(btc')
  <2> DEFINE q == Tail(btc)
  <2>1. /\ q \in Seq(Item) /\ TurnsOrdered(q) /\ NoTurns(q)
        /\ \A j \in 1..Len(q) : q[j].type # "WRITE"
        /\ btc' = Append(q, e)
    BY <1>5 DEF ConsumeAndCall
  <2> HIDE DEF q
  <2>2. TurnsOrdered(Append(q, e))
    BY <1>6, <2>1, AppendTurns
  <2> QED BY <2>1, <2>2
<1> QED BY <1>4, <1>7 DEF InTurn, Up

LEMMA TurnsInit == Init => InTurn(btc)
<1> SUFFICES ASSUME Init PROVE InTurn(btc)
  OBVIOUS
<1>1. btc = <<Bare("REG")>> /\ Bare("REG").type = "REG"
  BY BareType DEF Init
<1>2. Len(btc) = 1 /\ btc[1].type = "REG"
  BY <1>1
<1>3. TurnsOrdered(btc)
  BY <1>2 DEF TurnsOrdered, Reply
<1>4. ~advertising /\ \A c \in ConnIds : ~Up(c)
  BY DEF Init, Up
<1> QED BY <1>3, <1>4 DEF InTurn

LEMMA TurnsStack == TypeOK /\ InTurn(btc) /\ Stack => InTurn(btc)'
<1> SUFFICES ASSUME TypeOK, InTurn(btc), Stack PROVE InTurn(btc)'
  OBVIOUS
<1>1. /\ btc \in Seq(Item) /\ TurnsOrdered(btc)
      /\ link \in [ConnIds -> Central \cup {NoPeer}]
  BY DEF TypeOK, InTurn
<1>2. "other" \in Writes
  BY DEF Writes
<1>3. ASSUME NEW p \in Central, LinkUp(p)
      PROVE  InTurn(btc)'
  <2>1. PICK c \in ConnIds : /\ link' = [link EXCEPT ![c] = p]
                             /\ Post(Entry("CONNECT", c, p))
    BY <1>3 DEF LinkUp
  <2> DEFINE e == Entry("CONNECT", c, p)
  <2>2. e \in Item
    BY <1>2, EntryType
  <2>3. e.type = "CONNECT"
    BY DEF Entry
  <2>4. NoLinks /\ NoTurns(btc) /\ Unasked(btc) /\ ~advertising'
    BY <1>3 DEF InTurn, LinkUp
  <2>5. ~Turn(e) /\ e.type # "WRITE" /\ ~Reply(e) /\ btc' = Append(btc, e)
    BY <2>1, <2>3 DEF Turn, Reply, Post
  <2> HIDE DEF e
  <2>6. TurnsOrdered(btc') /\ NoTurns(btc') /\ Unasked(btc')
    BY <1>1, <2>2, <2>4, <2>5, AppendTurns
  <2>7. \A d \in ConnIds : link'[d] # NoPeer => d = c
    BY <1>1, <2>1, <2>4 DEF NoLinks, Up
  <2>8. \A d \in ConnIds : AskedBy(btc', link'[d])
    BY <2>6 DEF AskedBy, Unasked
  <2> QED BY <2>4, <2>6, <2>7, <2>8 DEF InTurn, Up
<1>4. ASSUME NEW c \in ConnIds, LinkLost(c)
      PROVE  InTurn(btc)'
  <2> DEFINE e == Entry("DISCONNECT", c, link[c])
  <2>1. e \in Item
    BY <1>1, <1>2, EntryType
  <2>2. e.type = "DISCONNECT"
    BY DEF Entry
  <2>3. Up(c) /\ NoTurns(btc) /\ ~advertising'
    BY <1>4 DEF InTurn, LinkLost, NoLinks
  <2>4. \A d \in ConnIds : link'[d] = NoPeer
    BY <1>1, <1>4, <2>3 DEF InTurn, LinkLost, Up
  <2>5. e.type # "WRITE" /\ ~Reply(e) /\ btc' = Append(btc, e)
    BY <1>4, <2>2 DEF Reply, LinkLost, Post
  <2> HIDE DEF e
  <2>6. TurnsOrdered(btc')
    BY <1>1, <2>1, <2>2, <2>3, <2>5, AppendTurns
  <2> QED BY <2>3, <2>4, <2>6 DEF InTurn, Up
<1>5. ASSUME NEW c \in ConnIds, NEW w \in Writes, CentralWrites(c, w)
      PROVE  InTurn(btc)'
  <2> DEFINE e == WriteOf(c, link[c], w)
  <2>1. e \in Item
    BY <1>1, EntryType DEF WriteOf
  <2>2. e.type = "WRITE" /\ e.peer = link[c]
    BY DEF WriteOf, Entry
  <2>3. /\ Up(c) /\ btc' = Append(btc, e)
        /\ link' = link /\ advertising' = advertising
    BY <1>5 DEF CentralWrites, Post, linkVars
  <2>4. NoTurns(btc) /\ ~advertising /\ \A d \in ConnIds : Up(d) => d = c
    BY <2>3 DEF InTurn, NoLinks
  <2>5. ~Turn(e) /\ ~Reply(e)
    BY <2>2 DEF Turn, Reply
  <2> HIDE DEF e
  <2>6. TurnsOrdered(btc') /\ NoTurns(btc')
    BY <1>1, <2>1, <2>3, <2>4, <2>5, AppendTurns
  <2>7. AskedBy(btc', link[c])
    <3>1. AskedBy(btc, link[c])
      BY <2>3 DEF InTurn
    <3> QED BY <1>1, <2>1, <2>2, <2>3, <3>1, AppendTurns
  <2> QED BY <2>3, <2>4, <2>6, <2>7 DEF InTurn, Up
<1> QED BY <1>3, <1>4, <1>5 DEF Stack

\* The answer goes into the queue for the central whose write it answers.
LEMMA TurnsAnswered ==
    ASSUME TypeOK, InTurn(btc), Handle("WRITE"), Answered(Head(btc).write)
    PROVE  InTurn(btc)'
<1>1. btc \in Seq(Item) /\ TurnsOrdered(btc) /\ btc # <<>> /\ Head(btc).type = "WRITE"
  BY DEF TypeOK, InTurn, Handle
<1>2. link' = link /\ advertising' = advertising
  BY DEF Answered, linkVars
<1>3. CASE Consume
  BY <1>1, <1>2, <1>3, QuietStep
<1> DEFINE p == Head(btc).peer
           e == Entry("INDICATE", s_conn_id, p)
           q == Tail(btc)
<1>4. CASE ConsumeAndCall(e)
  <2>1. p \in Central \cup {NoPeer} /\ q \in Seq(Item)
    BY <1>1, HeadItem
  <2>2. e \in Item
    <3>1. "other" \in Writes /\ s_conn_id \in ConnIds \cup {NoConn}
      BY DEF Writes, TypeOK
    <3> QED BY <2>1, <3>1, EntryType
  <2>3. e.type = "INDICATE" /\ e.peer = p
    BY DEF Entry
  <2>4. /\ TurnsOrdered(q)
        /\ NoTurns(btc) => NoTurns(q)
        /\ \A r : AskedBy(btc, r) => AskedBy(q, r)
    BY <1>1, TailTurns
  <2>5. /\ Len(btc) \in Nat \ {0} /\ 1 \in 1..Len(btc) /\ btc[1].type = "WRITE"
        /\ btc[1].peer = p
        /\ Len(q) = Len(btc) - 1 /\ \A j \in 1..Len(q) : q[j] = btc[j + 1]
    BY <1>1
  <2>6. \A k \in 1..Len(q) : Turn(q[k]) => q[k].type = "DISCONNECT"
    <3> SUFFICES ASSUME NEW k \in 1..Len(q), Turn(btc[k + 1])
                 PROVE  btc[k + 1].type = "DISCONNECT"
      BY <2>5
    <3>1. k + 1 \in 1..Len(btc)
      BY <2>5
    <3> QED BY <1>1, <2>5, <3>1 DEF TurnsOrdered
  <2>7. \A r : AskedBy(btc, r) => p = r
    BY <2>5 DEF AskedBy
  <2>8. ~advertising
    BY <2>5 DEF InTurn, Unasked
  <2>9. ~Turn(e) /\ e.type # "WRITE" /\ btc' = Append(q, e)
    BY <1>4, <2>3 DEF Turn, ConsumeAndCall
  <2> HIDE DEF e, q, p
  <2>10. TurnsOrdered(btc')
    BY <2>1, <2>2, <2>4, <2>6, <2>9, AppendTurns
  <2>11. NoTurns(btc) => NoTurns(btc')
    BY <2>1, <2>2, <2>4, <2>9, AppendTurns
  <2>12. \A r : AskedBy(btc, r) => AskedBy(btc', r)
    BY <2>1, <2>2, <2>3, <2>4, <2>7, <2>9, AppendTurns
  <2>13. InTurn(btc')
    BY <2>8, <2>10, <2>11, <2>12 DEF InTurn
  <2> QED BY <1>2, <2>13 DEF InTurn, NoLinks, Up
<1> QED BY <1>3, <1>4 DEF Answered

LEMMA TurnsBtc == TypeOK /\ InTurn(btc) /\ BtcTask => InTurn(btc)'
<1> SUFFICES ASSUME TypeOK, InTurn(btc), BtcTask PROVE InTurn(btc)'
  OBVIOUS
<1>1. btc \in Seq(Item) /\ TurnsOrdered(btc)
  BY DEF TypeOK, InTurn
<1>2. \A t \in {"CREAT_ATTR_TAB", "START", "ADVERTISE"} :
         Bare(t) \in Item /\ Turn(Bare(t)) /\ Bare(t).type # "DISCONNECT"
  BY BareType DEF Turn
<1>3. ASSUME NEW t, Handle(t), t \in {"REG", "CREAT_ATTR_TAB", "START", "ADVERTISE", "DISCONNECT"}
      PROVE  btc # <<>> /\ Turn(Head(btc))
  BY <1>3 DEF Handle, Turn
<1>4. ASSUME NEW t, Handle(t), Consume, link' = link, advertising' = advertising
      PROVE  InTurn(btc)'
  BY <1>4, QuietStep DEF Handle
<1>5. CASE RegEvt
  BY <1>2, <1>3, <1>5, TurnPassed DEF RegEvt
<1>6. CASE CreatAttrTabEvt
  BY <1>2, <1>3, <1>4, <1>6, TurnPassed DEF CreatAttrTabEvt
<1>7. CASE StartEvt
  BY <1>2, <1>3, <1>4, <1>7, TurnPassed DEF StartEvt
<1>8. CASE DisconnectEvt
  BY <1>2, <1>3, <1>8, TurnPassed DEF DisconnectEvt
<1>9. CASE ConnectEvt
  BY <1>4, <1>9 DEF ConnectEvt
<1>10. CASE SendIndicate
  BY <1>4, <1>10 DEF SendIndicate, linkVars
<1>11. CASE WriteEvt
  <2> DEFINE w == Head(btc).write
  <2>1. CASE Answered(w)
    BY <1>11, <2>1, TurnsAnswered DEF WriteEvt
  <2>2. CASE CccdWritten(w) \/ HeaterSet(w) \/ Ignored(w)
    <3>1. Consume /\ link' = link /\ advertising' = advertising
      BY <2>2 DEF CccdWritten, HeaterSet, Ignored, linkVars
    <3> QED BY <1>4, <1>11, <3>1 DEF WriteEvt
  <2> QED BY <1>11, <2>1, <2>2 DEF WriteEvt
<1>12. CASE StartAdvertising
  <2>1. /\ btc # <<>> /\ Turn(Head(btc)) /\ Head(btc).type # "DISCONNECT"
        /\ btc' = Tail(btc) /\ link' = link
    BY <1>12 DEF StartAdvertising, Handle, Turn, Consume
  <2>2. Len(btc) \in Nat \ {0} /\ Head(btc) = btc[1]
    BY <1>1, <2>1
  <2>3. ~NoTurns(btc)
    BY <2>1, <2>2 DEF NoTurns
  <2>4. TurnsOrdered(btc') /\ NoTurns(btc') /\ Unasked(btc')
    BY <1>1, <2>1, TailTurns
  <2>5. \A c \in ConnIds : link'[c] = NoPeer
    BY <2>1, <2>3 DEF InTurn, Up
  <2> QED BY <2>4, <2>5 DEF InTurn, NoLinks, Up
<1> QED BY <1>5, <1>6, <1>7, <1>8, <1>9, <1>10, <1>11, <1>12 DEF BtcTask

LEMMA TurnsHeater == TypeOK /\ InTurn(btc) /\ (heater_init \/ HeaterTask) => InTurn(btc)'
<1> SUFFICES ASSUME TypeOK, InTurn(btc), heater_init \/ HeaterTask PROVE InTurn(btc)'
  OBVIOUS
<1>1. CASE UNCHANGED <<linkVars, btc>>
  BY <1>1, QuietStep DEF linkVars
<1>2. CASE NotifySend
  <2> DEFINE e == Entry("INDICATE", s_conn_id, NoPeer)
  <2>1. e \in Item
    <3>1. "other" \in Writes /\ NoPeer \in Central \cup {NoPeer}
      BY DEF Writes
    <3>2. s_conn_id \in ConnIds \cup {NoConn}
      BY DEF TypeOK
    <3> QED BY <3>1, <3>2, EntryType
  <2>2. e.type = "INDICATE" /\ e.peer = NoPeer
    BY DEF Entry
  <2>3. /\ ~Turn(e) /\ e.type # "WRITE" /\ ~Reply(e) /\ btc' = Append(btc, e)
        /\ link' = link /\ advertising' = advertising
    BY <1>2, <2>2 DEF Turn, Reply, NotifySend, Post, linkVars
  <2> HIDE DEF e
  <2> QED BY <2>1, <2>3, QuietStep
<1> QED BY <1>1, <1>2 DEF HeaterTask, heater_init, Wake, SetDuty, NotifyCheck

\* While an answer waits in the queue no central but the one that asked gets the
\* link it is for, however often conn_ids are given again.
THEOREM AnswersAsker == Spec => []RepliesToAsker
<1>1. TypeOK /\ InTurn(btc) /\ [Next]_vars => InTurn(btc)'
  <2>1. TypeOK /\ InTurn(btc) /\ UNCHANGED vars => InTurn(btc)'
    BY QuietStep DEF vars, linkVars
  <2> QED BY <2>1, TurnsStack, TurnsBtc, TurnsHeater DEF Next
<1>2. TypeOK /\ InTurn(btc) => RepliesToAsker
  <2> SUFFICES ASSUME TypeOK, InTurn(btc), NEW j \in 1..Len(btc),
                      btc[j].type = "INDICATE", btc[j].peer # NoPeer, btc[j].conn # NoConn
               PROVE  link[btc[j].conn] \in {btc[j].peer, NoPeer}
    BY DEF RepliesToAsker
  <2>1. btc[j] \in Item
    BY DEF TypeOK
  <2>2. btc[j].conn \in ConnIds
    BY <2>1 DEF Item
  <2> QED BY <2>2 DEF InTurn, AskedBy, Reply, Up
<1> QED BY <1>1, <1>2, TurnsInit, TypeInvariant, PTL DEF Spec
=============================================================================
