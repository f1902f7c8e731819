----------------------------- MODULE NodeServer -----------------------------
(***************************************************************************)
(* The node's GATT server (node/main/gatt_server.c) and the heater it cuts *)
(* when the central is gone (node/main/heater.c).                          *)
(*                                                                         *)
(* Three parties: the Bluetooth stack, whose links change at any time; the *)
(* BTC task, which runs gatts_event_handler on the events of its queue and *)
(* also carries out the calls made to the stack, that go through the same  *)
(* queue; and heater_task, which wakes every 100 ms and shares the link's  *)
(* variables and the heater's with the BTC task, without a lock.           *)
(*                                                                         *)
(* app_main does not call heater_init; heater.h asks for it after          *)
(* gatt_server_init, so it may come at any time, or never.  The output of  *)
(* the PID is any duty, whatever the target: a thermistor that reads -1    *)
(* or a wound-up integral heats at target 0 too.  A restart of the node    *)
(* loses all of this state and is the start of another behaviour.          *)
(*                                                                         *)
(* QUEUE_MAX bounds the queue: who posts waits while it is full.  MaxLinks *)
(* bounds the links of the stack.                                          *)
(***************************************************************************)
EXTENDS Naturals, Sequences

CONSTANTS
    Central,    \* the centrals in range
    NoPeer,     \* no central
    MaxLinks,
    QUEUE_MAX

ASSUME ServerAssumption ==
    /\ NoPeer \notin Central
    /\ MaxLinks \in Nat \ {0}
    /\ QUEUE_MAX \in Nat \ {0}

VARIABLES
    service,            \* the service is registered, its table made, started
    s_conn_id,          \* the link notifications go to, or NoConn
    s_notify_enabled,
    advertising,        \* the stack: the node can be found
    link,               \* the stack: the central under each conn_id
    btc,                \* the queue of the BTC task
    s_emergency,
    duty,               \* 0: the heater is off
    heater,             \* where heater_task is
    cut                 \* ghost: a pass saw s_emergency, no HEATER_SET since

linkVars == <<service, s_conn_id, s_notify_enabled, advertising, link>>
heaterVars == <<s_emergency, duty, heater, cut>>
vars == <<linkVars, btc, heaterVars>>

ConnIds == 0..(MaxLinks - 1)
NoConn == MaxLinks

\* What a central writes: the CCCD; a command that is answered by one
\* notification (PING, HEARTBEAT, a query, an update step); HEATER_SET; or
\* what has no effect here.
Writes == {"subscribe", "unsubscribe", "ask", "heat", "other"}

\* An event of the stack or a call to it; peer is the central it is about
\* (NoPeer: none), and, for a notification, the one whose command it answers.
Item == [type : {"REG", "CREAT_ATTR_TAB", "START", "CONNECT", "WRITE",
                 "DISCONNECT", "ADVERTISE", "INDICATE"},
         conn : ConnIds \cup {NoConn}, peer : Central \cup {NoPeer},
         write : Writes]

Entry(t, c, p) == [type |-> t, conn |-> c, peer |-> p, write |-> "other"]
Bare(t) == Entry(t, NoConn, NoPeer)
WriteOf(c, p, w) == [Entry("WRITE", c, p) EXCEPT !.write = w]

TypeOK ==
    /\ service \in {"none", "registered", "table", "started"}
    /\ s_conn_id \in ConnIds \cup {NoConn}
    /\ s_notify_enabled \in BOOLEAN
    /\ advertising \in BOOLEAN
    /\ link \in [ConnIds -> Central \cup {NoPeer}]
    /\ btc \in Seq(Item)
    /\ s_emergency \in BOOLEAN
    /\ duty \in {0, 1}
    /\ heater \in {"none", "delay", "pass", "notify", "send"}
    /\ cut \in BOOLEAN

\* gatt_server_init registers the application; the stack answers with REG.
Init ==
    /\ service = "none"
    /\ s_conn_id = NoConn
    /\ s_notify_enabled = FALSE
    /\ advertising = FALSE
    /\ link = [c \in ConnIds |-> NoPeer]
    /\ btc = <<Bare("REG")>>
    /\ s_emergency = FALSE
    /\ duty = 0
    /\ heater = "none"
    /\ cut = FALSE

-----------------------------------------------------------------------------
(***************************************************************************)
(* The stack.                                                              *)
(***************************************************************************)
Up(c) == link[c] # NoPeer
NoLinks == \A c \in ConnIds : ~Up(c)

Post(e) == Len(btc) < QUEUE_MAX /\ btc' = Append(btc, e)

\* A central finds the node; the controller stops advertising.
LinkUp(p) ==
    /\ advertising
    /\ \A c \in ConnIds : link[c] # p
    /\ \E c \in ConnIds :
          /\ ~Up(c) /\ \A d \in 0..(c - 1) : Up(d)
          /\ link' = [link EXCEPT ![c] = p]
          /\ Post(Entry("CONNECT", c, p))
    /\ advertising' = FALSE
    /\ UNCHANGED <<service, s_conn_id, s_notify_enabled, heaterVars>>

LinkLost(c) ==
    /\ Up(c)
    /\ link' = [link EXCEPT ![c] = NoPeer]
    /\ Post(Entry("DISCONNECT", c, link[c]))
    /\ UNCHANGED <<service, s_conn_id, s_notify_enabled, advertising, heaterVars>>

CentralWrites(c, w) ==
    /\ Up(c)
    /\ Post(WriteOf(c, link[c], w))
    /\ UNCHANGED <<linkVars, heaterVars>>

Stack ==
    \/ \E p \in Central : LinkUp(p)
    \/ \E c \in ConnIds : LinkLost(c) \/ \E w \in Writes : CentralWrites(c, w)

-----------------------------------------------------------------------------
(***************************************************************************)
(* The BTC task.                                                           *)
(***************************************************************************)
Handle(t) == btc # <<>> /\ Head(btc).type = t
Consume == btc' = Tail(btc)
ConsumeAndCall(e) == btc' = Append(Tail(btc), e)

\* The bring-up: each step calls for the next; one that fails ends it.
RegEvt ==
    /\ Handle("REG")
    /\ ConsumeAndCall(Bare("CREAT_ATTR_TAB"))
    /\ service' = "registered"
    /\ UNCHANGED <<s_conn_id, s_notify_enabled, advertising, link, heaterVars>>

CreatAttrTabEvt ==
    /\ Handle("CREAT_ATTR_TAB")
    /\ \/ ConsumeAndCall(Bare("START")) /\ service' = "table"
       \/ Consume /\ UNCHANGED service
    /\ UNCHANGED <<s_conn_id, s_notify_enabled, advertising, link, heaterVars>>

StartEvt ==
    /\ Handle("START")
    /\ \/ ConsumeAndCall(Bare("ADVERTISE")) /\ service' = "started"
       \/ Consume /\ UNCHANGED service
    /\ UNCHANGED <<s_conn_id, s_notify_enabled, advertising, link, heaterVars>>

\* Mutant: the node advertises on, for a second central.
ConnectEvtAdvertising ==
    /\ Handle("CONNECT")
    /\ ConsumeAndCall(Bare("ADVERTISE"))
    /\ s_conn_id' = Head(btc).conn
    /\ UNCHANGED <<service, s_notify_enabled, advertising, link, heaterVars>>

ConnectEvt ==
    /\ Handle("CONNECT")
    /\ Consume
    /\ s_conn_id' = Head(btc).conn
    /\ UNCHANGED <<service, s_notify_enabled, advertising, link, heaterVars>>

CccdWritten(w) ==
    /\ w \in {"subscribe", "unsubscribe"}
    /\ Consume
    /\ s_notify_enabled' = (w = "subscribe")
    /\ UNCHANGED <<service, s_conn_id, advertising, link, heaterVars>>

CanNotify == s_conn_id # NoConn /\ s_notify_enabled

\* dispatch_packet with a command that is answered; gatt_server_notify queues
\* the answer for s_conn_id, or drops it.
Answered(w) ==
    /\ w = "ask"
    /\ \/ CanNotify /\ ConsumeAndCall(Entry("INDICATE", s_conn_id, Head(btc).peer))
       \/ ~CanNotify /\ Consume
    /\ UNCHANGED <<linkVars, heaterVars>>

\* heater_set_target: the new target is stored and the emergency ends.
HeaterSet(w) ==
    /\ w = "heat"
    /\ Consume
    /\ s_emergency' = FALSE
    /\ cut' = FALSE
    /\ UNCHANGED <<linkVars, duty, heater>>

Ignored(w) ==
    /\ w = "other"
    /\ Consume
    /\ UNCHANGED <<linkVars, heaterVars>>

WriteEvt ==
    /\ Handle("WRITE")
    /\ LET w == Head(btc).write
       IN CccdWritten(w) \/ Answered(w) \/ HeaterSet(w) \/ Ignored(w)

\* Mutants: the heater is left as it is; advertising is not started again.
DisconnectEvtHeating ==
    /\ Handle("DISCONNECT")
    /\ s_conn_id' = NoConn
    /\ s_notify_enabled' = FALSE
    /\ ConsumeAndCall(Bare("ADVERTISE"))
    /\ UNCHANGED <<service, advertising, link, heaterVars>>

DisconnectEvtHidden ==
    /\ Handle("DISCONNECT")
    /\ s_conn_id' = NoConn
    /\ s_notify_enabled' = FALSE
    /\ s_emergency' = TRUE
    /\ duty' = 0
    /\ Consume
    /\ UNCHANGED <<service, advertising, link, heater, cut>>

\* heater_emergency_off, then the node advertises again.
DisconnectEvt ==
    /\ Handle("DISCONNECT")
    /\ s_conn_id' = NoConn
    /\ s_notify_enabled' = FALSE
    /\ s_emergency' = TRUE
    /\ duty' = 0
    /\ ConsumeAndCall(Bare("ADVERTISE"))
    /\ UNCHANGED <<service, advertising, link, heater, cut>>

\* The calls to the stack, carried out.
StartAdvertising ==
    /\ Handle("ADVERTISE")
    /\ Consume
    /\ advertising' = TRUE
    /\ UNCHANGED <<service, s_conn_id, s_notify_enabled, link, heaterVars>>

SendIndicate ==
    /\ Handle("INDICATE")
    /\ Consume
    /\ UNCHANGED <<linkVars, heaterVars>>

BtcTask ==
    \/ RegEvt \/ CreatAttrTabEvt \/ StartEvt
    \/ ConnectEvt \/ WriteEvt \/ DisconnectEvt
    \/ StartAdvertising \/ SendIndicate

-----------------------------------------------------------------------------
(***************************************************************************)
(* heater_task.                                                            *)
(***************************************************************************)
heater_init ==
    /\ heater = "none"
    /\ heater' = "delay"
    /\ UNCHANGED <<linkVars, btc, s_emergency, duty, cut>>

\* Mutant: the pass that sees the emergency leaves the duty to whoever set it.
WakeIdle ==
    /\ heater = "delay"
    /\ \/ s_emergency /\ cut' = TRUE /\ UNCHANGED heater
       \/ ~s_emergency /\ heater' = "pass" /\ UNCHANGED cut
    /\ UNCHANGED <<linkVars, btc, s_emergency, duty>>

\* The pass begins: in an emergency it only zeroes the duty.
Wake ==
    /\ heater = "delay"
    /\ \/ s_emergency /\ duty' = 0 /\ cut' = TRUE /\ UNCHANGED heater
       \/ ~s_emergency /\ heater' = "pass" /\ UNCHANGED <<duty, cut>>
    /\ UNCHANGED <<linkVars, btc, s_emergency>>

\* The duty the pass computed is set; every 500 ms the state is notified.
SetDuty ==
    /\ heater = "pass"
    /\ duty' \in {0, 1}
    /\ heater' \in {"delay", "notify"}
    /\ UNCHANGED <<linkVars, btc, s_emergency, cut>>

\* gatt_server_notify in this task: the check ...
NotifyCheck ==
    /\ heater = "notify"
    /\ heater' = IF CanNotify THEN "send" ELSE "delay"
    /\ UNCHANGED <<linkVars, btc, s_emergency, duty, cut>>

\* ... and the call, which reads s_conn_id once more and waits for room.
NotifySend ==
    /\ heater = "send"
    /\ heater' = "delay"
    /\ Post(Entry("INDICATE", s_conn_id, NoPeer))
    /\ UNCHANGED <<linkVars, s_emergency, duty, cut>>

HeaterTask == Wake \/ SetDuty \/ NotifyCheck \/ NotifySend

Next == Stack \/ BtcTask \/ heater_init \/ HeaterTask

Spec == Init /\ [][Next]_vars

\* Both tasks run whenever they can.
FairSpec == Spec /\ WF_vars(BtcTask) /\ WF_vars(HeaterTask)

-----------------------------------------------------------------------------
(***************************************************************************)
(* Properties.                                                             *)
(***************************************************************************)
Queued(t) == \E j \in 1..Len(btc) : btc[j].type = t

\* Once the service runs, the node can be found, has a link, or is about to
\* advertise: whatever is lost, and whenever, it does not fall silent.
Findable ==
    service = "started" =>
        \/ advertising
        \/ ~NoLinks
        \/ Queued("ADVERTISE")
        \/ Queued("DISCONNECT")

\* The answer to a command, made for the central that sent it, cannot reach
\* another: no other has a link before the answer has left the queue.
RepliesToAsker ==
    \A j \in 1..Len(btc) :
       btc[j].type = "INDICATE" /\ btc[j].peer # NoPeer /\ btc[j].conn # NoConn
          => link[btc[j].conn] \in {btc[j].peer, NoPeer}

\* "Immediately set PWM duty to 0" (heater.h), but for a pass of heater_task that
\* was under way: from the one that sees the emergency on, the heater stays off
\* until a central sets a target.
OffSticks == cut => duty = 0

\* A heater whose central is gone for good ends up off.
OffWhenLost == <>~NoLinks /\ <>[]NoLinks => <>[](duty = 0)
=============================================================================
