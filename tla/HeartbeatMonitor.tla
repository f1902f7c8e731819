-------------------------- MODULE HeartbeatMonitor --------------------------
(***************************************************************************)
(* The host's watch over active heaters (linux-host/src:                   *)
(* heartbeat_monitor.py, with call_macro of moonraker_client.py).          *)
(*                                                                         *)
(* run() is a coroutine that sleeps, goes round the heaters that were      *)
(* active when the round began, and awaits Moonraker for each node that is *)
(* silent.  The class's other methods may be called by any thread between  *)
(* its steps.  As wired in main.py nobody calls them yet; the module is    *)
(* about the class and whoever will.                                       *)
(*                                                                         *)
(* Time goes in ticks of HEARTBEAT_INTERVAL_S; the event loop is prompt:   *)
(* no tick passes while the round has a step to take.  Of _last_hb the     *)
(* model keeps the age, counted up to AGE_MAX.                             *)
(***************************************************************************)
EXTENDS Integers, FiniteSets

CONSTANTS
    Node,                   \* the node ids
    HEARTBEAT_TIMEOUT,      \* HEARTBEAT_TIMEOUT_S, in ticks
    MACRO_TIMEOUT,          \* the longest call of a macro, in ticks
    AGE_MAX

\* What a node that falls silent just after the clock was read may have to wait
\* for beyond the timeout: the calls of that round and of the next, one for each
\* other node, but for the last called in the first, which is too young to be
\* called again; and the sleep between the rounds.
Delay ==
    LET others == Cardinality(Node) - 1
    IN 1 + (IF others = 0 THEN 0 ELSE 2 * others - 1) * MACRO_TIMEOUT

ASSUME MonitorAssumption ==
    /\ IsFiniteSet(Node) /\ Node # {}
    /\ Node \cap {"sleep", "round"} = {}
    /\ HEARTBEAT_TIMEOUT \in Nat \ {0}
    /\ MACRO_TIMEOUT \in Nat \ {0}
    /\ AGE_MAX \in Nat
    /\ AGE_MAX > HEARTBEAT_TIMEOUT + Delay + Cardinality(Node) * MACRO_TIMEOUT

VARIABLES
    connected,      \* the device manager's view
    _heater_active,
    _last_hb,       \* the age of the last answer, or of the activation
    run,            \* where the coroutine is: "sleep", "round" or in a node's call
    left,           \* ticks until its sleep or its call is over
    todo,           \* the nodes the round still has to visit
    now,            \* ticks since the round read the clock
    asked,          \* ghost: the heaters the users want watched
    silent,         \* ghost: ticks a watched, connected node has been silent
    raced           \* ghost: the nodes activated again during their own alarm

roundVars == <<run, left, todo, now>>
ghosts == <<asked, silent, raced>>
vars == <<connected, _heater_active, _last_hb, roundVars, ghosts>>

TypeOK ==
    /\ connected \subseteq Node
    /\ _heater_active \subseteq Node
    /\ _last_hb \in [Node -> 0..AGE_MAX]
    /\ run \in {"sleep", "round"} \cup Node
    /\ left \in 0..(MACRO_TIMEOUT + 1)
    /\ todo \subseteq Node
    /\ now \in 0..AGE_MAX
    /\ asked \subseteq Node
    /\ silent \in [Node -> 0..AGE_MAX]
    /\ raced \subseteq Node

Init ==
    /\ connected = {}
    /\ _heater_active = {}
    /\ _last_hb = [n \in Node |-> 0]
    /\ run = "sleep" /\ left = 1 /\ todo = {} /\ now = 0
    /\ asked = {} /\ silent = [n \in Node |-> 0] /\ raced = {}

-----------------------------------------------------------------------------
(***************************************************************************)
(* The class's users, and time.                                            *)
(***************************************************************************)
Links(n) ==
    /\ connected' = IF n \in connected THEN connected \ {n} ELSE connected \cup {n}
    /\ silent' = [silent EXCEPT ![n] = 0]
    /\ UNCHANGED <<_heater_active, _last_hb, roundVars, asked, raced>>

set_heater_active(n, active) ==
    /\ _heater_active' = IF active THEN _heater_active \cup {n} ELSE _heater_active \ {n}
    /\ _last_hb' = IF active THEN [_last_hb EXCEPT ![n] = 0] ELSE _last_hb
    /\ asked' = IF active THEN asked \cup {n} ELSE asked \ {n}
    /\ silent' = [silent EXCEPT ![n] = 0]
    /\ raced' = IF active /\ run = n THEN raced \cup {n} ELSE raced \ {n}
    /\ UNCHANGED <<connected, roundVars>>

on_heartbeat_response(n) ==
    /\ _last_hb' = [_last_hb EXCEPT ![n] = 0]
    /\ silent' = [silent EXCEPT ![n] = 0]
    /\ UNCHANGED <<connected, _heater_active, roundVars, asked, raced>>

Older(t) == IF t < AGE_MAX THEN t + 1 ELSE t

Tick ==
    /\ left > 0
    /\ left' = left - 1
    /\ _last_hb' = [n \in Node |-> Older(_last_hb[n])]
    /\ silent' = [n \in Node |-> IF n \in _heater_active \cap connected /\ run # n
                                    THEN Older(silent[n]) ELSE 0]
    /\ now' = IF run \in Node THEN Older(now) ELSE now
    /\ UNCHANGED <<connected, _heater_active, run, todo, asked, raced>>

-----------------------------------------------------------------------------
(***************************************************************************)
(* run().                                                                  *)
(***************************************************************************)

\* The sleep is over: the clock and the active heaters are read.
Wake ==
    /\ run = "sleep" /\ left = 0
    /\ run' = "round"
    /\ todo' = _heater_active
    /\ now' = 0
    /\ UNCHANGED <<connected, _heater_active, _last_hb, left, ghosts>>

\* How old the answer was when the round began; later answers are younger.
Age(n) == _last_hb[n] - now

\* Mutant: the timeout is one tick longer.
TimedOutLate(n) == n \in connected /\ Age(n) > HEARTBEAT_TIMEOUT + 1

\* A connected node is sent a HEARTBEAT, and has been silent for too long.
TimedOut(n) == n \in connected /\ Age(n) > HEARTBEAT_TIMEOUT

\* For such a node the macro is called ...
Alarm(n) ==
    /\ run = "round" /\ n \in todo
    /\ TimedOut(n)
    /\ run' = n
    /\ left' = MACRO_TIMEOUT
    /\ asked' = asked \ {n}
    /\ silent' = [silent EXCEPT ![n] = 0]
    /\ UNCHANGED <<connected, _heater_active, _last_hb, todo, now, raced>>

\* ... the others are left alone.
Pass(n) ==
    /\ run = "round" /\ n \in todo
    /\ ~TimedOut(n)
    /\ todo' = todo \ {n}
    /\ UNCHANGED <<connected, _heater_active, _last_hb, run, left, now, ghosts>>

\* Mutant: all heaters are taken for inactive, not only that of the call.
MacroReturnsAll(n) ==
    /\ run = n
    /\ _heater_active' = {}
    /\ run' = "round" /\ left' = 0
    /\ todo' = todo \ {n}
    /\ UNCHANGED <<connected, _last_hb, now, ghosts>>

\* The call is over, or failed, which call_macro only logs: the heater is taken
\* for inactive, whatever was set meanwhile.
MacroReturns(n) ==
    /\ run = n
    /\ _heater_active' = _heater_active \ {n}
    /\ run' = "round" /\ left' = 0
    /\ todo' = todo \ {n}
    /\ UNCHANGED <<connected, _last_hb, now, ghosts>>

RoundEnds ==
    /\ run = "round" /\ todo = {}
    /\ run' = "sleep" /\ left' = 1
    /\ UNCHANGED <<connected, _heater_active, _last_hb, todo, now, ghosts>>

Next ==
    \/ Tick
    \/ Wake \/ RoundEnds
    \/ \E n \in Node :
          \/ Links(n)
          \/ \E active \in BOOLEAN : set_heater_active(n, active)
          \/ on_heartbeat_response(n)
          \/ Alarm(n) \/ Pass(n) \/ MacroReturns(n)

Spec == Init /\ [][Next]_vars

-----------------------------------------------------------------------------
(***************************************************************************)
(* Properties.                                                             *)
(***************************************************************************)

\* "If a node doesn't respond within HEARTBEAT_TIMEOUT_S" the alarm is raised:
\* its call begins at most Delay later, whatever the calls for the other nodes
\* take.  A node that is not linked is not counted: the round passes it over.
AlarmInTime == \A n \in Node : silent[n] <= HEARTBEAT_TIMEOUT + Delay

\* A heater that was set active stays watched until its alarm or until it is
\* set inactive, except one set active again while its own alarm is awaited.
StillWatched == asked \subseteq _heater_active \cup raced
=============================================================================
