----------------------- MODULE HeartbeatMonitorProofs -----------------------
(***************************************************************************)
(* Proofs about HeartbeatMonitor, for any set of nodes and any timeouts.   *)
(***************************************************************************)
EXTENDS HeartbeatMonitor, FiniteSetTheorems, TLAPS

\* The macro of a node is called for a heater that its user no longer counts on,
\* or that was set active again during the call.
CalledOrRaced == \A n \in Node : run = n => n \notin asked \/ n \in raced

WatchIInv == StillWatched /\ CalledOrRaced

\* A heater set active stays watched, whatever the threads do while run() sleeps,
\* goes round or awaits Moonraker, but for the one race StillWatched names.
THEOREM Watched == Spec => []StillWatched
<1>1. Init => WatchIInv
  BY MonitorAssumption DEF Init, WatchIInv, StillWatched, CalledOrRaced
<1>2. WatchIInv /\ [Next]_vars => WatchIInv'
  <2> SUFFICES ASSUME WatchIInv, [Next]_vars PROVE WatchIInv'
    OBVIOUS
  <2> USE DEF WatchIInv, StillWatched, CalledOrRaced
  <2>1. "sleep" \notin Node /\ "round" \notin Node
    BY MonitorAssumption
  <2>2. CASE UNCHANGED <<_heater_active, asked, raced, run>>
    BY <2>2
  <2>3. CASE Tick
    BY <2>2, <2>3 DEF Tick
  <2>4. CASE Wake \/ RoundEnds
    BY <2>1, <2>4 DEF Wake, RoundEnds, ghosts
  <2>5. ASSUME NEW n \in Node, Links(n) \/ on_heartbeat_response(n) \/ Pass(n)
        PROVE  WatchIInv'
    BY <2>2, <2>5 DEF Links, on_heartbeat_response, Pass, roundVars, ghosts
  <2>6. ASSUME NEW n \in Node, set_heater_active(n, TRUE)
        PROVE  WatchIInv'
    BY <2>6 DEF set_heater_active, roundVars
  <2>7. ASSUME NEW n \in Node, set_heater_active(n, FALSE)
        PROVE  WatchIInv'
    BY <2>7 DEF set_heater_active, roundVars
  <2>8. ASSUME NEW n \in Node, Alarm(n)
        PROVE  WatchIInv'
    BY <2>8 DEF Alarm
  <2>9. ASSUME NEW n \in Node, MacroReturns(n)
        PROVE  WatchIInv'
    BY <2>1, <2>9 DEF MacroReturns, ghosts
  <2>10. CASE UNCHANGED vars
    BY <2>2, <2>10 DEF vars, roundVars, ghosts
  <2> QED
    BY <2>3, <2>4, <2>5, <2>6, <2>7, <2>8, <2>9, <2>10 DEF Next
<1> QED BY <1>1, <1>2, PTL DEF Spec, WatchIInv

-----------------------------------------------------------------------------
(***************************************************************************)
(* How long a round takes, in calls.                                       *)
(***************************************************************************)
Work(S) == Cardinality(S) * MACRO_TIMEOUT

\* The calls for all nodes but one.
Calls == Work(Node) - MACRO_TIMEOUT

LEMMA TimeTypes ==
  /\ HEARTBEAT_TIMEOUT \in Nat \ {0} /\ MACRO_TIMEOUT \in Nat \ {0} /\ AGE_MAX \in Nat
  /\ "sleep" \notin Node /\ "round" \notin Node
BY MonitorAssumption

LEMMA WorkIs ==
  ASSUME NEW S \in SUBSET Node
  PROVE  /\ Work(S) \in Nat
         /\ S = {} => Work(S) = 0
         /\ \A m \in S : Work(S \ {m}) = Work(S) - MACRO_TIMEOUT
<1>1. IsFiniteSet(S) /\ Cardinality(S) \in Nat /\ (S = {} => Cardinality(S) = 0)
  BY MonitorAssumption, FS_Subset, FS_CardinalityType, FS_EmptySet
<1>2. ASSUME NEW m \in S
      PROVE  Work(S \ {m}) = Work(S) - MACRO_TIMEOUT
  <2>1. Cardinality(S \ {m}) = Cardinality(S) - 1
    BY <1>1, FS_RemoveElement
  <2>2. \A c \in Nat : (c - 1) * MACRO_TIMEOUT = c * MACRO_TIMEOUT - MACRO_TIMEOUT
    BY TimeTypes
  <2> QED BY <1>1, <2>1, <2>2 DEF Work
<1>3. \A c \in Nat : c * MACRO_TIMEOUT \in Nat
  BY TimeTypes
<1> QED BY <1>1, <1>2, <1>3, TimeTypes DEF Work

LEMMA LessWork ==
  ASSUME NEW S \in SUBSET Node, NEW R \in SUBSET S
  PROVE  Work(R) <= Work(S)
<1>1. IsFiniteSet(S)
  BY MonitorAssumption, FS_Subset
<1>2. Cardinality(S) \in Nat /\ Cardinality(R) \in Nat /\ Cardinality(R) <= Cardinality(S)
  BY <1>1, FS_Subset, FS_CardinalityType
<1>3. \A b, c \in Nat : b <= c => b * MACRO_TIMEOUT <= c * MACRO_TIMEOUT
  BY TimeTypes
<1> QED BY <1>2, <1>3 DEF Work

LEMMA CallsAre ==
  /\ Calls \in Nat
  /\ Work(Node) = Calls + MACRO_TIMEOUT
  /\ \A n \in Node : \A S \in SUBSET (Node \ {n}) : Work(S) <= Calls
  /\ \A n, m \in Node : n # m =>
        \A S \in SUBSET (Node \ {n, m}) : Work(S) <= Calls - MACRO_TIMEOUT
  /\ Calls > 0 => Calls >= MACRO_TIMEOUT
  /\ Delay = IF Calls = 0 THEN 1 ELSE 1 + 2 * Calls - MACRO_TIMEOUT
  /\ AGE_MAX > HEARTBEAT_TIMEOUT + Delay + Work(Node)
<1>1. PICK c \in Nat : Cardinality(Node) = c + 1
  <2>1. Cardinality(Node) \in Nat /\ Cardinality(Node) # 0
    BY MonitorAssumption, FS_CardinalityType, FS_EmptySet
  <2>2. Cardinality(Node) - 1 \in Nat
    BY <2>1
  <2> QED BY <2>1, <2>2
<1>2. Calls = c * MACRO_TIMEOUT
  <2>1. (c + 1) * MACRO_TIMEOUT - MACRO_TIMEOUT = c * MACRO_TIMEOUT
    BY TimeTypes
  <2> QED BY <1>1, <2>1 DEF Calls, Work
<1>3. c * MACRO_TIMEOUT \in Nat /\ (c > 0 => c * MACRO_TIMEOUT >= MACRO_TIMEOUT)
  <2>1. CASE c = 0
    BY <2>1, TimeTypes
  <2>2. CASE c > 0
    <3>1. c - 1 \in Nat
      BY <2>2
    <3>2. (c - 1) * MACRO_TIMEOUT \in Nat
      BY <3>1, TimeTypes
    <3>3. c * MACRO_TIMEOUT = (c - 1) * MACRO_TIMEOUT + MACRO_TIMEOUT
      BY TimeTypes
    <3> QED BY <3>2, <3>3, TimeTypes
  <2> QED BY <2>1, <2>2
<1>4. Work(Node) \in Nat
  BY WorkIs
<1>5. Calls \in Nat /\ Work(Node) = Calls + MACRO_TIMEOUT /\ (Calls > 0 => Calls >= MACRO_TIMEOUT)
  <2>1. c = 0 => c * MACRO_TIMEOUT = 0
    BY TimeTypes
  <2> QED BY <1>2, <1>3, <1>4, <2>1, TimeTypes DEF Calls
<1>6. Delay = IF Calls = 0 THEN 1 ELSE 1 + 2 * Calls - MACRO_TIMEOUT
  <2>1. Delay = 1 + (IF c = 0 THEN 0 ELSE 2 * c - 1) * MACRO_TIMEOUT
    BY <1>1 DEF Delay
  <2>2. (2 * c - 1) * MACRO_TIMEOUT = 2 * (c * MACRO_TIMEOUT) - MACRO_TIMEOUT
    BY TimeTypes
  <2>3. c = 0 => c * MACRO_TIMEOUT = 0 /\ 0 * MACRO_TIMEOUT = 0
    BY TimeTypes
  <2> QED BY <1>2, <1>3, <2>1, <2>2, <2>3, TimeTypes
<1>7. ASSUME NEW n \in Node
      PROVE  Work(Node \ {n}) = Calls
  BY <1>5, WorkIs, TimeTypes
<1>8. ASSUME NEW n \in Node, NEW S \in SUBSET (Node \ {n})
      PROVE  Work(S) <= Calls
  BY <1>7, LessWork
<1>9. ASSUME NEW n \in Node, NEW m \in Node, n # m, NEW S \in SUBSET (Node \ {n, m})
      PROVE  Work(S) <= Calls - MACRO_TIMEOUT
  <2>1. Work((Node \ {n}) \ {m}) = Calls - MACRO_TIMEOUT
    <3>1. Node \ {n} \in SUBSET Node /\ m \in Node \ {n}
      BY <1>9
    <3> QED BY <1>7, <3>1, WorkIs
  <2>2. (Node \ {n}) \ {m} \in SUBSET Node /\ S \in SUBSET ((Node \ {n}) \ {m})
    OBVIOUS
  <2> QED BY <2>1, <2>2, LessWork
<1> QED BY <1>5, <1>6, <1>8, <1>9, MonitorAssumption DEF Work

-----------------------------------------------------------------------------
(***************************************************************************)
(* The inductive invariant: how long a node has been silent, and how long  *)
(* the calls that come before its own may still take.                      *)
(***************************************************************************)
Old(m) == Age(m) > HEARTBEAT_TIMEOUT

\* The call of another node than n that is being awaited.
Calling(n) == IF run \in Node \ {n} THEN left ELSE 0

\* The calls the round may make but for that of n, and those it will make.
Rest(n) == Calling(n) + Work(todo \ {run, n})
OldRest(n) == Calling(n) + Work({m \in todo \ {run, n} : Old(m)})

\* Its call has returned, and no tick has passed since it was set active again.
Fresh(m) == m \notin _heater_active \/ _last_hb[m] = 0

Timers ==
    /\ run = "sleep" => left <= 1
    /\ run = "round" => left = 0
    /\ run \in Node => left <= MACRO_TIMEOUT

RoundFits ==
    run # "sleep" => now + (IF run \in Node THEN left ELSE 0) + Work(todo \ {run}) <= Work(Node)

Silence ==
    \A n \in Node :
       /\ silent[n] <= _last_hb[n]
       /\ silent[n] > 0 => n \in _heater_active \cap connected /\ run # n

\* n waits for the next round.  When this one has no other call to begin, it has
\* made one for fewer than all others, or the last it made leaves a node that is
\* too young to be called in the next.
Waits(n) ==
    run # "sleep" /\ ~(n \in todo /\ Old(n)) =>
       /\ silent[n] + Rest(n) <= HEARTBEAT_TIMEOUT + Calls
       /\ Calls > 0 /\ todo \subseteq {run, n} =>
             \/ silent[n] + Rest(n) <= HEARTBEAT_TIMEOUT + Calls - MACRO_TIMEOUT
             \/ run \in Node \ {n}
             \/ run = "round" /\ \E m \in Node \ {n} : Fresh(m)

Sleeps(n) ==
    run = "sleep" =>
       /\ silent[n] + left <= HEARTBEAT_TIMEOUT + Calls + 1
       /\ Calls > 0 =>
             \/ silent[n] + left <= HEARTBEAT_TIMEOUT + Calls - MACRO_TIMEOUT + 1
             \/ \E m \in Node \ {n} :
                   m \notin _heater_active \/ _last_hb[m] + left <= HEARTBEAT_TIMEOUT

\* n will be called in this round.
WillBeCalled(n) ==
    run # "sleep" /\ n \in todo /\ Old(n) =>
       silent[n] + OldRest(n) <= HEARTBEAT_TIMEOUT + Delay

OnTime(n) == Waits(n) /\ Sleeps(n) /\ WillBeCalled(n)

TimeIInv == TypeOK /\ Timers /\ RoundFits /\ Silence /\ \A n \in Node : OnTime(n)

-----------------------------------------------------------------------------
LEMMA OlderIs ==
  ASSUME NEW t \in 0..AGE_MAX
  PROVE  Older(t) \in 0..AGE_MAX /\ t <= Older(t) /\ Older(t) <= t + 1
         /\ (t < AGE_MAX => Older(t) = t + 1) /\ (t = AGE_MAX => Older(t) = t)
BY TimeTypes DEF Older

LEMMA MonitorTypesNext ==
  ASSUME TypeOK, [Next]_vars
  PROVE  TypeOK'
<1> USE TimeTypes DEF TypeOK
<1>1. ASSUME NEW n \in Node, Links(n) \/ on_heartbeat_response(n) \/ Pass(n)
      PROVE  TypeOK'
  BY <1>1 DEF Links, on_heartbeat_response, Pass, roundVars, ghosts
<1>2. ASSUME NEW n \in Node, NEW active \in BOOLEAN, set_heater_active(n, active)
      PROVE  TypeOK'
  BY <1>2 DEF set_heater_active, roundVars
<1>3. CASE Tick
  <2>1. left' \in 0..(MACRO_TIMEOUT + 1) /\ now' \in 0..AGE_MAX
    BY <1>3, OlderIs DEF Tick
  <2>2. _last_hb' \in [Node -> 0..AGE_MAX]
    BY <1>3, OlderIs DEF Tick
  <2>3. silent' \in [Node -> 0..AGE_MAX]
    BY <1>3, OlderIs DEF Tick
  <2> QED BY <1>3, <2>1, <2>2, <2>3 DEF Tick
<1>4. CASE Wake \/ RoundEnds
  BY <1>4 DEF Wake, RoundEnds, ghosts
<1>5. ASSUME NEW n \in Node, Alarm(n) \/ MacroReturns(n)
      PROVE  TypeOK'
  BY <1>5 DEF Alarm, MacroReturns, ghosts
<1>6. CASE UNCHANGED vars
  BY <1>6 DEF vars, roundVars, ghosts
<1> QED BY <1>1, <1>2, <1>3, <1>4, <1>5, <1>6 DEF Next

LEMMA TimersNext ==
  ASSUME TypeOK, Timers, [Next]_vars
  PROVE  Timers'
<1> USE TimeTypes DEF Timers
<1>1. ASSUME NEW n \in Node, Links(n) \/ on_heartbeat_response(n) \/ Pass(n)
      PROVE  Timers'
  BY <1>1 DEF Links, on_heartbeat_response, Pass, roundVars, ghosts
<1>2. ASSUME NEW n \in Node, NEW active \in BOOLEAN, set_heater_active(n, active)
      PROVE  Timers'
  BY <1>2 DEF set_heater_active, roundVars
<1>3. CASE Tick
  BY <1>3 DEF Tick, TypeOK
<1>4. CASE Wake \/ RoundEnds
  BY <1>4 DEF Wake, RoundEnds, ghosts
<1>5. ASSUME NEW n \in Node, Alarm(n) \/ MacroReturns(n)
      PROVE  Timers'
  BY <1>5 DEF Alarm, MacroReturns, ghosts
<1>6. CASE UNCHANGED vars
  BY <1>6 DEF vars, roundVars, ghosts
<1> QED BY <1>1, <1>2, <1>3, <1>4, <1>5, <1>6 DEF Next

\* What remains of the round is at most a call for each other node.
RestBounds ==
    \A n \in Node :
       /\ Calling(n) \in Nat
       /\ Rest(n) \in Nat /\ OldRest(n) \in Nat
       /\ OldRest(n) <= Rest(n) /\ Rest(n) <= Calls
       /\ run \notin Node \ {n} /\ todo \subseteq {run, n} => Rest(n) = 0

LEMMA RestIs == TypeOK /\ Timers => RestBounds
<1> SUFFICES ASSUME TypeOK, Timers, NEW n \in Node
             PROVE  /\ Calling(n) \in Nat
                    /\ Rest(n) \in Nat /\ OldRest(n) \in Nat
                    /\ OldRest(n) <= Rest(n) /\ Rest(n) <= Calls
                    /\ run \notin Node \ {n} /\ todo \subseteq {run, n} => Rest(n) = 0
  BY DEF RestBounds
<1> DEFINE others == todo \ {run, n}
           old == {m \in todo \ {run, n} : Old(m)}
<1>1. todo \subseteq Node /\ left \in Nat /\ (run \in Node => left <= MACRO_TIMEOUT)
  BY TimeTypes DEF TypeOK, Timers
<1>2. others \in SUBSET Node /\ old \in SUBSET others /\ old \in SUBSET Node
  BY <1>1
<1>3. Work(others) \in Nat /\ Work(old) \in Nat /\ Work(old) <= Work(others)
  BY <1>2, WorkIs, LessWork
<1>4. Calling(n) \in Nat
  BY <1>1 DEF Calling
<1>5. Rest(n) = Calling(n) + Work(others) /\ OldRest(n) = Calling(n) + Work(old)
  BY DEF Rest, OldRest
<1>6. Rest(n) <= Calls
  <2>1. CASE run \in Node \ {n}
    <3>1. others \in SUBSET (Node \ {n, run})
      BY <1>1
    <3>2. Work(others) <= Calls - MACRO_TIMEOUT
      BY <2>1, <3>1, CallsAre
    <3> QED BY <1>1, <1>3, <1>5, <2>1, <3>2, CallsAre, TimeTypes DEF Calling
  <2>2. CASE run \notin Node \ {n}
    <3>1. others \in SUBSET (Node \ {n})
      BY <1>1
    <3>2. Work(others) <= Calls
      BY <3>1, CallsAre
    <3> QED BY <1>3, <1>5, <2>2, <3>2 DEF Calling
  <2> QED BY <2>1, <2>2
<1>7. ASSUME run \notin Node \ {n}, todo \subseteq {run, n}
      PROVE  Rest(n) = 0
  <2>1. others = {}
    BY <1>7
  <2>2. Work(others) = 0
    BY <1>2, <2>1, WorkIs
  <2> QED BY <1>5, <1>7, <2>2 DEF Calling
<1> QED BY <1>3, <1>4, <1>5, <1>6, <1>7

\* A node that is not silent is in time.
HeardInTime == \A n \in Node : silent[n] = 0 => OnTime(n)

LEMMA HeardIs == TypeOK /\ Timers => HeardInTime
<1> SUFFICES ASSUME TypeOK, Timers, NEW n \in Node, silent[n] = 0
             PROVE  OnTime(n)
  BY DEF HeardInTime
<1>1. /\ Rest(n) \in Nat /\ OldRest(n) \in Nat
      /\ OldRest(n) <= Rest(n) /\ Rest(n) <= Calls
      /\ run \notin Node \ {n} /\ todo \subseteq {run, n} => Rest(n) = 0
  BY RestIs DEF RestBounds
<1>2. left \in Nat /\ (run = "sleep" => left <= 1)
  BY DEF TypeOK, Timers
<1>3. Calls \in Nat /\ (Calls > 0 => Calls >= MACRO_TIMEOUT) /\ Delay \in Nat /\ Calls <= Delay
  BY CallsAre, TimeTypes
<1>4. Waits(n)
  BY <1>1, <1>3, TimeTypes DEF Waits
<1>5. Sleeps(n)
  BY <1>2, <1>3, TimeTypes DEF Sleeps
<1>6. WillBeCalled(n)
  BY <1>1, <1>3, TimeTypes DEF WillBeCalled
<1> QED BY <1>4, <1>5, <1>6 DEF OnTime

-----------------------------------------------------------------------------
LEMMA RoundFitsNext ==
  ASSUME TypeOK, Timers, RoundFits, [Next]_vars
  PROVE  RoundFits'
<1> USE TimeTypes
<1>1. /\ todo \in SUBSET Node /\ _heater_active \in SUBSET Node
      /\ now \in 0..AGE_MAX /\ left \in Nat
  BY DEF TypeOK
<1>2. ASSUME UNCHANGED <<run, left, todo, now>>
      PROVE  RoundFits'
  BY <1>2 DEF RoundFits
<1>3. ASSUME NEW n \in Node, Links(n) \/ on_heartbeat_response(n)
      PROVE  UNCHANGED <<run, left, todo, now>>
  BY <1>3 DEF Links, on_heartbeat_response, roundVars
<1>4. ASSUME NEW n \in Node, NEW active \in BOOLEAN, set_heater_active(n, active)
      PROVE  UNCHANGED <<run, left, todo, now>>
  BY <1>4 DEF set_heater_active, roundVars
<1>5. UNCHANGED vars => UNCHANGED <<run, left, todo, now>>
  BY DEF vars, roundVars
<1>6. Work(todo \ {run}) \in Nat
  BY <1>1, WorkIs
<1>7. CASE Tick
  <2>1. run' = run /\ todo' = todo /\ left' = left - 1 /\ left > 0
    BY <1>7 DEF Tick
  <2>2. CASE run \in Node
    <3>1. now' <= now + 1 /\ now' \in Nat
      BY <1>1, <1>7, <2>2, OlderIs DEF Tick
    <3> QED BY <1>1, <1>6, <2>1, <2>2, <3>1, WorkIs DEF RoundFits
  <2>3. CASE run \notin Node
    BY <2>1, <2>3, <1>1 DEF RoundFits, Timers, TypeOK
  <2> QED BY <2>2, <2>3
<1>8. CASE Wake
  <2>1. now' = 0 /\ run' = "round" /\ todo' = _heater_active
    BY <1>8 DEF Wake
  <2>2. todo' \ {run'} \in SUBSET Node
    BY <1>1, <2>1
  <2>3. Work(todo' \ {run'}) <= Work(Node) /\ Work(todo' \ {run'}) \in Nat
    BY <2>2, WorkIs, LessWork
  <2>4. Work(todo \ {run})' = Work(todo' \ {run'})
    OBVIOUS
  <2> QED BY <2>1, <2>3, <2>4 DEF RoundFits
<1>9. CASE RoundEnds
  BY <1>9 DEF RoundEnds, RoundFits
<1>10. ASSUME NEW n \in Node, Alarm(n)
       PROVE  RoundFits'
  <2>1. n \in todo /\ run = "round" /\ run' = n /\ left' = MACRO_TIMEOUT /\ UNCHANGED <<todo, now>>
    BY <1>10 DEF Alarm
  <2>2. todo \ {run} = todo /\ todo' \ {run'} = todo \ {n} /\ run \notin Node
    BY <1>1, <2>1
  <2>3. Work(todo \ {n}) = Work(todo) - MACRO_TIMEOUT /\ Work(todo) \in Nat
    BY <1>1, <2>1, WorkIs
  <2>4. now + 0 + Work(todo) <= Work(Node)
    BY <2>1, <2>2 DEF RoundFits
  <2>5. now' + left' + Work(todo' \ {run'}) <= Work(Node)
    <3>1. now' + left' + Work(todo' \ {run'}) = now + MACRO_TIMEOUT + (Work(todo) - MACRO_TIMEOUT)
      BY <2>1, <2>2, <2>3
    <3> QED BY <1>1, <2>3, <2>4, <3>1
  <2> QED BY <2>1, <2>5 DEF RoundFits
<1>11. ASSUME NEW n \in Node, Pass(n)
       PROVE  RoundFits'
  <2>1. n \in todo /\ run = "round" /\ todo' = todo \ {n} /\ UNCHANGED <<run, left, now>>
    BY <1>11 DEF Pass
  <2>2. todo \ {run} = todo /\ todo' \ {run'} = todo \ {n} /\ run \notin Node
    BY <1>1, <2>1
  <2>3. Work(todo \ {n}) = Work(todo) - MACRO_TIMEOUT /\ Work(todo) \in Nat
    BY <1>1, <2>1, WorkIs
  <2>4. now + 0 + Work(todo) <= Work(Node)
    BY <2>1, <2>2 DEF RoundFits
  <2>5. now' + 0 + Work(todo' \ {run'}) <= Work(Node)
    <3>1. Work(todo' \ {run'}) = Work(todo \ {n})
      BY <2>2, Zenon
    <3>2. Work(Node) \in Nat /\ now' = now
      BY <2>1, WorkIs
    <3> QED BY <1>1, <2>3, <2>4, <3>1, <3>2
  <2> QED BY <2>1, <2>2, <2>5 DEF RoundFits
<1>12. ASSUME NEW n \in Node, MacroReturns(n)
       PROVE  RoundFits'
  <2>1. run = n /\ run' = "round" /\ left' = 0 /\ todo' = todo \ {n} /\ now' = now
    BY <1>12 DEF MacroReturns
  <2>2. todo' \ {run'} = todo \ {n} /\ run' \notin Node
    BY <1>1, <2>1
  <2>3. now + left + Work(todo \ {n}) <= Work(Node)
    BY <2>1 DEF RoundFits
  <2>4. Work(todo \ {n}) \in Nat /\ Work(Node) \in Nat
    BY <1>6, <2>1, WorkIs
  <2>5. now' + 0 + Work(todo' \ {run'}) <= Work(Node)
    <3>1. Work(todo' \ {run'}) = Work(todo \ {n})
      BY <2>2, Zenon
    <3>2. now' = now
      BY <2>1
    <3> QED BY <1>1, <2>3, <2>4, <3>1, <3>2
  <2> QED BY <2>2, <2>5 DEF RoundFits
<1> QED
  BY <1>2, <1>3, <1>4, <1>5, <1>7, <1>8, <1>9, <1>10, <1>11, <1>12 DEF Next

LEMMA SilenceNext ==
  ASSUME TypeOK, Silence, [Next]_vars
  PROVE  Silence'
<1> USE TimeTypes
<1>1. /\ silent \in [Node -> 0..AGE_MAX] /\ _last_hb \in [Node -> 0..AGE_MAX]
      /\ silent' \in [Node -> 0..AGE_MAX] /\ _last_hb' \in [Node -> 0..AGE_MAX]
  BY MonitorTypesNext DEF TypeOK
<1>2. SUFFICES ASSUME NEW x \in Node, silent'[x] # 0
               PROVE  /\ silent'[x] <= _last_hb'[x]
                      /\ x \in _heater_active' \cap connected' /\ run' # x
  BY <1>1 DEF Silence
<1>3. silent[x] > 0 => silent[x] <= _last_hb[x] /\ x \in _heater_active \cap connected /\ run # x
  BY DEF Silence
<1>4. silent[x] <= _last_hb[x]
  BY DEF Silence
<1>5. silent'[x] # silent[x] => Tick
  BY <1>1, <1>2 DEF Next, Links, set_heater_active, on_heartbeat_response, Wake, RoundEnds,
                    Alarm, Pass, MacroReturns, vars, ghosts
<1>6. CASE Tick
  <2>1. x \in _heater_active \cap connected /\ run # x
    BY <1>1, <1>2, <1>6 DEF Tick
  <2>2. silent'[x] = Older(silent[x]) /\ _last_hb'[x] = Older(_last_hb[x])
    BY <1>6, <2>1 DEF Tick
  <2>3. Older(silent[x]) <= Older(_last_hb[x])
    BY <1>1, <1>4 DEF Older
  <2> QED BY <1>6, <2>1, <2>2, <2>3 DEF Tick
<1>7. CASE ~Tick
  <2>1. /\ silent[x] > 0 /\ silent'[x] = silent[x]
        /\ x \in _heater_active \cap connected /\ run # x
    BY <1>1, <1>2, <1>3, <1>5, <1>7
  <2>2. ASSUME NEW n \in Node, Links(n) \/ on_heartbeat_response(n)
        PROVE  /\ _last_hb'[x] = _last_hb[x]
               /\ x \in _heater_active' \cap connected' /\ run' # x
    BY <1>1, <1>2, <2>1, <2>2 DEF Links, on_heartbeat_response, roundVars
  <2>3. ASSUME NEW n \in Node, NEW active \in BOOLEAN, set_heater_active(n, active)
        PROVE  /\ _last_hb'[x] = _last_hb[x]
               /\ x \in _heater_active' \cap connected' /\ run' # x
    BY <1>1, <1>2, <2>1, <2>3 DEF set_heater_active, roundVars
  <2>4. CASE Wake \/ RoundEnds
    BY <1>4, <2>1, <2>4 DEF Wake, RoundEnds, ghosts
  <2>5. ASSUME NEW n \in Node, Alarm(n)
        PROVE  /\ _last_hb'[x] = _last_hb[x]
               /\ x \in _heater_active' \cap connected' /\ run' # x
    BY <1>1, <1>2, <2>1, <2>5 DEF Alarm
  <2>6. ASSUME NEW n \in Node, Pass(n) \/ MacroReturns(n)
        PROVE  /\ _last_hb'[x] = _last_hb[x]
               /\ x \in _heater_active' \cap connected' /\ run' # x
    BY <2>1, <2>6 DEF Pass, MacroReturns, ghosts
  <2>7. CASE UNCHANGED vars
    BY <1>4, <2>1, <2>7 DEF vars, roundVars, ghosts
  <2> QED BY <1>4, <1>7, <2>1, <2>2, <2>3, <2>4, <2>5, <2>6, <2>7 DEF Next
<1> QED BY <1>6, <1>7

-----------------------------------------------------------------------------
(***************************************************************************)
(* Every step keeps a silent node in time.                                 *)
(***************************************************************************)

\* The class's users make ages and sets smaller, or a node heard.
LEMMA UsersInTime ==
  ASSUME TypeOK, Timers, Silence, NEW n \in Node, OnTime(n), UNCHANGED roundVars,
         TypeOK', silent'[n] # 0,
         \E x \in Node : \/ Links(x) \/ on_heartbeat_response(x)
                         \/ \E active \in BOOLEAN : set_heater_active(x, active)
  PROVE  OnTime(n)'
<1> USE TimeTypes
<1>1. /\ silent \in [Node -> 0..AGE_MAX] /\ _last_hb \in [Node -> 0..AGE_MAX]
      /\ silent' \in [Node -> 0..AGE_MAX] /\ _last_hb' \in [Node -> 0..AGE_MAX]
      /\ todo \in SUBSET Node /\ now \in 0..AGE_MAX /\ left \in Nat
  BY DEF TypeOK
<1>2. silent'[n] = silent[n] /\ _last_hb'[n] = _last_hb[n]
  BY <1>1 DEF Links, on_heartbeat_response, set_heater_active
<1>3. \A m \in Node : \/ _last_hb'[m] = 0
                      \/ _last_hb'[m] = _last_hb[m] /\ (m \notin _heater_active => m \notin _heater_active')
  BY <1>1 DEF Links, on_heartbeat_response, set_heater_active
<1>4. run' = run /\ left' = left /\ todo' = todo /\ now' = now
  BY DEF roundVars
<1>5. Old(n)' <=> Old(n)
  BY <1>2, <1>4 DEF Old, Age
<1>6. Rest(n)' = Rest(n)
  BY <1>4 DEF Rest, Calling
<1>7. \A m \in Node : Fresh(m) => Fresh(m)'
  BY <1>3 DEF Fresh
<1>8. Waits(n)'
  BY <1>2, <1>4, <1>5, <1>6, <1>7 DEF OnTime, Waits
<1>9. Sleeps(n)'
  <2>1. ASSUME NEW m \in Node, run = "sleep",
               m \notin _heater_active \/ _last_hb[m] + left <= HEARTBEAT_TIMEOUT
        PROVE  m \notin _heater_active' \/ _last_hb'[m] + left <= HEARTBEAT_TIMEOUT
    <3>1. left <= 1
      BY <2>1 DEF Timers
    <3>2. CASE _last_hb'[m] = 0
      BY <1>1, <3>1, <3>2
    <3>3. CASE _last_hb'[m] # 0
      BY <1>3, <2>1, <3>3
    <3> QED BY <3>2, <3>3
  <2> QED BY <1>2, <1>4, <2>1 DEF OnTime, Sleeps
<1>10. WillBeCalled(n)'
  <2> DEFINE old == {m \in todo \ {run, n} : Old(m)}
             old2 == {m \in todo \ {run, n} : Old(m)'}
  <2>1. ASSUME NEW m \in Node, Old(m)'
        PROVE  Old(m)
    BY <1>1, <1>3, <1>4, <2>1 DEF Old, Age
  <2>2. old2 \in SUBSET old /\ old \in SUBSET Node /\ old2 \in SUBSET Node
    BY <1>1, <2>1
  <2>3. Work(old2) <= Work(old) /\ Work(old) \in Nat /\ Work(old2) \in Nat
    BY <2>2, LessWork, WorkIs
  <2>4. OldRest(n) = Calling(n) + Work(old) /\ OldRest(n)' = Calling(n) + Work(old2)
    BY <1>4 DEF OldRest, Calling
  <2>5. Calling(n) \in Nat
    BY RestIs DEF RestBounds
  <2>6. Delay \in Nat
    BY CallsAre
  <2> HIDE DEF old, old2
  <2>7. OldRest(n)' <= OldRest(n) /\ OldRest(n) \in Nat /\ OldRest(n)' \in Nat
    BY <2>3, <2>4, <2>5
  <2> QED BY <1>1, <1>2, <1>4, <1>5, <2>6, <2>7 DEF OnTime, WillBeCalled
<1> QED BY <1>8, <1>9, <1>10 DEF OnTime

LEMMA TickInTime ==
  ASSUME TypeOK, Timers, RoundFits, NEW n \in Node, OnTime(n), Tick, TypeOK', silent'[n] # 0
  PROVE  OnTime(n)'
<1> USE TimeTypes
<1>1. /\ silent \in [Node -> 0..AGE_MAX] /\ _last_hb \in [Node -> 0..AGE_MAX]
      /\ silent' \in [Node -> 0..AGE_MAX] /\ _last_hb' \in [Node -> 0..AGE_MAX]
      /\ todo \in SUBSET Node /\ now \in 0..AGE_MAX /\ left \in Nat
  BY DEF TypeOK
<1>2. run' = run /\ todo' = todo /\ left > 0 /\ left' = left - 1 /\ _heater_active' = _heater_active
  BY DEF Tick
<1>3. silent'[n] <= silent[n] + 1 /\ run # n
  BY <1>1, OlderIs DEF Tick
<1>4. \A m \in Node : _last_hb'[m] <= _last_hb[m] + 1
  BY <1>1, OlderIs DEF Tick
<1>5. CASE run = "sleep"
  <2>1. silent'[n] + left' <= silent[n] + left
    BY <1>1, <1>2, <1>3
  <2>2. \A m \in Node : _last_hb'[m] + left' <= _last_hb[m] + left
    BY <1>1, <1>2, <1>4
  <2>3. Calls \in Nat
    BY CallsAre
  <2>4. Sleeps(n)'
    BY <1>1, <1>2, <1>5, <2>1, <2>2, <2>3 DEF OnTime, Sleeps
  <2> QED BY <1>2, <1>5, <2>4 DEF OnTime, Waits, WillBeCalled
<1>6. CASE run \in Node
  <2>1. Calling(n) = left /\ Calling(n)' = left - 1
    BY <1>2, <1>3, <1>6 DEF Calling
  <2>2. now' = now + 1 /\ now + 1 <= Work(Node)
    <3>1. Work(todo \ {run}) \in Nat /\ Work(Node) \in Nat
      BY <1>1, WorkIs
    <3>2. now + left + Work(todo \ {run}) <= Work(Node)
      BY <1>6 DEF RoundFits
    <3>3. now + 1 <= Work(Node)
      BY <1>1, <1>2, <3>1, <3>2
    <3>4. Delay \in Nat /\ AGE_MAX > HEARTBEAT_TIMEOUT + Delay + Work(Node)
      BY CallsAre
    <3>5. now < AGE_MAX
      BY <1>1, <3>1, <3>3, <3>4
    <3> QED BY <1>1, <1>6, <3>3, <3>5, OlderIs DEF Tick
  <2>3. ASSUME NEW m \in Node
        PROVE  Old(m)' <=> Old(m)
    <3>1. _last_hb'[m] = Older(_last_hb[m]) /\ _last_hb[m] \in 0..AGE_MAX
      BY <1>1 DEF Tick
    <3>2. CASE _last_hb[m] < AGE_MAX
      <4>1. _last_hb'[m] - now' = _last_hb[m] - now
        BY <1>1, <2>2, <3>1, <3>2, OlderIs
      <4> QED BY <4>1 DEF Old, Age
    <3>3. CASE _last_hb[m] = AGE_MAX
      <4>1. Work(Node) \in Nat /\ Delay \in Nat /\ AGE_MAX > HEARTBEAT_TIMEOUT + Delay + Work(Node)
        BY WorkIs, CallsAre
      <4>2. _last_hb'[m] = AGE_MAX
        BY <3>1, <3>3, OlderIs
      <4>3. AGE_MAX - now > HEARTBEAT_TIMEOUT /\ AGE_MAX - (now + 1) > HEARTBEAT_TIMEOUT
        BY <1>1, <2>2, <4>1
      <4> QED BY <2>2, <3>3, <4>2, <4>3 DEF Old, Age
    <3> QED BY <3>1, <3>2, <3>3
  <2>4. /\ Rest(n)' = left - 1 + Work(todo \ {run, n})
        /\ Rest(n) = left + Work(todo \ {run, n})
    BY <1>2, <2>1 DEF Rest
  <2>5. OldRest(n)' = OldRest(n) - 1
    <3>1. {m \in todo' \ {run', n} : Old(m)'} = {m \in todo \ {run, n} : Old(m)}
      BY <1>1, <1>2, <2>3
    <3>2. OldRest(n)' = left - 1 + Work({m \in todo \ {run, n} : Old(m)})
      BY <2>1, <3>1 DEF OldRest
    <3>3. OldRest(n) = left + Work({m \in todo \ {run, n} : Old(m)})
      BY <2>1 DEF OldRest
    <3>4. {m \in todo \ {run, n} : Old(m)} \in SUBSET Node
      BY <1>1
    <3>5. Work({m \in todo \ {run, n} : Old(m)}) \in Nat
      BY <3>4, WorkIs
    <3> QED BY <1>1, <3>2, <3>3, <3>5
  <2>6. OldRest(n) \in Nat /\ Work(todo \ {run, n}) \in Nat /\ Calls \in Nat /\ Delay \in Nat
    BY <1>1, RestIs, WorkIs, CallsAre DEF RestBounds
  <2>7. Waits(n)'
    BY <1>1, <1>2, <1>3, <1>6, <2>3, <2>4, <2>6 DEF OnTime, Waits
  <2>8. WillBeCalled(n)'
    BY <1>1, <1>2, <1>3, <2>3, <2>5, <2>6 DEF OnTime, WillBeCalled
  <2> QED BY <1>2, <1>6, <2>7, <2>8 DEF OnTime, Sleeps
<1>7. run # "round"
  BY <1>2 DEF Timers
<1> QED BY <1>5, <1>6, <1>7 DEF TypeOK

\* A round begins with the nodes that are too old, but for one that is not if the
\* round before had a call for every other node.
LEMMA WakeInTime ==
  ASSUME TypeOK, Timers, Silence, NEW n \in Node, OnTime(n), Wake, TypeOK', Timers'
  PROVE  OnTime(n)'
<1> USE TimeTypes
<1>1. /\ silent \in [Node -> 0..AGE_MAX] /\ _last_hb \in [Node -> 0..AGE_MAX]
      /\ _heater_active \in SUBSET Node
  BY DEF TypeOK
<1>2. /\ run = "sleep" /\ left = 0 /\ run' = "round" /\ todo' = _heater_active /\ now' = 0
      /\ silent' = silent /\ _last_hb' = _last_hb
  BY DEF Wake, ghosts
<1>3. /\ Rest(n)' \in Nat /\ OldRest(n)' \in Nat
      /\ OldRest(n)' <= Rest(n)' /\ Rest(n)' <= Calls
      /\ todo' \subseteq {run', n} => Rest(n)' = 0
  <2>1. RestBounds'
    BY RestIs, PTL
  <2> QED BY <1>2, <2>1 DEF RestBounds
<1>4. /\ Calls \in Nat /\ (Calls > 0 => Calls >= MACRO_TIMEOUT)
      /\ Delay = IF Calls = 0 THEN 1 ELSE 1 + 2 * Calls - MACRO_TIMEOUT
  BY CallsAre
<1>5. \A m \in Node : Old(m)' <=> _last_hb[m] > HEARTBEAT_TIMEOUT
  BY <1>1, <1>2 DEF Old, Age
<1>6. silent[n] <= _last_hb[n] /\ (silent[n] > 0 => n \in _heater_active)
  BY DEF Silence
<1>7. Waits(n)'
  <2>1. SUFFICES ASSUME ~(n \in todo' /\ Old(n)')
                 PROVE  silent[n] <= HEARTBEAT_TIMEOUT
    BY <1>1, <1>2, <1>3, <1>4 DEF Waits
  <2> QED BY <1>1, <1>2, <1>5, <1>6, <2>1
<1>8. WillBeCalled(n)'
  <2>1. silent[n] <= HEARTBEAT_TIMEOUT + Calls + 1
    BY <1>1, <1>2, <1>4 DEF OnTime, Sleeps
  <2>2. CASE Calls = 0
    BY <1>1, <1>2, <1>3, <1>4, <2>1, <2>2 DEF WillBeCalled
  <2>3. CASE Calls > 0 /\ silent[n] <= HEARTBEAT_TIMEOUT + Calls - MACRO_TIMEOUT + 1
    BY <1>1, <1>2, <1>3, <1>4, <2>3 DEF WillBeCalled
  <2>4. ASSUME Calls > 0, NEW m \in Node \ {n},
               m \notin _heater_active \/ _last_hb[m] <= HEARTBEAT_TIMEOUT
        PROVE  WillBeCalled(n)'
    <3> DEFINE old == {x \in todo' \ {run', n} : Old(x)'}
    <3>1. m \notin old
      BY <1>1, <1>2, <1>5, <2>4
    <3>2. old \in SUBSET (Node \ {n, m})
      BY <1>1, <1>2, <3>1
    <3>3. Work(old) <= Calls - MACRO_TIMEOUT
      BY <2>4, <3>2, CallsAre
    <3>4. OldRest(n)' = Work(old)
      <4>1. old \in SUBSET Node
        BY <3>2
      <4>2. Work(old) \in Nat
        BY <4>1, WorkIs
      <4>3. OldRest(n)' = 0 + Work(old)
        BY <1>2 DEF OldRest, Calling
      <4> QED BY <4>2, <4>3
    <3> HIDE DEF old
    <3> QED BY <1>1, <1>2, <1>3, <1>4, <2>1, <2>4, <3>3, <3>4 DEF WillBeCalled
  <2> QED BY <1>1, <1>2, <1>4, <2>2, <2>3, <2>4 DEF OnTime, Sleeps
<1> QED BY <1>2, <1>7, <1>8 DEF OnTime, Sleeps

LEMMA RoundEndsInTime ==
  ASSUME TypeOK, Timers, NEW n \in Node, OnTime(n), RoundEnds
  PROVE  OnTime(n)'
<1> USE TimeTypes
<1>1. silent \in [Node -> 0..AGE_MAX] /\ _last_hb \in [Node -> 0..AGE_MAX]
  BY DEF TypeOK
<1>2. /\ run = "round" /\ todo = {} /\ run' = "sleep" /\ left' = 1
      /\ silent' = silent /\ _last_hb' = _last_hb /\ _heater_active' = _heater_active
  BY DEF RoundEnds, ghosts
<1>3. Rest(n) \in Nat /\ Calls \in Nat /\ (Calls > 0 => Calls >= MACRO_TIMEOUT)
  BY RestIs, CallsAre DEF RestBounds
<1>4. silent[n] + Rest(n) <= HEARTBEAT_TIMEOUT + Calls
  BY <1>2 DEF OnTime, Waits
<1>5. Calls > 0 =>
         \/ silent[n] + Rest(n) <= HEARTBEAT_TIMEOUT + Calls - MACRO_TIMEOUT
         \/ \E m \in Node \ {n} : Fresh(m)
  BY <1>2 DEF OnTime, Waits
<1>6. Sleeps(n)'
  BY <1>1, <1>2, <1>3, <1>4, <1>5 DEF Sleeps, Fresh
<1> QED BY <1>2, <1>6 DEF OnTime, Waits, WillBeCalled

LEMMA AlarmKeepsTime ==
  ASSUME TypeOK, Timers, NEW n \in Node, OnTime(n), silent'[n] # 0, NEW m \in Node, Alarm(m)
  PROVE  OnTime(n)'
<1> USE TimeTypes
<1>1. silent \in [Node -> 0..AGE_MAX] /\ _last_hb \in [Node -> 0..AGE_MAX] /\ todo \in SUBSET Node
  BY DEF TypeOK
<1>2. /\ run = "round" /\ m \in todo /\ Old(m) /\ m # n /\ run' = m /\ left' = MACRO_TIMEOUT
      /\ UNCHANGED <<todo, now, _last_hb, _heater_active>>
  BY <1>1 DEF Alarm, TimedOut, Old
<1>3. silent'[n] = silent[n]
  BY <1>1, <1>2 DEF Alarm
<1>4. \A x \in Node : Old(x)' <=> Old(x)
  BY <1>2 DEF Old, Age
<1>5. Rest(n)' = Rest(n) /\ Rest(n) \in Nat
  <2>1. todo \ {run, n} \in SUBSET Node /\ m \in todo \ {run, n}
    BY <1>1, <1>2
  <2>2. /\ Work((todo \ {run, n}) \ {m}) = Work(todo \ {run, n}) - MACRO_TIMEOUT
        /\ Work(todo \ {run, n}) \in Nat
    BY <2>1, WorkIs
  <2>3. todo' \ {run', n} = (todo \ {run, n}) \ {m}
    BY <1>1, <1>2
  <2>4. Work(todo' \ {run', n}) = Work((todo \ {run, n}) \ {m})
    BY <2>3, Zenon
  <2>5. Calling(n) = 0 /\ Calling(n)' = MACRO_TIMEOUT
    BY <1>2 DEF Calling
  <2>6. Rest(n)' = MACRO_TIMEOUT + Work(todo' \ {run', n}) /\ Rest(n) = 0 + Work(todo \ {run, n})
    BY <2>5 DEF Rest
  <2> QED BY <2>2, <2>4, <2>6
<1>6. OldRest(n)' = OldRest(n) /\ OldRest(n) \in Nat
  <2> DEFINE old == {x \in todo \ {run, n} : Old(x)}
             old2 == {x \in todo' \ {run', n} : Old(x)'}
  <2>1. old \in SUBSET Node /\ m \in old
    BY <1>1, <1>2
  <2>2. Work(old \ {m}) = Work(old) - MACRO_TIMEOUT /\ Work(old) \in Nat
    BY <2>1, WorkIs
  <2>3. old2 = old \ {m}
    BY <1>1, <1>2, <1>4
  <2>4. Calling(n) = 0 /\ Calling(n)' = MACRO_TIMEOUT
    BY <1>2 DEF Calling
  <2>5. OldRest(n)' = MACRO_TIMEOUT + Work(old2) /\ OldRest(n) = 0 + Work(old)
    BY <2>4 DEF OldRest
  <2> HIDE DEF old, old2
  <2> QED BY <2>2, <2>3, <2>5
<1>7. Waits(n)'
  BY <1>1, <1>2, <1>3, <1>4, <1>5 DEF OnTime, Waits
<1>8. WillBeCalled(n)'
  BY <1>1, <1>2, <1>3, <1>4, <1>6 DEF OnTime, WillBeCalled
<1> QED BY <1>2, <1>7, <1>8 DEF OnTime, Sleeps

LEMMA PassInTime ==
  ASSUME TypeOK, Timers, Silence, NEW n \in Node, OnTime(n), silent'[n] # 0,
         NEW m \in Node, Pass(m)
  PROVE  OnTime(n)'
<1> USE TimeTypes
<1>1. /\ silent \in [Node -> 0..AGE_MAX] /\ _last_hb \in [Node -> 0..AGE_MAX]
      /\ todo \in SUBSET Node /\ now \in 0..AGE_MAX
  BY DEF TypeOK
<1>2. /\ run = "round" /\ m \in todo /\ ~TimedOut(m) /\ todo' = todo \ {m}
      /\ UNCHANGED <<run, left, now, silent, _last_hb, _heater_active>>
  BY DEF Pass, ghosts
<1>3. \A x \in Node : Old(x)' <=> Old(x)
  BY <1>2 DEF Old, Age
<1>4. silent[n] > 0 /\ n \in connected
  BY <1>1, <1>2 DEF Silence
<1>5. Calling(n) = 0 /\ Calling(n)' = 0
  BY <1>2 DEF Calling
<1>6. Rest(n) = Work(todo \ {run, n}) /\ Rest(n)' = Work(todo' \ {run, n})
  <2>1. Work(todo \ {run, n}) \in Nat /\ Work(todo' \ {run, n}) \in Nat
    <3>1. todo \ {run, n} \in SUBSET Node /\ todo' \ {run, n} \in SUBSET Node
      BY <1>1, <1>2
    <3> QED BY <3>1, WorkIs
  <2>2. Rest(n) = 0 + Work(todo \ {run, n}) /\ Rest(n)' = 0 + Work(todo' \ {run, n})
    BY <1>2, <1>5 DEF Rest
  <2> QED BY <2>1, <2>2
<1>7. Rest(n) \in Nat /\ OldRest(n) \in Nat /\ Calls \in Nat /\ Delay \in Nat
  BY RestIs, CallsAre DEF RestBounds
<1>8. CASE m = n
  <2>1. ~Old(n)
    BY <1>2, <1>4, <1>8 DEF TimedOut, Old
  <2>2. todo' \ {run, n} = todo \ {run, n}
    BY <1>2, <1>8
  <2>3. Rest(n)' = Rest(n)
    BY <1>6, <2>2, Zenon
  <2>4. Waits(n)'
    <3>1. todo' \subseteq {run, n} <=> todo \subseteq {run, n}
      BY <1>2, <1>8
    <3> QED BY <1>2, <2>1, <2>3, <3>1 DEF OnTime, Waits, Fresh
  <2> QED BY <1>2, <1>8, <2>4 DEF OnTime, Sleeps, WillBeCalled
<1>9. CASE m # n
  <2>1. Rest(n)' = Rest(n) - MACRO_TIMEOUT
    <3>1. todo \ {run, n} \in SUBSET Node /\ m \in todo \ {run, n}
      BY <1>1, <1>2, <1>9
    <3>2. todo' \ {run, n} = (todo \ {run, n}) \ {m}
      BY <1>2
    <3>3. Work((todo \ {run, n}) \ {m}) = Work(todo \ {run, n}) - MACRO_TIMEOUT
      BY <3>1, WorkIs
    <3>4. Work(todo' \ {run, n}) = Work((todo \ {run, n}) \ {m})
      BY <3>2, Zenon
    <3> QED BY <1>6, <3>3, <3>4
  <2>2. n \in todo' <=> n \in todo
    BY <1>2, <1>9
  <2>3. Waits(n)'
    BY <1>1, <1>2, <1>3, <1>7, <2>1, <2>2 DEF OnTime, Waits
  <2>4. OldRest(n)' <= OldRest(n) /\ OldRest(n)' \in Nat
    <3> DEFINE old == {x \in todo \ {run, n} : Old(x)}
               old2 == {x \in todo' \ {run', n} : Old(x)'}
    <3>1. old2 \in SUBSET old /\ old \in SUBSET Node /\ old2 \in SUBSET Node
      BY <1>1, <1>2, <1>3
    <3>2. Work(old2) <= Work(old) /\ Work(old2) \in Nat /\ Work(old) \in Nat
      BY <3>1, WorkIs, LessWork
    <3>3. OldRest(n) = 0 + Work(old) /\ OldRest(n)' = 0 + Work(old2)
      BY <1>5 DEF OldRest
    <3> HIDE DEF old, old2
    <3> QED BY <3>2, <3>3
  <2>5. WillBeCalled(n)'
    BY <1>1, <1>2, <1>3, <1>7, <2>2, <2>4 DEF OnTime, WillBeCalled
  <2> QED BY <1>2, <2>3, <2>5 DEF OnTime, Sleeps
<1> QED BY <1>8, <1>9

LEMMA ReturnInTime ==
  ASSUME TypeOK, Timers, Silence, NEW n \in Node, OnTime(n), silent'[n] # 0,
         NEW m \in Node, MacroReturns(m)
  PROVE  OnTime(n)'
<1> USE TimeTypes
<1>1. /\ silent \in [Node -> 0..AGE_MAX] /\ _last_hb \in [Node -> 0..AGE_MAX]
      /\ todo \in SUBSET Node /\ now \in 0..AGE_MAX /\ left \in Nat
  BY DEF TypeOK
<1>2. /\ run = m /\ run' = "round" /\ left' = 0 /\ todo' = todo \ {m}
      /\ _heater_active' = _heater_active \ {m}
      /\ UNCHANGED <<now, silent, _last_hb>>
  BY DEF MacroReturns, ghosts
<1>3. m # n
  BY <1>1, <1>2 DEF Silence
<1>4. \A x \in Node : Old(x)' <=> Old(x)
  BY <1>2 DEF Old, Age
<1>5. Calling(n) = left /\ Calling(n)' = 0
  BY <1>2, <1>3 DEF Calling
<1>6. todo' \ {run', n} = todo \ {run, n}
  BY <1>1, <1>2
<1>7. Rest(n)' <= Rest(n) /\ Rest(n) \in Nat /\ Rest(n)' \in Nat
  <2>1. Work(todo' \ {run', n}) = Work(todo \ {run, n})
    BY <1>6, Zenon
  <2>2. todo \ {run, n} \in SUBSET Node
    BY <1>1
  <2>3. Work(todo \ {run, n}) \in Nat
    BY <2>2, WorkIs
  <2>4. Rest(n)' = 0 + Work(todo' \ {run', n}) /\ Rest(n) = left + Work(todo \ {run, n})
    BY <1>5 DEF Rest
  <2> QED BY <1>1, <2>1, <2>3, <2>4
<1>8. OldRest(n)' <= OldRest(n) /\ OldRest(n) \in Nat /\ OldRest(n)' \in Nat
  <2> DEFINE old == {x \in todo \ {run, n} : Old(x)}
             old2 == {x \in todo' \ {run', n} : Old(x)'}
  <2>1. old2 = old /\ old \in SUBSET Node
    BY <1>1, <1>4, <1>6
  <2>2. Work(old) \in Nat
    BY <2>1, WorkIs
  <2>3. OldRest(n) = left + Work(old) /\ OldRest(n)' = 0 + Work(old2)
    BY <1>5 DEF OldRest
  <2> HIDE DEF old, old2
  <2> QED BY <1>1, <2>1, <2>2, <2>3
<1>9. Calls \in Nat /\ Delay \in Nat
  BY CallsAre
<1>10. n \in todo' <=> n \in todo
  BY <1>2, <1>3
<1>11. Waits(n)'
  <2>1. Fresh(m)'
    BY <1>2 DEF Fresh
  <2>2. run # "sleep"
    BY <1>2
  <2> QED BY <1>1, <1>2, <1>3, <1>4, <1>7, <1>9, <1>10, <2>1, <2>2 DEF OnTime, Waits
<1>12. WillBeCalled(n)'
  <2>1. run # "sleep"
    BY <1>2
  <2> QED BY <1>1, <1>2, <1>4, <1>8, <1>9, <1>10, <2>1 DEF OnTime, WillBeCalled
<1> QED BY <1>2, <1>11, <1>12 DEF OnTime, Sleeps

LEMMA TimeNext ==
  ASSUME TimeIInv, [Next]_vars
  PROVE  TimeIInv'
<1>1. TypeOK /\ Timers /\ RoundFits /\ Silence /\ \A n \in Node : OnTime(n)
  BY DEF TimeIInv
<1>2. TypeOK' /\ Timers' /\ RoundFits' /\ Silence'
  BY <1>1, MonitorTypesNext, TimersNext, RoundFitsNext, SilenceNext
<1>3. ASSUME NEW n \in Node, silent'[n] = 0
      PROVE  OnTime(n)'
  <2>1. HeardInTime'
    BY <1>2, HeardIs, PTL
  <2> QED BY <1>3, <2>1 DEF HeardInTime
<1>4. ASSUME NEW n \in Node, silent'[n] # 0
      PROVE  OnTime(n)'
  <2>1. OnTime(n)
    BY <1>1
  <2>2. CASE UNCHANGED vars
    <3>1. UNCHANGED <<run, left, todo, now, silent, _last_hb, _heater_active>>
      BY <2>2 DEF vars, roundVars, ghosts
    <3> QED BY <2>1, <3>1 DEF OnTime, Waits, Sleeps, WillBeCalled, Rest, OldRest, Calling, Old,
                              Age, Fresh
  <2>3. CASE Next
    BY <1>1, <1>2, <1>4, <2>1, <2>3, UsersInTime, TickInTime, WakeInTime, RoundEndsInTime,
       AlarmKeepsTime, PassInTime, ReturnInTime
       DEF Next, Links, on_heartbeat_response, set_heater_active
  <2> QED BY <2>2, <2>3
<1> QED BY <1>2, <1>3, <1>4 DEF TimeIInv

LEMMA TimeInit == Init => TimeIInv
<1> SUFFICES ASSUME Init PROVE TimeIInv
  OBVIOUS
<1>1. TypeOK /\ Timers
  BY TimeTypes DEF Init, TypeOK, Timers
<1>2. RoundFits /\ Silence
  BY TimeTypes DEF Init, RoundFits, Silence
<1>3. \A n \in Node : OnTime(n)
  BY <1>1, HeardIs DEF HeardInTime, Init
<1> QED BY <1>1, <1>2, <1>3 DEF TimeIInv

\* The inductive invariant: how long a watched heater can have been silent, by
\* where run() is, whether its node's turn is still to come in this round and
\* whether its age is over the timeout already.
THEOREM TimeInvariant == Spec => []TimeIInv
<1> QED BY TimeInit, TimeNext, PTL DEF Spec

\* A connected node whose active heater is watched and that stops answering is
\* turned off within the timeout and Delay, for any number of nodes and however
\* long each call of a macro takes (run, call_macro).
THEOREM AlarmsInTime == Spec => []AlarmInTime
<1>1. TimeIInv => AlarmInTime
  <2> SUFFICES ASSUME TimeIInv, NEW n \in Node
               PROVE  silent[n] <= HEARTBEAT_TIMEOUT + Delay
    BY DEF AlarmInTime
  <2>1. /\ silent[n] \in Nat /\ left \in Nat /\ Rest(n) \in Nat /\ OldRest(n) \in Nat
        /\ OnTime(n)
    BY RestIs, TimeTypes DEF TimeIInv, TypeOK, RestBounds
  <2>2. /\ Calls \in Nat /\ (Calls > 0 => Calls >= MACRO_TIMEOUT)
        /\ Delay = IF Calls = 0 THEN 1 ELSE 1 + 2 * Calls - MACRO_TIMEOUT
    BY CallsAre
  <2>3. CASE run = "sleep"
    BY <2>1, <2>2, <2>3, TimeTypes DEF OnTime, Sleeps
  <2>4. CASE run # "sleep" /\ n \in todo /\ Old(n)
    BY <2>1, <2>2, <2>4, TimeTypes DEF OnTime, WillBeCalled
  <2>5. CASE run # "sleep" /\ ~(n \in todo /\ Old(n))
    BY <2>1, <2>2, <2>5, TimeTypes DEF OnTime, Waits
  <2> QED BY <2>3, <2>4, <2>5
<1> QED BY <1>1, TimeInvariant, PTL

=============================================================================
