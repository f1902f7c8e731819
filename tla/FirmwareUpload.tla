--------------------------- MODULE FirmwareUpload ---------------------------
(***************************************************************************)
(* Uploading firmware from the host to one node: push_firmware and         *)
(* on_ota_status of linux-host/src/ota_handler.py, the line through the    *)
(* router, and the node of NodeOta.                                        *)
(*                                                                         *)
(* Every upload is a coroutine of the event loop, which resumes those that *)
(* can go on first come first served; on_ota_status runs in the thread     *)
(* that polls the serial port.  They share self._pending, which has room   *)
(* for one future per node.                                                *)
(*                                                                         *)
(* The line is two queues: serial line, router and BLE link together.      *)
(* Nothing on it is acknowledged end to end: the router ignores the result *)
(* of a write, the serial line has no flow control and no checksum.  Until *)
(* the system is calm, packets and answers are lost, a chunk arrives as    *)
(* noise, a flash write or a malloc fails, the node or the host restarts,  *)
(* or a write to the serial port raises.  DOWN_MAX and UP_MAX bound the    *)
(* queues.                                                                 *)
(***************************************************************************)
EXTENDS NodeOta, Sequences

CONSTANTS
    Uploads,    \* the calls of push_firmware
    Image,      \* the image each uploads
    Faults,     \* whether anything fails before the system is calm
    Concurrent, \* whether one may start while another is in progress
    Late,       \* whether an answer may come after its timeout
    DOWN_MAX,   \* the bound of the queue to the node
    UP_MAX      \* the bound of the queue to the host

ASSUME UploadAssumption ==
    /\ Image \in [Uploads -> Images]
    /\ Faults \in BOOLEAN
    /\ Concurrent \in BOOLEAN
    /\ Late \in BOOLEAN
    /\ DOWN_MAX \in Nat \ {0}
    /\ UP_MAX \in Nat \ {0}

VARIABLES
    pc,         \* where each upload is
    sent,       \* the chunks it has sent
    answer,     \* the result of the future it waits for, or "none"
    ready,      \* asyncio: the uploads the event loop will resume, in order
    pending,    \* self._pending: the upload whose future is there, or Nobody
    down,       \* the packets on the way to the node
    up,         \* the OTA_STATUS packets on the way to the host
    installed,  \* the images committed so far
    calm        \* no more faults

hostVars == <<pc, sent, answer, ready, pending>>
lineVars == <<down, up>>
vars == <<otaVars, hostVars, lineVars, installed, calm>>

Nobody == "nobody"
Busy == {"begin", "stream", "end"}
Places == {"idle", "true", "false", "lost"} \cup Busy

Packet == [cmd : {"OTA_BEGIN"}, image : Images]
              \cup [cmd : {"OTA_DATA"}, chunk : Content]
              \cup [cmd : {"OTA_END"}]

TypeOK ==
    /\ OtaTypeOK
    /\ pc \in [Uploads -> Places]
    /\ sent \in [Uploads -> Nat]
    /\ answer \in [Uploads -> Statuses]
    /\ ready \in Seq(Uploads)
    /\ pending \in Uploads \cup {Nobody}
    /\ down \in Seq(Packet)
    /\ up \in Seq(Statuses)
    /\ installed \subseteq Images
    /\ calm \in BOOLEAN

Init ==
    /\ OtaInit
    /\ pc = [u \in Uploads |-> "idle"]
    /\ sent = [u \in Uploads |-> 0]
    /\ answer = [u \in Uploads |-> "none"]
    /\ ready = <<>>
    /\ pending = Nobody
    /\ down = <<>>
    /\ up = <<>>
    /\ installed = {}
    /\ calm = ~Faults

-----------------------------------------------------------------------------
(***************************************************************************)
(* The host.                                                               *)
(***************************************************************************)
Chunks(u) == Size[Image[u]]

\* Nothing is on the way, and the node is up.
Settled == down = <<>> /\ up = <<>> /\ ~rebooting

\* Nothing in upload_firmware or push_firmware keeps a second upload from
\* starting: without Concurrent it is the user who waits until one has ended
\* and, unless Late, nothing of it is on the way.
MayStart(u) ==
    \/ Concurrent
    \/ (\A v \in Uploads : pc[v] \notin Busy) /\ (Late \/ Settled)

\* transport.send_packet
Send(p) == Len(down) < DOWN_MAX /\ down' = Append(down, p)

\* A future for u is put into pending, in place of any other there.
Register(u) ==
    /\ pending' = u
    /\ answer' = [answer EXCEPT ![u] = "none"]

\* The future of u is read, and whatever is in pending popped.
Unregister(u) ==
    /\ pending' = Nobody
    /\ answer' = [answer EXCEPT ![u] = "none"]

Goto(u, place) == pc' = [pc EXCEPT ![u] = place]

\* The event loop resumes u, the first of those that are ready.
Resumed(u) == ready # <<>> /\ u = Head(ready)

\* No step of the node, which sends nothing.
NodeIdle == status' = "none" /\ UNCHANGED <<flashVars, updateVars, rebooting>>

HostStep == NodeIdle /\ UNCHANGED <<up, installed, calm>>

PushBegin(u) ==
    /\ pc[u] = "idle"
    /\ MayStart(u)
    /\ Register(u)
    /\ Send([cmd |-> "OTA_BEGIN", image |-> Image[u]])
    /\ Goto(u, "begin")
    /\ UNCHANGED <<sent, ready>>
    /\ HostStep

\* A chunk is sent, and sleep(0) puts u behind the others that are ready.
SendChunk(u) ==
    /\ sent[u] < Chunks(u)
    /\ Send([cmd |-> "OTA_DATA", chunk |-> <<Image[u], sent[u] + 1>>])
    /\ sent' = [sent EXCEPT ![u] = @ + 1]
    /\ Goto(u, "stream")
    /\ ready' = Append(Tail(ready), u)

\* wait_for returns, and the first chunk is sent at once.
BeginAnswered(u) ==
    /\ pc[u] = "begin"
    /\ Resumed(u)
    /\ Unregister(u)
    /\ \/ answer[u] = "in_progress" /\ SendChunk(u)
       \/ /\ answer[u] # "in_progress"
          /\ Goto(u, "false")
          /\ ready' = Tail(ready)
          /\ UNCHANGED <<sent, down>>
    /\ HostStep

PushChunk(u) ==
    /\ pc[u] = "stream"
    /\ Resumed(u)
    /\ SendChunk(u)
    /\ UNCHANGED <<answer, pending>>
    /\ HostStep

PushEnd(u) ==
    /\ pc[u] = "stream"
    /\ Resumed(u)
    /\ sent[u] = Chunks(u)
    /\ Register(u)
    /\ Send([cmd |-> "OTA_END"])
    /\ Goto(u, "end")
    /\ ready' = Tail(ready)
    /\ UNCHANGED sent
    /\ HostStep

\* Mutant: any answer is a success.
EndAnsweredAny(u) ==
    /\ pc[u] = "end"
    /\ Resumed(u)
    /\ Unregister(u)
    /\ Goto(u, "true")
    /\ ready' = Tail(ready)
    /\ UNCHANGED <<sent, down>>
    /\ HostStep

EndAnswered(u) ==
    /\ pc[u] = "end"
    /\ Resumed(u)
    /\ Unregister(u)
    /\ Goto(u, IF answer[u] = "ok" THEN "true" ELSE "false")
    /\ ready' = Tail(ready)
    /\ UNCHANGED <<sent, down>>
    /\ HostStep

\* Mutant: only the answer to OTA_BEGIN is awaited with a timeout.
TimedOutAtBegin(u) ==
    /\ pc[u] = "begin"
    /\ answer[u] = "none"
    /\ Settled
    /\ pending' = Nobody
    /\ Goto(u, "false")
    /\ UNCHANGED <<sent, answer, ready, down>>
    /\ HostStep

\* The 10 s or 30 s are over: unless Late, long enough for all that was on the
\* way to arrive.
TimedOut(u) ==
    /\ pc[u] \in {"begin", "end"}
    /\ answer[u] = "none"
    /\ Late \/ Settled
    /\ pending' = Nobody
    /\ Goto(u, "false")
    /\ UNCHANGED <<sent, answer, ready, down>>
    /\ HostStep

\* send_packet raises: a future registered just before it stays in pending.
SendRaises(u) ==
    /\ ~calm
    /\ \/ pc[u] = "idle" /\ MayStart(u) /\ Register(u) /\ UNCHANGED ready
       \/ /\ Resumed(u)
          /\ \/ pc[u] = "begin" /\ answer[u] = "in_progress" /\ Unregister(u)
             \/ pc[u] = "stream" /\ sent[u] < Chunks(u) /\ UNCHANGED <<answer, pending>>
             \/ pc[u] = "stream" /\ sent[u] = Chunks(u) /\ Register(u)
          /\ ready' = Tail(ready)
    /\ Goto(u, "lost")
    /\ UNCHANGED <<sent, down>>
    /\ HostStep

\* The host restarts: its coroutines and futures are gone.
HostRestart ==
    /\ ~calm
    /\ \E u \in Uploads : pc[u] \in Busy
    /\ pc' = [u \in Uploads |-> IF pc[u] \in Busy THEN "lost" ELSE pc[u]]
    /\ ready' = <<>>
    /\ pending' = Nobody
    /\ UNCHANGED <<sent, answer, down>>
    /\ HostStep

\* The future in pending is that of u, and has no result.
Open(u) == pending = u /\ answer[u] = "none"

\* on_ota_status: the future gets its result, and the upload that waits for it is
\* ready; without such a future the status is dropped.
OnOtaStatus ==
    /\ up # <<>>
    /\ up' = Tail(up)
    /\ \/ \E u \in Uploads :
             /\ Open(u)
             /\ answer' = [answer EXCEPT ![u] = Head(up)]
             /\ ready' = IF pc[u] \in {"begin", "end"} THEN Append(ready, u) ELSE ready
       \/ (\A u \in Uploads : ~Open(u)) /\ UNCHANGED <<answer, ready>>
    /\ NodeIdle
    /\ UNCHANGED <<pc, sent, pending, down, installed, calm>>

Upload(u) ==
    \/ PushBegin(u) \/ BeginAnswered(u)
    \/ PushChunk(u)
    \/ PushEnd(u) \/ EndAnswered(u)
    \/ TimedOut(u)

-----------------------------------------------------------------------------
(***************************************************************************)
(* The line and the node.                                                  *)
(***************************************************************************)

\* dispatch_packet, with noise for a chunk whose bytes were damaged.
Dispatch(p) ==
    \/ p.cmd = "OTA_BEGIN" /\ ota_begin(p.image, ~calm)
    \/ p.cmd = "OTA_DATA" /\ (ota_write(p.chunk, ~calm) \/ (~calm /\ ota_write(Noise, TRUE)))
    \/ p.cmd = "OTA_END" /\ ota_end(~calm)
    \/ p.cmd \in {"OTA_DATA", "OTA_END"} /\ Ignore

\* ota_cb notifies the status.
Deliver ==
    /\ down # <<>>
    /\ Len(up) < UP_MAX
    /\ Dispatch(Head(down))
    /\ down' = Tail(down)
    /\ up' = IF status' = "none" THEN up ELSE Append(up, status')
    /\ installed' = IF status' = "ok"
                       THEN installed \cup {i \in Images : Holds(s_part, i)}
                       ELSE installed
    /\ UNCHANGED <<hostVars, calm>>

LoseDown ==
    /\ ~calm
    /\ down # <<>>
    /\ down' = Tail(down)
    /\ NodeIdle
    /\ UNCHANGED <<hostVars, up, installed, calm>>

LoseUp ==
    /\ ~calm
    /\ up # <<>>
    /\ up' = Tail(up)
    /\ NodeIdle
    /\ UNCHANGED <<hostVars, down, installed, calm>>

\* The link is down while the node restarts: what is on the way to it is lost.
NodeRestart ==
    /\ ~calm \/ rebooting
    /\ Restart
    /\ down' = <<>>
    /\ UNCHANGED <<hostVars, up, installed, calm>>

\* From here on nothing fails.
Calm ==
    /\ ~calm
    /\ calm' = TRUE
    /\ NodeIdle
    /\ UNCHANGED <<hostVars, lineVars, installed>>

Next ==
    \/ \E u \in Uploads : Upload(u) \/ SendRaises(u)
    \/ HostRestart
    \/ OnOtaStatus
    \/ Deliver \/ LoseDown \/ LoseUp
    \/ NodeRestart
    \/ Calm

Spec == Init /\ [][Next]_vars

\* Every upload is asked for; the coroutines, the polling thread and the node's
\* tasks keep running, and a node that waits to restart does.
FairSpec ==
    /\ Spec
    /\ \A u \in Uploads : WF_vars(Upload(u))
    /\ WF_vars(OnOtaStatus)
    /\ WF_vars(Deliver)
    /\ WF_vars(rebooting /\ NodeRestart)

-----------------------------------------------------------------------------
(***************************************************************************)
(* Properties.                                                             *)
(***************************************************************************)

\* "Returns True on success" (ota_handler.py): only if the node committed the
\* image, whatever was lost, damaged or restarted and whatever became of the
\* uploads before.
TrueMeansInstalled == \A u \in Uploads : pc[u] = "true" => Image[u] \in installed

\* "Returns True on success" (ota_handler.py), when nothing fails: an upload whose
\* image the node has committed has returned True, or waits for the OTA_OK, and its
\* future holds it or will get it.
SuccessReturned ==
    \A u \in Uploads :
       Image[u] \in installed /\ pc[u] # "true" =>
          /\ pc[u] = "end"
          /\ answer[u] = "ok" \/ (Open(u) /\ \E j \in 1..Len(up) : up[j] = "ok")

\* An upload that was started ends.
UploadEnds ==
    \A u \in Uploads : pc[u] \in Busy ~> pc[u] \in {"true", "false", "lost"}

\* Once the system is calm and the line settled, an app that fits is installed
\* and reported, whatever became of the uploads before.
AppInstalls ==
    \A u \in Uploads :
       calm /\ pc[u] = "idle" /\ Settled /\ Image[u] \in Apps /\ Chunks(u) <= SLOT_SIZE
          ~> pc[u] = "true"

-----------------------------------------------------------------------------
(***************************************************************************)
(* The upload implements FirmwareInstall, on the same terms.               *)
(***************************************************************************)
Booted == IF Valid(boot) THEN CHOOSE i \in Apps : Holds(boot, i) ELSE Noise

Verdict == [u \in Uploads |->
               CASE pc[u] \in Busy -> "open"
                 [] pc[u] = "lost" -> "false"
                 [] OTHER -> pc[u]]

Abstract == INSTANCE FirmwareInstall WITH firmware <- Booted, verdict <- Verdict

AtomicInstall == Abstract!InstallSpec
=============================================================================
