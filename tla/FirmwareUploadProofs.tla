------------------------ MODULE FirmwareUploadProofs ------------------------
(***************************************************************************)
(* Proofs about a node's update (NodeOta) and about uploads over it        *)
(* (FirmwareUpload), for any uploads, images, queues and slots.            *)
(***************************************************************************)
EXTENDS FirmwareUpload, TLAPS

USE OtaAssumption

-----------------------------------------------------------------------------
(***************************************************************************)
(* The node's update: whatever packets arrive in whatever order, whatever  *)
(* fails and whenever the node restarts, it has a complete app to boot.    *)
(***************************************************************************)
\* The slot esp_ota_get_next_update_partition picks is another slot.
LEMMA NextSlotOther ==
    ASSUME NEW s \in Slots
    PROVE  NextSlot[s] \in Slots /\ NextSlot[s] # s
BY DEF Slots, NextSlot

\* A slot holds at least one chunk, as it holds the factory app.
LEMMA SlotSizePositive == SLOT_SIZE \in Nat /\ SLOT_SIZE >= 1
<1>1. Factory \in Images
  OBVIOUS
<1>2. Size[Factory] \in Nat \ {0}
  BY <1>1
<1>. QED  BY <1>2

LEMMA InitInvariant == OtaInit => OtaIInv
<1>. SUFFICES ASSUME OtaInit PROVE OtaIInv
  OBVIOUS
<1>1. flash = [s \in Slots |-> [k \in Offsets |->
                  IF s = "factory" /\ k <= Size[Factory] THEN <<Factory, k>> ELSE Noise]]
  BY DEF OtaInit
<1>2. OtaTypeOK
  <2>1. ASSUME NEW s \in Slots, NEW k \in Offsets
        PROVE  (IF s = "factory" /\ k <= Size[Factory] THEN <<Factory, k>> ELSE Noise) \in Content
    <3>1. <<Factory, k>> \in Images \X Nat
      BY SlotSizePositive DEF Offsets
    <3>. QED  BY <3>1 DEF Content
  <2>2. \A s \in Slots :
           [k \in Offsets |->
              IF s = "factory" /\ k <= Size[Factory] THEN <<Factory, k>> ELSE Noise]
           \in [Offsets -> Content]
    BY <2>1
  <2>3. flash \in [Slots -> [Offsets -> Content]]
    BY <1>1, <2>2
  <2>4. running \in Slots /\ boot \in Slots /\ s_part \in Slots
    BY DEF OtaInit, Slots
  <2>5. s_active \in BOOLEAN /\ rebooting \in BOOLEAN /\ status \in Statuses
    BY DEF OtaInit, Statuses
  <2>6. s_expected_crc \in Images /\ s_received_bytes \in 0..SLOT_SIZE /\ wrote \in 0..SLOT_SIZE
    BY SlotSizePositive DEF OtaInit
  <2>. QED  BY <2>3, <2>4, <2>5, <2>6 DEF OtaTypeOK
<1>3. Holds("factory", Factory)
  <2>1. "factory" \in Slots
    BY DEF Slots
  <2>2. flash["factory"] =
           [k \in Offsets |-> IF k <= Size[Factory] THEN <<Factory, k>> ELSE Noise]
    BY <1>1, <2>1
  <2>3. \A k \in 1..Size[Factory] : k \in Offsets /\ k <= Size[Factory]
    BY SlotSizePositive DEF Offsets
  <2>4. \A k \in 1..Size[Factory] : flash["factory"][k] = <<Factory, k>>
    BY <2>2, <2>3
  <2>. QED  BY <2>4 DEF Holds
<1>4. AlwaysBoots
  BY <1>3 DEF OtaInit, AlwaysBoots, Valid
<1>. QED  BY <1>2, <1>4 DEF OtaInit, OtaIInv, WritesElsewhere, BootsItself, CountsWrites

\* A write changes the slot of the update only.
LEMMA WriteElsewhere ==
    ASSUME OtaIInv, s_active, NEW d, WriteChunk(d)
    PROVE  flash'[boot] = flash[boot] /\ flash'[running] = flash[running]
BY DEF OtaIInv, OtaTypeOK, WritesElsewhere, WriteChunk

LEMMA BeginStep ==
    ASSUME OtaIInv, NEW i \in Images, ota_begin(i, TRUE)
    PROVE  OtaIInv'
<1>. USE DEF OtaIInv, OtaTypeOK
<1>. DEFINE next == NextSlot[running]
<1>1. next \in Slots /\ next # running
  BY NextSlotOther
<1>2. s_part' = next /\ UNCHANGED <<flash, running, boot, rebooting>> /\ ~rebooting
  BY DEF ota_begin, flashVars
<1>3. boot = running
  BY <1>2 DEF BootsItself
<1>. HIDE DEF next
<1>4. OtaTypeOK'
  <2>1. s_active' \in BOOLEAN /\ status' \in Statuses
    BY DEF ota_begin, Statuses
  <2>2. s_expected_crc' \in Images /\ s_received_bytes' \in 0..SLOT_SIZE /\ wrote' \in 0..SLOT_SIZE
    BY SlotSizePositive DEF ota_begin
  <2>. QED  BY <1>1, <1>2, <2>1, <2>2
<1>5. AlwaysBoots'
  BY <1>2 DEF AlwaysBoots, Valid, Holds
<1>6. WritesElsewhere' /\ BootsItself'
  BY <1>1, <1>2, <1>3 DEF WritesElsewhere, BootsItself
<1>7. CountsWrites'
  BY DEF ota_begin, CountsWrites
<1>. QED  BY <1>4, <1>5, <1>6, <1>7

LEMMA WriteStep ==
    ASSUME OtaIInv, NEW d \in Content, s_active, WriteChunk(d)
    PROVE  OtaIInv'
<1>. USE DEF OtaIInv, WriteChunk
<1>1. OtaTypeOK'
  <2>1. wrote + 1 \in Offsets /\ wrote + 1 \in 0..SLOT_SIZE
    BY SlotSizePositive DEF OtaTypeOK, Offsets
  <2>2. flash' \in [Slots -> [Offsets -> Content]]
    BY <2>1 DEF OtaTypeOK
  <2>3. wrote' \in 0..SLOT_SIZE /\ s_received_bytes' \in 0..SLOT_SIZE
    BY <2>1 DEF CountsWrites
  <2>4. status' \in Statuses
    BY DEF Statuses
  <2>5. running' \in Slots /\ boot' \in Slots /\ s_part' \in Slots /\ s_expected_crc' \in Images
    BY DEF OtaTypeOK
  <2>6. s_active' \in BOOLEAN /\ rebooting' \in BOOLEAN
    BY Zenon DEF OtaTypeOK
  <2>. QED  BY <2>2, <2>3, <2>4, <2>5, <2>6 DEF OtaTypeOK
<1>2. AlwaysBoots'
  <2>1. boot' = boot /\ running' = running
    OBVIOUS
  <2>2. flash'[boot] = flash[boot] /\ flash'[running] = flash[running]
    BY WriteElsewhere
  <2>. HIDE DEF WriteChunk
  <2>3. Valid(boot)' /\ Valid(running)'
    BY <2>1, <2>2 DEF AlwaysBoots, Valid, Holds
  <2>. QED  BY <2>3 DEF AlwaysBoots
<1>3. WritesElsewhere' /\ BootsItself' /\ CountsWrites'
  BY DEF WritesElsewhere, BootsItself, CountsWrites
<1>. QED  BY <1>1, <1>2, <1>3

LEMMA AbortStep ==
    ASSUME OtaIInv, AbortUpdate
    PROVE  OtaIInv'
<1>. USE DEF OtaIInv, AbortUpdate, flashVars
<1>1. OtaTypeOK'
  BY DEF OtaTypeOK, Statuses
<1>2. AlwaysBoots'
  BY DEF AlwaysBoots, Valid, Holds
<1>3. WritesElsewhere' /\ BootsItself' /\ CountsWrites'
  BY DEF WritesElsewhere, BootsItself, CountsWrites
<1>. QED  BY <1>1, <1>2, <1>3

\* What is committed is the slot of the update, which was verified.
LEMMA CommitStep ==
    ASSUME OtaIInv, CommitUpdate
    PROVE  OtaIInv'
<1>. USE DEF OtaIInv, CommitUpdate
<1>1. OtaTypeOK'
  BY DEF OtaTypeOK, Statuses
<1>2. Valid(s_part) /\ Valid(running)
  BY DEF Accepted, AlwaysBoots
<1>3. AlwaysBoots'
  BY <1>2 DEF AlwaysBoots, Valid, Holds
<1>4. WritesElsewhere' /\ BootsItself' /\ CountsWrites'
  BY DEF WritesElsewhere, BootsItself, CountsWrites, OtaTypeOK
<1>. QED  BY <1>1, <1>3, <1>4

LEMMA RestartStep ==
    ASSUME OtaIInv, Restart
    PROVE  OtaIInv'
<1>. USE DEF OtaIInv, Restart
<1>1. OtaTypeOK'
  <2>1. s_active' \in BOOLEAN /\ rebooting' \in BOOLEAN /\ status' \in Statuses
    BY DEF Statuses
  <2>2. s_expected_crc' \in Images /\ s_received_bytes' \in 0..SLOT_SIZE /\ wrote' \in 0..SLOT_SIZE
    BY SlotSizePositive
  <2>3. s_part' \in Slots /\ running' \in Slots
    BY DEF OtaTypeOK, Slots
  <2>. QED  BY <2>1, <2>2, <2>3 DEF OtaTypeOK
<1>2. AlwaysBoots'
  BY DEF AlwaysBoots, Valid, Holds
<1>3. WritesElsewhere' /\ BootsItself' /\ CountsWrites'
  BY DEF WritesElsewhere, BootsItself, CountsWrites
<1>. QED  BY <1>1, <1>2, <1>3

\* A step that sends no status or nothing at all.
LEMMA QuietStep ==
    ASSUME OtaIInv, UNCHANGED <<flashVars, updateVars, rebooting>>, status' \in Statuses
    PROVE  OtaIInv'
BY DEF OtaIInv, OtaTypeOK, flashVars, updateVars, AlwaysBoots, Valid, Holds,
       WritesElsewhere, BootsItself, CountsWrites

LEMMA NextInvariant == OtaIInv /\ [OtaNext]_otaVars => OtaIInv'
<1>. SUFFICES ASSUME OtaIInv, [OtaNext]_otaVars PROVE OtaIInv'
  OBVIOUS
<1>1. ASSUME NEW i \in Images, ota_begin(i, TRUE) PROVE OtaIInv'
  BY <1>1, BeginStep
<1>2. ASSUME NEW d \in Sendable, ota_write(d, TRUE) PROVE OtaIInv'
  <2>1. d \in Content
    BY DEF Sendable, Content, Offsets
  <2>. QED  BY <1>2, <2>1, WriteStep, AbortStep DEF ota_write
<1>3. CASE ota_end(TRUE)
  BY <1>3, CommitStep, AbortStep DEF ota_end
<1>4. CASE Ignore
  BY <1>4, QuietStep DEF Ignore, Statuses
<1>5. CASE Restart
  BY <1>5, RestartStep
<1>6. CASE UNCHANGED otaVars
  BY <1>6, QuietStep DEF otaVars, OtaIInv, OtaTypeOK
<1>. QED  BY <1>1, <1>2, <1>3, <1>4, <1>5, <1>6 DEF OtaNext

\* The inductive invariant of the update: it never writes to the slot the node
\* boots from, and that slot holds a complete app.
THEOREM OtaInvariant == OtaSpec => []OtaIInv
<1>. QED  BY InitInvariant, NextInvariant, PTL DEF OtaSpec

\* The state of the update keeps its types.
THEOREM OtaTypes == OtaSpec => []OtaTypeOK
<1>1. OtaIInv => OtaTypeOK
  BY DEF OtaIInv
<1>. QED  BY <1>1, OtaInvariant, PTL

\* However many updates are begun, interrupted, garbled or repeated, the node
\* always has a complete app to boot (ota_begin, ota_write, ota_end).
THEOREM NodeAlwaysBoots == OtaSpec => []AlwaysBoots
<1>1. OtaIInv => AlwaysBoots
  BY DEF OtaIInv
<1>. QED  BY <1>1, OtaInvariant, PTL

LEMMA NewBoot == OtaIInv /\ [OtaNext]_otaVars => [NewBootStep]_otaVars
<1>. SUFFICES ASSUME OtaIInv, OtaNext, boot' # boot
              PROVE  /\ Valid(boot')
                     /\ s_expected_crc \notin ZeroCrc => Holds(boot', s_expected_crc)
  BY DEF NewBootStep, otaVars, flashVars
<1>1. CommitUpdate
  BY DEF OtaNext, ota_begin, ota_write, WriteChunk, AbortUpdate, ota_end, Ignore, Restart,
         flashVars
<1>2. boot' = s_part /\ Accepted
  BY <1>1 DEF CommitUpdate
<1>. QED  BY <1>2 DEF Accepted, CrcMatches

\* The slot to boot from becomes another one only when it holds the image the
\* last OTA_BEGIN announced (ota_end).
THEOREM OnlyVerifiedBoots == OtaSpec => NewBootVerified
<1>. QED  BY NewBoot, OtaInvariant, PTL DEF OtaSpec, NewBootVerified

LEMMA BootKept ==
    OtaIInv /\ [OtaNext]_otaVars =>
       [flash'[boot] = flash[boot] /\ flash'[running] = flash[running]]_otaVars
<1>. SUFFICES ASSUME OtaIInv, OtaNext
              PROVE  flash'[boot] = flash[boot] /\ flash'[running] = flash[running]
  BY DEF otaVars, flashVars
<1>1. ASSUME NEW d \in Sendable, ota_write(d, TRUE)
      PROVE  flash'[boot] = flash[boot] /\ flash'[running] = flash[running]
  BY <1>1, WriteElsewhere DEF ota_write, AbortUpdate, flashVars
<1>2. CASE ~ \E d \in Sendable : ota_write(d, TRUE)
  BY <1>2 DEF OtaNext, ota_begin, ota_end, CommitUpdate, AbortUpdate, Ignore, Restart, flashVars
<1>. QED  BY <1>1, <1>2

\* No step of an update writes to the slot the node runs from or will boot
\* from, so that a failed update loses nothing (ota_handler.h).
THEOREM RunningSlotKept == OtaSpec => BootPreserved
<1>. QED  BY BootKept, OtaInvariant, PTL DEF OtaSpec, BootPreserved

-----------------------------------------------------------------------------
(***************************************************************************)
(* Uploads over the serial line and the air.                               *)
(***************************************************************************)
\* What the user sees to: no upload starts while another is in progress or
\* anything of it is under way.
Alone == ~Concurrent /\ ~Late

-----------------------------------------------------------------------------
(***************************************************************************)
(* The inductive invariants.                                               *)
(***************************************************************************)
Of(c, i) == c \in {i} \X Nat

\* Every chunk is one of an image whose upload was started: on the line ...
ChunksSent ==
    \A j \in 1..Len(down) :
       down[j].cmd = "OTA_DATA" =>
          \E v \in Uploads : pc[v] # "idle" /\ Of(down[j].chunk, Image[v])

\* ... and at the start of the slot an update writes to.
FirstChunkSent ==
    s_active /\ wrote > 0 =>
       \/ flash[s_part][1] = Noise
       \/ \E v \in Uploads : pc[v] # "idle" /\ Of(flash[s_part][1], Image[v])

OriginInv == ChunksSent /\ FirstChunkSent

OneBusy == \A u, v \in Uploads : pc[u] \in Busy /\ pc[v] \in Busy => u = v

\* What the line holds is of u, as far as u has come.
LineOf(u) ==
    \A j \in 1..Len(down) :
       /\ down[j].cmd = "OTA_BEGIN" => pc[u] = "begin"
       /\ down[j].cmd = "OTA_DATA" => pc[u] # "begin" /\ Of(down[j].chunk, Image[u])
       /\ down[j].cmd = "OTA_END" => pc[u] = "end"

\* The update of the node, if there is one, is that of u.
UpdateOf(u) ==
    s_active /\ wrote > 0 => flash[s_part][1] = Noise \/ Of(flash[s_part][1], Image[u])

\* OTA_BEGIN is under way or lost, or it was answered: then the update is u's.
BeginPhase(u) ==
    pc[u] = "begin" =>
       /\ Len(down) <= 1
       /\ \/ up = <<>> /\ answer[u] = "none"
          \/ down = <<>> /\ UpdateOf(u)

LaterPhase(u) == pc[u] # "begin" => UpdateOf(u)

\* An "ok" on its way to u, or there, is for its image.
OkTrue(u) ==
    (\E j \in 1..Len(up) : up[j] = "ok") \/ answer[u] = "ok" => Image[u] \in installed

BusyInv ==
    \A u \in Uploads :
       pc[u] \in Busy => LineOf(u) /\ BeginPhase(u) /\ LaterPhase(u) /\ OkTrue(u)

AloneInv == OneBusy /\ BusyInv /\ TrueMeansInstalled

UploadIInv == TypeOK /\ OtaIInv /\ OriginInv

-----------------------------------------------------------------------------
(***************************************************************************)
(* Sequences.                                                              *)
(***************************************************************************)
LEMMA AppendIs ==
  ASSUME NEW S, NEW s \in Seq(S), NEW e \in S
  PROVE  /\ Append(s, e) \in Seq(S)
         /\ Len(s) \in Nat
         /\ Len(Append(s, e)) = Len(s) + 1
         /\ \A j \in 1..Len(s) : Append(s, e)[j] = s[j]
         /\ Append(s, e)[Len(s) + 1] = e
  OBVIOUS

LEMMA TailIs ==
  ASSUME NEW S, NEW s \in Seq(S), s # <<>>
  PROVE  /\ Tail(s) \in Seq(S)
         /\ Head(s) = s[1] /\ s[1] \in S
         /\ Len(s) \in Nat \ {0}
         /\ Len(Tail(s)) = Len(s) - 1
         /\ \A j \in 1..(Len(s) - 1) : Tail(s)[j] = s[j + 1]
  OBVIOUS

LEMMA ElementsOf ==
  ASSUME NEW S, NEW s \in Seq(S)
  PROVE  Len(s) \in Nat /\ \A k \in 1..Len(s) : s[k] \in S
  OBVIOUS

-----------------------------------------------------------------------------
(***************************************************************************)
(* The steps, by what they do to the node and to the line.                 *)
(***************************************************************************)

\* The steps that are none of the node's.
HostSide ==
    \/ \E u \in Uploads : Upload(u) \/ SendRaises(u)
    \/ HostRestart \/ OnOtaStatus \/ LoseDown \/ LoseUp \/ Calm

LEMMA HostSideIdle == HostSide => NodeIdle /\ installed' = installed
  BY DEF HostSide, Upload, PushBegin, BeginAnswered, PushChunk, PushEnd, EndAnswered, TimedOut,
         SendRaises, HostRestart, OnOtaStatus, LoseDown, LoseUp, Calm, HostStep

\* push_firmware goes on with a chunk: the first one, or the next.
GoesOn(u) ==
    \/ BeginAnswered(u) /\ answer[u] = "in_progress" /\ SendChunk(u)
    \/ PushChunk(u)

\* A step of an upload, by what it does to the line.
LEMMA UploadSteps ==
  ASSUME NEW u \in Uploads, Upload(u) \/ SendRaises(u)
  PROVE  \/ PushBegin(u) \/ PushEnd(u) \/ GoesOn(u)
         \/ /\ \/ BeginAnswered(u) /\ answer[u] # "in_progress" /\ Goto(u, "false")
               \/ EndAnswered(u) \/ TimedOut(u) \/ SendRaises(u)
            /\ UNCHANGED down
BY DEF Upload, GoesOn, BeginAnswered, EndAnswered, TimedOut, SendRaises

LEMMA GoesOnDoes ==
  ASSUME NEW u \in Uploads, GoesOn(u)
  PROVE  /\ SendChunk(u) /\ Resumed(u) /\ Goto(u, "stream")
         /\ pc[u] \in {"begin", "stream"}
         /\ NodeIdle /\ UNCHANGED <<up, installed, calm>>
         /\ answer' = answer \/ answer' = [answer EXCEPT ![u] = "none"]
         /\ pending' = pending \/ pending' = Nobody
BY DEF GoesOn, BeginAnswered, PushChunk, SendChunk, Unregister, HostStep

\* The packets the host sends.
LEMMA PacketTypes ==
  ASSUME TypeOK, NEW u \in Uploads
  PROVE  /\ [cmd |-> "OTA_BEGIN", image |-> Image[u]] \in Packet
         /\ [cmd |-> "OTA_DATA", chunk |-> <<Image[u], sent[u] + 1>>] \in Packet
         /\ [cmd |-> "OTA_END"] \in Packet
<1>1. Image[u] \in Images /\ sent[u] + 1 \in Nat
  BY UploadAssumption DEF TypeOK
<1>2. <<Image[u], sent[u] + 1>> \in Content
  BY <1>1 DEF Content
<1> QED BY <1>1, <1>2 DEF Packet

LEMMA SendDoes ==
  ASSUME TypeOK, NEW p \in Packet, Send(p)
  PROVE  /\ down' \in Seq(Packet)
         /\ Len(down) \in Nat /\ Len(down') = Len(down) + 1
         /\ \A j \in 1..Len(down) : down'[j] = down[j]
         /\ down'[Len(down) + 1] = p
<1>1. down \in Seq(Packet) /\ down' = Append(down, p)
  BY DEF Send, TypeOK
<1> QED BY <1>1, AppendIs

LEMMA TailDoes ==
  ASSUME TypeOK, down # <<>>, down' = Tail(down)
  PROVE  /\ down' \in Seq(Packet)
         /\ Head(down) = down[1] /\ down[1] \in Packet
         /\ Len(down) \in Nat \ {0} /\ Len(down') = Len(down) - 1
         /\ \A j \in 1..Len(down') : j + 1 \in 1..Len(down) /\ down'[j] = down[j + 1]
<1>1. down \in Seq(Packet)
  BY DEF TypeOK
<1>2. /\ down' \in Seq(Packet)
      /\ Head(down) = down[1] /\ down[1] \in Packet
      /\ Len(down) \in Nat \ {0} /\ Len(down') = Len(down) - 1
      /\ \A j \in 1..(Len(down) - 1) : down'[j] = down[j + 1]
  BY <1>1, TailIs
<1> QED BY <1>2

LEMMA UpTailDoes ==
  ASSUME TypeOK, up # <<>>, up' = Tail(up)
  PROVE  /\ up' \in Seq(Statuses)
         /\ Head(up) = up[1] /\ up[1] \in Statuses
         /\ Len(up) \in Nat \ {0}
         /\ \A j \in 1..Len(up') : j + 1 \in 1..Len(up) /\ up'[j] = up[j + 1]
<1>1. up \in Seq(Statuses)
  BY DEF TypeOK
<1>2. /\ up' \in Seq(Statuses)
      /\ Head(up) = up[1] /\ up[1] \in Statuses
      /\ Len(up) \in Nat \ {0} /\ Len(up') = Len(up) - 1
      /\ \A j \in 1..(Len(up) - 1) : up'[j] = up[j + 1]
  BY <1>1, TailIs
<1> QED BY <1>2

\* What the node does with a packet.
NodeBegins(p) ==
    /\ p.cmd = "OTA_BEGIN" /\ ~rebooting
    /\ \/ status' = "in_progress" /\ wrote' = 0 /\ s_active' = TRUE
       \/ status' = "none" /\ s_active' = FALSE
    /\ flash' = flash /\ boot' = boot
NodeWrites(p) ==
    /\ p.cmd = "OTA_DATA" /\ s_active
    /\ \E d \in {p.chunk, Noise} : WriteChunk(d)
NodeCommits(p) == p.cmd = "OTA_END" /\ s_active /\ CommitUpdate
NodeAborts(p) == p.cmd \in {"OTA_DATA", "OTA_END"} /\ AbortUpdate
NodeIgnores(p) == p.cmd \in {"OTA_DATA", "OTA_END"} /\ Ignore

LEMMA DeliverDoes ==
  ASSUME TypeOK, Deliver
  PROVE  \E p \in Packet :
            /\ p = down[1]
            /\ down' \in Seq(Packet)
            /\ Len(down) \in Nat \ {0} /\ Len(down') = Len(down) - 1
            /\ \A j \in 1..Len(down') : j + 1 \in 1..Len(down) /\ down'[j] = down[j + 1]
            /\ Dispatch(p)
            /\ \/ NodeBegins(p) \/ NodeWrites(p) \/ NodeCommits(p) \/ NodeAborts(p)
               \/ NodeIgnores(p)
<1> DEFINE p == down[1]
<1>1. /\ down' \in Seq(Packet)
      /\ Head(down) = p /\ p \in Packet
      /\ Len(down) \in Nat \ {0} /\ Len(down') = Len(down) - 1
      /\ \A j \in 1..Len(down') : j + 1 \in 1..Len(down) /\ down'[j] = down[j + 1]
  BY TailDoes DEF Deliver
<1>2. Dispatch(p)
  BY <1>1 DEF Deliver
<1> HIDE DEF p
<1>3. ASSUME p.cmd = "OTA_BEGIN", ota_begin(p.image, ~calm)
      PROVE  NodeBegins(p)
  BY <1>3 DEF ota_begin, NodeBegins, flashVars
<1>4. ASSUME p.cmd = "OTA_DATA", NEW d \in {p.chunk, Noise}, NEW fails, ota_write(d, fails)
      PROVE  NodeWrites(p) \/ NodeAborts(p)
  <2> USE <1>4
  <2>1. s_active /\ (WriteChunk(d) \/ AbortUpdate)
    BY DEF ota_write
  <2> QED BY <2>1 DEF NodeWrites, NodeAborts
<1>5. ASSUME p.cmd = "OTA_END", ota_end(~calm)
      PROVE  NodeCommits(p) \/ NodeAborts(p)
  BY <1>5 DEF ota_end, NodeCommits, NodeAborts
<1>6. NodeBegins(p) \/ NodeWrites(p) \/ NodeCommits(p) \/ NodeAborts(p) \/ NodeIgnores(p)
  BY <1>2, <1>3, <1>4, <1>5 DEF Dispatch, NodeIgnores
<1> QED BY <1>1, <1>2, <1>6 DEF p

LEMMA ChunkTypes ==
  ASSUME NEW p \in Packet
  PROVE  /\ p.cmd \in {"OTA_BEGIN", "OTA_DATA", "OTA_END"}
         /\ p.cmd = "OTA_BEGIN" => p.image \in Images
         /\ p.cmd = "OTA_DATA" => p.chunk \in Content
BY DEF Packet

-----------------------------------------------------------------------------
(***************************************************************************)
(* The node keeps its own invariant, and everything its type.              *)
(***************************************************************************)
LEMMA NodeKeeps ==
  ASSUME TypeOK, OtaIInv, [Next]_vars
  PROVE  OtaIInv'
<1>1. CASE HostSide
  BY <1>1, HostSideIdle, QuietStep DEF NodeIdle, Statuses
<1>2. CASE Deliver
  <2>1. PICK p \in Packet : Dispatch(p)
    BY <1>2, DeliverDoes
  <2>2. ASSUME p.cmd = "OTA_BEGIN", ota_begin(p.image, ~calm)
        PROVE  OtaIInv'
    <3>1. ota_begin(p.image, TRUE)
      BY <2>2 DEF ota_begin
    <3> QED BY <2>2, <3>1, ChunkTypes, BeginStep
  <2>3. ASSUME NEW d \in Content, NEW fails, ota_write(d, fails)
        PROVE  OtaIInv'
    <3>1. s_active /\ (WriteChunk(d) \/ AbortUpdate)
      BY <2>3 DEF ota_write
    <3> QED BY <3>1, WriteStep, AbortStep
  <2>4. ASSUME ota_end(~calm)
        PROVE  OtaIInv'
    BY <2>4, CommitStep, AbortStep DEF ota_end
  <2>5. ASSUME Ignore
        PROVE  OtaIInv'
    BY <2>5, QuietStep DEF Ignore, Statuses
  <2>6. Noise \in Content
    BY DEF Content
  <2> QED BY <2>1, <2>2, <2>3, <2>4, <2>5, <2>6, ChunkTypes DEF Dispatch
<1>3. CASE NodeRestart
  BY <1>3, RestartStep DEF NodeRestart
<1>4. CASE UNCHANGED vars
  BY <1>4, QuietStep DEF vars, otaVars, OtaIInv, OtaTypeOK
<1> QED BY <1>1, <1>2, <1>3, <1>4 DEF Next, HostSide

LEMMA UploadTypesNext ==
  ASSUME TypeOK, OtaIInv, [Next]_vars
  PROVE  TypeOK'
<1>1. OtaTypeOK'
  BY NodeKeeps DEF OtaIInv
<1>2. /\ pc \in [Uploads -> Places] /\ sent \in [Uploads -> Nat]
      /\ answer \in [Uploads -> Statuses] /\ pending \in Uploads \cup {Nobody}
      /\ down \in Seq(Packet) /\ up \in Seq(Statuses) /\ installed \subseteq Images
      /\ ready \in Seq(Uploads)
  BY DEF TypeOK
<1> DEFINE Rests(u) == \/ BeginAnswered(u) /\ answer[u] # "in_progress" /\ Goto(u, "false")
                       \/ EndAnswered(u) \/ TimedOut(u)
<1>0. ASSUME NEW u \in Uploads, ready # <<>>
      PROVE  Tail(ready) \in Seq(Uploads) /\ Append(Tail(ready), u) \in Seq(Uploads)
  BY <1>0, TailIs, AppendIs DEF TypeOK
<1>3. calm' \in BOOLEAN
  <2>1. calm' = calm \/ calm' = TRUE
    BY DEF Next, Upload, PushBegin, BeginAnswered, PushChunk, PushEnd, EndAnswered, TimedOut,
           SendRaises, HostRestart, OnOtaStatus, Deliver, LoseDown, LoseUp, NodeRestart, Calm,
           HostStep, vars
  <2>2. calm \in BOOLEAN
    BY DEF TypeOK
  <2> QED BY <2>1, <2>2
<1>4. {"idle", "true", "false", "lost", "begin", "stream", "end"} = Places /\ "none" \in Statuses
  BY DEF Places, Busy, Statuses
<1>5. ASSUME NEW u \in Uploads, PushBegin(u) \/ PushEnd(u)
      PROVE  TypeOK'
  <2>1. down' \in Seq(Packet)
    BY <1>5, PacketTypes, SendDoes DEF PushBegin, PushEnd
  <2>2. pc' \in [Uploads -> Places]
    BY <1>2, <1>4, <1>5 DEF PushBegin, PushEnd, Goto
  <2>3. answer' \in [Uploads -> Statuses] /\ pending' \in Uploads \cup {Nobody}
    BY <1>2, <1>4, <1>5 DEF PushBegin, PushEnd, Register
  <2>4. ready' \in Seq(Uploads)
    BY <1>0, <1>2, <1>5 DEF PushBegin, PushEnd, Resumed
  <2> QED
    BY <1>1, <1>2, <1>3, <1>5, <2>1, <2>2, <2>3, <2>4 DEF TypeOK, PushBegin, PushEnd, HostStep
<1>6. ASSUME NEW u \in Uploads, Rests(u), UNCHANGED down
      PROVE  TypeOK'
  <2>0. pc' = [pc EXCEPT ![u] = "true"] \/ pc' = [pc EXCEPT ![u] = "false"]
    BY <1>6 DEF EndAnswered, TimedOut, Goto
  <2>1. pc' \in [Uploads -> Places]
    BY <1>2, <1>4, <2>0
  <2>2. answer' \in [Uploads -> Statuses] /\ pending' \in Uploads \cup {Nobody}
    BY <1>2, <1>4, <1>6 DEF BeginAnswered, EndAnswered, TimedOut, Unregister
  <2>3. ready' \in Seq(Uploads) /\ sent' = sent
    BY <1>0, <1>2, <1>6 DEF BeginAnswered, EndAnswered, TimedOut, Resumed
  <2>4. NodeIdle /\ UNCHANGED <<up, installed, calm>>
    BY <1>6 DEF BeginAnswered, EndAnswered, TimedOut, HostStep
  <2> QED BY <1>1, <1>2, <1>3, <1>6, <2>1, <2>2, <2>3, <2>4 DEF TypeOK
<1>7. ASSUME NEW u \in Uploads, GoesOn(u)
      PROVE  TypeOK'
  <2>1. down' \in Seq(Packet)
    BY <1>7, GoesOnDoes, PacketTypes, SendDoes DEF SendChunk
  <2>2. sent' \in [Uploads -> Nat]
    <3>1. sent' = [sent EXCEPT ![u] = sent[u] + 1]
      BY <1>7, GoesOnDoes DEF SendChunk
    <3> QED BY <1>2, <3>1
  <2>3. pc' \in [Uploads -> Places]
    BY <1>2, <1>4, <1>7, GoesOnDoes DEF Goto
  <2>4. ready' \in Seq(Uploads)
    <3>1. ready # <<>> /\ ready' = Append(Tail(ready), u)
      BY <1>7, GoesOnDoes DEF Resumed, SendChunk
    <3> QED BY <1>0, <3>1
  <2>5. answer' \in [Uploads -> Statuses] /\ pending' \in Uploads \cup {Nobody}
    <3>1. answer' = answer \/ answer' = [answer EXCEPT ![u] = "none"]
      BY <1>7, GoesOnDoes
    <3>2. pending' = pending \/ pending' = Nobody
      BY <1>7, GoesOnDoes
    <3> QED BY <1>2, <1>4, <3>1, <3>2
  <2>6. UNCHANGED <<up, installed, calm>>
    BY <1>7, GoesOnDoes
  <2> QED BY <1>1, <1>2, <1>3, <2>1, <2>2, <2>3, <2>4, <2>5, <2>6 DEF TypeOK
<1>8. ASSUME NEW u \in Uploads, SendRaises(u)
      PROVE  TypeOK'
  <2>1. pc' \in [Uploads -> Places]
    BY <1>2, <1>4, <1>8 DEF SendRaises, Goto
  <2>2. answer' \in [Uploads -> Statuses] /\ pending' \in Uploads \cup {Nobody}
    BY <1>2, <1>4, <1>8 DEF SendRaises, Register, Unregister
  <2>3. ready' \in Seq(Uploads)
    BY <1>0, <1>2, <1>8 DEF SendRaises, Resumed
  <2> QED BY <1>1, <1>2, <1>3, <1>8, <2>1, <2>2, <2>3 DEF TypeOK, SendRaises, HostStep
<1>9. CASE HostRestart
  <2>1. pc' \in [Uploads -> Places]
    BY <1>2, <1>4, <1>9 DEF HostRestart
  <2> QED BY <1>1, <1>2, <1>3, <1>9, <2>1 DEF TypeOK, HostRestart, HostStep
<1>10. CASE OnOtaStatus
  <2>1. up' \in Seq(Statuses) /\ Head(up) \in Statuses
    BY <1>10, UpTailDoes DEF OnOtaStatus
  <2>2. answer' \in [Uploads -> Statuses]
    BY <1>2, <1>10, <2>1 DEF OnOtaStatus
  <2>3. ready' \in Seq(Uploads)
    <3>1. \A u \in Uploads : Append(ready, u) \in Seq(Uploads)
      BY <1>2, AppendIs
    <3>2. ready' = ready \/ \E u \in Uploads : ready' = Append(ready, u)
      BY <1>10 DEF OnOtaStatus
    <3> QED BY <1>2, <3>1, <3>2
  <2> QED BY <1>1, <1>2, <1>3, <1>10, <2>1, <2>2, <2>3 DEF TypeOK, OnOtaStatus
<1>11. CASE Deliver
  <2>1. down' \in Seq(Packet)
    BY <1>11, DeliverDoes
  <2>2. status' \in Statuses
    BY <1>1 DEF OtaTypeOK
  <2>3. up' \in Seq(Statuses)
    BY <1>2, <1>11, <2>2, AppendIs DEF Deliver
  <2>4. installed' \subseteq Images
    BY <1>2, <1>11 DEF Deliver
  <2> QED BY <1>1, <1>2, <1>3, <1>11, <2>1, <2>3, <2>4 DEF TypeOK, Deliver, hostVars
<1>12. CASE LoseDown \/ LoseUp
  <2>1. down' \in Seq(Packet) /\ up' \in Seq(Statuses)
    BY <1>2, <1>12, TailDoes, UpTailDoes DEF LoseDown, LoseUp
  <2> QED BY <1>1, <1>2, <1>3, <1>12, <2>1 DEF TypeOK, LoseDown, LoseUp, hostVars
<1>13. CASE NodeRestart
  <2>1. down' \in Seq(Packet)
    BY <1>13 DEF NodeRestart
  <2> QED BY <1>1, <1>2, <1>3, <1>13, <2>1 DEF TypeOK, NodeRestart, hostVars
<1>14. CASE Calm \/ UNCHANGED vars
  BY <1>1, <1>2, <1>3, <1>14 DEF TypeOK, Calm, vars, hostVars, lineVars
<1>15. ASSUME NEW u \in Uploads, Upload(u)
       PROVE  TypeOK'
  <2> HIDE DEF Rests
  <2>1. PushBegin(u) \/ PushEnd(u) \/ GoesOn(u) \/ (Rests(u) /\ UNCHANGED down) \/ SendRaises(u)
    BY <1>15, UploadSteps DEF Rests
  <2> QED BY <1>5, <1>6, <1>7, <1>8, <2>1
<1> HIDE DEF Rests
<1> QED
  BY <1>8, <1>9, <1>10, <1>11, <1>12, <1>13, <1>14, <1>15 DEF Next

-----------------------------------------------------------------------------
(***************************************************************************)
(* Where the chunks come from.                                             *)
(***************************************************************************)

\* The start of the slot an update writes to is from before, or just arrived.
LEMMA FirstChunk ==
  ASSUME TypeOK, OtaIInv, NEW p \in Packet,
         NodeBegins(p) \/ NodeWrites(p) \/ NodeCommits(p) \/ NodeAborts(p) \/ NodeIgnores(p),
         s_active', wrote' > 0
  PROVE  \/ s_active /\ wrote > 0 /\ flash'[s_part'][1] = flash[s_part][1]
         \/ p.cmd = "OTA_DATA" /\ flash'[s_part'][1] \in {p.chunk, Noise}
<1>1. NodeWrites(p)
  <2>1. ~NodeBegins(p)
    BY DEF NodeBegins
  <2>2. ~NodeCommits(p) /\ ~NodeAborts(p)
    BY DEF NodeCommits, CommitUpdate, NodeAborts, AbortUpdate
  <2>3. ~NodeIgnores(p)
    BY DEF NodeIgnores, Ignore, updateVars
  <2> QED BY <2>1, <2>2, <2>3
<1>2. PICK d \in {p.chunk, Noise} : WriteChunk(d)
  BY <1>1 DEF NodeWrites
<1>3. /\ flash' = [flash EXCEPT ![s_part][wrote + 1] = d]
      /\ s_part' = s_part /\ wrote < SLOT_SIZE
  BY <1>2 DEF WriteChunk
<1>4. /\ flash \in [Slots -> [Offsets -> Content]] /\ s_part \in Slots
      /\ wrote \in 0..SLOT_SIZE
  BY DEF OtaIInv, OtaTypeOK
<1>5. 1 \in Offsets /\ wrote + 1 \in Offsets
  BY <1>3, <1>4, SlotSizePositive DEF Offsets
<1>6. CASE wrote = 0
  <2>1. flash'[s_part][1] = d
    BY <1>3, <1>4, <1>5, <1>6
  <2> QED BY <1>1, <1>3, <2>1 DEF NodeWrites
<1>7. CASE wrote > 0
  <2>1. flash'[s_part][1] = flash[s_part][1]
    BY <1>3, <1>4, <1>5, <1>7
  <2> QED BY <1>1, <1>3, <1>7, <2>1 DEF NodeWrites
<1> QED BY <1>4, <1>6, <1>7

\* Nothing makes an upload unstarted.
LEMMA StartedStays ==
  ASSUME TypeOK, [Next]_vars, NEW v \in Uploads, pc[v] # "idle"
  PROVE  pc'[v] # "idle"
<1>1. pc \in [Uploads -> Places]
  BY DEF TypeOK
<1>2. ASSUME NEW u \in Uploads, Upload(u) \/ SendRaises(u)
      PROVE  pc'[v] # "idle"
  <2>1. pc' = pc \/ \E place \in {"begin", "stream", "end", "true", "false", "lost"} : Goto(u, place)
    BY <1>2 DEF Upload, PushBegin, BeginAnswered, SendChunk, PushChunk, PushEnd, EndAnswered,
                TimedOut, SendRaises
  <2> QED BY <1>1, <2>1 DEF Goto
<1>3. CASE HostRestart
  BY <1>1, <1>3 DEF HostRestart
<1>4. CASE ~HostRestart /\ ~\E u \in Uploads : Upload(u) \/ SendRaises(u)
  BY <1>4 DEF Next, OnOtaStatus, Deliver, LoseDown, LoseUp, NodeRestart, Calm, vars, hostVars
<1> QED BY <1>2, <1>3, <1>4

LEMMA OriginNext ==
  ASSUME TypeOK, OtaIInv, OriginInv, [Next]_vars
  PROVE  OriginInv'
<1> USE DEF OriginInv
<1>1. ASSUME NEW v \in Uploads
      PROVE  pc[v] # "idle" => pc'[v] # "idle"
  BY StartedStays
<1>2. UNCHANGED down => ChunksSent'
  BY <1>1 DEF ChunksSent
<1>3. down # <<>> /\ down' = Tail(down) => ChunksSent'
  BY <1>1, TailDoes DEF ChunksSent
<1>4. UNCHANGED <<flash, s_part, s_active, wrote>> => FirstChunkSent'
  BY <1>1 DEF FirstChunkSent
<1>5. CASE HostSide
  <2>1. FirstChunkSent'
    BY <1>4, <1>5, HostSideIdle DEF NodeIdle, flashVars, updateVars
  <2>2. ASSUME NEW u \in Uploads, NEW p \in Packet, Send(p),
               p.cmd = "OTA_DATA" => pc[u] # "idle" /\ Of(p.chunk, Image[u])
        PROVE  ChunksSent'
    <3>1. /\ Len(down) \in Nat /\ Len(down') = Len(down) + 1
          /\ \A j \in 1..Len(down) : down'[j] = down[j]
          /\ down'[Len(down) + 1] = p
      BY <2>2, SendDoes
    <3>2. ASSUME NEW j \in 1..Len(down'), down'[j].cmd = "OTA_DATA"
          PROVE  \E v \in Uploads : pc'[v] # "idle" /\ Of(down'[j].chunk, Image[v])
      <4>1. CASE j \in 1..Len(down)
        BY <1>1, <3>1, <3>2, <4>1 DEF ChunksSent
      <4>2. CASE j = Len(down) + 1
        BY <1>1, <2>2, <3>1, <3>2, <4>2
      <4> QED BY <3>1, <4>1, <4>2
    <3> QED BY <3>2 DEF ChunksSent
  <2>3. ASSUME NEW u \in Uploads, PushBegin(u) \/ PushEnd(u)
        PROVE  ChunksSent'
    <3>1. PICK p \in Packet : Send(p) /\ p.cmd \in {"OTA_BEGIN", "OTA_END"}
      BY <2>3, PacketTypes DEF PushBegin, PushEnd
    <3> QED BY <2>2, <3>1
  <2>4. ASSUME NEW u \in Uploads, GoesOn(u)
        PROVE  ChunksSent'
    <3> DEFINE p == [cmd |-> "OTA_DATA", chunk |-> <<Image[u], sent[u] + 1>>]
    <3>1. p \in Packet /\ Send(p) /\ pc[u] # "idle"
      BY <2>4, GoesOnDoes, PacketTypes DEF SendChunk
    <3>2. Of(p.chunk, Image[u])
      BY DEF TypeOK, Of
    <3> HIDE DEF p
    <3> QED BY <2>2, <3>1, <3>2
  <2>5. ASSUME NEW u \in Uploads, Upload(u) \/ SendRaises(u)
        PROVE  ChunksSent'
    BY <1>2, <2>3, <2>4, <2>5, UploadSteps
  <2>6. CASE HostRestart \/ OnOtaStatus \/ LoseUp \/ Calm
    <3>1. UNCHANGED down
      BY <2>6 DEF HostRestart, OnOtaStatus, LoseUp, Calm, lineVars
    <3> QED BY <1>2, <2>1, <3>1
  <2>7. CASE LoseDown
    <3>1. down # <<>> /\ down' = Tail(down)
      BY <2>7 DEF LoseDown
    <3> QED BY <1>3, <2>1, <3>1
  <2> QED BY <1>5, <2>1, <2>5, <2>6, <2>7 DEF HostSide
<1>6. CASE Deliver
  <2>1. ChunksSent'
    BY <1>3, <1>6 DEF Deliver
  <2>2. PICK p \in Packet :
           /\ p = down[1] /\ Len(down) \in Nat \ {0}
           /\ \/ NodeBegins(p) \/ NodeWrites(p) \/ NodeCommits(p) \/ NodeAborts(p)
              \/ NodeIgnores(p)
    BY <1>6, DeliverDoes
  <2>3. ASSUME s_active', wrote' > 0
        PROVE  \/ flash'[s_part'][1] = Noise
               \/ \E v \in Uploads : pc'[v] # "idle" /\ Of(flash'[s_part'][1], Image[v])
    <3>1. CASE s_active /\ wrote > 0 /\ flash'[s_part'][1] = flash[s_part][1]
      BY <1>1, <3>1 DEF FirstChunkSent
    <3>2. CASE p.cmd = "OTA_DATA" /\ flash'[s_part'][1] \in {p.chunk, Noise}
      BY <1>1, <2>2, <3>2 DEF ChunksSent
    <3> QED BY <2>2, <2>3, <3>1, <3>2, FirstChunk
  <2>4. FirstChunkSent'
    BY <2>3 DEF FirstChunkSent
  <2> QED BY <2>1, <2>4
<1>7. CASE NodeRestart
  BY <1>7 DEF NodeRestart, Restart, ChunksSent, FirstChunkSent
<1>8. CASE UNCHANGED vars
  BY <1>2, <1>4, <1>8 DEF vars, otaVars, flashVars, updateVars, lineVars
<1> QED BY <1>5, <1>6, <1>7, <1>8 DEF Next, HostSide

\* The node's invariant, and where the chunks come from, whatever overlaps.
LEMMA UploadInit == Init => UploadIInv
<1> SUFFICES ASSUME Init PROVE UploadIInv
  OBVIOUS
<1>1. OtaIInv
  BY InitInvariant DEF Init
<1>2. TypeOK
  <2>2. "idle" \in Places /\ "none" \in Statuses
    BY DEF Places, Statuses
  <2>3. calm \in BOOLEAN
    BY UploadAssumption DEF Init
  <2> QED BY <1>1, <2>2, <2>3 DEF Init, TypeOK, OtaIInv
<1>3. OriginInv
  BY DEF Init, OtaInit, OriginInv, ChunksSent, FirstChunkSent
<1> QED BY <1>1, <1>2, <1>3 DEF UploadIInv

LEMMA UploadNext == UploadIInv /\ [Next]_vars => UploadIInv'
<1> SUFFICES ASSUME UploadIInv, [Next]_vars PROVE UploadIInv'
  OBVIOUS
<1> QED BY UploadTypesNext, NodeKeeps, OriginNext DEF UploadIInv

\* The inductive invariant, with uploads that may overlap: types, the node's own
\* invariant, and that what is on the line or in the node was sent by some upload
\* (push_firmware over the node's ota_handler.c).
THEOREM UploadInvariant == Spec => []UploadIInv
<1> QED BY UploadInit, UploadNext, PTL DEF Spec

\* What is committed is one image, the one the slot starts with.
LEMMA CommitsOne ==
  ASSUME OtaIInv, CommitUpdate
  PROVE  \E i \in Apps : /\ {x \in Images : Holds(s_part, x)} = {i}
                         /\ wrote > 0 /\ flash[s_part][1] = <<i, 1>>
<1>1. PICK i \in Apps : Holds(s_part, i)
  BY DEF CommitUpdate, Accepted, Valid
<1>2. \A x \in Images : Holds(s_part, x) => flash[s_part][1] = <<x, 1>>
  <2> SUFFICES ASSUME NEW x \in Images, Holds(s_part, x)
               PROVE  flash[s_part][1] = <<x, 1>>
    OBVIOUS
  <2>1. Size[x] \in Nat \ {0}
    OBVIOUS
  <2>2. 1 \in 1..Size[x]
    BY <2>1
  <2> QED BY <2>2 DEF Holds
<1>3. i \in Images
  OBVIOUS
<1>4. flash[s_part][1] = <<i, 1>>
  BY <1>1, <1>2, <1>3
<1>5. \A x \in Images : Holds(s_part, x) => x = i
  BY <1>2, <1>4
<1> QED BY <1>1, <1>3, <1>4, <1>5 DEF CommitUpdate, Accepted

LEMMA ChunkOf ==
  ASSUME NEW i \in Images, NEW x, <<i, 1>> = Noise \/ Of(<<i, 1>>, x)
  PROVE  i = x
<1>1. <<i, 1>> \in Images \X Nat
  OBVIOUS
<1>2. <<i, 1>> # Noise
  BY <1>1
<1> QED BY <1>2 DEF Of

-----------------------------------------------------------------------------
(***************************************************************************)
(* An upload that is alone.                                                *)
(***************************************************************************)

\* Only PushBegin makes an upload busy, when no other is.
LEMMA BecomesBusy ==
  ASSUME TypeOK, [Next]_vars, NEW u \in Uploads, pc'[u] \in Busy
  PROVE  pc[u] \in Busy \/ PushBegin(u)
<1> USE DEF Busy
<1>1. pc \in [Uploads -> Places]
  BY DEF TypeOK
<1>2. ASSUME NEW v \in Uploads, PushBegin(v)
      PROVE  pc[u] \in Busy \/ PushBegin(u)
  BY <1>1, <1>2 DEF PushBegin, Goto
<1>3. ASSUME NEW v \in Uploads, Upload(v) \/ SendRaises(v), ~PushBegin(v)
      PROVE  pc[u] \in Busy
  <2>1. pc' = pc \/ (\E place \in {"true", "false", "lost"} : Goto(v, place)) \/ pc[v] \in Busy
    BY <1>3 DEF Upload, BeginAnswered, PushChunk, PushEnd, EndAnswered, TimedOut, SendRaises
  <2>2. \E place : Goto(v, place) \/ pc' = pc
    BY <1>3 DEF Upload, BeginAnswered, SendChunk, PushChunk, PushEnd, EndAnswered, TimedOut,
                SendRaises
  <2> QED BY <1>1, <2>1, <2>2 DEF Goto
<1>4. CASE HostRestart
  BY <1>1, <1>4 DEF HostRestart
<1>5. CASE ~HostRestart /\ ~\E v \in Uploads : Upload(v) \/ SendRaises(v)
  BY <1>5 DEF Next, OnOtaStatus, Deliver, LoseDown, LoseUp, NodeRestart, Calm, vars, hostVars
<1> QED BY <1>2, <1>3, <1>4, <1>5

LEMMA StartsAlone ==
  ASSUME Alone, NEW u \in Uploads, MayStart(u)
  PROVE  Settled /\ \A v \in Uploads : pc[v] \notin Busy
BY DEF Alone, MayStart

LEMMA OneBusyNext ==
  ASSUME Alone, TypeOK, OneBusy, [Next]_vars
  PROVE  OneBusy'
<1> SUFFICES ASSUME NEW u \in Uploads, NEW v \in Uploads, pc'[u] \in Busy, pc'[v] \in Busy
             PROVE  u = v
  BY DEF OneBusy
<1>1. pc[u] \in Busy \/ PushBegin(u)
  BY BecomesBusy
<1>2. pc[v] \in Busy \/ PushBegin(v)
  BY BecomesBusy
<1>3. ASSUME NEW x \in Uploads, NEW y \in Uploads, PushBegin(x), pc'[y] \in Busy
      PROVE  x = y
  <2>1. pc[y] \notin Busy
    BY <1>3, StartsAlone DEF PushBegin
  <2>2. PushBegin(y)
    BY <1>3, <2>1, BecomesBusy
  <2>3. pc \in [Uploads -> Places] /\ pc[y] # "begin"
    BY <2>1 DEF TypeOK, Busy
  <2>4. pc'[y] = "begin"
    BY <2>2, <2>3 DEF PushBegin, Goto
  <2> QED BY <1>3, <2>3, <2>4 DEF PushBegin, Goto
<1> QED BY <1>1, <1>2, <1>3 DEF OneBusy

\* What may happen while an upload is busy and stays so.
LEMMA WhileBusy ==
  ASSUME Alone, TypeOK, OneBusy, Next, NEW u \in Uploads, pc[u] \in Busy, pc'[u] \in Busy
  PROVE  \/ GoesOn(u) \/ PushEnd(u)
         \/ OnOtaStatus \/ Deliver \/ LoseDown \/ LoseUp \/ NodeRestart \/ Calm
<1>1. pc \in [Uploads -> Places]
  BY DEF TypeOK
<1>2. ASSUME NEW v \in Uploads, Upload(v) \/ SendRaises(v)
      PROVE  v = u
  <2>1. ~MayStart(v)
    BY StartsAlone
  <2>2. pc[v] \in Busy
    BY <1>2, <2>1 DEF Upload, PushBegin, BeginAnswered, PushChunk, PushEnd, EndAnswered,
                      TimedOut, SendRaises, Busy
  <2> QED BY <2>2 DEF OneBusy
<1>3. ~PushBegin(u) /\ ~SendRaises(u) /\ ~EndAnswered(u) /\ ~TimedOut(u)
  <2>1. ~Goto(u, "lost") /\ ~Goto(u, "true") /\ ~Goto(u, "false")
    BY <1>1 DEF Goto, Busy
  <2>2. pc[u] # "idle"
    BY DEF Busy
  <2> QED BY <2>1, <2>2 DEF PushBegin, SendRaises, EndAnswered, TimedOut
<1>4. BeginAnswered(u) => GoesOn(u)
  <2>1. ~Goto(u, "false")
    BY <1>1 DEF Goto, Busy
  <2> QED BY <2>1 DEF BeginAnswered, GoesOn
<1>5. ~HostRestart
  BY <1>1 DEF HostRestart, Busy
<1> QED BY <1>2, <1>3, <1>4, <1>5 DEF Next, Upload, GoesOn

\* What was installed stays so in the record.
LEMMA InstalledGrows ==
  ASSUME [Next]_vars
  PROVE  installed \subseteq installed'
<1>1. CASE HostSide
  BY <1>1, HostSideIdle
<1>2. CASE ~HostSide
  BY <1>2 DEF Next, HostSide, Deliver, NodeRestart, vars
<1> QED BY <1>1, <1>2

LEMMA TrueNext ==
  ASSUME Alone, TypeOK, AloneInv, [Next]_vars
  PROVE  TrueMeansInstalled'
<1> SUFFICES ASSUME NEW u \in Uploads, pc'[u] = "true"
             PROVE  Image[u] \in installed
  BY InstalledGrows DEF TrueMeansInstalled
<1>1. pc \in [Uploads -> Places]
  BY DEF TypeOK
<1>2. CASE pc[u] = "true"
  BY <1>2 DEF AloneInv, TrueMeansInstalled
<1>3. CASE pc[u] # "true"
  <2>1. ~HostRestart
    BY <1>1, <1>3 DEF HostRestart
  <2>2. PICK v \in Uploads : Upload(v) \/ SendRaises(v)
    BY <1>3, <2>1 DEF Next, OnOtaStatus, Deliver, LoseDown, LoseUp, NodeRestart, Calm, vars, hostVars
  <2>3. EndAnswered(v) /\ answer[v] = "ok"
    <3>1. ~\E place \in {"begin", "stream", "end", "false", "lost"} : Goto(v, place)
      BY <1>1, <1>3 DEF Goto
    <3>2. pc' # pc
      BY <1>3
    <3> QED BY <2>2, <3>1, <3>2 DEF Upload, PushBegin, BeginAnswered, SendChunk, PushChunk,
                                    PushEnd, EndAnswered, TimedOut, SendRaises
  <2>4. v = u
    BY <1>1, <1>3, <2>3 DEF EndAnswered, Goto
  <2> QED BY <2>3, <2>4 DEF EndAnswered, AloneInv, BusyInv, Busy, OkTrue
<1> QED BY <1>2, <1>3

\* The update of u, when the node does not touch it or delivers what the line
\* holds of u.
LEMMA UpdateKept ==
  ASSUME NEW u \in Uploads, UpdateOf(u), UNCHANGED <<flash, s_part, s_active, wrote>>
  PROVE  UpdateOf(u)'
BY DEF UpdateOf

LEMMA IdleKeepsUpdate ==
  ASSUME NEW u \in Uploads, UpdateOf(u), NodeIdle
  PROVE  UpdateOf(u)'
BY UpdateKept DEF NodeIdle, flashVars, updateVars

\* The four parts of BusyInv for one upload.
Part(u) == LineOf(u) /\ BeginPhase(u) /\ LaterPhase(u) /\ OkTrue(u)

LEMMA PartStarts ==
  ASSUME Alone, TypeOK, NEW u \in Uploads, PushBegin(u)
  PROVE  Part(u)'
<1>1. down = <<>> /\ up = <<>>
  BY StartsAlone DEF PushBegin, Settled
<1>2. pc'[u] = "begin" /\ answer'[u] = "none" /\ up' = <<>>
  BY <1>1 DEF PushBegin, Goto, Register, HostStep, TypeOK
<1>3. Len(down') = 1 /\ down'[1].cmd = "OTA_BEGIN"
  <2>1. PICK p \in Packet : Send(p) /\ p.cmd = "OTA_BEGIN"
    BY PacketTypes DEF PushBegin
  <2>2. Len(down) = 0
    BY <1>1
  <2> QED BY <2>1, <2>2, SendDoes
<1>4. LineOf(u)'
  BY <1>2, <1>3 DEF LineOf
<1>5. BeginPhase(u)' /\ LaterPhase(u)'
  BY <1>2, <1>3 DEF BeginPhase, LaterPhase
<1>6. OkTrue(u)'
  BY <1>2 DEF OkTrue
<1> QED BY <1>4, <1>5, <1>6 DEF Part

\* Its coroutine sends a packet, in a phase in which the update is already u's.
LEMMA PartSends ==
  ASSUME TypeOK, NEW u \in Uploads, Part(u), GoesOn(u) \/ PushEnd(u)
  PROVE  Part(u)'
<1> USE DEF Part
<1>1. pc \in [Uploads -> Places] /\ answer \in [Uploads -> Statuses] /\ sent \in [Uploads -> Nat]
  BY DEF TypeOK
<1>2. NodeIdle /\ up' = up /\ installed' = installed
  BY GoesOnDoes DEF PushEnd, HostStep
<1>3. PICK p \in Packet :
         /\ Send(p)
         /\ \/ p.cmd = "OTA_DATA" /\ Of(p.chunk, Image[u]) /\ pc'[u] = "stream"
            \/ p.cmd = "OTA_END" /\ pc'[u] = "end"
  <2>1. CASE GoesOn(u)
    <3>1. [cmd |-> "OTA_DATA", chunk |-> <<Image[u], sent[u] + 1>>] \in Packet
      BY PacketTypes
    <3>2. Of(<<Image[u], sent[u] + 1>>, Image[u])
      BY <1>1 DEF Of
    <3>3. pc'[u] = "stream" /\ SendChunk(u)
      BY <1>1, <2>1, GoesOnDoes DEF Goto
    <3> QED BY <3>1, <3>2, <3>3 DEF SendChunk
  <2>2. CASE PushEnd(u)
    <3>1. [cmd |-> "OTA_END"] \in Packet
      BY PacketTypes
    <3> QED BY <1>1, <2>2, <3>1 DEF PushEnd, Goto
  <2> QED BY <2>1, <2>2
<1>4. /\ Len(down) \in Nat /\ Len(down') = Len(down) + 1
      /\ \A j \in 1..Len(down) : down'[j] = down[j]
      /\ down'[Len(down) + 1] = p
  BY <1>3, SendDoes
<1>5. pc[u] = "stream" \/ (pc[u] = "begin" /\ down = <<>> /\ UpdateOf(u))
  BY DEF GoesOn, BeginAnswered, BeginPhase, PushChunk, PushEnd
<1>6. LineOf(u)'
  <2> SUFFICES ASSUME NEW j \in 1..Len(down')
               PROVE  /\ down'[j].cmd = "OTA_BEGIN" => pc'[u] = "begin"
                      /\ down'[j].cmd = "OTA_DATA" => pc'[u] # "begin" /\ Of(down'[j].chunk, Image[u])
                      /\ down'[j].cmd = "OTA_END" => pc'[u] = "end"
    BY DEF LineOf
  <2>1. CASE j \in 1..Len(down)
    <3>1. pc[u] = "stream"
      <4>1. down # <<>>
        BY <2>1
      <4> QED BY <1>5, <4>1
    <3> QED BY <1>3, <1>4, <2>1, <3>1 DEF LineOf
  <2>2. CASE j = Len(down) + 1
    BY <1>3, <1>4, <2>2
  <2> QED BY <1>4, <2>1, <2>2
<1>7. BeginPhase(u)'
  BY <1>3 DEF BeginPhase
<1>8. LaterPhase(u)'
  <2>1. UpdateOf(u)'
    BY <1>2, <1>5, IdleKeepsUpdate DEF LaterPhase
  <2> QED BY <2>1 DEF LaterPhase
<1>9. OkTrue(u)'
  <2>1. answer'[u] = "ok" => answer[u] = "ok"
    BY <1>1, GoesOnDoes DEF PushEnd, Register
  <2> QED BY <1>2, <2>1 DEF OkTrue
<1> QED BY <1>6, <1>7, <1>8, <1>9

\* The answers, and what is lost.
LEMMA PartAnswers ==
  ASSUME TypeOK, NEW u \in Uploads, Part(u), OnOtaStatus \/ LoseUp
  PROVE  Part(u)'
<1> USE DEF Part
<1>1. /\ NodeIdle
      /\ UNCHANGED <<pc, down, installed>>
      /\ up # <<>> /\ up' = Tail(up)
  BY DEF OnOtaStatus, LoseUp, hostVars
<1>2. /\ Len(up) \in Nat \ {0} /\ Head(up) = up[1]
      /\ \A j \in 1..Len(up') : j + 1 \in 1..Len(up) /\ up'[j] = up[j + 1]
  BY <1>1, UpTailDoes
<1>3. answer'[u] = answer[u] \/ answer'[u] = up[1]
  BY <1>2 DEF TypeOK, OnOtaStatus, LoseUp, hostVars
<1>4. LineOf(u)'
  BY <1>1 DEF LineOf
<1>5. BeginPhase(u)'
  <2>1. pc[u] = "begin" => down = <<>> /\ UpdateOf(u)'
    BY <1>1, IdleKeepsUpdate DEF BeginPhase
  <2>2. Len(<<>>) <= 1
    OBVIOUS
  <2> QED BY <1>1, <2>1, <2>2 DEF BeginPhase
<1>6. LaterPhase(u)'
  BY <1>1, IdleKeepsUpdate DEF LaterPhase
<1>7. OkTrue(u)'
  <2>1. 1 \in 1..Len(up)
    BY <1>2
  <2>2. (\E j \in 1..Len(up') : up'[j] = "ok") => \E j \in 1..Len(up) : up[j] = "ok"
    BY <1>2
  <2> QED BY <1>1, <1>3, <2>1, <2>2 DEF OkTrue
<1> QED BY <1>4, <1>5, <1>6, <1>7

LEMMA PartLoses ==
  ASSUME TypeOK, NEW u \in Uploads, Part(u), LoseDown \/ Calm \/ UNCHANGED vars
  PROVE  Part(u)'
<1> USE DEF Part
<1>1. UNCHANGED <<pc, answer, up, installed>>
  BY DEF LoseDown, Calm, hostVars, lineVars, vars
<1>2. UpdateOf(u) => UpdateOf(u)'
  <2>1. UNCHANGED <<flash, s_part, s_active, wrote>>
    BY DEF LoseDown, Calm, NodeIdle, flashVars, updateVars, vars, otaVars
  <2> QED BY <2>1, UpdateKept
<1>3. CASE down # <<>> /\ down' = Tail(down)
  <2>1. /\ Len(down) \in Nat \ {0} /\ Len(down') = Len(down) - 1
        /\ \A j \in 1..Len(down') : j + 1 \in 1..Len(down) /\ down'[j] = down[j + 1]
    BY <1>3, TailDoes
  <2>2. LineOf(u)'
    BY <1>1, <2>1 DEF LineOf
  <2>3. BeginPhase(u)'
    BY <1>1, <1>3, <2>1 DEF BeginPhase
  <2> QED BY <1>1, <1>2, <2>2, <2>3 DEF LaterPhase, OkTrue
<1>4. CASE down' = down
  BY <1>1, <1>2, <1>4 DEF LineOf, BeginPhase, LaterPhase, OkTrue
<1> QED BY <1>3, <1>4 DEF LoseDown, Calm, lineVars, vars

LEMMA PartRestarts ==
  ASSUME TypeOK, NEW u \in Uploads, Part(u), NodeRestart
  PROVE  Part(u)'
<1> USE DEF Part
<1>1. UNCHANGED <<pc, answer, up, installed>> /\ down' = <<>>
  BY DEF NodeRestart, hostVars
<1>2. UpdateOf(u)'
  BY DEF NodeRestart, Restart, UpdateOf
<1>3. Len(down') = 0
  BY <1>1
<1> QED BY <1>1, <1>2, <1>3 DEF LineOf, BeginPhase, LaterPhase, OkTrue

\* A packet of u makes the update of the node that of u, or leaves it so.
LEMMA UpdateDelivered ==
  ASSUME TypeOK, OtaIInv, NEW u \in Uploads, Part(u), pc[u] \in Busy, NEW p \in Packet,
         p = down[1], down # <<>>,
         NodeBegins(p) \/ NodeWrites(p) \/ NodeCommits(p) \/ NodeAborts(p) \/ NodeIgnores(p)
  PROVE  UpdateOf(u)'
<1>1. 1 \in 1..Len(down)
  BY TailIs DEF TypeOK
<1>2. CASE p.cmd = "OTA_BEGIN"
  <2>1. NodeBegins(p)
    BY <1>2 DEF NodeWrites, NodeCommits, NodeAborts, NodeIgnores
  <2> QED BY <2>1 DEF NodeBegins, UpdateOf
<1>3. CASE p.cmd # "OTA_BEGIN"
  <2>1. pc[u] # "begin" /\ (p.cmd = "OTA_DATA" => Of(p.chunk, Image[u]))
    <3>1. p.cmd \in {"OTA_DATA", "OTA_END"}
      BY <1>3, ChunkTypes
    <3> QED BY <1>1, <3>1 DEF Part, LineOf
  <2>2. UpdateOf(u)
    BY <2>1 DEF Part, LaterPhase
  <2>3. SUFFICES ASSUME s_active', wrote' > 0
                 PROVE  flash'[s_part'][1] = Noise \/ Of(flash'[s_part'][1], Image[u])
    BY DEF UpdateOf
  <2>4. \/ s_active /\ wrote > 0 /\ flash'[s_part'][1] = flash[s_part][1]
        \/ p.cmd = "OTA_DATA" /\ flash'[s_part'][1] \in {p.chunk, Noise}
    BY <2>3, FirstChunk
  <2> QED BY <2>1, <2>2, <2>4 DEF UpdateOf
<1> QED BY <1>2, <1>3

\* "ok" is sent for the image of u.
LEMMA OkDelivered ==
  ASSUME TypeOK, OtaIInv, NEW u \in Uploads, Part(u), pc[u] \in Busy, Deliver, status' = "ok"
  PROVE  Image[u] \in installed'
<1>1. PICK p \in Packet :
         /\ p = down[1] /\ Len(down) \in Nat \ {0}
         /\ \/ NodeBegins(p) \/ NodeWrites(p) \/ NodeCommits(p) \/ NodeAborts(p)
            \/ NodeIgnores(p)
  BY DeliverDoes
<1>2. NodeCommits(p)
  BY <1>1 DEF NodeBegins, NodeWrites, WriteChunk, NodeAborts, AbortUpdate, NodeIgnores, Ignore
<1>3. p.cmd = "OTA_END" /\ s_active /\ CommitUpdate
  BY <1>2 DEF NodeCommits
<1>4. pc[u] # "begin"
  BY <1>1, <1>3 DEF Part, LineOf
<1>5. PICK i \in Apps : /\ {x \in Images : Holds(s_part, x)} = {i}
                        /\ wrote > 0 /\ flash[s_part][1] = <<i, 1>>
  BY <1>3, CommitsOne
<1>6. <<i, 1>> = Noise \/ Of(<<i, 1>>, Image[u])
  BY <1>3, <1>4, <1>5 DEF Part, LaterPhase, UpdateOf
<1>7. i = Image[u]
  BY <1>6, ChunkOf
<1> QED BY <1>5, <1>7 DEF Deliver

LEMMA PartDelivers ==
  ASSUME TypeOK, OtaIInv, NEW u \in Uploads, Part(u), pc[u] \in Busy, Deliver
  PROVE  Part(u)'
<1>1. UNCHANGED <<pc, answer>> /\ down # <<>>
  BY DEF Deliver, hostVars
<1>2. PICK p \in Packet :
         /\ p = down[1]
         /\ Len(down) \in Nat \ {0} /\ Len(down') = Len(down) - 1
         /\ \A j \in 1..Len(down') : j + 1 \in 1..Len(down) /\ down'[j] = down[j + 1]
         /\ \/ NodeBegins(p) \/ NodeWrites(p) \/ NodeCommits(p) \/ NodeAborts(p)
            \/ NodeIgnores(p)
  BY DeliverDoes
<1>3. UpdateOf(u)'
  BY <1>1, <1>2, UpdateDelivered
<1>4. LineOf(u)'
  BY <1>1, <1>2 DEF Part, LineOf
<1>5. pc[u] = "begin" => down' = <<>> /\ Len(down') = 0
  <2>1. pc[u] = "begin" => Len(down') = 0
    BY <1>2 DEF Part, BeginPhase
  <2>2. down' \in Seq(Packet)
    BY DeliverDoes
  <2> QED BY <2>1, <2>2
<1>6. BeginPhase(u)'
  BY <1>1, <1>3, <1>5 DEF BeginPhase
<1>7. LaterPhase(u)'
  BY <1>3 DEF LaterPhase
<1>8. OkTrue(u)'
  <2>1. CASE status' = "ok"
    BY <2>1, OkDelivered DEF OkTrue
  <2>2. CASE status' # "ok"
    <3>1. installed' = installed
      BY <2>2 DEF Deliver
    <3>2. up \in Seq(Statuses)
      BY DEF TypeOK
    <3>3. ASSUME NEW j \in 1..Len(up'), up'[j] = "ok"
          PROVE  \E k \in 1..Len(up) : up[k] = "ok"
      <4>1. CASE up' = up
        BY <3>3, <4>1
      <4>2. CASE up' = Append(up, status')
        BY <2>2, <3>2, <3>3, <4>2
      <4> QED BY <4>1, <4>2 DEF Deliver
    <3> QED BY <1>1, <3>1, <3>3 DEF Part, OkTrue
  <2> QED BY <2>1, <2>2
<1> QED BY <1>4, <1>6, <1>7, <1>8 DEF Part

LEMMA AloneInit == Init => AloneInv
BY DEF Init, AloneInv, OneBusy, BusyInv, TrueMeansInstalled, Busy

LEMMA AloneNext ==
  ASSUME Alone, UploadIInv, AloneInv, [Next]_vars
  PROVE  AloneInv'
<1>1. TypeOK /\ OtaIInv /\ OneBusy
  BY DEF UploadIInv, AloneInv
<1>2. OneBusy' /\ TrueMeansInstalled'
  BY <1>1, OneBusyNext, TrueNext
<1>3. BusyInv'
  <2> SUFFICES ASSUME NEW u \in Uploads, pc'[u] \in Busy
               PROVE  Part(u)'
    BY DEF BusyInv, Part
  <2>1. CASE PushBegin(u)
    BY <1>1, <2>1, PartStarts
  <2>2. CASE ~PushBegin(u)
    <3>1. pc[u] \in Busy
      BY <1>1, <2>2, BecomesBusy
    <3>2. Part(u)
      BY <3>1 DEF AloneInv, BusyInv, Part
    <3>3. CASE UNCHANGED vars
      BY <1>1, <3>2, <3>3, PartLoses
    <3>4. CASE Next
      BY <1>1, <3>1, <3>2, <3>4, WhileBusy, PartSends, PartAnswers, PartDelivers,
         PartLoses, PartRestarts
    <3> QED BY <3>3, <3>4
  <2> QED BY <2>1, <2>2
<1> QED BY <1>2, <1>3 DEF AloneInv

\* While an upload is alone, where push_firmware stands says what the node has of
\* its image and which answers can still come; True is returned only after the
\* node has committed it.
THEOREM AloneInvariant == Alone => (Spec => []AloneInv)
<1> SUFFICES ASSUME Alone PROVE Spec => []AloneInv
  OBVIOUS
<1>1. UploadIInv /\ AloneInv /\ [Next]_vars => AloneInv'
  BY AloneNext
<1> QED BY <1>1, AloneInit, UploadInvariant, PTL DEF Spec

\* An upload that is alone and returns True has had its image committed by the
\* node, whatever was lost, damaged or restarted and whatever became of the
\* uploads before (push_firmware).
THEOREM SuccessMeansInstalled == Alone => (Spec => []TrueMeansInstalled)
<1>1. AloneInv => TrueMeansInstalled
  BY DEF AloneInv
<1> QED BY <1>1, AloneInvariant, PTL

\* Whatever uploads overlap and whatever fails, the node has a complete app to
\* boot (push_firmware and the node of NodeOta).
THEOREM UploadsAlwaysBoot == Spec => []AlwaysBoots
<1>1. UploadIInv => AlwaysBoots
  BY DEF UploadIInv, OtaIInv
<1> QED BY <1>1, UploadInvariant, PTL

-----------------------------------------------------------------------------
(***************************************************************************)
(* An upload that is alone implements FirmwareInstall.                     *)
(***************************************************************************)

\* A slot holds at most one image.
LEMMA HoldsOne ==
  ASSUME NEW slot, NEW i \in Images, NEW x \in Images, Holds(slot, i), Holds(slot, x)
  PROVE  i = x
<1>1. 1 \in 1..Size[i] /\ 1 \in 1..Size[x]
  <2>1. Size[i] \in Nat \ {0} /\ Size[x] \in Nat \ {0}
    OBVIOUS
  <2> QED BY <2>1
<1>2. flash[slot][1] = <<i, 1>> /\ flash[slot][1] = <<x, 1>>
  BY <1>1 DEF Holds
<1> QED BY <1>2

BootsWhatItHolds == \A i \in Apps : Holds(boot, i) => Booted = i

LEMMA BootedIs == BootsWhatItHolds
<1> SUFFICES ASSUME NEW i \in Apps, Holds(boot, i)
             PROVE  Booted = i
  BY DEF BootsWhatItHolds
<1>1. Booted = CHOOSE x \in Apps : Holds(boot, x)
  BY DEF Booted, Valid
<1>2. Booted \in Apps /\ Holds(boot, Booted)
  <2> HIDE DEF Booted
  <2> QED BY <1>1
<1> QED BY <1>2, HoldsOne

\* What is booted stays so while its slot does.
LEMMA BootedSame ==
  ASSUME OtaIInv, boot' = boot, flash'[boot] = flash[boot]
  PROVE  Booted' = Booted
<1>1. PICK i \in Apps : Holds(boot, i)
  BY DEF OtaIInv, AlwaysBoots, Valid
<1>2. Holds(boot, i)'
  BY <1>1 DEF Holds
<1>3. Booted = i
  BY <1>1, BootedIs DEF BootsWhatItHolds
<1>4. BootsWhatItHolds'
  BY BootedIs, PTL
<1>5. Booted' = i
  BY <1>2, <1>4 DEF BootsWhatItHolds
<1> QED BY <1>3, <1>5

\* The verdict on each upload.
VerdictTable ==
    /\ Verdict = [v \in Uploads |-> Verdict[v]]
    /\ \A v \in Uploads :
          /\ pc[v] \in Busy => Verdict[v] = "open"
          /\ pc[v] \in {"lost", "false"} => Verdict[v] = "false"
          /\ pc[v] = "idle" => Verdict[v] = "idle"
          /\ pc[v] = "true" => Verdict[v] = "true"

LEMMA VerdictIs == VerdictTable
<1>1. ASSUME NEW v \in Uploads
      PROVE  Verdict[v] = CASE pc[v] \in Busy -> "open"
                            [] pc[v] = "lost" -> "false"
                            [] OTHER -> pc[v]
  BY DEF Verdict
<1>2. Verdict = [v \in Uploads |-> Verdict[v]]
  BY DEF Verdict
<1> QED BY <1>1, <1>2 DEF Busy, VerdictTable

\* An upload, alone among the changes of pc, comes to another place.
LEMMA VerdictMoves ==
  ASSUME TypeOK, NEW u \in Uploads, NEW place, Goto(u, place), Verdict'[u] = Verdict[u]
  PROVE  Verdict' = Verdict
<1>1. VerdictTable /\ VerdictTable'
  BY VerdictIs, PTL
<1>2. ASSUME NEW v \in Uploads
      PROVE  Verdict'[v] = Verdict[v]
  <2>1. CASE v = u
    BY <2>1
  <2>2. CASE v # u
    <3>1. pc'[v] = pc[v]
      BY <2>2 DEF Goto, TypeOK
    <3> QED BY <3>1 DEF Verdict
  <2> QED BY <2>1, <2>2
<1> QED BY <1>1, <1>2 DEF VerdictTable

\* Any number of uploads that have not ended end without success.
LEMMA GivesUp ==
  ASSUME TypeOK, NEW us \in SUBSET Uploads,
         \A v \in us : pc[v] \in Busy \cup {"idle"} /\ pc'[v] \in {"lost", "false"},
         \A v \in Uploads \ us : pc'[v] = pc[v],
         Booted' = Booted, installed' = installed
  PROVE  Abstract!GiveUp(us)
<1>1. VerdictTable /\ VerdictTable'
  BY VerdictIs, PTL
<1>2. \A v \in us : Verdict[v] \in {"idle", "open"}
  BY <1>1 DEF VerdictTable
<1>3. ASSUME NEW v \in Uploads
      PROVE  Verdict'[v] = IF v \in us THEN "false" ELSE Verdict[v]
  <2>1. CASE v \in us
    BY <1>1, <2>1 DEF VerdictTable
  <2>2. CASE v \notin us
    BY <2>2 DEF Verdict
  <2> QED BY <2>1, <2>2
<1>4. Verdict' = [v \in Uploads |-> Verdict'[v]]
  BY <1>1 DEF VerdictTable
<1>5. Verdict' = [v \in Uploads |-> IF v \in us THEN "false" ELSE Verdict[v]]
  <2> HIDE DEF Verdict
  <2> QED BY <1>3, <1>4
<1> QED BY <1>2, <1>5 DEF Abstract!GiveUp

\* One upload ends without success.
LEMMA OneGivesUp ==
  ASSUME TypeOK, NEW u \in Uploads, pc[u] \in Busy \cup {"idle"},
         Goto(u, "lost") \/ Goto(u, "false"), Booted' = Booted, installed' = installed
  PROVE  Abstract!InstallNext
<1>1. pc \in [Uploads -> Places]
  BY DEF TypeOK
<1>2. /\ \A v \in {u} : pc[v] \in Busy \cup {"idle"} /\ pc'[v] \in {"lost", "false"}
      /\ \A v \in Uploads \ {u} : pc'[v] = pc[v]
  BY <1>1 DEF Goto
<1>3. {u} \in SUBSET Uploads
  OBVIOUS
<1>4. Abstract!GiveUp({u})
  BY <1>2, <1>3, GivesUp
<1> QED BY <1>3, <1>4 DEF Abstract!InstallNext

\* One upload goes on, or starts, or ends with success.
LEMMA OneGoesOn ==
  ASSUME TypeOK, NEW u \in Uploads, Booted' = Booted, installed' = installed,
         \/ pc[u] \in Busy /\ (Goto(u, "stream") \/ Goto(u, "end"))
         \/ pc[u] = "idle" /\ Goto(u, "begin")
         \/ pc[u] \in Busy /\ Goto(u, "true") /\ Image[u] \in installed
  PROVE  Abstract!InstallNext \/ UNCHANGED Abstract!installVars
<1> DEFINE Moved(value) == Verdict' = [Verdict EXCEPT ![u] = value]
<1>1. VerdictTable /\ VerdictTable'
  BY VerdictIs, PTL
<1>2. PICK place : Goto(u, place) /\ pc'[u] = place /\ \A v \in Uploads \ {u} : pc'[v] = pc[v]
  BY DEF Goto, TypeOK
<1>3. \A v \in Uploads \ {u} : Verdict'[v] = Verdict[v]
  BY <1>2 DEF Verdict
<1>4. ASSUME NEW value, Verdict'[u] = value
      PROVE  Moved(value)
  <2> HIDE DEF Verdict
  <2> QED BY <1>1, <1>3, <1>4 DEF VerdictTable
<1>5. CASE pc[u] \in Busy /\ pc'[u] \in {"stream", "end"}
  <2>1. Verdict'[u] = Verdict[u]
    BY <1>1, <1>5 DEF VerdictTable, Busy
  <2> QED BY <1>2, <2>1, VerdictMoves DEF Abstract!installVars
<1>6. CASE pc[u] = "idle" /\ pc'[u] = "begin"
  <2>1. Verdict[u] = "idle" /\ Verdict'[u] = "open"
    BY <1>1, <1>6 DEF VerdictTable, Busy
  <2>2. Abstract!Start(u)
    BY <1>4, <2>1 DEF Abstract!Start
  <2> QED BY <2>2 DEF Abstract!InstallNext
<1>7. CASE pc[u] \in Busy /\ pc'[u] = "true" /\ Image[u] \in installed
  <2>1. Verdict[u] = "open" /\ Verdict'[u] = "true"
    BY <1>1, <1>7 DEF VerdictTable
  <2>2. Abstract!Succeed(u)
    BY <1>4, <1>7, <2>1 DEF Abstract!Succeed
  <2> QED BY <2>2 DEF Abstract!InstallNext
<1> QED BY <1>2, <1>5, <1>6, <1>7 DEF Goto, TypeOK

\* The steps of the host and of the line.
LEMMA HostSideInstalls ==
  ASSUME TypeOK, OtaIInv, AloneInv, HostSide
  PROVE  Abstract!InstallNext \/ UNCHANGED Abstract!installVars
<1>1. installed' = installed /\ boot' = boot /\ flash' = flash
  BY HostSideIdle DEF NodeIdle, flashVars
<1>2. Booted' = Booted
  BY <1>1, BootedSame
<1>3. ASSUME NEW u \in Uploads, Upload(u) \/ SendRaises(u)
      PROVE  Abstract!InstallNext \/ UNCHANGED Abstract!installVars
  <2>1. CASE PushBegin(u) \/ PushEnd(u) \/ GoesOn(u)
    BY <1>1, <1>2, <2>1, GoesOnDoes, OneGoesOn DEF PushBegin, PushEnd, Busy
  <2>2. CASE BeginAnswered(u) /\ Goto(u, "false")
    BY <1>1, <1>2, <2>2, OneGivesUp DEF BeginAnswered, Busy
  <2>3. CASE EndAnswered(u)
    <3>1. answer[u] = "ok" => Image[u] \in installed
      BY <2>3 DEF AloneInv, BusyInv, OkTrue, EndAnswered, Busy
    <3> QED BY <1>1, <1>2, <2>3, <3>1, OneGoesOn, OneGivesUp DEF EndAnswered, Busy
  <2>4. CASE TimedOut(u) \/ SendRaises(u)
    BY <1>1, <1>2, <2>4, OneGivesUp DEF TimedOut, SendRaises, Busy
  <2> QED BY <1>3, <2>1, <2>2, <2>3, <2>4, UploadSteps
<1>4. CASE HostRestart
  <2> DEFINE us == {u \in Uploads : pc[u] \in Busy}
  <2>1. /\ \A v \in us : pc[v] \in Busy \cup {"idle"} /\ pc'[v] \in {"lost", "false"}
        /\ \A v \in Uploads \ us : pc'[v] = pc[v]
    BY <1>4 DEF HostRestart
  <2>2. us \in SUBSET Uploads
    OBVIOUS
  <2> HIDE DEF us
  <2>3. \E x \in SUBSET Uploads :
           /\ \A v \in x : pc[v] \in Busy \cup {"idle"} /\ pc'[v] \in {"lost", "false"}
           /\ \A v \in Uploads \ x : pc'[v] = pc[v]
    BY <2>1, <2>2
  <2>4. \E x \in SUBSET Uploads : Abstract!GiveUp(x)
    BY <1>1, <1>2, <2>3, GivesUp
  <2> QED BY <2>4 DEF Abstract!InstallNext
<1>5. ASSUME UNCHANGED pc
      PROVE  UNCHANGED Abstract!installVars
  <2>1. Verdict' = Verdict
    BY <1>5 DEF Verdict
  <2> QED BY <1>1, <1>2, <2>1 DEF Abstract!installVars
<1>6. OnOtaStatus \/ LoseDown \/ LoseUp \/ Calm => UNCHANGED pc
  BY DEF OnOtaStatus, LoseDown, LoseUp, Calm, hostVars
<1> QED BY <1>3, <1>4, <1>5, <1>6 DEF HostSide

\* What the node commits is the image of an upload that was started.
LEMMA CommitInstalls ==
  ASSUME UploadIInv, UNCHANGED pc, s_active, CommitUpdate,
         installed' = installed \cup {x \in Images : Holds(s_part, x)}
  PROVE  Abstract!InstallNext
<1>1. PICK i \in Apps : /\ {x \in Images : Holds(s_part, x)} = {i}
                        /\ wrote > 0 /\ flash[s_part][1] = <<i, 1>>
  BY CommitsOne DEF UploadIInv
<1>2. PICK v \in Uploads : pc[v] # "idle" /\ i = Image[v]
  <2>1. \/ <<i, 1>> = Noise
        \/ \E v \in Uploads : pc[v] # "idle" /\ Of(<<i, 1>>, Image[v])
    BY <1>1 DEF UploadIInv, OriginInv, FirstChunkSent
  <2>2. <<i, 1>> # Noise
    <3>1. <<i, 1>> \in Images \X Nat
      OBVIOUS
    <3> QED BY <3>1
  <2> QED BY <2>1, <2>2, ChunkOf
<1>3. Verdict[v] # "idle" /\ Verdict' = Verdict
  <2>1. VerdictTable
    BY VerdictIs
  <2>2. pc[v] \in Places
    BY DEF UploadIInv, TypeOK
  <2> QED BY <1>2, <2>1, <2>2 DEF VerdictTable, Places, Verdict
<1>4. Booted' = Image[v]
  <2>1. BootsWhatItHolds'
    BY BootedIs, PTL
  <2>2. Holds(s_part, i)
    BY <1>1
  <2>3. boot' = s_part /\ flash' = flash
    BY DEF CommitUpdate
  <2>4. Holds(boot, i)'
    BY <2>2, <2>3 DEF Holds
  <2> QED BY <1>2, <2>1, <2>4 DEF BootsWhatItHolds
<1>5. Abstract!Install(v)
  BY <1>1, <1>2, <1>3, <1>4 DEF Abstract!Install
<1> QED BY <1>5 DEF Abstract!InstallNext

LEMMA StepInstalls ==
  ASSUME UploadIInv, AloneInv, [Next]_vars
  PROVE  [Abstract!InstallNext]_(Abstract!installVars)
<1>1. TypeOK /\ OtaIInv
  BY DEF UploadIInv
<1>2. ASSUME UNCHANGED <<pc, installed, boot>>, flash'[boot] = flash[boot]
      PROVE  UNCHANGED Abstract!installVars
  BY <1>1, <1>2, BootedSame DEF Verdict, Abstract!installVars
<1>3. CASE HostSide
  BY <1>1, <1>3, HostSideInstalls
<1>4. CASE Deliver
  <2>1. UNCHANGED pc
    BY <1>4 DEF Deliver, hostVars
  <2>2. PICK p \in Packet :
           \/ NodeBegins(p) \/ NodeWrites(p) \/ NodeCommits(p) \/ NodeAborts(p)
           \/ NodeIgnores(p)
    BY <1>1, <1>4, DeliverDoes
  <2>3. CASE NodeCommits(p)
    <3>1. s_active /\ CommitUpdate
      BY <2>3 DEF NodeCommits
    <3>2. installed' = installed \cup {x \in Images : Holds(s_part, x)}
      BY <1>4, <3>1 DEF Deliver, CommitUpdate
    <3> QED BY <2>1, <3>1, <3>2, CommitInstalls
  <2>4. CASE NodeWrites(p)
    <3>1. flash'[boot] = flash[boot] /\ boot' = boot /\ status' = "none"
      BY <1>1, <2>4, WriteElsewhere DEF NodeWrites, WriteChunk
    <3>2. installed' = installed
      BY <1>4, <3>1 DEF Deliver
    <3> QED BY <1>2, <2>1, <3>1, <3>2
  <2>5. CASE NodeBegins(p) \/ NodeAborts(p) \/ NodeIgnores(p)
    <3>1. flash' = flash /\ boot' = boot /\ status' # "ok"
      BY <2>5 DEF NodeBegins, NodeAborts, AbortUpdate, NodeIgnores, Ignore, flashVars
    <3>2. installed' = installed
      BY <1>4, <3>1 DEF Deliver
    <3> QED BY <1>2, <2>1, <3>1, <3>2
  <2> QED BY <2>2, <2>3, <2>4, <2>5
<1>5. CASE NodeRestart
  <2>1. UNCHANGED <<pc, installed, boot, flash>>
    BY <1>5 DEF NodeRestart, Restart, hostVars
  <2> QED BY <1>2, <2>1
<1>6. CASE UNCHANGED vars
  <2>1. UNCHANGED <<pc, installed, boot, flash>>
    BY <1>6 DEF vars, otaVars, flashVars, hostVars
  <2> QED BY <1>2, <2>1
<1> QED BY <1>3, <1>4, <1>5, <1>6 DEF Next, HostSide

LEMMA InitInstalls == Init => Abstract!InstallInit
<1> SUFFICES ASSUME Init PROVE Abstract!InstallInit
  OBVIOUS
<1>1. Verdict = [u \in Uploads |-> "idle"]
  <2>1. \A u \in Uploads : pc[u] = "idle"
    BY DEF Init
  <2>2. VerdictTable
    BY VerdictIs
  <2> HIDE DEF Verdict
  <2> QED BY <2>1, <2>2 DEF VerdictTable
<1>2. Holds(boot, Factory)
  <2>1. "factory" \in Slots
    BY DEF Slots
  <2>2. flash["factory"] =
           [k \in Offsets |-> IF k <= Size[Factory] THEN <<Factory, k>> ELSE Noise]
    BY <2>1 DEF Init, OtaInit
  <2>3. \A k \in 1..Size[Factory] : k \in Offsets /\ k <= Size[Factory]
    BY SlotSizePositive DEF Offsets
  <2> QED BY <2>2, <2>3 DEF Holds, Init, OtaInit
<1>3. Booted = Factory
  BY <1>2, BootedIs DEF BootsWhatItHolds
<1> QED BY <1>1, <1>3 DEF Init, Abstract!InstallInit

\* An upload that is alone implements FirmwareInstall: the firmware changes in
\* one step, to an image whose upload was started, and no upload returns True
\* unless its image was installed.
THEOREM UploadRefines == Alone => (Spec => AtomicInstall)
<1> SUFFICES ASSUME Alone PROVE Spec => AtomicInstall
  OBVIOUS
<1> QED BY InitInstalls, StepInstalls, UploadInvariant, AloneInvariant, PTL
       DEF Spec, AtomicInstall, Abstract!InstallSpec

=============================================================================
