------------------------------- MODULE NodeOta -------------------------------
(***************************************************************************)
(* The firmware update of a node (node/main/ota_handler.c): the packets    *)
(* OTA_BEGIN, OTA_DATA and OTA_END write an image into the flash slot the   *)
(* node does not run from, verify it, and make it the one to boot.         *)
(*                                                                         *)
(* An image is a sequence of chunks, one per OTA_DATA packet, and a slot   *)
(* holds SLOT_SIZE of them; sizes and offsets are counted in chunks.  A    *)
(* chunk is <<i, k>>, the k-th of image i, or Noise: whatever else the     *)
(* flash holds or the line delivers.  The CRC32 of image i is i itself, so *)
(* that contents with the CRC of i are i; the images in ZeroCrc have the    *)
(* CRC 0, with which ota_end verifies nothing.                             *)
(*                                                                         *)
(* esp_ota_ops is not in the repository.  It picks the slot, numbers the   *)
(* writes, and refuses to finish an update whose slot holds no app.        *)
(***************************************************************************)
EXTENDS Naturals

CONSTANTS
    Images,     \* the images a host may send
    Apps,       \* those of them that are apps esp_ota_end accepts
    ZeroCrc,    \* those of them whose CRC32 is 0
    Size,       \* the number of chunks of each
    Factory,    \* the app the node left the factory with
    SLOT_SIZE,  \* the chunks a slot holds
    Noise       \* a chunk of no image

ASSUME OtaAssumption ==
    /\ Apps \subseteq Images
    /\ ZeroCrc \subseteq Images
    /\ Size \in [Images -> Nat \ {0}]
    /\ SLOT_SIZE \in Nat
    /\ Factory \in Apps
    /\ Size[Factory] <= SLOT_SIZE
    /\ Noise \notin Images \X Nat

VARIABLES
    flash,              \* the contents of each slot
    running,            \* the slot the node runs from
    boot,               \* the slot it will boot from
    s_active,           \* an update is in progress
    s_part,             \* the slot it writes to
    s_expected_crc,     \* the CRC announced, as the image that has it
    s_received_bytes,   \* the chunks accepted
    wrote,              \* the chunks written through s_handle
    rebooting,          \* ota_end waits before it restarts the node
    status              \* the OTA_STATUS the last step sent, or "none"

flashVars == <<flash, running, boot>>
updateVars == <<s_active, s_part, s_expected_crc, s_received_bytes, wrote>>
otaVars == <<flashVars, updateVars, rebooting, status>>

Slots == {"factory", "ota_0", "ota_1"}
Offsets == 1..SLOT_SIZE
Content == (Images \X Nat) \cup {Noise}
Statuses == {"none", "ok", "error", "in_progress"}

\* esp_ota_get_next_update_partition
NextSlot == [factory |-> "ota_0", ota_0 |-> "ota_1", ota_1 |-> "ota_0"]

Holds(slot, i) ==
    Size[i] <= SLOT_SIZE /\ \A k \in 1..Size[i] : flash[slot][k] = <<i, k>>

\* esp_ota_end: the slot holds an app.
Valid(slot) == \E i \in Apps : Holds(slot, i)

OtaTypeOK ==
    /\ flash \in [Slots -> [Offsets -> Content]]
    /\ running \in Slots /\ boot \in Slots
    /\ s_active \in BOOLEAN
    /\ s_part \in Slots
    /\ s_expected_crc \in Images
    /\ s_received_bytes \in 0..SLOT_SIZE
    /\ wrote \in 0..SLOT_SIZE
    /\ rebooting \in BOOLEAN
    /\ status \in Statuses

OtaInit ==
    /\ flash = [s \in Slots |-> [k \in Offsets |->
                   IF s = "factory" /\ k <= Size[Factory] THEN <<Factory, k>> ELSE Noise]]
    /\ running = "factory"
    /\ boot = "factory"
    /\ s_active = FALSE
    /\ s_part = "ota_0"
    /\ s_expected_crc = Factory
    /\ s_received_bytes = 0
    /\ wrote = 0
    /\ rebooting = FALSE
    /\ status = "none"

-----------------------------------------------------------------------------
(***************************************************************************)
(* The handlers.  They run in the BTC task, which is inside ota_end while  *)
(* the node is about to restart.  fails: whether a flash write or a malloc *)
(* may fail.                                                               *)
(***************************************************************************)

\* Mutants of ota_begin: it takes the running slot, it keeps the count of the
\* update before.
ota_begin_running(i, fails) ==
    /\ ~rebooting
    /\ s_active' = TRUE
    /\ s_part' = running
    /\ s_expected_crc' = i
    /\ s_received_bytes' = 0
    /\ wrote' = 0
    /\ status' = "in_progress"
    /\ UNCHANGED <<flashVars, rebooting>>
ota_begin_counting(i, fails) ==
    /\ ~rebooting
    /\ s_active' = TRUE
    /\ s_part' = NextSlot[running]
    /\ s_expected_crc' = i
    /\ wrote' = 0
    /\ status' = "in_progress"
    /\ UNCHANGED <<flashVars, rebooting, s_received_bytes>>

\* An update in progress is aborted, whatever comes of the new one.
ota_begin(i, fails) ==
    /\ ~rebooting
    /\ \/ /\ s_active' = TRUE
          /\ s_part' = NextSlot[running]
          /\ s_expected_crc' = i
          /\ s_received_bytes' = 0
          /\ wrote' = 0
          /\ status' = "in_progress"
       \/ /\ fails
          /\ s_active' = FALSE
          /\ s_part' = NextSlot[running]
          /\ status' = "none"
          /\ UNCHANGED <<s_expected_crc, s_received_bytes, wrote>>
    /\ UNCHANGED <<flashVars, rebooting>>

\* The next chunk is written, or the update aborted.  The size announced by
\* OTA_BEGIN is only logged.
WriteChunk(d) ==
    /\ wrote < SLOT_SIZE
    /\ flash' = [flash EXCEPT ![s_part][wrote + 1] = d]
    /\ wrote' = wrote + 1
    /\ s_received_bytes' = s_received_bytes + 1
    /\ status' = "none"
    /\ UNCHANGED <<s_active, s_part, s_expected_crc, running, boot, rebooting>>

AbortUpdate ==
    /\ s_active' = FALSE
    /\ status' = "error"
    /\ UNCHANGED <<flashVars, s_part, s_expected_crc, s_received_bytes, wrote, rebooting>>

ota_write(d, fails) ==
    /\ ~rebooting
    /\ s_active
    /\ \/ WriteChunk(d)
       \/ (fails \/ wrote = SLOT_SIZE) /\ AbortUpdate

\* The CRC of what is read back is the one announced.
CrcMatches ==
    s_received_bytes = Size[s_expected_crc] /\ Holds(s_part, s_expected_crc)

\* Mutant: the CRC is not compared.
AcceptedUnchecked == wrote > 0 /\ Valid(s_part)

Accepted ==
    /\ s_expected_crc \in ZeroCrc \/ CrcMatches
    /\ wrote > 0 /\ Valid(s_part)

\* esp_ota_set_boot_partition
CommitUpdate ==
    /\ Accepted
    /\ boot' = s_part
    /\ s_active' = FALSE
    /\ rebooting' = TRUE
    /\ status' = "ok"
    /\ UNCHANGED <<flash, running, s_part, s_expected_crc, s_received_bytes, wrote>>

ota_end(fails) ==
    /\ ~rebooting
    /\ s_active
    /\ \/ CommitUpdate
       \/ (fails \/ ~Accepted) /\ AbortUpdate

\* A packet for no update is ignored, and so is one with another command.
Ignore ==
    /\ ~rebooting
    /\ ~s_active
    /\ status' = "none"
    /\ UNCHANGED <<flashVars, updateVars, rebooting>>

\* esp_restart, or a crash or power cut at any time: the node boots.
Restart ==
    /\ running' = boot
    /\ s_active' = FALSE
    /\ s_part' = "ota_0"
    /\ s_expected_crc' = Factory
    /\ s_received_bytes' = 0
    /\ wrote' = 0
    /\ rebooting' = FALSE
    /\ status' = "none"
    /\ UNCHANGED <<flash, boot>>

-----------------------------------------------------------------------------
(***************************************************************************)
(* The node with any packets in any order, and failures and restarts at    *)
(* any time.                                                               *)
(***************************************************************************)
Sendable == {<<i, k>> : i \in Images, k \in Offsets} \cup {Noise}

OtaNext ==
    \/ \E i \in Images : ota_begin(i, TRUE)
    \/ \E d \in Sendable : ota_write(d, TRUE)
    \/ ota_end(TRUE)
    \/ Ignore
    \/ Restart

OtaSpec == OtaInit /\ [][OtaNext]_otaVars

-----------------------------------------------------------------------------
(***************************************************************************)
(* Properties.                                                             *)
(***************************************************************************)

\* Whatever arrives and whenever the node restarts, the slot it boots from and
\* the one it runs from hold a complete app.
AlwaysBoots == Valid(boot) /\ Valid(running)

\* The slot to boot from changes only to the image the last OTA_BEGIN
\* announced, complete and in order (or to some app if its CRC is 0).
NewBootStep ==
    boot' # boot =>
       /\ Valid(boot')
       /\ s_expected_crc \notin ZeroCrc => Holds(boot', s_expected_crc)

NewBootVerified == [][NewBootStep]_otaVars

\* "On failure the existing partition is preserved" (ota_handler.h): no step
\* writes to the slot the node boots from or runs from.
BootPreserved ==
    [][flash'[boot] = flash[boot] /\ flash'[running] = flash[running]]_otaVars

-----------------------------------------------------------------------------
(***************************************************************************)
(* The inductive invariant: an update never writes to the slot that will   *)
(* be booted, which holds an app.                                          *)
(***************************************************************************)
WritesElsewhere == s_active => s_part \notin {boot, running} /\ ~rebooting
BootsItself == ~rebooting => boot = running
CountsWrites == s_received_bytes = wrote

OtaIInv == OtaTypeOK /\ AlwaysBoots /\ WritesElsewhere /\ BootsItself /\ CountsWrites
=============================================================================
