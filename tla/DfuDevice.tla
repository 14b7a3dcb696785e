----------------------------- MODULE DfuDevice ------------------------------
(***************************************************************************)
(* Firmware download over USB: the DFU class driver, dfu_device.c, and the *)
(* callbacks of tusb_dfu.c, which write what is downloaded with the OTA    *)
(* API.  The host sends a block, then polls the status; the poll's end     *)
(* starts the write, which is done when it returns.  A control transfer is *)
(* a set-up, at which the driver answers, and an end, which a host that    *)
(* gives up never reaches; nothing in between runs in the usbd task.       *)
(*                                                                         *)
(* The host follows the protocol, polls again when a poll fails, and       *)
(* starts over, perhaps with another file, when anything else does.        *)
(***************************************************************************)
EXTENDS Naturals, Sequences

CONSTANTS
  Files,     \* the firmwares a host may download
  Blocks,    \* blocks of each
  Slot,      \* blocks the partition holds
  NoFile

DfuAssumption == /\ Blocks \in Nat \ {0} /\ Slot \in Nat \ {0}
                 /\ NoFile \notin Files

VARIABLES
  dfu,       \* _dfu_ctx: its state, whether its status is OK, and
             \* flashing_in_progress
  opened,    \* attrs, which are 0 until the interface is opened
  block,     \* transfer_buf
  control,   \* the control transfer under way, and the reply to a poll
  checked,   \* image_header_was_checked
  handle,    \* update_handle names a write that has begun
  flash,     \* what was written since it began
  bootable,  \* the file whose image the boot partition holds
  host,      \* its file, blocks it knows to be written, where it is
  again      \* ghost: see StatusHonest

vars == <<dfu, opened, block, control, checked, handle, flash, bootable,
          host, again>>
device == <<opened, checked, handle, flash, bootable, again>>

States == {"idle", "dnSync", "dnIdle", "manifestSync", "error"}
AllBlocks == Files \X (1..Blocks)
Junk      == <<NoFile, 0>>

TypeOK ==
  /\ dfu \in [state : States, ok : BOOLEAN, flashing : BOOLEAN]
  /\ opened \in BOOLEAN /\ block \in AllBlocks \cup {Junk}
  /\ control.request \in {"none", "block", "finish", "poll", "renew",
                          "upload", "detach"}
  /\ checked \in BOOLEAN /\ handle \in BOOLEAN /\ flash \in Seq(AllBlocks)
  /\ bootable \in Files \cup {NoFile} /\ again \in BOOLEAN
  /\ host \in [file : Files, sent : 0..Blocks,
               at : {"ready", "waits", "finishes", "failed", "done"}]

(* reset_state                                                             *)
ResetState == [state |-> "idle", ok |-> TRUE, flashing |-> FALSE]
None       == [request |-> "none"]

Init ==
  /\ dfu = ResetState /\ opened = FALSE /\ block = Junk /\ control = None
  /\ checked = FALSE /\ handle = FALSE /\ flash = <<>> /\ bootable = NoFile
  /\ host \in [file : Files, sent : {0}, at : {"ready"}]
  /\ again = FALSE

-----------------------------------------------------------------------------
(* Set-ups.  A request that is not accepted stalls, which ends it.         *)
Begins(request) == control = None /\ control' = [request |-> request]
Stalls == /\ control = None /\ host' = [host EXCEPT !.at = "failed"]
          /\ UNCHANGED <<dfu, block, control>>

Accepts == opened /\ dfu.state \in {"idle", "dnIdle"}

(* DNLOAD with data: the block arrives before the end of the transfer.     *)
SetupBlock ==
  /\ host.at = "ready" /\ host.sent < Blocks
  /\ IF Accepts
     THEN /\ Begins("block") /\ block' = Junk
          /\ dfu' = [dfu EXCEPT !.state = "dnSync", !.flashing = TRUE]
          /\ UNCHANGED host
     ELSE Stalls
  /\ UNCHANGED device

(* DNLOAD without data ends the download.                                  *)
SetupFinish ==
  /\ host.at = "ready" /\ host.sent = Blocks
  /\ IF Accepts
     THEN /\ Begins("finish")
          /\ dfu' = [dfu EXCEPT !.state = "manifestSync", !.flashing = TRUE]
          /\ UNCHANGED <<block, host>>
     ELSE Stalls
  /\ UNCHANGED device

(* GETSTATUS: the reply names the state that the end of the transfer leads *)
(* to.                                                                     *)
NextState ==
  CASE dfu.state = "dnSync"       -> IF dfu.flashing THEN "dnBusy"
                                                     ELSE "dnIdle"
    [] dfu.state = "manifestSync" -> IF dfu.flashing THEN "manifest"
                                                     ELSE "idle"
    [] OTHER                      -> dfu.state

SetupPoll ==
  /\ control = None /\ host.at \in {"waits", "finishes"}
  /\ control' = [request |-> "poll", state |-> NextState, ok |-> dfu.ok]
  /\ UNCHANGED <<dfu, block, host, device>>

(* ABORT, CLRSTATUS and SET_INTERFACE reset the state of the protocol, and *)
(* nothing of what was written.                                            *)
SetupRenew ==
  /\ host.at \in {"ready", "failed", "done"}
  /\ Begins("renew") /\ dfu' = ResetState
  /\ UNCHANGED <<block, host, device>>

(* UPLOAD, whose text goes through the same buffer.                        *)
SetupUpload ==
  /\ host.at = "ready"
  /\ IF opened THEN Begins("upload") /\ block' = Junk
                    /\ UNCHANGED <<dfu, host>>
               ELSE Stalls
  /\ UNCHANGED device

SetupDetach ==
  /\ host.at \in {"failed", "done"}
  /\ Begins("detach")
  /\ UNCHANGED <<dfu, block, host, device>>

(* The host gives up a transfer.                                           *)
Cut ==
  /\ control # None /\ control' = None
  /\ host' = IF control.request = "poll" THEN host
             ELSE [host EXCEPT !.at = "failed"]
  /\ UNCHANGED <<dfu, block, device>>

-----------------------------------------------------------------------------
(* Ends.                                                                   *)
Ends(request) == control.request = request /\ control' = None

EndBlock ==
  /\ Ends("block")
  /\ block' = <<host.file, host.sent + 1>>
  /\ host' = [host EXCEPT !.at = "waits"]
  /\ UNCHANGED <<dfu, device>>

EndFinish ==
  /\ Ends("finish")
  /\ host' = [host EXCEPT !.at = "finishes"]
  /\ UNCHANGED <<dfu, block, device>>

(* What the host makes of the reply it has.                                *)
Told ==
  host' = [host EXCEPT
    !.at   = CASE ~control.ok -> "failed"
               [] @ = "waits" /\ control.state = "dnIdle" -> "ready"
               [] @ = "finishes" /\ control.state = "idle" -> "done"
               [] OTHER -> @,
    !.sent = IF control.ok /\ host.at = "waits" /\ control.state = "dnIdle"
             THEN @ + 1 ELSE @]

(* Variant: a write that fails is not reported.                            *)
FinishFlashingOk(ok) ==
  dfu' = [dfu EXCEPT !.flashing = FALSE]

(* tud_dfu_finish_flashing: busy and manifesting pass within the callback, *)
(* and the descriptor says that the device survives manifestation, so that *)
(* the state is then the same as before.                                   *)
FinishFlashing(ok) ==
  dfu' = [state    |-> IF ok THEN dfu.state ELSE "error",
          ok       |-> ok /\ dfu.ok,
          flashing |-> FALSE]

Flashing(state) == /\ Ends("poll") /\ Told
                   /\ dfu.state = state /\ dfu.flashing
                   /\ UNCHANGED <<opened, block>>

(* ota_start: the first block begins the write; a begin that fails counts  *)
(* as checked all the same, and leaves no handle.                          *)
WriteBlock ==
  /\ Flashing("dnSync")
  /\ (checked /\ handle /\ Len(flash) < Slot) \/ ~checked
  /\ checked' = TRUE /\ handle' = TRUE
  /\ flash' = Append(IF checked THEN flash ELSE <<>>, block)
  /\ FinishFlashing(TRUE)
  /\ UNCHANGED <<bootable, again>>

WriteFails ==
  /\ Flashing("dnSync")
  /\ checked' = TRUE /\ handle' = FALSE
  /\ FinishFlashing(FALSE)
  /\ UNCHANGED <<flash, bootable, again>>

(* A first block that is too short for a header is not written, and the    *)
(* result is whatever the local variable held.                             *)
WriteShort ==
  /\ Flashing("dnSync") /\ ~checked
  /\ \E ok \in BOOLEAN : FinishFlashing(ok) /\ again' = (again \/ ok)
  /\ UNCHANGED <<checked, handle, flash, bootable>>

(* ota_complete: esp_ota_end accepts an image that begins with all blocks  *)
(* of one file.                                                            *)
Valid(f) == Len(flash) >= Blocks /\ \A i \in 1..Blocks : flash[i] = <<f, i>>

Manifest ==
  /\ Flashing("manifestSync")
  /\ \E f \in Files : handle /\ Valid(f) /\ bootable' = f
  /\ handle' = FALSE
  /\ FinishFlashing(TRUE)
  /\ UNCHANGED <<checked, flash, again>>

ManifestFails ==
  /\ Flashing("manifestSync")
  /\ handle' = FALSE
  /\ FinishFlashing(FALSE)
  /\ UNCHANGED <<checked, flash, bootable, again>>

(* A poll while nothing is left to flash.                                  *)
EndPoll ==
  /\ Ends("poll") /\ Told
  /\ ~(dfu.state \in {"dnSync", "manifestSync"} /\ dfu.flashing)
  /\ dfu' = [dfu EXCEPT !.state = NextState]
  /\ UNCHANGED <<block, device>>

(* The host starts over.  The writer does not: it goes on behind what it   *)
(* has written.                                                            *)
EndRenew ==
  /\ Ends("renew")
  /\ \E f \in Files : host' = [file |-> f, sent |-> 0, at |-> "ready"]
  /\ again' = (again \/ checked)
  /\ UNCHANGED <<dfu, block, opened, checked, handle, flash, bootable>>

EndUpload ==
  /\ Ends("upload")
  /\ UNCHANGED <<dfu, block, host, device>>

(* tud_dfu_detach_cb, or a loss of power: the statics start afresh.        *)
Restart ==
  /\ control' = None
  /\ dfu' = ResetState /\ opened' = FALSE /\ block' = Junk
  /\ checked' = FALSE /\ handle' = FALSE /\ flash' = <<>> /\ again' = FALSE
  /\ \E f \in Files : host' = [file |-> f, sent |-> 0, at |-> "ready"]
  /\ UNCHANGED bootable

Detach == control.request = "detach" /\ Restart

PowerLoss == Restart

(* A bus reset; the host then configures the device again and starts over  *)
(* or, when nothing was under way, goes on.                                *)
BusReset ==
  /\ opened' = FALSE /\ dfu' = ResetState /\ control' = None
  /\ host' = [host EXCEPT !.at = IF @ = "done" THEN @ ELSE "failed"]
  /\ UNCHANGED <<block, checked, handle, flash, bootable, again>>

Open ==
  /\ ~opened /\ opened' = TRUE
  /\ UNCHANGED <<dfu, block, control, checked, handle, flash, bootable, host,
                 again>>

Next ==
  \/ SetupBlock \/ SetupFinish \/ SetupPoll \/ SetupRenew \/ SetupUpload
  \/ SetupDetach \/ Cut \/ EndBlock \/ EndFinish \/ WriteBlock \/ WriteFails
  \/ WriteShort \/ Manifest \/ ManifestFails \/ EndPoll \/ EndRenew
  \/ EndUpload \/ Detach \/ PowerLoss \/ BusReset \/ Open

Spec == Init /\ [][Next]_vars

-----------------------------------------------------------------------------
(* A host that was told so much has its blocks in the flash, in order and  *)
(* once, and one that was told its download is done has its image booted:  *)
(* whatever was cut, stalled, reset or failed to be written.  Promised for *)
(* a download that is the first since the start, and whose first block is  *)
(* not shorter than a header (ghost again): the writer never starts over.  *)
StatusHonest ==
  again \/ /\ host.at = "ready" /\ host.sent > 0 =>
                flash = [i \in 1..host.sent |-> <<host.file, i>>]
           /\ host.at = "done" => bootable = host.file
=============================================================================
