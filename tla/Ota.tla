--------------------------------- MODULE Ota ---------------------------------
(***************************************************************************)
(* Firmware updates: the cloud's OTA commands (mqtt.c, ota.c) and the      *)
(* update itself (esp_https_ota.c), up to the restart.                     *)
(*                                                                         *)
(* Every command copies its URL into the one ota_url and creates another   *)
(* task, which never ends.  A task downloads the image in blocks into the  *)
(* slot that is not running, lets ESP-IDF verify it, makes it the boot     *)
(* slot and restarts the gateway.  The first block is the image header.    *)
(* A download is one response, or several of at most `request` blocks when *)
(* partial_http_download is set; the gateway leaves it unset.              *)
(***************************************************************************)
EXTENDS Naturals, FiniteSets

CONSTANTS
  Tasks,      (* the tasks the heap has room for                           *)
  Urls,       (* the images on the server, by URL                          *)
  Factory,    (* the image the gateway was delivered with                  *)
  Nothing,    (* ota_url while it is being copied; a blank block           *)
  Blocks,     (* the length of an image                                    *)
  Requests    (* max_http_request_size; 0 stands for a whole download      *)

OtaAssumption ==
  /\ Blocks \in Nat \ {0} /\ Requests \subseteq Nat
  /\ Factory \notin Urls /\ Nothing \notin Urls \cup {Factory}

VARIABLES
  url,       (* ota_url *)
  created,   (* the tasks created since the boot                           *)
  phase,     (* where each task is                                         *)
  handle,    (* its esp_https_ota_handle                                   *)
  request,   (* the size of its HTTP requests                              *)
  flash,     (* whose block each slot holds at each place                  *)
  running,   (* the running slot                                           *)
  boot,      (* the slot esp_ota_set_boot_partition chose                  *)
  last,      (* ghost: the image the last restart was for, if any          *)
  mishaps    (* ghost: what spoiled the updates since the last boot        *)

tasks == <<created, phase, handle>>
vars  == <<url, tasks, request, flash, running, boot, last, mishaps>>

(* The application slots of the partition table: factory, ota_0, ota_1.    *)
Slots  == 0..2
NextSlot(s) == IF s = 1 THEN 2 ELSE 1
Images == Urls \cup {Factory}
Phases == {"none", "new", "begun", "reading", "ended", "verified", "booted",
           "failed"}
NoHandle == [image |-> Factory, slot |-> 0, read |-> 0, written |-> 0]

Whole(slot, image) == \A b \in 1..Blocks : flash[slot][b] = image
Valid(slot)        == \E image \in Images : Whole(slot, image)

(* boot: esp_ota_set_boot_partition fails.  contended: two tasks have      *)
(* begun to write one slot.                                                *)
Mishaps == {"boot", "contended"}

Goto(t, p) == phase' = [phase EXCEPT ![t] = p]

Init ==
  /\ url = Nothing
  /\ created = {}
  /\ phase = [t \in Tasks |-> "none"]
  /\ handle = [t \in Tasks |-> NoHandle]
  /\ request \in Requests
  /\ flash = [s \in Slots |->
                [b \in 1..Blocks |-> IF s = 0 THEN Factory ELSE Nothing]]
  /\ running = 0
  /\ boot = 0
  /\ last = Factory
  /\ mishaps = {}

-----------------------------------------------------------------------------
(* The MQTT task handles one OTA command at a time: strcpy to ota_url, in  *)
(* which the old URL is neither whole nor gone, ...                        *)
CopyUrl ==
  /\ url # Nothing
  /\ url' = Nothing
  /\ UNCHANGED <<tasks, request, flash, running, boot, last, mishaps>>

(* ... and a new task, if there is memory: nobody looks at the result.     *)
(* The first command after a boot ends the story of the last restart.      *)
StartOta(u) ==
  /\ url = Nothing
  /\ url' = u
  /\ \E t \in Tasks \ created :
       /\ created' = created \cup {t}
       /\ Goto(t, "new")
  /\ last' = Factory
  /\ mishaps' = {m \in mishaps : created # {}}
  /\ UNCHANGED <<handle, request, flash, running, boot>>

StartOtaNoMemory(u) ==
  /\ url = Nothing
  /\ created = Tasks
  /\ url' = u
  /\ UNCHANGED <<tasks, request, flash, running, boot, last, mishaps>>

(* Any error ends the task's attempt: its handle is aborted and the task   *)
(* sleeps for ever.                                                        *)
Fail(t) ==
  /\ phase[t] \in {"new", "begun", "reading", "ended"}
  /\ Goto(t, "failed")
  /\ handle' = [handle EXCEPT ![t] = NoHandle]
  /\ UNCHANGED <<url, created, request, flash, running, boot, last, mishaps>>

(* Variant: the slot after the one that will be booted next.               *)
BeginAfterBoot(t) ==
  /\ phase[t] = "new"
  /\ url \in Urls
  /\ Goto(t, "begun")
  /\ handle' = [handle EXCEPT ![t] =
       [image |-> url, slot |-> NextSlot(boot), read |-> 0, written |-> 0]]
  /\ UNCHANGED <<url, created, request, flash, running, boot, last, mishaps>>

(* esp_https_ota_begin: connect, redirected or not, to what ota_url holds  *)
(* now; write to the slot after the running one.                           *)
Begin(t) ==
  /\ phase[t] = "new"
  /\ url \in Urls
  /\ Goto(t, "begun")
  /\ handle' = [handle EXCEPT ![t] =
       [image |-> url, slot |-> NextSlot(running), read |-> 0, written |-> 0]]
  /\ UNCHANGED <<url, created, request, flash, running, boot, last, mishaps>>

(* _ota_write puts a block at the handle's own offset.                     *)
WriteBlock(t) ==
  LET h == handle[t] IN
  /\ flash' = [flash EXCEPT ![h.slot][h.written + 1] = h.image]
  /\ handle' = [handle EXCEPT ![t].read = @ + 1, ![t].written = @ + 1]

Writing(t) == phase[t] \in {"reading", "ended", "verified", "booted"}

(* esp_https_ota_perform in BEGIN: esp_ota_begin, the header, its chip.    *)
PerformBegin(t) ==
  /\ phase[t] = "begun"
  /\ WriteBlock(t)
  /\ Goto(t, "reading")
  /\ mishaps' = mishaps \cup
       {m \in {"contended"} : \E other \in Tasks \ {t} : Writing(other)}
  /\ UNCHANGED <<url, created, request, running, boot, last>>

(* Variant: what was written before this request is not subtracted.        *)
ResponseWhole(t) == IF request = 0 THEN Blocks ELSE request

(* The length of the response a handle is reading.                         *)
Response(t) ==
  LET first == handle[t].written - handle[t].read
      left  == Blocks - first
  IN IF request = 0 \/ left < request THEN left ELSE request

(* ... and IN_PROGRESS: a block; or the response is complete, which is the *)
(* end of the image or of one of several requests.  A read that yields     *)
(* nothing is repeated.                                                    *)
PerformRead(t) ==
  /\ phase[t] = "reading"
  /\ handle[t].read < Response(t)
  /\ WriteBlock(t)
  /\ UNCHANGED <<url, created, phase, request, running, boot, last, mishaps>>

PerformComplete(t) ==
  /\ phase[t] = "reading"
  /\ handle[t].read = Response(t)
  /\ request = 0 \/ handle[t].written = Blocks
  /\ Goto(t, "ended")
  /\ UNCHANGED <<url, created, handle, request, flash, running, boot, last,
                 mishaps>>

PerformNextRequest(t) ==
  /\ phase[t] = "reading"
  /\ handle[t].read = Response(t)
  /\ request # 0 /\ handle[t].written < Blocks
  /\ handle' = [handle EXCEPT ![t].read = 0]
  /\ UNCHANGED <<url, created, phase, request, flash, running, boot, last,
                 mishaps>>

(* esp_https_ota_finish: esp_ota_end verifies what the slot holds now ...  *)
FinishEnd(t) ==
  /\ phase[t] = "ended"
  /\ Valid(handle[t].slot)
  /\ Goto(t, "verified")
  /\ UNCHANGED <<url, created, handle, request, flash, running, boot, last,
                 mishaps>>

(* Variant: the running slot is made the boot slot.                        *)
FinishSetBootRunning(t) ==
  /\ phase[t] = "verified"
  /\ Goto(t, "booted")
  /\ boot' = running
  /\ UNCHANGED <<url, created, handle, request, flash, running, last, mishaps>>

(* ... and the slot becomes the boot slot.  The result of this last step   *)
(* is stored in an err of its own block: the caller sees ESP_OK.           *)
FinishSetBoot(t) ==
  /\ phase[t] = "verified"
  /\ Goto(t, "booted")
  /\ \/ /\ Valid(handle[t].slot)
        /\ boot' = handle[t].slot
        /\ UNCHANGED mishaps
     \/ /\ mishaps' = mishaps \cup {"boot"}
        /\ UNCHANGED boot
  /\ UNCHANGED <<url, created, handle, request, flash, running, last>>

-----------------------------------------------------------------------------
(* The bootloader takes the boot slot if its image is whole, else the next *)
(* one below.  A restart ends every task.                                  *)
Reboot ==
  /\ running' = CHOOSE s \in 0..boot :
                   Valid(s) /\ \A above \in s + 1..boot : ~Valid(above)
  /\ url' = Nothing
  /\ created' = {}
  /\ phase' = [t \in Tasks |-> "none"]
  /\ handle' = [t \in Tasks |-> NoHandle]
  /\ UNCHANGED <<request, flash, boot>>

(* esp_https_ota returned ESP_OK: the task restarts the gateway.           *)
Restart(t) ==
  /\ phase[t] = "booted"
  /\ last' = handle[t].image
  /\ UNCHANGED mishaps
  /\ Reboot

(* The power may fail at any time, or another component restart.           *)
PowerFailure ==
  /\ last' = Factory
  /\ mishaps' = {}
  /\ Reboot

Task(t) ==
  \/ Begin(t) \/ PerformBegin(t) \/ PerformRead(t) \/ PerformComplete(t)
  \/ PerformNextRequest(t) \/ FinishEnd(t) \/ FinishSetBoot(t) \/ Restart(t)

Next ==
  \/ CopyUrl
  \/ \E u \in Urls : StartOta(u) \/ StartOtaNoMemory(u)
  \/ \E t \in Tasks : Task(t) \/ Fail(t)
  \/ PowerFailure

Spec == Init /\ [][Next]_vars

-----------------------------------------------------------------------------
(* Types; a task that is writing writes to the slot that is not running,   *)
(* and no further than the image.                                          *)
TypeOK ==
  /\ url \in Urls \cup {Nothing}
  /\ created \subseteq Tasks
  /\ phase \in [Tasks -> Phases]
  /\ handle \in [Tasks -> [image : Images, slot : Slots,
                           read : 0..Blocks, written : 0..Blocks]]
  /\ flash \in [Slots -> [1..Blocks -> Images \cup {Nothing}]]
  /\ running \in Slots /\ boot \in Slots
  /\ last \in Images /\ mishaps \subseteq Mishaps

(* Whatever commands, failures and restarts there are, the slot the        *)
(* gateway runs from holds a whole image: one update's end must not make   *)
(* its slot another's target before the restart.                           *)
RunningIntact == Valid(running)

(* A restart for an update boots that update: the caller of esp_https_ota  *)
(* restarts on ESP_OK, which must mean that the verified image is the boot *)
(* image, unless esp_ota_set_boot_partition failed (its error is lost) or  *)
(* two tasks wrote to one slot.                                            *)
UpdateTakesEffect ==
  last # Factory /\ created = {} /\ mishaps = {} => Whole(running, last)
=============================================================================
