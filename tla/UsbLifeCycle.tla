---------------------------- MODULE UsbLifeCycle ----------------------------
(***************************************************************************)
(* The life of the USB CDC host driver (esp_usbh_cdc.c) from its           *)
(* installation by esp_modem_dte_new to its deletion or the restart of     *)
(* the gateway.  UsbCdc models what the driver does while a device is      *)
(* connected; here are the tasks that bring it there and away:             *)
(*                                                                         *)
(*   owner       the main task in esp_modem_dte_new;                       *)
(*   processing  _usb_processing_task, which waits for a device, sets it   *)
(*               up, and resets the port when something fails;             *)
(*   data task   _cdc_data_task: one per connection.                       *)
(*                                                                         *)
(* They ask each other to end by bits of an event group, and wait until    *)
(* the other clears the bit.  The port and its interrupts are external.    *)
(* A restart ends the behaviour: the next start begins in Init.            *)
(***************************************************************************)
EXTENDS Naturals, FiniteSets

CONSTANTS
  Transfers,  \* control transfers of a set-up: 5 in the build
  MaxSignals, \* bound: messages of the port in the queue of the driver
  MaxPlugs    \* bound: times that the device is plugged in

UsbLifeAssumption ==
  {Transfers, MaxSignals, MaxPlugs} \subseteq Nat \ {0}

VARIABLES
  owner,      \* where esp_modem_dte_new is
  group,      \* s_usb_event_group is there
  bits,       \* and its bits
  proc, left, \* where the processing task is; transfers left to do
  pipe,       \* pipe_hdl_dflt is not NULL
  dataHandle, \* cdc_data_task_hdl is not NULL
  data,       \* where the data task is
  session,    \* number of data tasks so far
  idle,       \* pendding_urb: the sessions that own the idle URBs
  attached,   \* a device is plugged in
  port,       \* state of the port, and the event the HCD keeps for
  event,      \* hcd_port_handle_event
  signals,    \* port messages in cdc_queue_hdl
  plugs, alive

tasks    == <<owner, group, bits, proc, left, pipe, dataHandle, data,
              session, idle>>
portSide == <<attached, port, event, signals, plugs>>
vars     == <<tasks, portSide, alive>>

Owners  == {"new", "wait", "up", "deleting", "freed", "late", "gone"}
Procs   == {"none", "created", "power", "listen", "enqueue", "transfer",
            "create", "restart", "kill", "await", "recover", "check",
            "ended"}
Ports   == {"off", "powered", "disabled", "enabled", "recovery"}
Events  == {"none", "connection", "disconnection", "error"}

TasksTyped ==
  /\ owner \in Owners /\ group \in BOOLEAN
  /\ bits \subseteq {"ready", "kill", "dataKill"}
  /\ proc \in Procs /\ pipe \in BOOLEAN /\ dataHandle \in BOOLEAN
  /\ data \in {"none", "setup", "loop", "pipes", "ended"}
  /\ alive \in BOOLEAN

UrbsTyped == session \in Nat /\ idle \subseteq 1..session

PortTyped ==
  /\ attached \in BOOLEAN /\ port \in Ports /\ event \in Events
  /\ signals \in 0..MaxSignals /\ plugs \in 0..MaxPlugs

TypeOK == TasksTyped /\ UrbsTyped /\ PortTyped /\ left \in 0..Transfers

Init ==
  /\ owner = "new" /\ group = FALSE /\ bits = {}
  /\ proc = "none" /\ left = 0 /\ pipe = FALSE /\ dataHandle = FALSE
  /\ data = "none" /\ session = 0 /\ idle = {}
  /\ attached = FALSE /\ port = "off" /\ event = "none" /\ signals = 0
  /\ plugs = 0 /\ alive = TRUE

-----------------------------------------------------------------------------
(* The owner.  usbh_cdc_driver_install; when a resource or the task        *)
(* cannot be had its error path deletes the calling task.                  *)
Install ==
  /\ owner = "new"
  /\ \/ owner' = "wait" /\ group' = TRUE /\ proc' = "created"
     \/ owner' = "gone" /\ UNCHANGED <<group, proc>>
  /\ UNCHANGED <<bits, left, pipe, dataHandle, data, session, idle, portSide,
                 alive>>

(* usbh_cdc_wait_connect finds the ready bit, and the task that reads is   *)
(* created; without it the driver is deleted.                              *)
Connected ==
  /\ owner = "wait" /\ "ready" \in bits
  /\ \/ owner' = "up" /\ UNCHANGED bits
     \/ owner' = "deleting" /\ bits' = bits \cup {"kill"}
  /\ UNCHANGED <<group, proc, left, pipe, dataHandle, data, session, idle,
                 portSide, alive>>

(* It does not find it in time: the DTE is freed, its driver goes on.      *)
ConnectTimeout ==
  /\ owner = "wait" /\ "ready" \notin bits
  /\ owner' = "late"
  /\ UNCHANGED <<group, bits, proc, left, pipe, dataHandle, data, session,
                 idle, portSide, alive>>

(* The rest of usbh_cdc_driver_delete, and then the DTE is freed.          *)
Deleted ==
  /\ owner = "deleting" /\ "kill" \notin bits
  /\ owner' = "freed" /\ group' = FALSE /\ bits' = {}
  /\ UNCHANGED <<proc, left, pipe, dataHandle, data, session, idle,
                 portSide, alive>>

-----------------------------------------------------------------------------
(* The processing task.  _usb_port_init; when it fails the task ends, and  *)
(* clears the kill bit that nobody has set yet.                            *)
PortInit ==
  /\ proc = "created"
  /\ \/ proc' = "power" /\ UNCHANGED bits
     \/ proc' = "ended" /\ bits' = bits \ {"kill"}
  /\ UNCHANGED <<owner, group, left, pipe, dataHandle, data, session, idle,
                 portSide, alive>>

(* The queue has room for 16 messages; xQueueSendFromISR drops the others. *)
Signal(e) ==
  /\ event' = e
  /\ signals' = IF signals < MaxSignals THEN signals + 1 ELSE signals

(* The head of the outer loop: power, unless the port has some.            *)
PowerOn ==
  /\ proc = "power"
  /\ \/ /\ port = "off" /\ port' = "powered" /\ proc' = "listen"
        /\ IF attached THEN Signal("connection")
                       ELSE UNCHANGED <<event, signals>>
     \/ /\ port = "off" /\ proc' = "kill"
        /\ UNCHANGED <<port, event, signals>>
     \/ /\ port # "off" /\ proc' = "listen"
        /\ UNCHANGED <<port, event, signals>>
  /\ UNCHANGED <<owner, group, bits, left, pipe, dataHandle, data, session,
                 idle, attached, plugs, alive>>

(* hcd_port_handle_event: the event that is pending, whatever the message  *)
(* was for; a connection only if the device is still there.                *)
Pending == IF event = "connection" /\ ~attached THEN "none" ELSE event

Handle ==
  /\ signals > 0 /\ signals' = signals - 1
  /\ event' = "none"
  /\ port' = IF Pending = "connection" THEN "disabled" ELSE port

ListenNothing ==
  /\ proc = "listen" /\ "kill" \notin bits
  /\ Handle /\ Pending = "none"
  /\ UNCHANGED <<tasks, attached, plugs, alive>>

(* A connection: the port is reset, its speed read, and the default pipe   *)
(* made.                                                                   *)
Connection ==
  /\ proc = "listen" /\ "kill" \notin bits
  /\ signals > 0 /\ signals' = signals - 1 /\ event' = "none"
  /\ Pending = "connection"

ListenConnection ==
  /\ Connection
  /\ proc' = "enqueue" /\ left' = Transfers /\ pipe' = TRUE
  /\ port' = "enabled"
  /\ UNCHANGED <<owner, group, bits, dataHandle, data, session, idle,
                 attached, plugs, alive>>

(* The reset fails, and the port stays disabled.                           *)
ResetFails ==
  /\ Connection /\ proc' = "kill" /\ port' = "disabled"
  /\ UNCHANGED <<owner, group, bits, left, pipe, dataHandle, data, session,
                 idle, attached, plugs, alive>>

(* The port works, but its speed or a pipe cannot be had.                  *)
PipeFails ==
  /\ Connection /\ proc' = "kill" /\ port' = "enabled"
  /\ UNCHANGED <<owner, group, bits, left, pipe, dataHandle, data, session,
                 idle, attached, plugs, alive>>

(* Variant: the driver without a disconnect callback.                      *)
ListenLossGoesOn ==
  /\ proc = "listen" /\ "kill" \notin bits
  /\ Handle /\ Pending \in {"disconnection", "error"}
  /\ proc' = "kill"
  /\ UNCHANGED <<owner, group, bits, left, pipe, dataHandle, data, session,
                 idle, attached, plugs, alive>>

(* A disconnection or an error: disconn_callback, which is _usb_disconn_cb.*)
ListenLoss ==
  /\ proc = "listen" /\ "kill" \notin bits
  /\ Handle /\ Pending \in {"disconnection", "error"}
  /\ proc' = "restart"
  /\ UNCHANGED <<owner, group, bits, left, pipe, dataHandle, data, session,
                 idle, attached, plugs, alive>>

(* modem_board_force_reset restarts 200 ms later.                          *)
ForceReset ==
  /\ proc = "restart" /\ alive' = FALSE
  /\ UNCHANGED <<tasks, portSide>>

(* A control transfer of the set-up: an URB for it, if there is memory; it *)
(* cannot start when the port is lost.                                     *)
AllocFails ==
  /\ proc = "enqueue" /\ proc' = "kill"
  /\ UNCHANGED <<owner, group, bits, left, pipe, dataHandle, data, session,
                 idle, portSide, alive>>

Enqueue ==
  /\ proc = "enqueue"
  /\ proc' = IF port = "enabled" THEN "transfer" ELSE "kill"
  /\ UNCHANGED <<owner, group, bits, left, pipe, dataHandle, data, session,
                 idle, portSide, alive>>

(* Who waits for the default pipe takes the messages of the port too, and  *)
(* does nothing for them: during a transfer and when the pipe is closed.   *)
Swallow ==
  /\ proc = "transfer" \/ (proc = "recover" /\ pipe)
  /\ Handle
  /\ UNCHANGED <<tasks, attached, plugs, alive>>

(* A transfer that is done counts as a success even if its status says     *)
(* that it was not completed.                                              *)
Transfer ==
  /\ proc = "transfer"
  /\ left' = left - 1
  /\ proc' = IF left = 1 THEN "create" ELSE "enqueue"
  /\ UNCHANGED <<owner, group, bits, pipe, dataHandle, data, session, idle,
                 portSide, alive>>

(* Another event of the pipe, or none in time: it is halted, flushed and   *)
(* cleared, and the set-up fails.                                          *)
TransferFails ==
  /\ proc = "transfer" /\ proc' = "kill"
  /\ UNCHANGED <<owner, group, bits, left, pipe, dataHandle, data, session,
                 idle, portSide, alive>>

CreateDataTask ==
  /\ proc = "create"
  /\ \/ /\ dataHandle' = TRUE /\ data' = "setup" /\ session' = session + 1
        /\ proc' = "listen"
     \/ proc' = "kill" /\ UNCHANGED <<dataHandle, data, session>>
  /\ UNCHANGED <<owner, group, bits, left, pipe, idle, portSide, alive>>

-----------------------------------------------------------------------------
(* usb_driver_reset_: also where the inner loop ends with the kill bit.    *)
KillSeen ==
  /\ proc = "listen" /\ "kill" \in bits
  /\ proc' = "kill"
  /\ UNCHANGED <<owner, group, bits, left, pipe, dataHandle, data, session,
                 idle, portSide, alive>>

KillData ==
  /\ proc = "kill"
  /\ IF dataHandle THEN proc' = "await" /\ bits' = bits \cup {"dataKill"}
               ELSE proc' = "recover" /\ UNCHANGED bits
  /\ UNCHANGED <<owner, group, left, pipe, dataHandle, data, session, idle,
                 portSide, alive>>

(* Variant: the data task is told to end and not waited for.               *)
AwaitDataNot ==
  /\ proc = "await"
  /\ dataHandle' = FALSE /\ proc' = "recover"
  /\ UNCHANGED <<owner, group, bits, left, pipe, data, session, idle,
                 portSide, alive>>

AwaitData ==
  /\ proc = "await" /\ "dataKill" \notin bits
  /\ dataHandle' = FALSE /\ proc' = "recover"
  /\ UNCHANGED <<owner, group, bits, left, pipe, data, session, idle,
                 portSide, alive>>

(* The default pipe is halted, flushed and freed.                          *)
ClosePipe ==
  /\ proc = "recover" /\ pipe
  /\ pipe' = FALSE
  /\ UNCHANGED <<owner, group, bits, proc, left, dataHandle, data, session,
                 idle, portSide, alive>>

(* hcd_port_recover, whose result is ignored, turns a lost port off and    *)
(* may refuse any other.                                                   *)
Recover ==
  /\ proc = "recover" /\ ~pipe /\ proc' = "check"
  /\ port' \in IF port = "recovery" /\ event = "none" THEN {"off"}
               ELSE {port, "off"}
  /\ event' = IF port' = "off" THEN "none" ELSE event
  /\ UNCHANGED <<owner, group, bits, left, pipe, dataHandle, data, session,
                 idle, attached, signals, plugs, alive>>

GoOn ==
  /\ proc = "check" /\ "kill" \notin bits
  /\ proc' = "power"
  /\ UNCHANGED <<owner, group, bits, left, pipe, dataHandle, data, session,
                 idle, portSide, alive>>

(* The port is disabled and turned off, whatever these commands return,    *)
(* and what it still has to say is waited for and goes with its queue.     *)
Drained    == event' = "none" /\ signals' = 0
PortDeinit == port' = "off" /\ Drained

EndProc ==
  /\ proc = "check" /\ "kill" \in bits
  /\ proc' = "ended" /\ bits' = bits \ {"kill"}
  /\ PortDeinit
  /\ UNCHANGED <<owner, group, left, pipe, dataHandle, data, session, idle,
                 attached, plugs, alive>>

-----------------------------------------------------------------------------
(* The data task: its pipes can be had only on a port that is enabled, and *)
(* it asserts that it gets them.                                           *)
SetUp ==
  /\ data = "setup"
  /\ IF port = "enabled"
     THEN data' = "loop" /\ bits' = bits \cup {"ready"} /\ UNCHANGED alive
     ELSE alive' = FALSE /\ UNCHANGED <<data, bits>>
  /\ UNCHANGED <<owner, group, proc, left, pipe, dataHandle, session, idle,
                 portSide>>

(* A bulk-out URB is done and joins the idle ones, or one of them is taken *)
(* for data to send.                                                       *)
OutDone ==
  /\ data = "loop" /\ "dataKill" \notin bits
  /\ idle' = idle \cup {session}
  /\ UNCHANGED <<owner, group, bits, proc, left, pipe, dataHandle, data,
                 session, portSide, alive>>

SendNext ==
  /\ data = "loop" /\ "dataKill" \notin bits
  /\ \E s \in idle : idle' = idle \ {s}
  /\ UNCHANGED <<owner, group, bits, proc, left, pipe, dataHandle, data,
                 session, portSide, alive>>

(* It is told to end: not ready any more; the pipes and all URBs go, the   *)
(* static list of idle URBs stays as it is.                                *)
DataKilled ==
  /\ data = "loop" /\ "dataKill" \in bits
  /\ data' = "pipes" /\ bits' = bits \ {"ready"}
  /\ UNCHANGED <<owner, group, proc, left, pipe, dataHandle, session, idle,
                 portSide, alive>>

EndData ==
  /\ data = "pipes"
  /\ data' = "ended" /\ bits' = bits \ {"dataKill"}
  /\ UNCHANGED <<owner, group, proc, left, pipe, dataHandle, session, idle,
                 portSide, alive>>

-----------------------------------------------------------------------------
(* The device and the interrupts of the port.                              *)
Plug ==
  /\ ~attached /\ plugs < MaxPlugs
  /\ attached' = TRUE /\ plugs' = plugs + 1
  /\ IF port = "powered" THEN Signal("connection")
                         ELSE UNCHANGED <<event, signals>>
  /\ UNCHANGED <<tasks, port, alive>>

Lost(e) ==
  IF port \in {"disabled", "enabled"} THEN port' = "recovery" /\ Signal(e)
  ELSE UNCHANGED <<port, event, signals>>

Unplug ==
  /\ attached /\ attached' = FALSE /\ Lost("disconnection")
  /\ UNCHANGED <<tasks, plugs, alive>>

PortError ==
  /\ attached /\ port = "enabled" /\ Lost("error")
  /\ UNCHANGED <<tasks, attached, plugs, alive>>

Owner == Install \/ Connected \/ ConnectTimeout \/ Deleted
Processing ==
  \/ PortInit \/ PowerOn \/ ListenNothing \/ ListenConnection \/ ResetFails
  \/ PipeFails \/ ListenLoss \/ ForceReset \/ AllocFails \/ Enqueue
  \/ Swallow \/ Transfer \/ TransferFails \/ CreateDataTask \/ KillSeen
  \/ KillData \/ AwaitData \/ ClosePipe \/ Recover \/ GoOn \/ EndProc
DataTask == SetUp \/ OutDone \/ SendNext \/ DataKilled \/ EndData
Device == Plug \/ Unplug \/ PortError

(* What the driver's end needs of the scheduler: its tasks run.            *)
Scheduled == alive /\ (Deleted \/ Processing \/ SetUp \/ DataKilled
                       \/ EndData)

Next == alive /\ (Owner \/ Processing \/ DataTask \/ Device)

Spec == Init /\ [][Next]_vars /\ WF_vars(Scheduled)

-----------------------------------------------------------------------------
(* The event group and what is freed with it, as a shared resource, and    *)
(* the tasks that use it.                                                  *)
State == IF group THEN "held" ELSE IF owner \in {"new", "gone"} THEN "none"
                                                               ELSE "freed"
Users == {t \in {"processing", "data"} :
            IF t = "data" THEN data \notin {"none", "ended"}
                          ELSE proc \notin {"none", "ended"}}

R == INSTANCE SharedResource WITH Tasks <- {"processing", "data"},
                                  state <- State, users <- Users

(* usbh_cdc_driver_delete frees the event group, the rings and, after it,  *)
(* the DTE that the receive callback points into.  Whatever fails and      *)
(* whenever the device comes and goes, none of the driver's tasks is left  *)
(* to use them: the driver is a shared resource freed without users.       *)
(* (After a time-out of usbh_cdc_wait_connect the code frees the DTE and   *)
(* deletes nothing: nothing is promised then but for the driver's own.)    *)
FreedUnused == R!Spec

(* The data task never finds an URB of an earlier connection, freed since, *)
(* in its static list: a lost device restarts the gateway before another   *)
(* data task is made, and a driver is installed once.                      *)
IdleUrbsOwned == data \in {"setup", "loop"} => idle \subseteq {session}

(* usbh_cdc_driver_delete, which waits without limit for two tasks that    *)
(* wait for each other, is open until it returns or a lost device restarts *)
(* the gateway.                                                            *)
DeleteOpen == owner = "deleting" /\ alive
=============================================================================
