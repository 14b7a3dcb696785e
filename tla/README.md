# A TLA+ verification of the LTE gateway

The gateway (an ESP32-S3, two cores, FreeRTOS, ESP-IDF) reads heat pumps over
Modbus and talks to a cloud over MQTT, through WiFi or through a 4G modem on
its USB host port.  This directory models the parts of it whose correctness
depends on the order in which tasks, the modem, the devices and the cloud act.
Paths below are relative to `src/`.

Run a model with `tlc -config X.cfg M`, check proofs with `tlapm MProofs.tla`.

## 1. The system

Contexts that run concurrently: the **main task** (`app_main`), the **MQTT
task** (`mqtt_event_handler`), the **default event loop** (`on_modem_event`,
`on_ppp_changed`, WiFi and provisioning events), the DTE's **receive task**
(`_usb_data_recv_task`), the USB driver's **processing task** and **data
task**, the **timer task** (LEDs), the **button interrupt**, **SNTP**, and an
**OTA task** per update command.  The vendored USB components bring the camera
driver's **USB task** and **sample task**, and the device stack's **interrupt**
and **usbd task**.

| Component | State it keeps | Operations | Interacts with | What makes it correct |
|---|---|---|---|---|
| AT command exchange: `esp_modem_dce.c`, `esp_modem_usb_dte.c`, `esp_modem_dce_common_commands.c` | `dce->handle_line`, `dce->state`, `process_group` bits, line buffer | `generic_command`, `send_cmd`, `handle_line`, the line handlers, `process_cmd_done` | callers: main task and event loop; receive task; modem | a command returns, on its own answer; no call through a cleared handler |
| PPP: `esp_modem.c`, `esp_modem_netif.c`, end of `main/modem_board.c` | `dce->mode`, STOP_PPP_BIT, CONNECT_BIT, dial counter, two event queues | `start_ppp`, `stop_ppp`, `change_mode`, dial loop, GOT_IP/LOST_IP/PPP-status handlers | AT commands, lwIP's PPP, event loops | a link that is down is being redialled; bits tell the truth; TRANSITION is transient |
| Modem start-up: `main/modem_board.c`, `esp_modem_recov_helper.c`, `esp_modem_dce_command_lib.c`, `esp_modem_netif.c` | retry counters, `dce` and its command list, the modem's and the SIM's state | `modem_board_create`, `esp_modem_default_attach`, `retry_run`, `my_recov`, power and reset pulses | AT commands, GPIO | bounded escalation sync, reset, power-cycle; a PIN is not tried to death |
| Cloud writes, polls, reports: `main/mqtt_api.c`, `main/mqtt.c`, `main/modbus.c`, `main/heatpump_rak.c`, `main/inverter_02.c`, `main/salt.c`, `main/app_main.c` | cached registers (one static struct per device), `out_data_queue`, `commands_queue`, UART settings, payload under construction, `*_is_active` | parse a write, apply the queue, test and poll a device, report | MQTT task and main loop share the cache and the queues; devices over RS485 | what the cloud asked for last is in the registers; the cloud knows what the cache holds |
| The gateway's life: `main/app_main.c`, `main/mqtt.c`, `main/ble_provisioning.c`, `main/board_devices/board_button.c` | link, WiFi credentials, button times, command queue, MQTT session | start, loop, provisioning, reconnection | interrupt, MQTT task, event loop, SNTP | credentials go only for a long press; a request is answered; a lost link is made again |
| USB CDC host driver: `components/usb/esp_usbh_cdc/esp_usbh_cdc.c` | two ring buffers with their own counters, idle URB lists, event-group bits, device state | `read_bytes`, `write_bytes`, `install`, `delete`, `wait_connect`, the two tasks | DTE, host controller | bytes in order, counters agree with the buffers, tasks stop when asked, nothing freed while used |
| LED indicator: `components/led/indicator/led_indicator.c`, `main/board_devices/board_leds.c` | step per blink list, active list, timer | `start`, `stop`, the timer callback | main, MQTT and event-loop tasks, timer task | a stopped blink stays stopped; the active list has the highest priority |
| History log: `main/history_log.c` | NVS entries, output log buffer | `save`, `report_saved`, `_output_log_vprintf`, `report_output_logs` | main task, MQTT task | no entry vanishes, a report ends, the log buffer is not overrun |
| Firmware update: `main/ota.c`, `components/esp_https_ota` | OTA handle state, slots, boot partition, `ota_url` | `start_ota`, begin/perform/finish/abort | MQTT task starts it | only a complete, verified image becomes the boot image |
| Camera driver: `components/usb/uvc_stream/uvc_stream.c` | stream handle and two frame buffers, event group, message queue, port and pipes | `uvc_streaming_start`, `suspend`, `resume`, `stop`; USB task, sample task | its caller, host controller | whole frames; a stop that releases everything; answers that are the call's own |
| USB device stack: `components/usb/tinyusb/additions`: `usbd.c`, `dfu_device.c` and `tusb_dfu.c`, `net_device.c` and `tusb_net.c`, `tusb_cdc_acm.c` and `cdc.c` | endpoint flags, event queue; download state and OTA handle; packet buffer; ring of unread bytes | claim, transfer, reset, configuration; the DFU requests; sending and receiving packets; reading | interrupt, usbd task, application tasks, host | one owner per endpoint; a truthful status; whole packets and reads |
| Credentials, topics, WiFi station (`main/wifi`, not built) | NVS, strings | boot-time reads | main task | sequential input/output, not modelled |

The hard behaviours are the unlocked sharing between tasks on two cores (DCE
object, register cache, USB counters, frame buffers, endpoint flags), answers
that come after their timeout, handlers that block the loop which must deliver
what they wait for, results that are ignored after a failure, waits without a
limit for a task that may be anywhere, and state that survives the session it
belongs to.  `PROJECT.json` lists each under "hazards" with its line.

## 2. The modules

| Module | Models | Run |
|---|---|---|
| `ModemCommand` | one AT command at a time over a DCE that several tasks share | `ModemCommandPrompt`, `ModemCommandShared`, `ModemCommandLateAnswers` |
| `CommandService` | abstract: what a command may rely on; implemented by `ModemCommand` when answers are prompt | `ModemCommandPrompt` |
| `ModemPpp` | dialling and redialling: dial loop, LOST_IP handler, receive task, PPP stack | `ModemPpp`, `ModemPppFailures` |
| `ModbusBridge` | tests, polls and reports of the devices and cloud writes over the shared register cache | `ModbusBridge`, `ModbusBridgeOverlap`, `ModbusBridgePanic` |
| `UsbCdc` | the bytes between the tasks, the two ring buffers, the bulk URBs and the modem | `MCUsbCdc`, `UsbCdcSent`, `UsbCdcLine` |
| `MCUsbCdc` | `UsbCdc` with its symmetry, for the model checker | `MCUsbCdc` |
| `ByteChannel` | abstract: a channel of bytes with its faults; implemented by either direction of `UsbCdc` | `UsbCdcSent` |
| `UsbLifeCycle` | the driver's tasks through installation, connection, loss and deletion | `Services` |
| `SharedResource` | abstract: what is freed only without users; implemented by `UsbLifeCycle` | `Services` |
| `ModemStartUp` | creation of the DCE, sync with recovery, SIM, echo, failed starts | `Services` |
| `GatewayMain` | the loop of `app_main`, button, provisioning, WiFi link, MQTT session | `Services` |
| `LedIndicator` | one LED: its lists, tasks and timer | `Services` |
| `Ota` | update tasks, slots, restart | `Services` |
| `HistoryLog`, `OutputLog` | packets in NVS; the log in RAM | `Services` |
| `UvcFrames`, `UvcStream` | a camera's frames; the camera driver's calls, task and port | `Services` |
| `UsbDevice`, `DfuDevice`, `NetDevice`, `CdcAcm` | the core of the USB device stack and three of its classes | `Services` |
| `Services` | composes these thirteen concrete modules, from `UsbLifeCycle` on | `Services` |
| `ModemCommandProofs`, `ModemPppProofs`, `ModbusBridgeProofs`, `UsbCdcProofs` | theorems about these modules for all values of the constants | (tlapm) |
| `UsbLifeProofs`, `UvcStreamProofs` | the same for two parts of `Services` | (tlapm) |
| `ServicesProofs`, `DeviceProofs` | theorems about `Services`: the gateway's parts; the USB device's parts and the types of all | (tlapm) |

`ModemPpp` and `ModemStartUp` use an AT command as one step that succeeds, fails or
times out: the service that `CommandService` specifies and that `ModemCommand` gives
to one caller whose answers are prompt.  `ModemPpp`'s mishap "overlap" marks the
case in which the two callers of `ModemCommand` would not be alone.  `UsbCdc` is
what `UsbLifeCycle` does while a device is connected, `UvcFrames` what `UvcStream`
does while a stream is open; `GatewayMain` leaves the work on the devices to
`ModbusBridge` and the modem to `ModemStartUp` and `ModemPpp`.

`Services` puts the modules of one run together.  They share no state, so their
composition is not explored as a product: the variable `part`, chosen at the
start and then constant, says which of them moves, and the state spaces add up.
Every invariant of `Services` is checked in every state; for the parts that do
not move it says that the initial state satisfies it.

The actions carry the names of the functions or of the step of the function
they model; the lines each stands for are in `PROJECT.json` under "map".  A
definition commented "Variant" is a plausible mistake in the next definition;
each shows that a property would notice it.

### ModemCommand

A caller passes through `InstallHandler` (`generic_command` stores
`handle_line`), `WriteCommand` (`send_cmd` sets PROCESSING and writes),
`WaitSatisfied`/`WaitTimeout` (`xEventGroupWaitBits`), `RemoveHandler`
(`handle_line = NULL`) and `Judge` (reads `dce->state`).  The receive task
passes through `ReadLines`, `CallHandler` and `SetCommandBit`; each shared word
is touched in a step of its own.  `CallNullHandler` is the call of a pointer
cleared between its test and its use: a panic, so everything starts again.
Lines are words of the modem's vocabulary tagged with the command they answer
(ghost); several lines may be read as one buffer, and an answer may be lost,
which also covers one cut by two reads.  A kind of command stands for all the
commands with the same handler.

* `ModemCommandPrompt` (one caller, four kinds, three identities, answers before
  the timeout or never): `NoNullCall` and `NoStaleCompletion`; and
  `ImplementsService`: the exchange implements `CommandService`, in which the
  modem serves a call once, and the call returns that verdict or, when the answer
  is lost, times out.  The mapping (`Stage`, `AnswerTo`) finds the answer where it
  is: in the last line on its way, in the buffer or in the state word; what its
  words mean is said by `Meant`, not by the handlers.  Three identities let a
  lost command, its successor and a third overlap; more add nothing since at most
  one is outstanding when answers are prompt.
* `ModemCommandShared` (two callers, two kinds, two identities, one unsolicited
  NO CARRIER at a time, late answers): a command that starts on a quiet line and
  has it to itself gets its own verdict (`AloneOwnAnswer`), and every command
  returns (`CommandReturns`).  +++ and AT+RESET are the kinds whose handlers
  accept an unsolicited word and need two lines.
* `ModemCommandLateAnswers` (violation of `OwnAnswer`): with one caller and late
  answers, AT times out, its OK completes the next command.

Fairness: weak fairness of `WriteCommand` and of each caller's `Finish`.  A
ready task is scheduled, and the tick interrupt ends every bounded wait; nothing
is assumed of the modem or the receive task.

### ModemPpp

`main` is the end of `modem_board_init` (first dial, wait for CONNECT_BIT, at
most `DialRetryTimes` attempts, restart); `sysLoop` is the default event loop,
busy while the LOST_IP handler redials; the receive task starts and stops the
netif.  Both run the same `StopPpp`/`StartPpp` steps.  The PPP stack is external:
it accepts a connect only when closed, reports a lost connection as LOST_IP and
every other end only as an event of NETIF_PPP_STATUS.  Two timing assumptions are
named in `Settled`: an event that is posted is delivered before a command is
answered or a wait of seconds ends, because both loops outrank the callers,
unless the loop is inside the LOST_IP handler.

Unconditionally the gateway does *not* always attend to a dead link.  The ghost
`mishaps` records the four causes since the last boot: "failure" (a command that
could have succeeded fails), "overlap" (both tasks redial at once), "silence"
(the session ends without LOST_IP) and "late" (GOT_IP comes when main has given
up).  `ModemPpp` shows that with none of them the link is always attended to and
CONNECT_BIT is honest, through any number of losses; that TRANSITION is never
left behind except by an overlap; and `ModemPppFailures` shows the first cause
alone taking the gateway offline for good.

Bounds: three dial attempts (first, middle, last), three outstanding events (a
session's GOT_IP and end, and the end of the one before).  The protocol has no
other counter, so the state space is finite with any number of redials.
Deadlock is not checked: the system legitimately stops in the states the
violation run exhibits.

### ModbusBridge

The MQTT task parses one item of a write (`ComputeItem`: the field's value, the
rest of the word from the cache), stores it in the cache and queues it
(`StoreItem`), or queues a whole word for an address (`WriteRaw`).  The main task
initialises the bus (`ModbusInit`, whose failure nobody notices), tests each
device (`ModbusTest`, which leaves its UART settings behind), tells the cloud if
none answers (`ReportNone`) and enters its loop: it applies the queue
(`ApplyItem`, with the UART settings last set), reads the errors, executes
requests, checks the 300 s and 24 h intervals, and tests again while no device is
active (`TestAgain`).  An operate function is `Operate`, then per CID `Read` and
`Store`, then `Finish`; the operate of registers whose writes are not modelled
(the errors, and all of the salt device) is one step.  The cloud may write the
salt device's two control words (key 0x09, READ_WRITE in `salt_cid_descriptor.h`,
which `get_cid` reaches): whole words that meet `salt_operate` as the RAK's order
meets `heatpump_rak_operate`, so the RAK's order represents them.  `Conclude`
models the two sends at the end, including the empty one that dereferences a NULL
key.  The words modelled are the RAK's temperature order and the inverter's
register 1000, whose IS_ON and MODE are two CIDs with masks over one cached word.

The ghosts are what the cloud last asked for or was told of each field (`view`),
the last value asked for by cloud or panel (`intent`), and `upset`, the set of
things that went wrong.  `CloudObeyed` holds whatever reads fail and reports get
lost, but not when a poll comes between a write's parsing and its application
(`ModbusBridgeOverlap` is the counterexample), when a write is refused, or when it
is "spoiled": sent with another device's UART settings, dropped by a full queue,
or composed from a word never polled.  `CloudInformed` holds outside an operate
unless a read fails, a report is lost or the two tasks touch one word at once.

Bounds: one heat pump on the bus and the salt device beside it (`Networks`; each
of them may stay silent in a test; the violation runs put both heat pumps or one
and the salt device on the bus); two values per field (0 is what the cache boots
with), a queue of two (so that it overflows), three events of which at most one
kind of fault.  Two writes and a fault between them are the shortest stories that
break each property.  The read of a CID and its comparison are one step: no step
of the MQTT task can tell.  Deadlock is not checked: a panic ends a behaviour.

Not in this model: retries inside a read (a read fails after all of them),
requests that only read, live status, and an unknown key (which the code maps to
CID 0).  The queue of requests for data is `GatewayMain`'s.

### UsbCdc and ByteChannel

Writers hold `s_usb_write_mux` through `Lock`, `Send` (the ring takes all bytes or
none) and `Count` (the counter beside the ring).  The data task handles one event
at a time (`OutUrbDone`; `InUrbDone`, then `Push` and `CountPushed` or
`SkipPayload`; `PipeError`), and polls the out ring on a tick without an event
(`Poll`).  The
DTE's receive task is the only reader: `Look`, `Handle` (which reads the length a
second time), `Read` without a limit, `ReadRest` for data that wraps around, the
loop that reads on byte by byte (`ReadOn`, `ReadOnTimeout`) and `HandOver`.  A read
and the subtraction after it are one step: only the task that takes bytes from a
ring looks at that ring's counter.  A push and the addition after it are two.
Whether the DCE is in PPP mode, and whether a command is still PROCESSING, is
decided by other modules, so either is possible each time it is asked.  A done
URB is kept in its event; the host controller puts both into queues in one order.

Transfers fail in two ways.  An URB that is done without being completed is
enqueued again, because `_processing_out_pipe` has that branch (`CompleteOut(FALSE)`,
`OutUrbDone`).  A transfer error, a stall or an overflow halts the pipe (`HaltOut`,
`HaltIn`): the URB stays in it, `_cdc_data_task` only logs the event (`PipeError`),
and nothing dequeues or clears anything.  From then on `hcd_urb_enqueue` refuses
URBs, its result is ignored, and an URB with its bytes is in no list any more
(`Enqueued`, `GiveBack`).  A halted pipe stays halted until a disconnect, which
restarts the gateway.

What may go wrong is recorded in the ghost `mishaps`: a transfer that "failed", a
payload "dropped" at a full ring, bytes taken before they were counted
("overtaken", which the one-byte read can do), a line that was "cut" by a timeout
or "wrapped" below zero, and an "oversized" length of -1 given to the netif after
a read of no bytes.

* `MCUsbCdc` (two writers, two URBs out and one in, rings of two bytes, two bytes
  out and three in): `UrbsAccounted`, `CountersSettle`, `ReadFindsItsBytes` and
  `BytesInOrder` (both directions). Three bytes overfill the ring on the way in;
  two URBs with a byte each are enough to reorder, and to have one in the pipe
  while another is refused. A second URB in would only lengthen the queue of
  events; the theorems are for any number. The bound on the bytes out is on those
  accepted. Writers and URBs of the out pipe are symmetric: `Init` puts the URBs
  into the pipe in one order (`SetToSeq`), the steps and the properties treat them
  alike, so that another order would only rename the states.
  `UrbsAccounted` promises exactly one place per URB until the pipe is halted, and
  at most one after.  `BytesInOrder` lists the pieces each direction is in, end to
  end (`Outgoing`, `Incoming`), and says that no byte is in two of them, that none is
  missing (for the way out: until the pipe is halted), and that each piece is in
  order and below the pieces behind it.  Bytes in URBs that a halted pipe keeps
  count as under way.
* `UsbCdcSent` (one writer, two URBs out and one in, rings and URBs of one byte, two
  bytes each way): `AcceptedIsSent`: what was accepted reaches the modem or the
  bulk-out pipe is halted.  It needs neither a reader nor room in the in ring, and
  neither transfers that are retried nor a halted bulk-in pipe prevent it.  With
  the pipe halted nothing is promised: accepted bytes may never be sent, which the
  hazard at `esp_usbh_cdc.c:1059` records.  `ImplementsChannels`: each direction
  implements `ByteChannel`, in which bytes are accepted, delivered once and in
  order, and a fault only ever displaces or loses bytes.  The mapping takes the
  set of the bytes under way for what is in transit, and the mishaps and the
  halted bulk-out pipe for faults.
* `UsbCdcLine` (violation of `LineKeepsBytes`): a one-byte read that times out
  returns -1, which the DTE adds to the length of the line.

Fairness: the `Count` of the writers and the data task's steps are weakly fair (a
ready task runs, and `xRingbufferSend` gives up after 200 ms).  `CompleteOut(TRUE)`
is strongly fair: on a pipe that is not halted a transfer may be retried any
number of times, not forever; no fairness is assumed of a halted pipe.  `Poll` is
strongly fair: there are always ticks without an event.  That last assumption is
real; a modem that sends without a pause keeps a first write waiting.

### UsbLifeCycle and SharedResource

The owner installs the driver, waits for a connection (`Connected`,
`ConnectTimeout`) and deletes it (`Deleted`); the processing task powers the port,
waits for a device, sets it up transfer by transfer, makes the data task, and
closes, recovers or ends; the data task sets its pipes up, sends and ends.  The
kill bits are set by one and cleared by the other.  The port, its signals and the
`hcd_` functions are external; `hcd_port_recover` may refuse a port that is not
lost.  A restart of the gateway (which a lost device causes) ends the behaviour,
as does a failed assertion.

`FreedUnused` says that the driver implements `SharedResource` with its two tasks
as users: event group, rings and the DTE behind the callback are freed when
neither is left.  `IdleUrbsOwned`: the data task's static list never names an URB
of an earlier connection (a restart comes between).  `WorkEnds` covers the
deletion, whose two waits are without limit.  What the code does not promise is
not claimed: after the 10 s of `wait_connect` the DTE is freed while the driver
goes on, and a set-up transfer that is done with a bad status counts as good.

Bounds: the five set-up transfers of the build, two signals queued, two plugs.

### UvcFrames and UvcStream

`UvcFrames` is the stream between the USB task and the sample task: payloads fill
one buffer (`Payload`, with the frame identifier, the end-of-frame bit and bytes
that may not fit), `SwapBuffers` publishes it unless the mutex is held,
`Stop`/`Notify`/`Await`/`Close` end the stream, and the sample task copies byte by
byte.  `FrameIntact`: the callback sees bytes of one frame only, of the announced
size, and the handle lives while it is used; `WorkEnds`: a stop ends wherever it
found the sample task.  (The mutex time-out of the code evaluates to 0 ticks: a
frame that finds it held is dropped, and that is modelled.)

`UvcStream` is the driver around it: the caller's start, suspend, resume and stop
with their time-outs, the message queue, and the task with its port, pipes and
resets.  `StopReleasesAll` is the promise of `uvc_stream.h`; `AnswerAwaited` says
that a bit in the event group belongs to the call that waits, until a suspend or
resume times out (ghost `late`).  Messages of the caller are dropped while the
task waits for a pipe or resets, and one that comes while the port is turned off
fails an assertion: both are in the model.

Bounds: transfers of two bytes, two frames, two streams; two set-up transfers and
one for a resume (a failure at the first and at a later one), a queue of two, one
camera, four calls of the caller (start, two changes, stop).

### ModemStartUp

`Create` and `Attach` build the DCE step by step: the command list and the
pointers into it, the pins, `my_recov`, the handlers that tie it to the network
interface; either may fail.  `Sync` sends AT; `Escape`, `Reset`, `Pulse`,
`PowerCycle`, `ReadPin`, `EnterPin` and `CheckPin` are the cures in `my_recov`'s
order of decision by its two counters; then echo, information, or a failure that
restarts the gateway while modem and SIM stay as they are.  `GentleFirst`: no
power-cycle before reset by command and by pin, whatever mixture of timeouts and
errors comes.  `SimSparedPerBoot`: at most one wrong PIN per start.  (Each restart
costs another, which four starts with a SIM of three attempts show.)  `TypeOK`
includes that every pointer and handler is set before it is called.  The limits
of timeouts and errors (5 and 1) are the code's.

### GatewayMain

`app_main` from its start to its loop, with `app_provisoning` and its event
handler.  `Press`/`Release` are the interrupt, which reads the wall clock; the
loop samples its own time earlier (`Sample`), serves the queue of requests
(`Serve`), sees a long press and enters provisioning, which erases the credentials
first and waits for new ones without a limit.  `LinkLost`, `TimeOut` (the MQTT
keep-alive), `Disconnected`, `Reconnect` and `Connected` are the WiFi link and the
session over it.  SNTP may move the clock once; a power failure may come at any
step and leaves what is in NVS.

`ProvisioningDeliberate` (an action property): credentials are given up only for a
press that lasted, once per press, except when the clock was set while the button
was down.  `WorkEnds`: a request that found room is executed unless the gateway
restarts or waits for a provisioning, and a lost WiFi link is made again.

Bounds: a long press of one tick, a queue of two, two retries of the connection,
three events in all (requests, presses, losses, power failures).

### LedIndicator

`start`, `stop`, `_blink_list_switch` and the runner, with the mutex where the code
takes it: a runner tests `active_blink`, reads it again, reads and stores the step
before the mutex, and what another task does in between is recorded in `races`.
`LedShowsActive` says, outside those races, that a blink goes on, that the list of
the highest priority is shown, and that a stopped LED stays dark.  After a read
of the list at index -1 nothing more is modelled.  Two lists (one that loops, one
that ends), two tasks and the timer.

### Ota, HistoryLog and OutputLog

`Ota`: a command copies its URL over the last one and creates a task that never
ends; each task begins, downloads in blocks (whole or by ranges), finishes,
chooses the boot slot and restarts.  `RunningIntact`: the slot the gateway runs
from stays whole.  `UpdateTakesEffect`: a restart for an update boots it, unless
`esp_ota_set_boot_partition` failed, whose error is lost, or two tasks wrote to one
slot.  Two tasks, two images, three blocks (header, middle, last).

`HistoryLog`: the main task saves with keys made of time and a count, and evicts at
the quota; the MQTT task walks the entries, publishes and erases.
`NothingVanishes`: each packet is in NVS, published, or evicted as the oldest,
unless a key was repeated after a restart.  `WorkEnds`: a report ends, once a
device is active.  Quota 2, room for 3, 4 saves: eviction, a full partition, and a
save during a report.

`OutputLog`: tasks share the print position without a lock, and the test for the
end is the wrong way round, so that nearly every message starts at the beginning.
`LogStaysInside`: even so the restart for an overrun is never reached, because each
task moves the position by one message at most between two resets.

### UsbDevice, DfuDevice, NetDevice and CdcAcm

`UsbDevice`: the interrupt queues events, the usbd task handles them, and tasks
claim, transfer and release.  The flags busy, stalled and claimed are bits of one
byte, so a store is a load and a store of all.  `DeviceSound`: an endpoint has one
owner, a claimed or busy one comes free, and a mishap (an undone store, a lost
event, a transfer that completed behind a reset that still waits) is healed by the
next reset.  The last of these came out of the proof: `tud_task` handles such a
completion after the reset (`usbd.c:528`) and clears the claim of whoever has
claimed the endpoint since.  In a queue of two there is no room for that story,
so the run has three.

`DfuDevice`: the requests of a download with set-up and end, a host that follows
the protocol, polls again and starts over, and the writer behind it.
`StatusHonest`: until a second download begins, what the host was told it sent is
in the flash, in order, and a download it is told is done is its own file, made
bootable.

`NetDevice`: packets from WiFi into the only buffer, the flag and the semaphore,
the empty transfer behind a full one, RNDIS and ECM.  `PacketsWhole`: each frame
the host gets is one packet, and an open interface at rest takes the next one,
unless a reset or an opening met the WiFi task on its way.

`CdcAcm`: the object that is built in steps while callbacks and readers look at
it, and reads in two pieces.  `ReadsWhole`: the second piece follows the first,
and a read gets what was there when it began, up to what it asked for.

Bounds: two claimers and three events; two files of two blocks in a slot of three;
four packets; two readers, a ring of two, three bytes, two objects.

### Fairness in Services

Weak fairness of steps of tasks that the scheduler runs and that depend on
nothing else (`Fairness`): the reporting MQTT task, the gateway's main task (its
delays end), the keep-alive of a session without a link, the USB driver's tasks,
the camera's sample task (whose callback returns) and the USB task's end of a
stream.  Nothing is
assumed of devices, hosts, cloud or user, except that some device becomes active
for a report to end.

## 3. What is proved

Every invariant that a passing run checks, the action property
`ProvisioningDeliberate` and the three refinements (`ImplementsService`,
`ImplementsChannels`, `FreedUnused`), for all values of the constants that satisfy
the modules' named assumptions (types and positive sizes).
Where a theorem needs more, it is in its ASSUME and named here.  The argument is
always the same: an invariant `IInv` (in `Services` one per part) holds initially,
every step keeps it, shown action by action, and it implies the property.

`ModemCommandProofs`:

* `TypeCorrect`: `Spec => []TypeOK`.
* `AloneCorrect`: `Spec => []AloneOwnAnswer`.  It is not inductive: it speaks of the
  moment before `Judge`.  The strengthening follows the command of a caller that
  is alone: before it is written nothing is outstanding; while it waits every
  line, buffered or pending, is its own; a set bit or a finished wait implies a
  state word written from its own lines.
* `OwnAnswerCorrect`, `NoNullCallCorrect`, `NoStaleCompletionCorrect` assume
  `Prompt`: one caller, answers in time or never, nothing unsolicited.  These are
  the constants of `ModemCommandPrompt`; without them `OwnAnswer` is false
  (`ModemCommandLateAnswers`).  `PromptInv`: between two commands nothing is left
  anywhere, and the command that is waited for is in exactly one place between
  modem and verdict (`OnItsWay`), in two only during the second line of a reset.
* `ImplementsServiceCorrect`, under `Prompt` too: `ServiceInv` adds what the lines on
  their way say.  The last one decides the kind of command that waits
  (`AnswerEnds`), before its handler alone or with the first line of a reset, and
  the state word names the command only between the handler and the end of the
  wait.  `MeantLone` and `MeantPair` show that the handlers agree with the modem
  on such words.  `CallerServes` and `OtherServes` say which step of the service
  each action is (`Moves`): reading both lines of a reset at once is a `Lose`.

`ModemPppProofs`, from `DialRetryTimes >= 1`:

* `TypeCorrect`: with `AttemptLeft` (main has an attempt left until it decides
  to restart), without which the counter's type is not inductive.
* `NoTransitionLeftCorrect`: `ModeInv` adds that a task inside `change_mode` saved a
  mode other than TRANSITION, and that at most one task is inside unless there
  was an overlap.
* `ConnectBitHonestCorrect`, `LinkAttendedCorrect`: `LinkInv`, of a boot without
  mishap, says where each redialling task is (`RedialInOrder`) and which events can
  be outstanding with which session (`PostsInOrder`, `ReportsInOrder`): at most one
  start or stop is posted, and a GOT_IP is never behind the loss of its session.

`ModbusBridgeProofs`, for any bus, values, length of the queue, faults and number of
them:

* `TypeCorrect`, with the shapes of words and payloads per device.
* `CloudObeyedCorrect`: `Obeying` says that the last word queued for a device is what
  was asked for, and that without one the registers hold it already; it needs
  `Steady` (nothing moves under a write that was parsed), which an overlap breaks.
* `CloudInformedCorrect`: `Knowing` follows an operate: what was stored in the cache
  is in the packet or known to the cloud, also between two CIDs of one word.
* `AnswersPreventPanicCorrect`: `Heard`: a device to be reported has something to
  send or to read until a read fails.

`UsbCdcProofs` (a line has at least two bytes):

* `TypeCorrect`: with the bounds of rings and line.
* `CountersAgree`: `Spec => []CountersSettle`.  Inductive with the writers' mutual
  exclusion (`WriteMux`): without it two pushes could be uncounted at once.
* `ReadsDoNotBlock`: `Spec => []ReadFindsItsBytes`, from `Covered` (until a byte is
  overtaken the counter is not negative and covers what the reader wants) and
  the counters.
* `UrbsAccountedCorrect`: one place per URB until its pipe is halted, at most one
  after, and at most one error event per pipe.  `UrbsAccounted` counts the entries
  of a queue by the cardinality of a set of positions, and lemmas say how Append
  and Tail change it.
* The invariant is one part for each direction; a step of one side leaves the
  other side's part alone (`OutFrame`, `InFrame`).
* `BytesInOrderCorrect`: `Spec => []BytesInOrder`.  A list of pieces is awkward to
  reason about: a step takes a piece out of one list and splits it over two
  others.  So the inductive invariant speaks of sets of bytes per place.
  `OutBytes`: no byte is in two of sent, URBs and ring (`OutApart`), together they
  hold all that was written until the pipe is halted (`OutComplete`), and until a
  transfer has to be retried each place is below the one behind it (`OutOrdered`).
  `InBytes`: the places from the handlers back to the events are in order
  (`FrontOrdered`, `QueueOrdered`), hold only bytes that arrived, and all of them
  unless one was dropped or cut (`InKept`).  It needs `UrbsAccounted`: an URB in
  two places would send its bytes twice (`UrbsInPlace`).  `UnreadPieces` and
  `UnderwayPieces` lead back to the pieces.
* `ImplementsChannelsCorrect`: both directions refine `ByteChannel`.  `OutFlow`
  and `InFlow` sort the steps of the driver by what they do to the bytes under way
  (rest, accept, deliver, fall behind, lose), `OutwardStep` and `InwardStep` map
  each sort to a step of the channel or a stutter; `PlacesHeld` is what ties the
  invariant to the mapping.

`UsbLifeProofs`, for any numbers of transfers, signals and plugs: `IInv` conjoins the
types with `OwnerInv` (where the owner is decides whether the event group is there
and the kill bit set), `DataInv` (the processing task knows of a running data
task, and lets go of it only when it has ended), `PortInv`, `OneSession` and
`LeftInv`.  `DataInv` carries the argument: the two tasks wait for each other's bits,
and a handle dropped early would leave a data task behind.  From it follow
`IdleUrbsOwnedCorrect` and `FreedUnusedCorrect`, which is the refinement of
`SharedResource`: `ResourceInit` maps the initial state, `ResourceStep` each step to a
step or a stutter.

`UvcStreamProofs`, for any queue and any number of calls and cameras: the types;
`ReleaseInv` (pipes and stream are gone before the port is off, the port is off
before the end is told, the event group goes after) gives
`StopReleasesAllCorrect`; `AnswerInv` counts, for suspend and resume, one of a
message queued, the task at work on it, or an answer's bit, which gives
`AnswerAwaitedCorrect`.

`ServicesProofs` lifts the last two to the composition, where the run checks them (the
modules are instantiated beside the parts; `SameNext` and its like show that both
instances have the same steps), and proves of the other parts:

* Start-up, any limits: `SuGentle` (two timeouts lead to the pulse) gives
  `GentleFirstCorrect`; `SuSim` (a wrong PIN leaves the SIM locked until the start
  has failed) gives `SimSparedPerBootCorrect`.
* LED, any lists, steps and tasks (`LedShowsActiveCorrect`): `LedGoesOn` is the heart:
  while no race is recorded and a list is not done, the timer is armed or a task
  is on its way to the list of the highest priority (`LedWorks`).
* Update, any tasks, addresses and sizes (`RunningIntactCorrect`,
  `UpdateTakesEffectCorrect`): every task that has begun writes to the slot after the
  running one (`OtaTargets`), so the running slot is nobody's target; a task that
  does not contend finds there what it has written (`OtaAlone`).
* History (`NothingVanishesCorrect`), if `Quota < Capacity`: in the code 2016 of some
  32000 entries of a partition of 1 MB (`ingeli_partitions_two_ota.csv`).
  `HistStore` (one entry more than the quota during a save) keeps the partition from
  being full; that the oldest entry is the one evicted needs that a finite set of
  entries has a least one.
* Log (`LogStaysInsideCorrect`), if header, one longest message per task and the
  reserve are smaller than the buffer (`LogRoom`).  For messages of up to 256 bytes
  that is 4 + 256 n + 256 < 6144, so up to 22 tasks that log at the same moment;
  section 1 lists nine and the OTA tasks.  Enough tasks, or messages much longer
  than the 256 bytes the code reserves, would overrun the buffer.
* Gateway (`ProvisioningDeliberateCorrect`, an action property): `GatePress` (a press
  that led to provisioning is forgotten before the button is looked at again) and
  `GateTimed` (the time of a press is what the clock showed).
* Camera frames (`FrameIntactCorrect`), any sizes and numbers: `FramesHeld` (the other
  buffer holds the frame that was published, whole), `FramesGot` and `FramesCopied`,
  with `FramesPlaces`: while the sample task copies it holds the mutex.

`DeviceProofs` has the parts of the USB device and the types of the whole:

* `DeviceSoundCorrect`, any claimers and any queue: as long as there is no mishap, an
  owner, a transfer on the wire and its completion exclude each other (`UdOne`), an
  endpoint is taken only while someone will free it (`UdFree`), and a completion
  is never behind a reset (`UdQueue`).  The attempt to prove this last part showed
  that it was false and that the bound of the run hid it (section 2, UsbDevice).
* `StatusHonestCorrect`: `DfuProtocol` (between two transfers the driver is where the
  host believes it to be) and `DfuWritten` (what is in the flash, by what the host
  knows and what is still to be flashed).
* `PacketsWholeCorrect`: `NetBuffer`: it is the flag and not the semaphore that keeps
  the buffer during a transfer.
* `ReadsWholeCorrect`: `AcmAlone` (one reader in an object at a time) and `AcmAhead`:
  what was there when a read began is still to come or is got.
* `TypeCorrect`: `Spec => []TypeOK` for all thirteen parts.

Model-checked only:

* liveness (`CommandReturns`, `AcceptedIsSent`, `WorkEnds`), which is outside the
  prover's reach.

The properties of the violation runs are false; what holds in their place is
proved: `AloneOwnAnswer` and, for prompt answers, `OwnAnswer`;
`LinkAttendedUndisturbed`; `CloudObeyed`, without overlap; `AnswersPreventPanic`; and
`BytesInOrder`, which names the line that was cut.

## 4. Plan

Modelled so far is what section 2 lists; the order was that of the hazards:
first the modem link and the bridge, then the USB driver, then the services, and
last the vendored USB components that the firmware carries.  Left:

1. A composition of `ModbusBridge` with the request queue of `GatewayMain`, so that
   a request for data and a write can meet in one round of the loop.
2. `CommandService` as a part of `ModemPpp` and `ModemStartUp`: their commands are
   single steps with its outcomes, and a composition would show it step by step.
3. A second caller in `CommandService`: with both alone on the line in turn the
   refinement should still hold (`AloneOwnAnswer` is the invariant it would need).

## 5. Not modelled

Not built or not called: `main/wifi`, `main/not_used`, the web server, WPS, the
light driver, `esp_modem_compat`; the drivers of other modems (`device` is
unspecified, so their initialisation does not run) and the library functions that
change or delete commands; `esp_modem_default_destroy` and `modem_board_deinit`,
which nobody calls; in the USB driver line state and tracing, which are not
compiled.  TinyUSB (`CONFIG_TINYUSB` is not set) and the camera driver are vendored
and not called by the gateway; they are modelled because the repository changes
and ships them, and each is modelled with the callers its own API allows.

Of modelled components: the AT handlers that only store a result; formatting of
topics and payloads, the firmware version, the diagnostic mode and the live
status, which read and print; deletion of an LED; the camera's descriptors, its
simulated source and messages of a pipe that was freed; of the device stack
descriptors, addresses, remote wake-up, suspend and resume towards the classes,
notifications, RNDIS control messages, and of the serial port its writing side,
VFS and console.  A failed start of the camera leaves a stale event group
pointer, and a resume that finds no default pipe dereferences NULL: the model
ends such behaviours.

Memory lifetime errors of C lie outside a state-machine model, and no property
here could cover one, so the hazards leave them out.  One to know of: the argument
of the event handlers that `main/modem_board.c:425` registers is a local of
`modem_board_init` (420), which they read after it has returned.
