---------------------------- MODULE GatewayMain ----------------------------
(***************************************************************************)
(* The life of the gateway around its Modbus work: app_main chooses the 4G *)
(* modem or WiFi, starts MQTT and then loops: it executes the commands     *)
(* that the MQTT task queued and enters the provisioning over Bluetooth    *)
(* after a long press of the button, which an interrupt handler times by   *)
(* the wall clock.  Provisioning erases the WiFi credentials first and then*)
(* waits for new ones without limit.  A WiFi link that is lost is made     *)
(* again by the loop, when the MQTT client has noticed, or at once by the  *)
(* handler that provisioning has registered.                               *)
(*                                                                         *)
(* Concurrent are the main task, the interrupt of the button, the MQTT     *)
(* task with the cloud's requests, the event loop with the WiFi and the    *)
(* provisioning events, and SNTP, which sets the clock once.  The polls of *)
(* the devices are left to ModbusBridge, the modem to ModemStartUp.        *)
(***************************************************************************)
EXTENDS Integers

CONSTANTS
  LongPress,  \* seconds: 5
  QueueSize,  \* modbus_commands_queue_init: 20
  MaxRetries, \* CONFIG_EXAMPLE_PROV_MGR_MAX_RETRY_CNT: 5
  Jump,       \* what SNTP adds to a clock that started at 0
  LastTime,   \* bound: the clock without SNTP
  MaxEvents   \* bound: requests, presses, lost links and power failures

GatewayAssumption ==
  /\ {LongPress, Jump} \subseteq Nat
  /\ {QueueSize, MaxRetries, LastTime} \subseteq Nat \ {0}
  /\ MaxEvents \in Nat

VARIABLES
  at,         \* where app_main is
  back,       \* where app_provisoning returns to
  link,       \* "ppp" or "wifi", "none" at first
  station,    \* the WiFi credentials in NVS: "none", "old" or "new"
  ip,         \* WIFI_CONNECTED_EVENT of wifi_event_group
  retries,    \* the static of event_handler
  client,     \* there is an MQTT client
  linked,     \* the network is reached over PPP or WiFi
  online,     \* is_connected
  clock,      \* the time since the start and what SNTP added to it
  current,    \* the local current_time
  button,     \* board_btn_info without the click
  queue,      \* the length of the queue modbus_commands_queue_handle
  happened,   \* the events so far
  hold,       \* ghost: the last press: when, whether the clock was set
              \* since, whether it led to provisioning
  pending     \* ghost: requests accepted and not executed in this start

wifi   == <<station, ip, retries>>
net    == <<linked, online>>
calls  == <<client, queue, pending>>
cloud  == <<calls, net, happened>>
vars   == <<at, back, link, wifi, clock, current, button, cloud, hold>>

NoQueue == -1       \* the handle before xQueueCreate
Now     == clock.up + clock.set

Booting == {"start", "mqtt", "queue"}
Looping == {"loop", "serve", "hold", "long", "reset", "end"}
Waiting == {"await", "ip"}
Places  == Booting \cup Looping \cup Waiting \cup {"provision", "erase"}

Happens == happened < MaxEvents /\ happened' = happened + 1

(* What the statics and locals hold when the gateway starts.               *)
FreshClock  == [up |-> 1, set |-> 0]
FreshButton == [pressed |-> FALSE, time |-> 0]
FreshHold   == [since |-> 0, set |-> FALSE, used |-> FALSE]

Init ==
  /\ at = "start" /\ back = "mqtt" /\ link = "none"
  /\ ip = "none" /\ retries = 0 /\ clock = FreshClock
  /\ current = 0 /\ button = FreshButton /\ hold = FreshHold
  /\ client = FALSE /\ queue = NoQueue /\ pending = 0
  /\ linked = FALSE /\ online = FALSE
  /\ station \in {"none", "old"} /\ happened = 0

(* A restart keeps what is in NVS.                                         *)
Reboot ==
  /\ at' = "start" /\ back' = "mqtt" /\ link' = "none"
  /\ ip' = "none" /\ retries' = 0 /\ clock' = FreshClock
  /\ current' = 0 /\ button' = FreshButton /\ hold' = FreshHold
  /\ client' = FALSE /\ queue' = NoQueue /\ pending' = 0
  /\ linked' = FALSE /\ online' = FALSE
  /\ UNCHANGED station

-----------------------------------------------------------------------------
(* app_main up to the loop.  modem_board_init returns NULL without a       *)
(* dongle; esp_wifi_connect then fails when no credentials are stored.     *)
StartPpp ==
  /\ at = "start" /\ link' = "ppp" /\ at' = "mqtt" /\ linked' = TRUE
  /\ UNCHANGED <<back, wifi, clock, current, button, calls, happened,
                 online, hold>>

StartWifi ==
  /\ at = "start" /\ link' = "wifi"
  /\ at' = IF station = "none" THEN "provision" ELSE "mqtt"
  /\ linked' = (station # "none")
  /\ UNCHANGED <<back, wifi, clock, current, button, calls, happened,
                 online, hold>>

MqttStart ==
  /\ at = "mqtt" /\ at' = "queue" /\ client' = TRUE
  /\ UNCHANGED <<back, link, wifi, clock, current, button, queue, happened,
                 pending, net, hold>>

(* After the probe of the devices, which takes its time.                   *)
InitQueue ==
  /\ at = "queue" /\ at' = "loop" /\ queue' = 0
  /\ UNCHANGED <<back, link, wifi, clock, current, button, client, happened,
                 pending, net, hold>>

-----------------------------------------------------------------------------
(* The loop.  current_time is read once, after the cloud's writes and the  *)
(* polls for errors.                                                       *)
Sample ==
  /\ at = "loop" /\ at' = "serve"
  /\ current' = Now
  /\ UNCHANGED <<back, link, wifi, clock, button, cloud, hold>>

(* Variant: one command a round, and the queue is reset after it.          *)
ServeOne ==
  /\ at = "serve" /\ at' = "hold" /\ queue' = 0
  /\ pending' = IF queue = 0 THEN pending ELSE pending - 1
  /\ UNCHANGED <<back, link, wifi, clock, current, button, client, happened,
                 net, hold>>

(* modbus_execute_pending_commands, until the queue is empty.              *)
Serve ==
  /\ at = "serve"
  /\ IF queue = 0
     THEN at' = "hold" /\ UNCHANGED <<queue, pending>>
     ELSE /\ queue' = queue - 1 /\ pending' = pending - 1
          /\ at' = at
  /\ UNCHANGED <<back, link, wifi, clock, current, button, client, happened,
                 net, hold>>

(* The long press: is_pressed is read before press_time_us.                *)
Hold ==
  /\ at = "hold" /\ at' = IF button.pressed THEN "long" ELSE "end"
  /\ UNCHANGED <<back, link, wifi, clock, current, button, cloud, hold>>

Long ==
  /\ at = "long"
  /\ IF /\ button.time # 0 /\ current - button.time > LongPress
        /\ link # "ppp"
     THEN at' = "provision" /\ back' = "reset"
          /\ hold' = [hold EXCEPT !.used = TRUE]
     ELSE at' = "end" /\ UNCHANGED <<back, hold>>
  /\ UNCHANGED <<link, wifi, clock, current, button, cloud>>

(* Variant: the time of the press is kept.                                 *)
ResetKeepsTime ==
  /\ at = "reset" /\ at' = "end"
  /\ UNCHANGED <<back, link, wifi, clock, current, button, cloud, hold>>

Reset ==
  /\ at = "reset" /\ at' = "end"
  /\ button' = [button EXCEPT !.time = 0]
  /\ UNCHANGED <<back, link, wifi, clock, current, cloud, hold>>

(* Variant: the link is made again only before the button is used.         *)
ReconnectIdle ==
  /\ at = "end" /\ at' = "loop"
  /\ linked' = (linked \/ (/\ ~online /\ link = "wifi" /\ station # "none"
                          /\ button.time = 0))
  /\ UNCHANGED <<back, link, wifi, clock, current, button, calls, happened,
                 online, hold>>

(* The end of a round: esp_wifi_connect, by the client's session and not by*)
(* the link.  The access point is in reach.                                *)
Reconnect ==
  /\ at = "end" /\ at' = "loop"
  /\ linked' = (linked \/ (/\ ~online /\ link = "wifi"
                          /\ station # "none"))
  /\ UNCHANGED <<back, link, wifi, clock, current, button, calls, happened,
                 online, hold>>

-----------------------------------------------------------------------------
(* app_provisoning: a new event group, the stored credentials erased, and  *)
(* the waits for the manager's end and for an address.                     *)
Provision ==
  /\ at = "provision" /\ at' = "erase" /\ ip' = "clear"
  /\ UNCHANGED <<back, link, station, retries, clock, current, button, cloud,
                 hold>>

Erase ==
  /\ at = "erase" /\ at' = "await" /\ station' = "none"
  /\ linked' = FALSE
  /\ UNCHANGED <<back, link, ip, retries, clock, current, button, calls,
                 happened, online, hold>>

AwaitIp ==
  /\ at = "ip" /\ ip = "set" /\ at' = back
  /\ UNCHANGED <<back, link, wifi, clock, current, button, cloud, hold>>

(* event_handler: after MaxRetries bad credentials the manager's state     *)
(* machine is reset, so that another try may come; good ones end the wait. *)
CredFail ==
  /\ at = "await"
  /\ retries' = IF retries + 1 >= MaxRetries THEN 0 ELSE retries + 1
  /\ UNCHANGED <<at, back, link, station, ip, clock, current, button, cloud,
                 hold>>

CredSuccess ==
  /\ at = "await" /\ at' = "ip" /\ station' = "new" /\ retries' = 0
  /\ UNCHANGED <<back, link, ip, clock, current, button, cloud, hold>>

(* It stays registered after the first provisioning, and makes a link that *)
(* is lost again.                                                          *)
GotIp ==
  /\ ip # "none" /\ station # "none" /\ ip' = "set"
  /\ ip = "clear" \/ ~linked
  /\ linked' = TRUE
  /\ UNCHANGED <<at, back, link, station, retries, clock, current, button,
                 calls, happened, online, hold>>

-----------------------------------------------------------------------------
(* The access point goes away for a while.                                 *)
LinkLost ==
  /\ Happens /\ link = "wifi" /\ linked /\ linked' = FALSE
  /\ UNCHANGED <<at, back, link, wifi, clock, current, button, calls, online,
                 hold>>

(* mqtt_event_handler.  A new session subscribes to the topics again.      *)
Connected ==
  /\ client /\ linked /\ ~online /\ online' = TRUE
  /\ UNCHANGED <<at, back, link, wifi, clock, current, button, calls, happened,
                 linked, hold>>

Disconnected ==
  /\ online /\ online' = FALSE
  /\ UNCHANGED <<at, back, link, wifi, clock, current, button, calls, happened,
                 linked, hold>>

(* A request for data is acknowledged and pushed; a full queue drops it,   *)
(* and xQueueSend asserts that there is a queue.                           *)
Push ==
  IF queue < QueueSize
  THEN queue' = queue + 1 /\ pending' = pending + 1
  ELSE UNCHANGED <<queue, pending>>

GetData ==
  /\ online /\ linked /\ Happens
  /\ IF queue = NoQueue THEN Reboot
     ELSE /\ Push
          /\ UNCHANGED <<at, back, link, wifi, clock, current, button,
                         client, net, hold>>

(* gpio_isr_handler, on both edges.                                        *)
Press ==
  /\ Happens /\ ~button.pressed
  /\ button' = [pressed |-> TRUE, time |-> Now]
  /\ hold' = [since |-> clock.up, set |-> FALSE, used |-> FALSE]
  /\ UNCHANGED <<at, back, link, wifi, clock, current, calls, net>>

Release ==
  /\ button.pressed /\ button' = [button EXCEPT !.pressed = FALSE]
  /\ UNCHANGED <<at, back, link, wifi, clock, current, cloud, hold>>

Tick ==
  /\ clock.up < LastTime /\ clock' = [clock EXCEPT !.up = @ + 1]
  /\ UNCHANGED <<at, back, link, wifi, current, button, cloud, hold>>

(* SNTP, started before the MQTT client.                                   *)
SetClock ==
  /\ client /\ linked /\ clock.set = 0
  /\ clock' = [clock EXCEPT !.set = Jump]
  /\ hold' = [hold EXCEPT !.set = TRUE]
  /\ UNCHANGED <<at, back, link, wifi, current, button, cloud>>

PowerFailure == Happens /\ Reboot

-----------------------------------------------------------------------------
Main ==
  \/ StartPpp \/ StartWifi \/ MqttStart \/ InitQueue
  \/ Sample \/ Serve \/ Hold \/ Long \/ Reset \/ Reconnect
  \/ Provision \/ Erase \/ AwaitIp

Environment ==
  \/ CredFail \/ CredSuccess \/ GotIp
  \/ LinkLost \/ Connected \/ Disconnected \/ GetData
  \/ Press \/ Release \/ Tick \/ SetClock \/ PowerFailure

Next == Main \/ Environment

(* The client's keep-alive ends a session without a link.                  *)
TimeOut == ~linked /\ Disconnected

(* The main task is scheduled, and its delays end.                         *)
Fairness == WF_vars(Main) /\ WF_vars(TimeOut)

Spec == Init /\ [][Next]_vars /\ Fairness

-----------------------------------------------------------------------------
TypeOK ==
  /\ at \in Places /\ back \in {"mqtt", "reset"}
  /\ link \in {"none", "ppp", "wifi"}
  /\ station \in {"none", "old", "new"} /\ ip \in {"none", "clear", "set"}
  /\ retries \in 0..MaxRetries - 1
  /\ client \in BOOLEAN /\ linked \in BOOLEAN /\ online \in BOOLEAN
  /\ online => client
  /\ clock.up \in 1..LastTime /\ clock.set \in {0, Jump}
  /\ current <= Now /\ button.time <= Now
  /\ queue \in {NoQueue} \cup 0..QueueSize
  /\ happened \in 0..MaxEvents /\ pending \in 0..happened

(* The WiFi credentials are given up only for a press that lasted, one     *)
(* time for one press, although the press is timed by a wall clock read in *)
(* two tasks and the loop may be slow.  (A clock set while the button is   *)
(* down makes any press a long one.)                                       *)
ProvisioningDeliberate ==
  [][at = "long" /\ at' = "provision" =>
       /\ link = "wifi" /\ ~hold.used
       /\ hold.set \/ clock.up - hold.since > LongPress]_vars

(* A request for data that found room in the queue is open until the loop  *)
(* executes it or the gateway restarts; somebody must first provision a    *)
(* gateway that waits for it.  (Without the bound on requests the loop     *)
(* could be busy with them for ever.)                                      *)
RequestOpen == pending > 0 /\ at \notin Waiting

(* In the loop, a lost WiFi link is open until it is made again, although  *)
(* no handler of the loss is registered when there was no provisioning and *)
(* the client takes its time to notice.                                    *)
LinkOpen == at \in Looping /\ link = "wifi" /\ ~linked /\ station # "none"
=============================================================================
