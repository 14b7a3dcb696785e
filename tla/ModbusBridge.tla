---------------------------- MODULE ModbusBridge ----------------------------
(***************************************************************************)
(* The bridge between the cloud and the heat pumps: what the MQTT task     *)
(* writes into out_data_queue and into the cached register values          *)
(* (mqtt_out_device_topic_data_parse), and what the loop of app_main does  *)
(* with them: it applies the queue over Modbus, polls the devices into the *)
(* same cache and tells the cloud what changed.                            *)
(*                                                                         *)
(* Modelled are two of the registers that the cloud may write: the water   *)
(* temperature order of the RAK heat pump, a whole word, and the           *)
(* inverter's register 1000, in which IS_ON (mask 0x0010) and MODE (mask   *)
(* 0x000F) are two CIDs that share one cached word. The salt device is     *)
(* polled and heard with the inverter's UART settings; the cloud may write *)
(* its two control words (key 0x09) too, and these whole words are         *)
(* represented by the RAK's order. The two tasks run on two cores: a step  *)
(* of one may come between any two steps of the other.                     *)
(***************************************************************************)
EXTENDS Naturals, SequencesExt

CONSTANTS
  Devices,     (* The devices that may be on the bus: "rak", "inv", "salt".*)
  Networks,    (* Sets of them that may be there together.                 *)
  Values,      (* Values of one field; 0 is what the cache boots with.     *)
  Factory,     (* What the registers hold at first.                        *)
  Unknown,     (* What the cloud knows before it is told.                  *)
  QueueSize,   (* Length of out_data_queue: 50 in the code.                *)
  MaxFaults,   (* Bound on the kinds of faults in one behaviour.           *)
  MaxEvents,   (* Bound on these and the writes from the cloud together.   *)
  Faults       (* What the environment may do in this instance.            *)

(* local: someone changes a setting at the device.  raw: a write by Modbus *)
(* address (key 128 and above).  refused: a write fails on the bus.        *)
(* silent: all retries of a read fail.  offline: a publish is lost.        *)
FaultKinds == {"local", "raw", "refused", "silent", "offline"}

ASSUME InstanceAssumption ==
  /\ Devices \subseteq {"rak", "inv", "salt"}
  /\ Networks \subseteq SUBSET Devices
  /\ {0, Factory} \subseteq Values
  /\ Unknown \notin Values
  /\ QueueSize \in Nat \ {0}
  /\ MaxFaults \in Nat
  /\ MaxEvents \in Nat
  /\ Faults \subseteq FaultKinds

VARIABLES
  registers,  (* the devices' registers (external)                         *)
  cache,      (* the words that opt3 of the descriptors points to          *)
  queue,      (* out_data_queue                                            *)
  parse,      (* the item the MQTT task has computed and not stored yet    *)
  uart,       (* speed and parity of the Modbus UART                       *)
  active,     (* rak_is_active, inv_is_active                              *)
  pc,         (* where the loop of app_main is                             *)
  poll,       (* locals of the loop and of the operate function it calls   *)
  hadError,   (* had_error_previous_time of each device's file             *)
  fresh,      (* ghost: the devices polled since the boot                  *)
  writes,     (* ghost: writes from the cloud so far                       *)
  view,       (* ghost: the last value the cloud asked for or was told     *)
  intent,     (* ghost: the last value asked for, by cloud or at the device*)
  upset       (* ghost: what went wrong since the start                    *)

cloudSide == <<queue, parse>>
mainSide  == <<uart, active, pc, poll, hadError>>
ghosts    == <<fresh, writes, view, intent, upset>>
vars      == <<registers, cache, cloudSide, mainSide, ghosts>>

Uart    == [rak |-> "19200 even", inv |-> "9600 none", salt |-> "9600 none"]
Cids    == [rak |-> <<"order">>, inv |-> <<"on", "mode">>, salt |-> <<>>]

Fields(d) == ToSet(Cids[d])
Words(d)  == [Fields(d) -> Values]
Pumps     == Devices \ {"salt"}

Only(d, S)   == IF d \in S THEN <<d>> ELSE <<>>
TestOrder(S) == Only("salt", S) \o Only("rak", S) \o Only("inv", S)
PollOrder(S) == Only("rak", S) \o Only("inv", S) \o Only("salt", S)

(* Without a Modbus controller no settings reach a device.                 *)
SetUart(d) == uart' = IF uart = "down" THEN "down" ELSE Uart[d]

NoPoll == [plan |-> <<>>, then |-> "apply", force |-> FALSE, left |-> <<>>,
           word |-> <<>>, failed |-> FALSE, packet |-> {}]

(* overlap: a poll overwrites the cache while a write is still under way.  *)
(* torn: a word changes, in the cache or in the device, under an operate.  *)
(* spoiled: the queue was full, or a write was sent with the UART settings *)
(* of another device, or it was composed from a word that no poll has read *)
(* since the boot.                                                         *)
Upsets == FaultKinds \cup {"overlap", "torn", "spoiled"}

Note(S) == upset' = upset \cup S
FaultsWith(kinds) == Cardinality((upset \cap FaultKinds) \cup kinds)

MayWrite == writes + FaultsWith({}) < MaxEvents

MayHappen(kind) ==
  /\ kind \in Faults
  /\ FaultsWith({kind}) <= MaxFaults
  /\ writes + FaultsWith({kind}) <= MaxEvents

If(happened, kind) == {k \in {kind} : happened}

Concerns(items, d) == \E i \in DOMAIN items : items[i].dev = d

(* The operate function that runs, if one does, has read d or will.        *)
Operating(d) == pc \in {"read", "store"} /\ Head(poll.plan) = d

(* mqtt_data_send reads the key of the packet, which is NULL when nothing  *)
(* was added since the last send: that is a panic, and a restart.          *)
SendsNothing(d, failed, packet, force) ==
  /\ packet # {} \/ force
  /\ packet = {} \/ (failed /\ ~hadError[d])

Init ==
  /\ cache = [d \in Devices |-> [f \in Fields(d) |-> 0]]
  /\ queue = <<>>
  /\ parse = <<>>
  /\ uart = "off"
  /\ active = {}
  /\ pc = "init"
  /\ poll = NoPoll
  /\ hadError = [d \in Devices |-> FALSE]
  /\ fresh = {}
  /\ registers = [d \in Devices |-> [f \in Fields(d) |-> Factory]]
  /\ view = [d \in Devices |-> [f \in Fields(d) |-> Unknown]]
  /\ intent = registers
  /\ writes = 0
  /\ upset = {}

-----------------------------------------------------------------------------
(* The MQTT task: one item of a message at a time; a message that is cut   *)
(* short has queued the items before the cut.  A panic restarts the gateway*)
(* and so begins another behaviour.                                        *)

Enqueue(item) ==
  queue' = IF Len(queue) < QueueSize THEN Append(queue, item) ELSE queue

Dropped == If(Len(queue) = QueueSize, "spoiled")

Connected == pc \notin {"init", "panic"}

(* The value of the field, and the other fields of the word from the cache.*)
ComputeItem(d, f, v) ==
  /\ Connected
  /\ parse = <<>>
  /\ MayWrite
  /\ writes' = writes + 1
  /\ parse' = <<[dev |-> d, field |-> f, word |-> [cache[d] EXCEPT ![f] = v]]>>
  /\ Note(If(d \notin fresh, "spoiled"))
  /\ UNCHANGED <<registers, cache, queue, mainSide, fresh, view, intent>>

(* Variant: the cache waits for the next poll.                             *)
StoreItemKeepsCache ==
  /\ Connected
  /\ parse # <<>>
  /\ LET item == parse[1]
         d    == item.dev
         f    == item.field
     IN  /\ Enqueue([dev |-> d, word |-> item.word])
         /\ view' = [view EXCEPT ![d][f] = item.word[f]]
         /\ intent' = [intent EXCEPT ![d][f] = item.word[f]]
         /\ Note(Dropped \cup If(Operating(d), "torn"))
  /\ parse' = <<>>
  /\ UNCHANGED <<registers, cache, mainSide, fresh, writes>>

(* *data = item.value and xQueueSend without waiting, the result ignored.  *)
StoreItem ==
  /\ Connected
  /\ parse # <<>>
  /\ LET item == parse[1]
         d    == item.dev
         f    == item.field
     IN  /\ cache' = [cache EXCEPT ![d] = item.word]
         /\ Enqueue([dev |-> d, word |-> item.word])
         /\ view' = [view EXCEPT ![d][f] = item.word[f]]
         /\ intent' = [intent EXCEPT ![d][f] = item.word[f]]
         /\ Note(Dropped \cup If(Operating(d), "torn"))
  /\ parse' = <<>>
  /\ UNCHANGED <<registers, mainSide, fresh, writes>>

(* A whole word for a Modbus address, queued past the cache.               *)
WriteRaw(d, word) ==
  /\ Connected
  /\ MayHappen("raw")
  /\ parse = <<>>
  /\ MayWrite
  /\ writes' = writes + 1
  /\ Enqueue([dev |-> d, word |-> word])
  /\ view' = [view EXCEPT ![d] = [f \in Fields(d) |-> Unknown]]
  /\ intent' = [intent EXCEPT ![d] = word]
  /\ Note(Dropped \cup {"raw"})
  /\ UNCHANGED <<registers, cache, parse, mainSide, fresh>>

-----------------------------------------------------------------------------
(* The loop of app_main.                                                   *)

(* modbus_init, whose result is ignored, and then the tests of all devices.*)
StartTests(then) ==
  /\ pc' = "test"
  /\ poll' = [NoPoll EXCEPT !.plan = TestOrder(Devices),
                            !.then = then]

ModbusInit ==
  /\ pc = "init"
  /\ uart' \in {"9600 even", "down"}
  /\ StartTests("boot")
  /\ UNCHANGED <<registers, cache, cloudSide, active, hadError, ghosts>>

(* Each round that finds no device active tests again.                     *)
TestAgain ==
  /\ pc = "interval"
  /\ active = {}
  /\ StartTests("apply") \/ StartTests("sendAll")
  /\ UNCHANGED <<registers, cache, cloudSide, uart, active, hadError, ghosts>>

(* modbus_test, with its retries: the device answers, or it does not.      *)
ModbusTest ==
  /\ pc = "test"
  /\ poll.plan # <<>>
  /\ LET d == Head(poll.plan)
     IN  /\ SetUart(d)
         /\ \/ /\ uart # "down"
               /\ \E devices \in Networks : active \cup {d} \subseteq devices
               /\ active' = active \cup {d}
            \/ UNCHANGED active
  /\ poll' = [poll EXCEPT !.plan = Tail(@)]
  /\ UNCHANGED <<pc, registers, cache, cloudSide, hadError, ghosts>>

(* apply_out_topic_messages: an item is written with the UART settings that*)
(* were set last, and an error is only logged.                             *)
ApplyItem ==
  /\ pc = "apply"
  /\ queue # <<>>
  /\ LET item == Head(queue)
         d    == item.dev
     IN  \/ /\ uart = Uart[d]
            /\ registers' = [registers EXCEPT ![d] = item.word]
            /\ UNCHANGED upset
         \/ /\ uart = Uart[d] => MayHappen("refused")
            /\ Note({IF uart = Uart[d] THEN "refused" ELSE "spoiled"})
            /\ UNCHANGED registers
  /\ queue' = Tail(queue)
  /\ UNCHANGED <<cache, parse, mainSide, fresh, writes, view, intent>>

ApplyDone ==
  /\ pc = "apply"
  /\ queue = <<>>
  /\ pc' = "errors"
  /\ poll' = [poll EXCEPT !.plan = PollOrder(active)]
  /\ UNCHANGED <<registers, cache, cloudSide, uart, active, hadError, ghosts>>

StartPolls(devices, force, then) ==
  IF devices = {}
    THEN /\ pc' = then
         /\ poll' = NoPoll
    ELSE /\ pc' = "operate"
         /\ poll' = [NoPoll EXCEPT !.plan = PollOrder(devices),
                                   !.force = force, !.then = then]

(* After the errors, modbus_execute_pending_commands.                      *)
RunCommands ==
  /\ pc = "errors"
  /\ poll.plan = <<>>
  /\ \/ StartPolls(active, TRUE, "interval")
     \/ pc' = "interval" /\ UNCHANGED poll
  /\ UNCHANGED <<registers, cache, cloudSide, uart, active, hadError, ghosts>>

(* The 300 s interval polls the RAK and the salt device for changes; of    *)
(* the inverter it sends a live status only.                               *)
CheckIntervals ==
  /\ pc = "interval"
  /\ active # {}
  /\ \/ StartPolls(active \ {"inv"}, FALSE, "apply")
     \/ pc' = "sendAll" /\ UNCHANGED poll
  /\ UNCHANGED <<registers, cache, cloudSide, uart, active, hadError, ghosts>>

SendAllData ==
  /\ pc = "sendAll"
  /\ \/ StartPolls(active, TRUE, "apply")
     \/ pc' = "apply" /\ UNCHANGED poll
  /\ UNCHANGED <<registers, cache, cloudSide, uart, active, hadError, ghosts>>

-----------------------------------------------------------------------------
(* heatpump_rak_operate, inverter_02_operate and salt_operate.             *)

(* mqtt_data_add: the packet gathers what is added until it is sent.       *)
Add(packet, entry, wanted) == packet \cup If(wanted, entry)

(* What is published reaches the cloud, or is lost with the connection.    *)
Publish(packet, happened) ==
  \/ /\ view' = [d \in Devices |-> [f \in Fields(d) |->
                   LET told == {e \in packet : e.dev = d /\ e.field = f}
                   IN  IF told = {} THEN view[d][f]
                                    ELSE (CHOOSE e \in told : TRUE).value]]
     /\ Note(happened)
  \/ /\ packet # {}
     /\ MayHappen("offline")
     /\ Note(happened \cup {"offline"})
     /\ UNCHANGED view

(* mqtt_modbus_error_send, for the inverter and for the RAK, once: app_main*)
(* does not forget that it has told.                                       *)
ReportNone ==
  /\ pc = "test"
  /\ poll.plan = <<>> /\ poll.then = "boot"
  /\ active = {}
  /\ Publish({[dev |-> d, field |-> "errors"] : d \in Pumps}, {})
  /\ pc' = "apply" /\ poll' = NoPoll
  /\ UNCHANGED <<registers, cache, cloudSide, uart, active, hadError, fresh,
                 writes, intent>>

TestsDone ==
  /\ pc = "test"
  /\ poll.plan = <<>>
  /\ poll.then = "boot" => active # {}
  /\ pc' = IF poll.then = "boot" THEN "apply" ELSE poll.then
  /\ poll' = NoPoll
  /\ UNCHANGED <<registers, cache, cloudSide, uart, active, hadError, ghosts>>

(* The end of an operate.  The first failure is sent as an error, with all *)
(* that was added before it; then what changed, or was forced, is sent.    *)
Conclude(d, failed, packet, force, label) ==
  LET nothing == SendsNothing(d, failed, packet, force)
      error   == [dev |-> d, field |-> "errors"]
  IN  /\ Publish(Add(packet, error, failed /\ ~hadError[d]),
                 If(failed, "silent"))
      /\ SetUart(d)
      /\ hadError' = [hadError EXCEPT ![d] = failed]
      /\ poll' = IF Len(poll.plan) = 1 THEN NoPoll
                    ELSE [poll EXCEPT !.plan = Tail(@), !.packet = {}]
      /\ pc' = IF nothing THEN "panic" ELSE label
      /\ UNCHANGED <<registers, cache, cloudSide, active, fresh, writes, intent>>

SomeFail == IF MayHappen("silent") THEN BOOLEAN ELSE {FALSE}

(* An operate in one step, of registers whose writes are not modelled:     *)
(* what is read is added when it has changed or when it is forced. The     *)
(* error registers are there to be read; the salt device's control words   *)
(* are written like the RAK's order, whose operate shows what a write      *)
(* between its steps does.                                                 *)
OperateApart(d, force, label) ==
  \E failed \in SomeFail, some \in BOOLEAN :
    /\ force /\ ~failed => some
    /\ Conclude(d, failed, Add({}, [dev |-> d, field |-> "data"], some),
                force, label)

(* The operate of the error registers, or of all that the salt device has. *)
CheckErrors ==
  /\ pc = "errors"
  /\ poll.plan # <<>>
  /\ OperateApart(Head(poll.plan), FALSE, "errors")

OperateSalt ==
  /\ pc = "operate"
  /\ Head(poll.plan) = "salt"
  /\ OperateApart("salt", poll.force,
                  IF Len(poll.plan) = 1 THEN poll.then ELSE "operate")

(* Variant: the UART keeps the settings of the operate before.             *)
OperateKeepsUart ==
  /\ pc = "operate"
  /\ Head(poll.plan) \in Pumps
  /\ poll' = [poll EXCEPT !.left = Cids[Head(poll.plan)], !.failed = FALSE]
  /\ pc' = "read"
  /\ UNCHANGED <<registers, cache, cloudSide, uart, active, hadError, ghosts>>

Operate ==
  /\ pc = "operate"
  /\ Head(poll.plan) \in Pumps
  /\ SetUart(Head(poll.plan))
  /\ poll' = [poll EXCEPT !.left = Cids[Head(poll.plan)], !.failed = FALSE]
  /\ pc' = "read"
  /\ UNCHANGED <<registers, cache, cloudSide, active, hadError, ghosts>>

Changed == LET d == Head(poll.plan) IN cache[d] # registers[d]

(* One CID, with its retries: on an answer the field goes into the packet  *)
(* if it is wanted.  The comparison with the cache is in the same step: a  *)
(* write that comes between them might as well come before the read.       *)
ReadAndAdd(wanted) ==
  /\ pc = "read"
  /\ poll.left # <<>>
  /\ \/ LET d     == Head(poll.plan)
            f     == Head(poll.left)
            entry == [dev |-> d, field |-> f, value |-> registers[d][f]]
        IN  /\ poll' = [poll EXCEPT !.word = registers[d],
                                    !.packet = Add(@, entry, wanted)]
            /\ pc' = "store"
            /\ UNCHANGED upset
     \/ /\ MayHappen("silent")
        /\ poll' = [poll EXCEPT !.left = Tail(@), !.failed = TRUE]
        /\ Note({"silent"})
        /\ UNCHANGED pc
  /\ UNCHANGED <<registers, cache, cloudSide, uart, active, hadError, fresh,
                 writes, view, intent>>

(* Variants: only forced data, or only changed data, is added.             *)
ReadForcedOnly  == ReadAndAdd(poll.force)
ReadChangedOnly == ReadAndAdd(Changed)

(* *data != value || force_resend.                                         *)
Read == ReadAndAdd(Changed \/ poll.force)

(* *data = value.                                                          *)
Store ==
  /\ pc = "store"
  /\ LET d == Head(poll.plan)
     IN  /\ cache' = [cache EXCEPT ![d] = poll.word]
         /\ fresh' = fresh \cup {d}
         /\ Note(If(Concerns(parse \o queue, d), "overlap")
                   \cup If(Concerns(parse, d), "torn"))
  /\ poll' = [poll EXCEPT !.left = Tail(@), !.word = <<>>]
  /\ pc' = "read"
  /\ UNCHANGED <<registers, cloudSide, uart, active, hadError, writes, view, intent>>

Finish ==
  /\ pc = "read"
  /\ poll.left = <<>>
  /\ Conclude(Head(poll.plan), poll.failed, poll.packet, poll.force,
              IF Len(poll.plan) = 1 THEN poll.then ELSE "operate")

-----------------------------------------------------------------------------
(* Someone at the device changes a setting, once (external).               *)
ChangeLocally(d, f, v) ==
  /\ MayHappen("local")
  /\ "local" \notin upset
  /\ registers[d][f] # v
  /\ registers' = [registers EXCEPT ![d][f] = v]
  /\ intent' = [intent EXCEPT ![d][f] = v]
  /\ Note({"local"} \cup If(Operating(d), "torn"))
  /\ UNCHANGED <<cache, cloudSide, mainSide, fresh, writes, view>>

MqttTask == \/ \E d \in Pumps : \E f \in Fields(d), v \in Values :
                 ComputeItem(d, f, v)
            \/ \E d \in Pumps : \E word \in Words(d) : WriteRaw(d, word)
            \/ StoreItem

MainLoop == \/ ModbusInit \/ TestAgain \/ ModbusTest \/ ReportNone
            \/ TestsDone \/ ApplyItem \/ ApplyDone \/ CheckErrors
            \/ RunCommands \/ CheckIntervals \/ SendAllData
            \/ OperateSalt \/ Operate \/ Read \/ Store \/ Finish

Panel == \E d \in Pumps : \E f \in Fields(d), v \in Values :
           ChangeLocally(d, f, v)

Next == MqttTask \/ MainLoop \/ Panel

Spec == Init /\ [][Next]_vars

-----------------------------------------------------------------------------
Labels == {"init", "test", "apply", "errors", "interval", "sendAll", "operate",
           "read", "store", "panic"}

ItemOf(d) == [dev : {d}, word : Words(d)]

CloudTyped ==
  /\ queue \in Seq(UNION {ItemOf(d) : d \in Devices})
  /\ Len(queue) <= QueueSize
  /\ Len(parse) <= 1
  /\ \A i \in DOMAIN parse : parse[i].word \in Words(parse[i].dev)

MainTyped ==
  /\ active \subseteq Devices
  /\ pc \in Labels
  /\ hadError \in [Devices -> BOOLEAN]
  /\ pc # "test" => ToSet(poll.plan) \subseteq active
  /\ poll.force \in BOOLEAN
  /\ poll.failed \in BOOLEAN

(* The words keep their shape; the queue keeps its bound; an operate in    *)
(* progress is one of an active device, with its UART settings.            *)
TypeOK ==
  /\ \A d \in Devices : registers[d] \in Words(d) /\ cache[d] \in Words(d)
  /\ CloudTyped
  /\ MainTyped
  /\ pc \in {"read", "store"} => uart = Uart[Head(poll.plan)]
  /\ upset \subseteq Upsets

Drained == parse = <<>> /\ queue = <<>>
Obeyed  == intent = registers

(* Writes to different fields of one word compose: as long as no poll comes*)
(* between a write's parsing and its application, and nothing fails on the *)
(* way, every field of every register has the value last asked for once the*)
(* queue is drained, whatever was polled, reported or lost in between.     *)
CloudObeyed == upset \subseteq {"silent", "offline"} /\ Drained => Obeyed

(* What the code says of a masked write, "Add the data for the other fields*)
(* in that modbus register": it leaves the other fields as they were set,  *)
(* also when the loop polls while writes are queued.                       *)
OtherFieldsKept == upset \subseteq {"overlap"} /\ Drained => Obeyed

(* Nothing enters or leaves the cache behind the cloud's back: outside an  *)
(* operate, what the cloud last asked for or was last told of a field is   *)
(* what the cache holds, whatever writes are refused, dropped or reverted, *)
(* unless a report is lost or the two tasks work on one word at once.      *)
CloudInformed ==
  /\ pc \in {"apply", "errors", "interval", "sendAll"}
  /\ upset \cap {"silent", "offline", "torn"} = {}
  => \A d \in Devices : \A f \in Fields(d) : view[d][f] \in {Unknown, cache[d][f]}

(* The operate functions send a packet only if something was added to it   *)
(* (mqtt_data_send: "the current bitmask (if any)").                       *)
NeverSendsNothing == pc # "panic"

(* As long as the devices answer, no operate sends an empty packet.        *)
AnswersPreventPanic == pc = "panic" => "silent" \in upset
=============================================================================
