------------------------------ MODULE Services ------------------------------
(***************************************************************************)
(* The services of the gateway beside its modem and its devices.  They     *)
(* share no variable: a step of one leaves the others alone, and each      *)
(* behaviour here shows one of them, chosen at the start, so that its      *)
(* interleavings are explored without those of the others.                 *)
(***************************************************************************)
EXTENDS Integers, Sequences, FiniteSets

CONSTANTS
  LedTasks, Timer, Nobody,
  OtaTasks, Urls, Factory, Nothing, Blocks, Requests,
  Quota, Capacity, LastTime, MaxSaves,
  Loggers, Lengths, Header, Reserve, Size,
  Timeouts, Errors, Attempts, MaxBoots,
  LongPress, QueueSize, MaxRetries, Jump, LastUptime, MaxEvents,
  Transfers, MaxSignals, MaxPlugs,
  XferSize, LastSeq, MaxStreams,
  SetUpTransfers, ResumeTransfers, UvcQueueSize, MaxCameras, MaxCalls,
  Claimers, Room, Files, DfuBlocks, Slot, NoFile, MaxPackets,
  Readers, RingSize, MaxBytes, MaxInits

VARIABLES
  part,
  step, active, mutex, lit, armed, at, on, seen, direct, races,
  url, created, phase, handle, request, flash, running, boot, last, spoilt,
  store, saves, clock, oldTimestamp, duplicates, saving, iterator, info,
  reporting, published, gone, losses,
  pos, logging, printed, offset,
  place, timeouts, errors, ready, tried, boots, modem, echo, dce, sim,
  where, back, link, station, ip, retries, client, uptime, current, button,
  queue, happened, hold, pending, linked, online,
  owner, group, bits, proc, left, pipe, dataHandle, data, session, idle,
  attached, port, event, signals, plugs, alive,
  usb, strmh, streaming, fid, gotBytes, seq, out, buffer, holdBytes, holdSeq,
  frame, holder, sample, notified, lastSeq, sampleDone, streams,
  api, call, calls, late, uvcGroup, uvcBits, uvcQueue, usbProc, goal, todo,
  keepRunning, dflt, streamPipe, stream, camera, uvcPort, uvcEvent, cameras,
  uvcAlive,
  bus, dev, cfg, bound, edpt, events, usbd, claimer, live, wire, mishap,
  dfu, opened, block, control, checked, dfuHandle, dfuFlash, bootable, host,
  again,
  ecm, mounted, epIn, canXmit, sem, giving, wifi, packet, netBuffer, xfer,
  rx, partial, netFrame, overlap,
  stage, initing, object, ring, mux, reader, aborted

(* A list that loops and one that ends, of the higher priority first, as   *)
(* led_indicator_blink_defaults has both.                                  *)
Blinks == {0, 2}
Steps  == [b \in Blinks |-> IF b = 0 THEN <<"on", "loop">>
                                     ELSE <<"stop">>]

Led     == INSTANCE LedIndicator WITH Callers <- LedTasks
Update  == INSTANCE Ota WITH Tasks <- OtaTasks, mishaps <- spoilt
History == INSTANCE HistoryLog WITH mishaps <- losses
Log     == INSTANCE OutputLog WITH at <- logging
StartUp == INSTANCE ModemStartUp WITH at <- place
Gateway == INSTANCE GatewayMain WITH at <- where, clock <- uptime,
                                     LastTime <- LastUptime
UsbLife == INSTANCE UsbLifeCycle
Frames  == INSTANCE UvcFrames WITH handle <- strmh, running <- streaming,
                                   stopDone <- sampleDone
Camera  == INSTANCE UvcStream WITH
             QueueSize <- UvcQueueSize, MaxPlugs <- MaxCameras,
             group <- uvcGroup, bits <- uvcBits, queue <- uvcQueue,
             proc <- usbProc, left <- todo, pipe <- streamPipe,
             attached <- camera, port <- uvcPort, event <- uvcEvent,
             plugs <- cameras, alive <- uvcAlive
UsbDev  == INSTANCE UsbDevice
Dfu     == INSTANCE DfuDevice WITH Blocks <- DfuBlocks, handle <- dfuHandle,
                                   flash <- dfuFlash
Net     == INSTANCE NetDevice WITH buffer <- netBuffer, frame <- netFrame
Acm     == INSTANCE CdcAcm

ASSUME ServicesAssumption ==
  /\ Led!LedAssumption /\ Update!OtaAssumption
  /\ History!HistoryAssumption /\ Log!OutputLogAssumption
  /\ StartUp!StartUpAssumption /\ Gateway!GatewayAssumption
  /\ UsbLife!UsbLifeAssumption
  /\ Frames!UvcFramesAssumption /\ Camera!UvcStreamAssumption
  /\ UsbDev!UsbDeviceAssumption /\ Dfu!DfuAssumption
  /\ Net!NetDeviceAssumption /\ Acm!CdcAcmAssumption

led     == <<step, active, mutex, lit, armed, at, on, seen, direct, races>>
update  == <<url, created, phase, handle, request, flash, running, boot,
             last, spoilt>>
history == <<store, saves, clock, oldTimestamp, duplicates, saving, iterator,
             info, reporting, published, gone, losses>>
log     == <<pos, logging, printed, offset>>
startUp == <<place, timeouts, errors, ready, tried, boots, modem, echo, dce,
             sim>>
gateway == <<where, back, link, station, ip, retries, client, uptime,
             current, button, queue, happened, hold, pending,
             linked, online>>
usbLife == <<owner, group, bits, proc, left, pipe, dataHandle, data, session,
             idle, attached, port, event, signals, plugs, alive>>
frames  == <<usb, strmh, streaming, fid, gotBytes, seq, out, buffer,
             holdBytes, holdSeq, frame, holder, sample, notified, lastSeq,
             sampleDone, streams>>
uvc     == <<api, call, calls, late, uvcGroup, uvcBits, uvcQueue, usbProc,
             goal, todo, keepRunning, dflt, streamPipe, stream, camera,
             uvcPort, uvcEvent, cameras, uvcAlive>>

(* The classes of the USB device stack.                                    *)
usbDev  == <<bus, dev, cfg, bound, edpt, events, usbd, claimer, live, wire,
             mishap>>
dfuDev  == <<dfu, opened, block, control, checked, dfuHandle, dfuFlash,
             bootable, host, again>>
netDev  == <<ecm, mounted, epIn, canXmit, sem, giving, wifi, packet,
             netBuffer, xfer, rx, partial, netFrame, overlap>>
acmDev  == <<stage, initing, object, ring, mux, reader, aborted>>

gatewaySide == <<led, update, history, log, startUp, gateway, usbLife,
                 frames, uvc>>
deviceSide  == <<usbDev, dfuDev, netDev, acmDev>>
vars        == <<part, gatewaySide, deviceSide>>

Init ==
  /\ part \in {"led", "update", "history", "log", "startUp", "gateway",
              "usbLife", "frames", "uvc", "usbDev", "dfu", "net", "acm"}
  /\ Led!Init /\ Update!Init /\ History!Init /\ Log!Init /\ StartUp!Init
  /\ Gateway!Init /\ UsbLife!Init /\ Frames!Init /\ Camera!Init
  /\ UsbDev!Init /\ Dfu!Init /\ Net!Init /\ Acm!Init
  /\ part # "update" => request = 0
  /\ part # "startUp" => modem = "booting" /\ ~sim.locked /\ ~sim.known
  /\ part # "gateway" => station = "old"
  /\ part # "net" => ~ecm
  /\ part # "dfu" => host.file = CHOOSE f \in Files : TRUE

Rest(others)       == UNCHANGED <<part, others, deviceSide>>
DeviceRest(others) == UNCHANGED <<part, gatewaySide, others>>

LedStep ==
  /\ part = "led" /\ Led!Next
  /\ Rest(<<update, history, log, startUp, gateway, usbLife, frames, uvc>>)

UpdateStep ==
  /\ part = "update" /\ Update!Next
  /\ Rest(<<led, history, log, startUp, gateway, usbLife, frames, uvc>>)

HistoryStep ==
  /\ part = "history" /\ History!Next
  /\ Rest(<<led, update, log, startUp, gateway, usbLife, frames, uvc>>)

LogStep ==
  /\ part = "log" /\ Log!Next
  /\ Rest(<<led, update, history, startUp, gateway, usbLife, frames, uvc>>)

StartUpStep ==
  /\ part = "startUp" /\ StartUp!Next
  /\ Rest(<<led, update, history, log, gateway, usbLife, frames, uvc>>)

GatewayStep ==
  /\ part = "gateway" /\ Gateway!Next
  /\ Rest(<<led, update, history, log, startUp, usbLife, frames, uvc>>)

UsbLifeStep ==
  /\ part = "usbLife" /\ UsbLife!Next
  /\ Rest(<<led, update, history, log, startUp, gateway, frames, uvc>>)

FramesStep ==
  /\ part = "frames" /\ Frames!Next
  /\ Rest(<<led, update, history, log, startUp, gateway, usbLife, uvc>>)

CameraStep ==
  /\ part = "uvc" /\ Camera!Next
  /\ Rest(<<led, update, history, log, startUp, gateway, usbLife, frames>>)

UsbDevStep ==
  /\ part = "usbDev" /\ UsbDev!Next
  /\ DeviceRest(<<dfuDev, netDev, acmDev>>)

DfuStep ==
  /\ part = "dfu" /\ Dfu!Next
  /\ DeviceRest(<<usbDev, netDev, acmDev>>)

NetStep ==
  /\ part = "net" /\ Net!Next
  /\ DeviceRest(<<usbDev, dfuDev, acmDev>>)

AcmStep ==
  /\ part = "acm" /\ Acm!Next
  /\ DeviceRest(<<usbDev, dfuDev, netDev>>)

Next == LedStep \/ UpdateStep \/ HistoryStep \/ LogStep \/ StartUpStep
        \/ GatewayStep \/ UsbLifeStep \/ FramesStep \/ CameraStep
        \/ UsbDevStep \/ DfuStep \/ NetStep \/ AcmStep

(* The fairness of the parts that have some: the reporting task, the       *)
(* gateway's main task and an MQTT session without a link, the tasks of    *)
(* the USB driver, and the camera's sample task.                           *)
Fairness ==
  /\ WF_history(part = "history" /\ History!Reporter)
  /\ WF_gateway(part = "gateway" /\ Gateway!Main)
  /\ WF_gateway(part = "gateway" /\ Gateway!TimeOut)
  /\ WF_usbLife(part = "usbLife" /\ UsbLife!Scheduled)
  /\ WF_frames(part = "frames" /\ Frames!Scheduled)

Spec == Init /\ [][Next]_vars /\ Fairness

-----------------------------------------------------------------------------
(* The types of the part that is shown; the others stay as they began.    *)
TypeOK ==
  /\ part = "led"     => Led!TypeOK
  /\ part = "update"  => Update!TypeOK
  /\ part = "history" => History!TypeOK
  /\ part = "startUp" => StartUp!TypeOK
  /\ part = "gateway" => Gateway!TypeOK
  /\ part = "usbLife" => UsbLife!TypeOK
  /\ part = "frames"  => Frames!TypeOK
  /\ part = "uvc"     => Camera!TypeOK
  /\ part = "usbDev"  => UsbDev!TypeOK
  /\ part = "dfu"     => Dfu!TypeOK
  /\ part = "net"     => Net!TypeOK
  /\ part = "acm"     => Acm!TypeOK

(* The properties of the parts: see there for what they say of the code.   *)
(* LED: a blink goes on; the list of the highest priority blinks; a        *)
(* stopped LED is dark.                                                    *)
LedShowsActive == Led!LedShowsActive

(* Firmware update: the running image stays whole; a restart for an update *)
(* boots it.                                                               *)
RunningIntact     == Update!RunningIntact
UpdateTakesEffect == Update!UpdateTakesEffect

(* History: no packet vanishes.                                            *)
NothingVanishes == History!NothingVanishes

(* Output log: it stays inside its buffer.                                 *)
LogStaysInside == Log!LogStaysInside

(* Modem start-up: gentle cures first; one wrong PIN per start.            *)
GentleFirst      == StartUp!GentleFirst
SimSparedPerBoot == StartUp!SimSparedPerBoot

(* Gateway: no provisioning without a long press.                          *)
ProvisioningDeliberate == Gateway!ProvisioningDeliberate

(* USB driver: freed only when unused; no URB of an earlier connection is  *)
(* sent.                                                                   *)
FreedUnused   == UsbLife!FreedUnused
IdleUrbsOwned == UsbLife!IdleUrbsOwned

(* Camera: the callback gets whole frames; a stop releases everything; an  *)
(* answer is that of the call it answers.                                  *)
FrameIntact     == Frames!FrameIntact
StopReleasesAll == Camera!StopReleasesAll
AnswerAwaited   == Camera!AnswerAwaited

(* USB device: an endpoint has one owner and comes free again; what the    *)
(* host is told of a download is true; a packet arrives whole; a read of   *)
(* the serial port is not interrupted.                                     *)
DeviceSound  == UsbDev!DeviceSound
StatusHonest == Dfu!StatusHonest
PacketsWhole == Net!PacketsWhole
ReadsWhole   == Acm!ReadsWhole

(* What one task asks of another comes to its end: a report of the         *)
(* history, a request for data, a lost WiFi link, the deletion of the USB  *)
(* driver and the stop of a camera's stream, whatever fails meanwhile:     *)
(* none of them stays open for ever.                                       *)
Open == History!ReportOpen \/ Gateway!RequestOpen \/ Gateway!LinkOpen
        \/ UsbLife!DeleteOpen \/ Frames!StopOpen

WorkEnds == []<>~Open
=============================================================================
