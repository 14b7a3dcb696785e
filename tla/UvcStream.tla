----------------------------- MODULE UvcStream ------------------------------
(***************************************************************************)
(* The camera driver (uvc_stream.c): its caller, who starts, suspends,     *)
(* resumes and stops the stream one call after the other as the test of    *)
(* the component does, and _usb_processing_task, which waits for a camera, *)
(* sets it up, obeys the caller and resets the port when something fails.  *)
(* The caller sends a message and waits, for a limited time, for a bit of  *)
(* the event group.  What happens to the frames of a stream is UvcFrames:  *)
(* its messages, of URBs that are done, change nothing here.               *)
(* The port and its interrupts are external, as in UsbLifeCycle.           *)
(***************************************************************************)
EXTENDS Naturals, Sequences, FiniteSets

CONSTANTS
  SetUpTransfers,  \* control transfers of a set-up: 9 in the build
  ResumeTransfers, \* and of a resume: 4
  QueueSize,       \* UVC_EVENT_QUEUE_LEN
  MaxPlugs,        \* bound: times that a camera is plugged in
  MaxCalls         \* bound: calls of the caller

UvcStreamAssumption ==
  {SetUpTransfers, ResumeTransfers, QueueSize, MaxPlugs, MaxCalls}
    \subseteq Nat \ {0}

VARIABLES
  api, call,      \* where the caller is, with which call;
  calls,          \* calls so far
  late,           \* ghost: a suspend or resume has timed out since the start
  group, bits,    \* event_group is there, with the queue; its bits
  queue,          \* queue_hdl
  proc,           \* where the processing task is,
  goal, left,     \* with what it does control transfers for, how many left,
  keepRunning,    \* its local,
  dflt, pipe,     \* the default pipe, the stream's pipe with its URBs
  stream,         \* and the stream handle
  attached, port, event, plugs,   \* as in UsbLifeCycle
  alive

device == <<attached, port, event, plugs>>
pipes  == <<dflt, pipe, stream>>
task   == <<proc, goal, left, keepRunning, pipes>>
caller == <<api, call, calls, late>>
vars   == <<caller, group, bits, queue, task, device, alive>>

Commands == {"suspend", "resume", "stop"}
Bits == {"init", "connected", "running", "stopDone", "suspendDone",
         "suspendFailed", "resumeDone", "resumeFailed"}
Waits(c) == api = "wait" /\ call = c
Answers(c) == CASE c = "suspend" -> {"suspendDone", "suspendFailed"}
                [] c = "resume"  -> {"resumeDone", "resumeFailed"}
                [] c = "stop"    -> {"stopDone"}

TypeOK ==
  /\ api \in {"new", "idle", "starting", "up", "failed", "send", "wait"}
  /\ call \in Commands /\ calls \in 0..MaxCalls
  /\ {late, group, keepRunning, dflt, pipe, stream, attached, alive}
       \subseteq BOOLEAN
  /\ bits \subseteq Bits /\ queue \in Seq(Commands \cup {"port"})
  /\ Len(queue) <= QueueSize
  /\ proc \in {"none", "created", "init", "power", "loop", "enqueue",
               "transfer", "open", "delay", "halt", "stop", "reset", "pipes",
               "recover", "user", "deinit", "free", "ended"}
  /\ goal \in {"setUp", "suspend", "resume"}
  /\ left \in 0..SetUpTransfers + ResumeTransfers
  /\ port \in {"off", "powered", "disabled", "enabled", "recovery"}
  /\ event \in {"none", "connection", "disconnection", "error"}
  /\ plugs \in 0..MaxPlugs

Init ==
  /\ api = "new" /\ call = "stop" /\ calls = 0 /\ late = FALSE
  /\ group = FALSE /\ bits = {} /\ queue = <<>>
  /\ proc = "none" /\ goal = "setUp" /\ left = 0 /\ keepRunning = TRUE
  /\ dflt = FALSE /\ pipe = FALSE /\ stream = FALSE
  /\ attached = FALSE /\ port = "off" /\ event = "none" /\ plugs = 0
  /\ alive = TRUE

-----------------------------------------------------------------------------
(* The caller.  uvc_streaming_config accepts the stream that is asked for. *)
Configure ==
  /\ api = "new" /\ api' = "idle"
  /\ UNCHANGED <<call, calls, late, group, bits, queue, task, device, alive>>

(* uvc_streaming_start, for a stream that was configured.                  *)
Start ==
  /\ api = "idle" /\ calls < MaxCalls /\ calls' = calls + 1
  /\ api' = "starting" /\ group' = TRUE /\ bits' = {} /\ queue' = <<>>
  /\ proc' = "created" /\ keepRunning' = TRUE /\ late' = FALSE
  /\ UNCHANGED <<call, goal, left, pipes, device, alive>>

(* A resource cannot be had: what it has is deleted.  user_cb stays set,   *)
(* so that no other start is accepted.                                     *)
StartFails ==
  /\ api = "idle" /\ calls < MaxCalls /\ calls' = calls + 1
  /\ api' = "failed"
  /\ UNCHANGED <<call, late, group, bits, queue, task, device, alive>>

(* 50 ms later it notifies the task, which may be gone by then.            *)
Notify ==
  /\ api = "starting" /\ api' = "up"
  /\ alive' \in IF proc = "ended" THEN BOOLEAN ELSE {TRUE}
  /\ UNCHANGED <<call, calls, late, group, bits, queue, task, device>>

(* The tests at the head of the functions: a call that passes them sends   *)
(* its message, at a later moment.                                         *)
MaySuspend == {"init", "connected", "running"} \subseteq bits
MayResume  == {"init", "connected"} \subseteq bits /\ "running" \notin bits
MayStop    == "init" \in bits

Call(c) ==
  /\ api = "up" /\ calls < MaxCalls /\ calls' = calls + 1
  /\ CASE c = "suspend" -> MaySuspend
       [] c = "resume"  -> MayResume
       [] c = "stop"    -> MayStop
  /\ api' = "send" /\ call' = c
  /\ UNCHANGED <<late, group, bits, queue, task, device, alive>>

Send(c) ==
  /\ api = "send" /\ call = c /\ Len(queue) < QueueSize
  /\ queue' = Append(queue, c) /\ api' = "wait"
  /\ UNCHANGED <<call, calls, late, group, bits, task, device, alive>>

(* Variant: the bits are not cleared on exit.                              *)
AnsweredLeavesBits(c) ==
  /\ c \in {"suspend", "resume"} /\ Waits(c)
  /\ Answers(c) \cap bits # {}
  /\ api' = "up"
  /\ UNCHANGED <<call, calls, late, group, bits, queue, task, device, alive>>

Answered(c) ==
  /\ c \in {"suspend", "resume"} /\ Waits(c)
  /\ Answers(c) \cap bits # {}
  /\ bits' = bits \ Answers(c) /\ api' = "up"
  /\ UNCHANGED <<call, calls, late, group, queue, task, device, alive>>

(* After 2 s, or 3 s for a stop.                                           *)
TimedOut(c) ==
  /\ Waits(c) /\ Answers(c) \cap bits = {}
  /\ api' = "up" /\ late' = (late \/ c # "stop")
  /\ UNCHANGED <<call, calls, group, bits, queue, task, device, alive>>

(* uvc_streaming_stop deletes the event group and the queue, and clears    *)
(* s_uvc_dev, its configuration too.                                       *)
Stopped ==
  /\ Waits("stop") /\ "stopDone" \in bits
  /\ api' = "new" /\ group' = FALSE /\ bits' = {} /\ queue' = <<>>
  /\ UNCHANGED <<call, calls, late, task, device, alive>>

-----------------------------------------------------------------------------
(* The processing task.  Its copy of the device and the URBs, for which    *)
(* there may be no memory: of URBs it has not got it frees the fields.     *)
Allocate ==
  /\ proc = "created"
  /\ \/ proc' = "init" /\ UNCHANGED alive
     \/ proc' = "ended" /\ UNCHANGED alive
     \/ alive' = FALSE /\ UNCHANGED proc
  /\ UNCHANGED <<caller, group, bits, queue, goal, left, keepRunning, pipes,
                 device>>

(* Once notified, _usb_port_init.                                          *)
PortInit ==
  /\ proc = "init" /\ api # "starting"
  /\ \/ proc' = "power" /\ bits' = bits \cup {"init"}
     \/ proc' = "free" /\ UNCHANGED bits
  /\ UNCHANGED <<caller, group, queue, goal, left, keepRunning, pipes, device,
                 alive>>

(* _usb_port_callback: a message that finds no room is lost.               *)
Signal(e) ==
  /\ event' = e
  /\ queue' = IF Len(queue) < QueueSize THEN Append(queue, "port") ELSE queue

PowerOn ==
  /\ proc = "power"
  /\ \/ /\ port = "off" /\ port' = "powered" /\ proc' = "loop"
        /\ IF attached THEN Signal("connection")
                       ELSE UNCHANGED <<event, queue>>
     \/ port = "off" /\ proc' = "reset" /\ UNCHANGED <<port, event, queue>>
     \/ port # "off" /\ proc' = "loop" /\ UNCHANGED <<port, event, queue>>
  /\ UNCHANGED <<caller, group, bits, goal, left, keepRunning, pipes, attached,
                 plugs, alive>>

(* hcd_port_handle_event, and what _usb_port_event_dflt_process does.      *)
Pending == IF event = "connection" /\ ~attached THEN "none" ELSE event

Handle ==
  /\ event' = "none"
  /\ port' = IF Pending = "connection" THEN "disabled" ELSE port
  /\ UNCHANGED <<attached, plugs>>

Disconnect(b) == IF Pending = "disconnection" THEN b \ {"connected"} ELSE b

Take(m) == queue # <<>> /\ Head(queue) = m /\ queue' = Tail(queue)

(* Nothing, or an error of the port, which the loop passes over.           *)
TakeOther ==
  /\ proc = "loop" /\ Take("port") /\ Pending \in {"none", "error"}
  /\ Handle
  /\ UNCHANGED <<caller, group, bits, task, alive>>

(* A connection: reset, fifo, speed, both pipes, and then the set-up, from *)
(* the address to the interface.                                           *)
Connection ==
  /\ proc = "loop" /\ Take("port") /\ Pending = "connection"
  /\ event' = "none"

SetUp == goal' = "setUp" /\ left' = SetUpTransfers

TakeConnection ==
  /\ Connection
  /\ proc' = "enqueue" /\ SetUp
  /\ dflt' = TRUE /\ pipe' = TRUE /\ port' = "enabled"
  /\ UNCHANGED <<caller, group, bits, keepRunning, stream, attached, plugs,
                 alive>>

(* The reset fails, and the port stays disabled; or it has no speed.       *)
ResetFails ==
  /\ Connection
  /\ proc' = "reset" /\ port' \in {"disabled", "enabled"}
  /\ UNCHANGED <<caller, group, bits, goal, left, keepRunning, pipes,
                 attached, plugs, alive>>

(* A pipe cannot be had: the default one, or the stream's after it.        *)
PipeFails ==
  /\ Connection
  /\ proc' = "reset" /\ port' = "enabled"
  /\ dflt' \in {dflt, TRUE}
  /\ UNCHANGED <<caller, group, bits, goal, left, keepRunning, pipe, stream,
                 attached, plugs, alive>>

TakeDisconnection ==
  /\ proc = "loop" /\ Take("port") /\ Pending = "disconnection"
  /\ Handle
  /\ proc' = "stop" /\ bits' = bits \ {"connected", "running"}
  /\ UNCHANGED <<caller, group, goal, left, keepRunning, pipes, alive>>

(* STREAM_SUSPEND: the stream's pipe goes, then the interface changes.     *)
TakeSuspend ==
  /\ proc = "loop" /\ Take("suspend")
  /\ bits' = bits \ {"running"}
  /\ proc' = (IF pipe THEN "halt" ELSE "enqueue")
  /\ goal' = "suspend" /\ left' = 1
  /\ UNCHANGED <<caller, group, keepRunning, pipes, device, alive>>

Failed == CASE goal = "setUp"   -> {}
            [] goal = "suspend" -> {"suspendFailed"}
            [] goal = "resume"  -> {"resumeFailed"}

GiveUp ==
  /\ proc' = IF goal = "setUp" THEN "reset" ELSE "stop"
  /\ bits' = bits \cup Failed

Halted ==
  /\ proc = "halt"
  /\ \/ proc' = "enqueue" /\ pipe' = FALSE /\ UNCHANGED bits
     \/ GiveUp /\ UNCHANGED pipe
  /\ UNCHANGED <<caller, group, queue, goal, left, keepRunning, dflt, stream,
                 device, alive>>

(* STREAM_RESUME.                                                          *)
TakeResume ==
  /\ proc = "loop" /\ Take("resume")
  /\ proc' = "enqueue" /\ goal' = "resume" /\ left' = ResumeTransfers
  /\ UNCHANGED <<caller, group, bits, keepRunning, pipes, device, alive>>

TakeStop ==
  /\ proc = "loop" /\ Take("stop")
  /\ keepRunning' = FALSE /\ bits' = bits \ {"running"} /\ proc' = "stop"
  /\ UNCHANGED <<caller, group, goal, left, pipes, device, alive>>

-----------------------------------------------------------------------------
(* A control transfer: an URB for it, if there is memory.  It cannot start *)
(* on a lost port; and the commit of a resume does not ask whether there   *)
(* is a default pipe.                                                      *)
AllocFails ==
  /\ proc = "enqueue" /\ GiveUp
  /\ UNCHANGED <<caller, group, queue, goal, left, keepRunning, pipes,
                 device, alive>>

Enqueue ==
  /\ proc = "enqueue"
  /\ IF dflt \/ goal # "resume"
     THEN /\ IF dflt /\ port = "enabled"
             THEN proc' = "transfer" /\ UNCHANGED bits
             ELSE GiveUp
          /\ UNCHANGED alive
     ELSE alive' = FALSE /\ UNCHANGED <<proc, bits>>
  /\ UNCHANGED <<caller, group, queue, goal, left, keepRunning, pipes,
                 device>>

(* While the task waits for a pipe it takes all other messages too: those  *)
(* of the caller are dropped.                                              *)
Swallow ==
  /\ proc \in {"transfer", "halt"} \/ (proc = "pipes" /\ (pipe \/ dflt))
  /\ queue # <<>>
  /\ queue' = Tail(queue)
  /\ IF Head(queue) = "port"
     THEN Handle /\ bits' = Disconnect(bits)
     ELSE UNCHANGED <<bits, device>>
  /\ UNCHANGED <<caller, group, task, alive>>

(* A transfer that is done counts as a success even if its status says     *)
(* that it was not completed.                                              *)
Transfer ==
  /\ proc = "transfer" /\ left' = left - 1
  /\ IF left > 1 THEN proc' = "enqueue" /\ UNCHANGED bits
     ELSE IF goal # "suspend" THEN proc' = "open" /\ UNCHANGED bits
     ELSE proc' = "loop" /\ bits' = bits \cup {"suspendDone"}
  /\ UNCHANGED <<caller, group, queue, goal, keepRunning, pipes, device,
                 alive>>

(* Another event of the pipe, or none in time: it is halted, flushed and   *)
(* cleared.                                                                *)
TransferFails ==
  /\ proc = "transfer" /\ GiveUp
  /\ UNCHANGED <<caller, group, queue, goal, left, keepRunning, pipes,
                 device, alive>>

(* uvc_stream_open_ctrl and uvc_stream_start, or, for a resume, the pipe.  *)
Open ==
  /\ proc = "open"
  /\ IF goal = "setUp"
     THEN \/ proc' = "delay" /\ stream' = TRUE /\ UNCHANGED <<bits, pipe>>
          \/ proc' = "reset" /\ stream' \in BOOLEAN /\ UNCHANGED <<bits, pipe>>
     ELSE /\ \/ /\ pipe \/ port = "enabled"
                /\ pipe' = TRUE /\ proc' = "delay" /\ UNCHANGED bits
             \/ GiveUp /\ UNCHANGED pipe
          /\ UNCHANGED stream
  /\ UNCHANGED <<caller, group, queue, goal, left, keepRunning, dflt, device,
                 alive>>

(* The URBs are enqueued: not on a lost port, nor when they already are.   *)
EnqueueStream ==
  /\ proc = "delay"
  /\ \/ /\ port = "enabled" /\ "running" \notin bits
        /\ proc' = "loop"
        /\ bits' = bits \cup {"running"} \cup
                   IF goal = "setUp" THEN {"connected"} ELSE {"resumeDone"}
     \/ proc' = "stop" /\ bits' = bits \cup Failed
  /\ UNCHANGED <<caller, group, queue, goal, left, keepRunning, pipes, device,
                 alive>>

-----------------------------------------------------------------------------
(* stop_stream_driver_reset_: uvc_stream_stop returns, see UvcFrames.      *)
StopStream ==
  /\ proc = "stop" /\ proc' = "reset" /\ bits' = bits \ {"running"}
  /\ UNCHANGED <<caller, group, queue, goal, left, keepRunning, pipes, device,
                 alive>>

(* usb_driver_reset_.                                                      *)
Reset ==
  /\ proc = "reset" /\ proc' = "pipes" /\ bits' = bits \ {"connected"}
  /\ Handle
  /\ UNCHANGED <<caller, group, queue, goal, left, keepRunning, pipes, alive>>

(* The stream's pipe goes, the default one, and the stream.                *)
ClosePipe ==
  /\ proc = "pipes" /\ pipe /\ pipe' = FALSE
  /\ UNCHANGED <<caller, group, bits, queue, proc, goal, left, keepRunning,
                 dflt, stream, device, alive>>

CloseDefault ==
  /\ proc = "pipes" /\ ~pipe /\ dflt /\ dflt' = FALSE
  /\ UNCHANGED <<caller, group, bits, queue, proc, goal, left, keepRunning,
                 pipe, stream, device, alive>>

CloseStream ==
  /\ proc = "pipes" /\ ~pipe /\ ~dflt
  /\ stream' = FALSE /\ proc' = "recover"
  /\ UNCHANGED <<caller, group, bits, queue, goal, left, keepRunning, dflt,
                 pipe, device, alive>>

(* hcd_port_recover: see UsbLifeCycle.                                     *)
Recover ==
  /\ proc = "recover" /\ proc' = "user"
  /\ port' \in IF port = "recovery" /\ event = "none" THEN {"off"}
               ELSE {port, "off"}
  /\ event' = IF port' = "off" THEN "none" ELSE event
  /\ UNCHANGED <<caller, group, bits, queue, goal, left, keepRunning, pipes,
                 attached, plugs, alive>>

(* _user_event_wait: a stop, or 200 ms without any message; all others are *)
(* dropped.                                                                *)
Drop ==
  /\ proc = "user" /\ queue # <<>> /\ queue' = Tail(queue)
  /\ proc' = IF Head(queue) = "stop" THEN "deinit" ELSE "user"
  /\ UNCHANGED <<caller, group, bits, goal, left, keepRunning, pipes, device,
                 alive>>

GoOn ==
  /\ proc = "user" /\ queue = <<>>
  /\ proc' = IF keepRunning THEN "power" ELSE "deinit"
  /\ UNCHANGED <<caller, group, bits, queue, goal, left, keepRunning, pipes,
                 device, alive>>

(* Variant: the caller is told of the end before the port is off.          *)
PortDeinitEarly ==
  /\ proc = "deinit" /\ bits' = (bits \ {"init"}) \cup {"stopDone"}
  /\ proc' = "free"
  /\ UNCHANGED <<caller, group, queue, goal, left, keepRunning, pipes, device,
                 alive>>

(* _usb_port_deinit: the port is turned off, and one message is awaited.   *)
(* One of the caller has no port, which an assertion refuses.              *)
WaitRefused == queue # <<>> /\ Head(queue) # "port"

PortDeinit ==
  /\ proc = "deinit"
  /\ IF WaitRefused
     THEN alive' = FALSE /\ UNCHANGED <<proc, bits, port, event>>
     ELSE /\ proc' = "free" /\ bits' = bits \ {"init", "connected"}
          /\ port' = "off" /\ event' = "none" /\ UNCHANGED alive
  /\ UNCHANGED <<caller, group, queue, goal, left, keepRunning, pipes,
                 attached, plugs>>

EndProc ==
  /\ proc = "free" /\ proc' = "ended" /\ bits' = bits \cup {"stopDone"}
  /\ UNCHANGED <<caller, group, queue, goal, left, keepRunning, pipes, device,
                 alive>>

-----------------------------------------------------------------------------
(* The camera and the interrupts of the port.                              *)
Plug ==
  /\ ~attached /\ plugs < MaxPlugs
  /\ attached' = TRUE /\ plugs' = plugs + 1
  /\ IF port = "powered" THEN Signal("connection")
                         ELSE UNCHANGED <<event, queue>>
  /\ UNCHANGED <<caller, group, bits, task, port, alive>>

Lost(e) ==
  IF port \in {"disabled", "enabled"} THEN port' = "recovery" /\ Signal(e)
  ELSE UNCHANGED <<port, event, queue>>

Unplug ==
  /\ attached /\ attached' = FALSE /\ Lost("disconnection")
  /\ UNCHANGED <<caller, group, bits, task, plugs, alive>>

PortError ==
  /\ attached /\ port = "enabled" /\ Lost("error")
  /\ UNCHANGED <<caller, group, bits, task, attached, plugs, alive>>

Caller == Configure \/ Start \/ StartFails \/ Notify \/ Stopped
          \/ \E c \in Commands :
               Call(c) \/ Send(c) \/ Answered(c) \/ TimedOut(c)
Processing ==
  \/ Allocate \/ PortInit \/ PowerOn \/ TakeOther \/ TakeConnection
  \/ ResetFails \/ PipeFails \/ TakeDisconnection \/ TakeSuspend \/ Halted
  \/ TakeResume \/ TakeStop \/ AllocFails \/ Enqueue \/ Swallow \/ Transfer
  \/ TransferFails \/ Open \/ EnqueueStream \/ StopStream \/ Reset
  \/ ClosePipe \/ CloseDefault \/ CloseStream \/ Recover \/ Drop \/ GoOn
  \/ PortDeinit \/ EndProc
Camera == Plug \/ Unplug \/ PortError

Next == alive /\ (Caller \/ Processing \/ Camera)

Spec == Init /\ [][Next]_vars

-----------------------------------------------------------------------------
(* "Use the uvc_streaming_stop to stop the video stream, USB resource will *)
(* be completely released": when it deletes the event group and the queue, *)
(* the task that uses them is at its end, its pipes and stream are gone    *)
(* and the port, whose interrupt sends to the queue, is off, wherever the  *)
(* stop found the task and whatever the camera does.                       *)
StopReleasesAll ==
  ~group => proc \in {"none", "ended"} /\ ~dflt /\ ~pipe /\ ~stream
            /\ port = "off"

(* The answer to a suspend or a resume is its own: as long as none timed   *)
(* out, an answer's bit is there only while the call waits that asked for  *)
(* it, whatever was dropped, failed or reset meanwhile.  (A call that      *)
(* timed out leaves its answer to the next one.)                           *)
AnswerAwaited ==
  ~late => \A c \in {"suspend", "resume"} :
             Answers(c) \cap bits # {} => Waits(c)
=============================================================================
