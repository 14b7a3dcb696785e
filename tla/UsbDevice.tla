----------------------------- MODULE UsbDevice ------------------------------
(***************************************************************************)
(* The core of the USB device stack, usbd.c, with one configuration, one   *)
(* class driver and one data endpoint of it.  Three kinds of actors share  *)
(* its state without a common lock: the controller's interrupt, which      *)
(* changes flags and queues events, the usbd task, which handles them, and *)
(* the tasks of the application that claim the endpoint for a transfer.    *)
(* (The driver's transfer callback claims it in the same way.)  The mutex  *)
(* is only between the claimers.                                           *)
(*                                                                         *)
(* Events and requests that change none of this state, those of suspend    *)
(* and resume, addresses, descriptors and the driver's own, are left out.  *)
(*                                                                         *)
(* After a mishap (see DeviceSound) the host only resets or detaches and   *)
(* no task sets out: a bound.                                              *)
(*                                                                         *)
(* The flags are bits of one byte, so that a store of one of them is a     *)
(* load of all of them and a store of all: a change in between is undone.  *)
(***************************************************************************)
EXTENDS Naturals, Sequences, FiniteSets

CONSTANTS
  Claimers,   \* tasks that transfer
  Room        \* CFG_TUD_TASK_QUEUE_SZ

UsbDeviceAssumption == Room \in Nat \ {0} /\ IsFiniteSet(Claimers)

VARIABLES
  bus,        \* the host is there
  dev,        \* _usbd_dev: connected, suspended
  cfg,        \* and cfg_num: configured
  bound,      \* itf2drv and ep2drv name the driver
  edpt,       \* ep_status of the endpoint: busy, stalled, claimed
  events,     \* _usbd_q
  usbd,       \* where the usbd task is, and the flags it loaded
  claimer,    \* where each claimer is, and the flags it loaded
  live,       \* the controller has the endpoint open
  wire,       \* and a transfer on it
  mishap      \* ghost: see DeviceSound

vars == <<bus, dev, cfg, bound, edpt, events, usbd, claimer, live, wire,
          mishap>>

Flags    == [busy : BOOLEAN, stalled : BOOLEAN, claimed : BOOLEAN]
Clear    == [busy |-> FALSE, stalled |-> FALSE, claimed |-> FALSE]
Ordered  == {"configure", "unconfigure", "halt", "unhalt"}
Places   == {"out", "ready", "claim", "owner", "mark", "start", "release"}

TypeOK ==
  /\ bus \in BOOLEAN /\ dev \in [connected : BOOLEAN, suspended : BOOLEAN]
  /\ cfg \in BOOLEAN /\ bound \in BOOLEAN /\ edpt \in Flags
  /\ Len(events) <= Room
  /\ usbd.at \in {"idle", "connect", "request", "opened", "halting"}
  /\ claimer \in [Claimers -> [at : Places, copy : Flags]]
  /\ live \in BOOLEAN /\ wire \in BOOLEAN /\ mishap \in BOOLEAN

Idle == [at |-> "idle"]
Out  == [at |-> "out", copy |-> Clear]

Init ==
  /\ bus = FALSE /\ dev = [connected |-> FALSE, suspended |-> FALSE]
  /\ cfg = FALSE /\ bound = FALSE /\ edpt = Clear /\ events = <<>>
  /\ usbd = Idle /\ claimer = [c \in Claimers |-> Out]
  /\ live = FALSE /\ wire = FALSE /\ mishap = FALSE

(* osal_queue_send from the interrupt: its result is ignored, and an event *)
(* that finds no room is lost.  A transfer may complete while a reset      *)
(* still waits: then it is after the reset that its endpoint is freed.     *)
Resets == {"reset", "unplugged"}
Behind(e) == e = "complete" /\ \E i \in DOMAIN events : events[i] \in Resets

Send(e) ==
  IF Len(events) < Room
  THEN events' = Append(events, e) /\ mishap' = (mishap \/ Behind(e))
  ELSE /\ UNCHANGED events
       /\ mishap' = (mishap \/ e \in {"reset", "unplugged", "complete"})

Requested == usbd.at \in {"connect", "request", "opened", "halting"}
             \/ \E i \in DOMAIN events : events[i] \in Ordered

-----------------------------------------------------------------------------
(* The interrupt.  A host that attaches resets the bus, which ends what    *)
(* the controller has; it may reset again at any time.                     *)
BusReset ==
  /\ bus' = TRUE /\ live' = FALSE /\ wire' = FALSE
  /\ Send("reset")
  /\ UNCHANGED <<dev, cfg, bound, edpt, usbd, claimer>>

(* An unplug when not connected is taken for a bounce.                     *)
Unplug ==
  /\ bus
  /\ bus' = FALSE /\ live' = FALSE /\ wire' = FALSE
  /\ IF dev.connected
     THEN /\ dev' = [connected |-> FALSE, suspended |-> FALSE]
          /\ cfg' = FALSE
          /\ Send("unplugged")
     ELSE /\ mishap' = (mishap \/ Requested)
          /\ UNCHANGED <<dev, cfg, events>>
  /\ UNCHANGED <<bound, edpt, usbd, claimer>>

SuspendResume ==
  /\ bus /\ dev.connected /\ ~mishap
  /\ dev' = [dev EXCEPT !.suspended = ~@]
  /\ UNCHANGED <<bus, cfg, bound, edpt, events, usbd, claimer, live, wire,
                 mishap>>

(* The host asks for one thing at a time.                                  *)
Setup ==
  /\ bus /\ ~Requested /\ ~mishap
  /\ \E r \in Ordered : Send(r)
  /\ UNCHANGED <<bus, dev, cfg, bound, edpt, usbd, claimer, live, wire>>

Complete ==
  /\ wire /\ wire' = FALSE
  /\ Send("complete")
  /\ UNCHANGED <<bus, dev, cfg, bound, edpt, usbd, claimer, live>>

Interrupt == BusReset \/ Unplug \/ SuspendResume \/ Setup \/ Complete

-----------------------------------------------------------------------------
(* tud_task: one event after the other.                                    *)
Handle(es) == usbd.at = "idle" /\ events # <<>> /\ Head(events) \in es
              /\ events' = Tail(events)

Inside == \E c \in Claimers : claimer[c].at # "out"

(* Variant: the status of the endpoints survives.                          *)
ResetKeepsStatus ==
  /\ Handle(Resets)
  /\ dev' = [connected |-> FALSE, suspended |-> FALSE]
  /\ cfg' = FALSE /\ bound' = FALSE /\ UNCHANGED edpt
  /\ mishap' = (Inside \/ wire \/ (mishap /\ events' # <<>>))
  /\ UNCHANGED <<bus, usbd, claimer, live, wire>>

(* usbd_reset.  It heals everything, unless a claimer is on its way to a   *)
(* transfer: that one will mark the cleared endpoint busy.                 *)
Reset ==
  /\ Handle(Resets)
  /\ dev' = [connected |-> FALSE, suspended |-> FALSE]
  /\ cfg' = FALSE /\ bound' = FALSE /\ edpt' = Clear
  /\ mishap' = (Inside \/ wire \/ (mishap /\ events' # <<>>))
  /\ UNCHANGED <<bus, usbd, claimer, live, wire>>

Completed ==
  /\ Handle({"complete"})
  /\ edpt' = [edpt EXCEPT !.busy = FALSE, !.claimed = FALSE]
  /\ UNCHANGED <<bus, dev, cfg, bound, usbd, claimer, live, wire, mishap>>

(* A request marks the device connected, a store of the flags that the     *)
(* interrupt may have changed since the load.                              *)
Request ==
  /\ Handle(Ordered)
  /\ usbd' = [at |-> "connect", request |-> Head(events), copy |-> dev]
  /\ UNCHANGED <<bus, dev, cfg, bound, edpt, claimer, live, wire, mishap>>

Connect ==
  /\ usbd.at = "connect"
  /\ dev' = [usbd.copy EXCEPT !.connected = TRUE]
  /\ usbd' = [usbd EXCEPT !.at = "request"]
  /\ UNCHANGED <<bus, cfg, bound, edpt, events, claimer, live, wire, mishap>>

Asked(r) == usbd.at = "request" /\ usbd.request = r

(* process_set_config: the driver opens its endpoint; one that is still    *)
(* bound, after an unconfiguration, fails the assertion and the request.   *)
(* The number is stored after the drivers are open.                        *)
OpenDrivers ==
  /\ Asked("configure") /\ ~cfg
  /\ bound' = TRUE /\ live' = bus
  /\ usbd' = IF bound THEN Idle ELSE [usbd EXCEPT !.at = "opened"]
  /\ UNCHANGED <<bus, dev, cfg, edpt, events, claimer, wire, mishap>>

Configure ==
  /\ usbd.at = "opened" \/ (Asked("configure") /\ cfg)
     \/ Asked("unconfigure")
  /\ cfg' = (usbd.request = "configure")
  /\ usbd' = Idle
  /\ UNCHANGED <<bus, dev, bound, edpt, events, claimer, live, wire, mishap>>

(* A claimer has loaded the flags and will store them.                     *)
Storing == \E c \in Claimers : claimer[c].at \in {"claim", "release", "mark"}

(* usbd_edpt_stall: the controller may end the transfer it has.            *)
Halt ==
  /\ Asked("halt")
  /\ wire' \in {wire, FALSE}
  /\ usbd' = [at |-> "halting", copy |-> edpt]
  /\ UNCHANGED <<bus, dev, cfg, bound, edpt, events, claimer, live, mishap>>

Halted ==
  /\ usbd.at = "halting"
  /\ edpt' = [usbd.copy EXCEPT !.stalled = TRUE, !.busy = TRUE]
  /\ usbd' = Idle
  /\ mishap' = (mishap \/ edpt # usbd.copy \/ edpt.claimed \/ Storing)
  /\ UNCHANGED <<bus, dev, cfg, bound, events, claimer, live, wire>>

Unhalt ==
  /\ Asked("unhalt")
  /\ edpt' = [edpt EXCEPT !.stalled = FALSE, !.busy = FALSE]
  /\ usbd' = Idle
  /\ mishap' = (mishap \/ (edpt' # edpt /\ Storing))
  /\ UNCHANGED <<bus, dev, cfg, bound, events, claimer, live, wire>>

Task == Reset \/ Completed \/ Request \/ Connect \/ OpenDrivers
        \/ Configure \/ Halt \/ Halted \/ Unhalt

-----------------------------------------------------------------------------
(* A claimer.  It looks whether the device is ready before anything else.  *)
At(c, p)  == claimer[c].at = p
To(c, p)  == claimer' = [claimer EXCEPT ![c] = [at |-> p, copy |-> Clear]]
Load(c, p) == claimer' = [claimer EXCEPT ![c] = [at |-> p, copy |-> edpt]]

Locked == \E c \in Claimers : claimer[c].at \in {"claim", "release"}

Ready(c) ==
  /\ At(c, "out") /\ ~mishap /\ cfg /\ ~dev.suspended
  /\ To(c, "ready")
  /\ UNCHANGED <<edpt, wire, mishap>>

(* usbd_edpt_claim: the test before the mutex and the one under it.        *)
Refused(c) ==
  /\ At(c, "ready") /\ (edpt.busy \/ edpt.claimed)
  /\ To(c, "out")
  /\ UNCHANGED <<edpt, wire, mishap>>

(* Variant: the test is made before the mutex only.                        *)
ClaimUnlocked(c) ==
  /\ At(c, "ready") /\ ~edpt.busy /\ ~edpt.claimed
  /\ Load(c, "claim")
  /\ UNCHANGED <<edpt, wire, mishap>>

Claim(c) ==
  /\ At(c, "ready") /\ ~Locked /\ ~edpt.busy /\ ~edpt.claimed
  /\ Load(c, "claim")
  /\ UNCHANGED <<edpt, wire, mishap>>

(* The stores of a claim, of a release and of usbd_edpt_xfer's busy.       *)
Store(c) ==
  /\ claimer[c].at \in {"claim", "release", "mark"}
  /\ LET copy == claimer[c].copy
     IN  CASE At(c, "claim") ->
                edpt' = [copy EXCEPT !.claimed = TRUE] /\ To(c, "owner")
           [] At(c, "release") ->
                edpt' = [copy EXCEPT !.claimed = FALSE] /\ To(c, "out")
           [] At(c, "mark") ->
                edpt' = [copy EXCEPT !.busy = TRUE] /\ To(c, "start")
  /\ UNCHANGED <<wire, mishap>>

(* Nothing to send: usbd_edpt_release.                                     *)
Release(c) ==
  /\ At(c, "owner") /\ ~Locked
  /\ IF ~edpt.busy /\ edpt.claimed THEN Load(c, "release") ELSE To(c, "out")
  /\ UNCHANGED <<edpt, wire, mishap>>

(* usbd_edpt_xfer: an endpoint that is busy fails its assertion, and stays *)
(* claimed.                                                                *)
Mark(c) ==
  /\ At(c, "owner")
  /\ IF edpt.busy THEN To(c, "out") ELSE Load(c, "mark")
  /\ UNCHANGED <<edpt, wire, mishap>>

(* dcd_edpt_xfer: an endpoint that is not open takes a transfer that never *)
(* completes, and any may be refused.                                      *)
Start(c) ==
  /\ At(c, "start")
  /\ wire' = live /\ UNCHANGED edpt
  /\ To(c, "out")
  /\ UNCHANGED mishap

StartFails(c) ==
  /\ At(c, "start")
  /\ edpt' = [edpt EXCEPT !.busy = FALSE, !.claimed = FALSE]
  /\ To(c, "out")
  /\ UNCHANGED <<wire, mishap>>

Claiming(c) ==
  /\ \/ Ready(c) \/ Refused(c) \/ Claim(c) \/ Store(c) \/ Release(c)
     \/ Mark(c) \/ Start(c) \/ StartFails(c)
  /\ UNCHANGED <<bus, dev, cfg, bound, events, usbd, live>>

Next == Interrupt \/ Task \/ \E c \in Claimers : Claiming(c)

Spec == Init /\ [][Next]_vars

-----------------------------------------------------------------------------
(* Unless a mishap came after the last reset of the stack -- an event lost *)
(* on a full queue, a transfer completed behind a reset that waited, an    *)
(* unplug taken for a bounce while a request waited, a claimer inside      *)
(* during a reset, a halt of a claimed endpoint or a store that undoes     *)
(* another actor's -- one task at a time owns the endpoint or has a        *)
(* transfer on it; when all is done it is free again, or halted; and a     *)
(* device without host is neither configured nor connected.                *)
Owners == {c \in Claimers : claimer[c].at \in {"owner", "mark", "start",
                                               "release"}}

Quiet == usbd = Idle /\ events = <<>> /\ ~wire
         /\ \A c \in Claimers : claimer[c].at = "out"

DeviceSound ==
  mishap \/ /\ Cardinality(Owners) + (IF wire THEN 1 ELSE 0) <= 1
            /\ Quiet => ~edpt.claimed /\ (edpt.busy => edpt.stalled)
            /\ Quiet /\ ~bus => ~dev.connected /\ ~dev.suspended /\ ~cfg
=============================================================================
