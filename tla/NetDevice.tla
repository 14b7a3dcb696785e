----------------------------- MODULE NetDevice ------------------------------
(***************************************************************************)
(* The network class of the USB device stack, net_device.c, with the       *)
(* bridge from WiFi of tusb_net.c.  The WiFi task copies a packet into the *)
(* only transmit buffer and starts the transfer; the usbd task ends it,    *)
(* with an empty one when the length is a multiple of the endpoint's, and  *)
(* lets the next packet in.  The flag can_xmit and a binary semaphore,     *)
(* which the WiFi task waits for, say that the buffer is free.             *)
(*                                                                         *)
(* Events of the bus are handled in the order in which they come, so that  *)
(* the end of a transfer or a reset and its handling are one step here.    *)
(* The notifications of the control interface are left out.                *)
(***************************************************************************)
EXTENDS Naturals, Sequences

CONSTANT MaxPackets   \* bound: packets from WiFi

NetDeviceAssumption == MaxPackets \in Nat

VARIABLES
  ecm,       \* ecm_mode, of the descriptor
  mounted,   \* the host has configured the device
  epIn,      \* ep_in is open, and not 0
  canXmit,   \* can_xmit
  sem,       \* Net_Semphore
  giving,    \* the usbd task is about to give it
  wifi,      \* where the WiFi task is
  packet,    \* its packet: a number, and whether the length is a multiple
  buffer,    \* the packet in transmitted
  xfer,      \* the transfer on the endpoint, if any, and its packet
  rx,        \* a transfer into received is under way
  partial,   \* packets the host has of a frame that is not at its end
  frame,     \* the packets of the last frame since the reset
  overlap    \* ghost: see PacketsWhole

vars == <<ecm, mounted, epIn, canXmit, sem, giving, wifi, packet, buffer,
          xfer, rx, partial, frame, overlap>>
bus  == <<ecm, mounted, epIn, giving, rx, partial, frame, overlap>>

Packets == [n : 0..MaxPackets, full : BOOLEAN]
NoData  == [n |-> 0, full |-> FALSE]
NoXfer  == [kind |-> "none", of |-> NoData]

TypeOK ==
  /\ {ecm, mounted, epIn, canXmit, sem, giving, rx, overlap} \subseteq BOOLEAN
  /\ wifi \in {"out", "ready", "took", "gave", "copied", "marked"}
  /\ packet \in Packets /\ buffer \in Packets
  /\ xfer \in [kind : {"none", "data", "zlp"}, of : Packets]
  /\ partial \in Seq(0..MaxPackets) /\ frame \in Seq(0..MaxPackets)

(* vSemaphoreCreateBinary gives the semaphore.                             *)
Init ==
  /\ ecm \in BOOLEAN /\ mounted = FALSE /\ epIn = FALSE
  /\ canXmit = FALSE /\ sem = TRUE /\ giving = FALSE
  /\ wifi = "out" /\ packet = NoData /\ buffer = NoData /\ xfer = NoXfer
  /\ rx = FALSE /\ partial = <<>> /\ frame = <<>> /\ overlap = FALSE

-----------------------------------------------------------------------------
(* The WiFi task: pkt_wifi2usb, for a packet.  One that comes before the   *)
(* device is ready is dropped.                                             *)
Goes(from, to) == wifi = from /\ wifi' = to

Packet ==
  /\ Goes("out", "ready") /\ mounted /\ packet.n < MaxPackets
  /\ \E f \in BOOLEAN : packet' = [n |-> packet.n + 1, full |-> f]
  /\ UNCHANGED <<bus, canXmit, sem, buffer, xfer>>

(* tud_network_wait_xmit: 100 ms at most for the semaphore, which is given *)
(* back at once.                                                           *)
WaitTake ==
  /\ Goes("ready", "took") /\ sem /\ sem' = FALSE
  /\ UNCHANGED <<bus, canXmit, packet, buffer, xfer>>

WaitTimeout ==
  /\ Goes("ready", "out")
  /\ UNCHANGED <<bus, canXmit, sem, packet, buffer, xfer>>

WaitGive ==
  /\ Goes("took", "gave") /\ sem' = TRUE
  /\ UNCHANGED <<bus, canXmit, packet, buffer, xfer>>

(* tud_network_can_xmit and tud_network_xmit                               *)
Refuse ==
  /\ Goes("gave", "out") /\ ~canXmit
  /\ UNCHANGED <<bus, canXmit, sem, packet, buffer, xfer>>

Copy ==
  /\ Goes("gave", "copied") /\ canXmit
  /\ buffer' = packet
  /\ UNCHANGED <<bus, canXmit, sem, packet, xfer>>

(* do_in_xfer: the flag and the semaphore, then the transfer.              *)
Mark ==
  /\ Goes("copied", "marked") /\ canXmit' = FALSE /\ sem' = FALSE
  /\ UNCHANGED <<bus, packet, buffer, xfer>>

(* usbd_edpt_xfer fails on an endpoint that is busy.  Without an open      *)
(* interface ep_in is 0, and the packet goes to the control endpoint: can_ *)
(* xmit outlives a reset, and an ECM device is ready before its interface. *)
Start ==
  /\ Goes("marked", "out")
  /\ xfer' = IF epIn /\ xfer = NoXfer THEN [kind |-> "data", of |-> buffer]
             ELSE xfer
  /\ UNCHANGED <<bus, canXmit, sem, packet, buffer>>

Wifi == Packet \/ WaitTake \/ WaitTimeout \/ WaitGive \/ Refuse \/ Copy
        \/ Mark \/ Start

-----------------------------------------------------------------------------
(* The usbd task.                                                          *)
driver == <<ecm, wifi, packet, buffer, frame>>

(* usbd_reset and netd_reset: the flag and the semaphore stay.             *)
Reset ==
  /\ ~giving
  /\ mounted' = FALSE /\ epIn' = FALSE /\ xfer' = NoXfer /\ rx' = FALSE
  /\ partial' = <<>> /\ frame' = <<>> /\ overlap' = (wifi # "out")
  /\ UNCHANGED <<ecm, wifi, packet, buffer, canXmit, sem, giving>>

(* Open pair of endpoints, can_xmit, and the rest in Give.                 *)
OpenPair ==
  /\ epIn' = TRUE /\ canXmit' = TRUE /\ giving' = TRUE
  /\ overlap' = (overlap \/ wifi # "out")

(* netd_open, by the configuration: RNDIS opens its pair at once.          *)
Configure ==
  /\ ~mounted /\ ~giving
  /\ mounted' = TRUE
  /\ IF ecm THEN UNCHANGED <<epIn, canXmit, giving, overlap>> ELSE OpenPair
  /\ UNCHANGED <<driver, sem, xfer, rx, partial>>

(* SET_INTERFACE opens the pair of an ECM device, once after a reset: what *)
(* was opened is not closed, so that other settings change nothing.        *)
SetInterface ==
  /\ mounted /\ ecm /\ ~epIn /\ ~giving
  /\ OpenPair
  /\ UNCHANGED <<driver, mounted, sem, xfer, rx, partial>>

(* tud_network_idle_status_change_cb and, after an opening, the first      *)
(* tud_network_recv_renew                                                  *)
Give ==
  /\ giving /\ giving' = FALSE /\ sem' = TRUE /\ rx' = TRUE
  /\ UNCHANGED <<driver, mounted, epIn, canXmit, xfer, partial, overlap>>

(* A packet is at its end for the host when it is shorter than a multiple. *)
Data == IF xfer.of = buffer THEN buffer.n ELSE 0

(* Variant: no empty transfer after a packet that fills its last one.      *)
SentNoEnd ==
  /\ xfer.kind = "data" /\ xfer.of.full /\ ~giving
  /\ partial' = Append(partial, Data)
  /\ xfer' = NoXfer /\ canXmit' = TRUE /\ giving' = TRUE
  /\ UNCHANGED <<driver, mounted, epIn, sem, rx, overlap>>

SentFull ==
  /\ xfer.kind = "data" /\ xfer.of.full /\ ~giving
  /\ partial' = Append(partial, Data)
  /\ xfer' = [xfer EXCEPT !.kind = "zlp"] /\ canXmit' = FALSE /\ sem' = FALSE
  /\ UNCHANGED <<driver, mounted, epIn, giving, rx, overlap>>

Sent ==
  /\ xfer # NoXfer /\ ~giving
  /\ xfer.kind = "data" => ~xfer.of.full
  /\ frame' = IF xfer.kind = "zlp" THEN partial ELSE Append(partial, Data)
  /\ partial' = <<>>
  /\ xfer' = NoXfer /\ canXmit' = TRUE /\ giving' = TRUE
  /\ UNCHANGED <<ecm, wifi, packet, buffer, mounted, epIn, sem, rx, overlap>>

(* handle_incoming_packet: what is not a packet is passed on with length   *)
(* 0.  tud_network_recv_cb sends it and renews the reception itself.       *)
Received ==
  /\ rx /\ ~giving
  /\ rx' = TRUE
  /\ UNCHANGED <<driver, mounted, epIn, canXmit, sem, giving, xfer, partial,
                 overlap>>

Usbd == Reset \/ Configure \/ SetInterface \/ Give \/ SentFull \/ Sent
        \/ Received

Next == Wifi \/ Usbd

Spec == Init /\ [][Next]_vars

-----------------------------------------------------------------------------
(* Unless the last reset, or an opening after it, came while the WiFi task *)
(* was on its way, each frame the host gets is one packet, whole: none is  *)
(* overwritten in the one buffer while it is sent, and none runs into the  *)
(* next.  And when nothing is under way, an open interface takes the next  *)
(* packet.                                                                 *)
Quiet == wifi = "out" /\ xfer = NoXfer /\ ~giving

PacketsWhole ==
  overlap \/ /\ frame # <<>> => Len(frame) = 1 /\ frame[1] # 0
             /\ Quiet /\ epIn => canXmit /\ sem /\ rx
=============================================================================
