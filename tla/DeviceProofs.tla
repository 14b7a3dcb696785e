---------------------------- MODULE DeviceProofs ----------------------------
(***************************************************************************)
(* What is proved of the parts on the device's side, the USB device stack  *)
(* and its classes, as theorems of the whole; and, with those of the other *)
(* side, the types of all parts.                                           *)
(***************************************************************************)
EXTENDS ServicesProofs

-----------------------------------------------------------------------------
(* USB device.  A reset that still waits, a completion that does, and who  *)
(* has the endpoint.                                                       *)
UdWaits == \E i \in DOMAIN events : events[i] \in UsbDev!Resets
UdDone  == \E i \in DOMAIN events : events[i] = "complete"
UdHolds(c) == claimer[c].at \in {"owner", "mark", "start", "release"}

UdEvents   == UsbDev!Resets \cup {"complete"} \cup UsbDev!Ordered
UdDevs     == [connected : BOOLEAN, suspended : BOOLEAN]
UdAsking   == [at : {"connect", "request", "opened"},
               request : UsbDev!Ordered, copy : UdDevs]
UdHalting  == [at : {"halting"}, copy : UsbDev!Flags]
UdClaimers == [at : UsbDev!Places, copy : UsbDev!Flags]

UdTyped == /\ UsbDev!TypeOK
           /\ events \in Seq(UdEvents)
           /\ usbd \in {UsbDev!Idle} \cup UdAsking \cup UdHalting

(* One transfer completes before a reset, and a host that is gone will be  *)
(* noticed after what it has asked.                                        *)
UdQueue ==
  /\ \A i, j \in DOMAIN events :
       events[i] = "complete" /\ events[j] = "complete" => i = j
  /\ \A i, j \in DOMAIN events :
       i < j /\ events[i] \in UsbDev!Resets => events[j] # "complete"
  /\ ~bus => \A i \in DOMAIN events : events[i] \in UsbDev!Ordered =>
                \E j \in DOMAIN events : i < j /\ events[j] \in UsbDev!Resets

(* Without a reset that waits: what is in use is there.                    *)
UdHost ==
  ~UdWaits =>
    /\ dev.suspended => dev.connected
    /\ cfg => dev.connected /\ live
    /\ usbd.at \in {"request", "opened", "halting"} => dev.connected
    /\ ~bus => ~dev.connected /\ usbd.at = "idle"
    /\ usbd.at = "opened" => live
    /\ UsbDev!Inside => dev.connected /\ live
    /\ wire => dev.connected

(* What a claimer has loaded is still so.                                  *)
UdClaims ==
  /\ \A c \in Claimers : claimer[c].at = "claim" =>
       edpt = claimer[c].copy /\ ~edpt.busy /\ ~edpt.claimed
  /\ \A c \in Claimers :
       claimer[c].at \in {"owner", "mark", "release"} => ~edpt.busy
  /\ \A c \in Claimers :
       claimer[c].at \in {"mark", "release"} => claimer[c].copy = edpt
  /\ \A c \in Claimers : UdHolds(c) => edpt.claimed
  /\ wire \/ UdDone => edpt.claimed

(* An owner, a transfer on the wire or its completion, but one of them.    *)
UdOne ==
  /\ \A c, d \in Claimers :
       claimer[c].at = "claim" /\ claimer[d].at = "claim" => c = d
  /\ \A c, d \in Claimers : UdHolds(c) /\ UdHolds(d) => c = d
  /\ \A c \in Claimers : UdHolds(c) => ~wire /\ ~UdDone
  /\ ~(wire /\ UdDone)

(* The endpoint is taken only as long as someone will free it.             *)
UdFree ==
  /\ edpt.stalled => edpt.busy /\ ~edpt.claimed
  /\ edpt.busy => edpt.stalled \/ edpt.claimed
  /\ edpt.claimed => \/ UdWaits \/ wire \/ UdDone
                     \/ usbd.at = "halting" /\ usbd.copy.claimed
                     \/ \E c \in Claimers : UdHolds(c)

UdSound == UdQueue /\ UdHost /\ UdClaims /\ UdOne /\ UdFree
UdInv   == UdTyped /\ (~mishap => UdSound)

LEMMA UdMoves == ASSUME [Next]_vars PROVE UsbDev!Next \/ UNCHANGED usbDev
BY DEF Next, LedStep, UpdateStep, HistoryStep, LogStep, StartUpStep,
   GatewayStep, UsbLifeStep, FramesStep, CameraStep, UsbDevStep, DfuStep,
   NetStep, AcmStep, Rest, DeviceRest, deviceSide, vars

LEMMA UdAssumed == Room \in Nat \ {0} /\ IsFiniteSet(Claimers)
<1>1. Room \in Nat \ {0} /\ UsbDev!IsFiniteSet(Claimers)
  BY ServicesAssumption DEF UsbDev!UsbDeviceAssumption
<1>2. UsbDev!IsFiniteSet(Claimers) <=> IsFiniteSet(Claimers)
  BY DEF UsbDev!IsFiniteSet, IsFiniteSet
<1> QED BY <1>1, <1>2

(* The flags of the endpoint, stored one or two at a time.                 *)
UdFlag(b, s, k) == [busy |-> b, stalled |-> s, claimed |-> k]

LEMMA UdFlags ==
  ASSUME NEW b \in BOOLEAN, NEW s \in BOOLEAN, NEW k \in BOOLEAN
  PROVE  /\ UdFlag(b, s, k) \in UsbDev!Flags
         /\ UdFlag(b, s, k).busy = b /\ UdFlag(b, s, k).stalled = s
         /\ UdFlag(b, s, k).claimed = k
BY DEF UdFlag, UsbDev!Flags

LEMMA UdStores ==
  ASSUME NEW f \in UsbDev!Flags, NEW v \in BOOLEAN, NEW w \in BOOLEAN
  PROVE  /\ f.busy \in BOOLEAN /\ f.stalled \in BOOLEAN
         /\ f.claimed \in BOOLEAN
         /\ [f EXCEPT !.busy = v, !.claimed = w] = UdFlag(v, f.stalled, w)
         /\ [f EXCEPT !.stalled = v, !.busy = w] = UdFlag(w, v, f.claimed)
<1>1. /\ f.busy \in BOOLEAN /\ f.stalled \in BOOLEAN
      /\ f.claimed \in BOOLEAN
  BY DEF UsbDev!Flags
<1>2. f = UdFlag(f.busy, f.stalled, f.claimed) BY DEF UsbDev!Flags, UdFlag
<1>3. ASSUME NEW b, NEW s, NEW k, NEW u
      PROVE  /\ [UdFlag(b, s, k) EXCEPT !.claimed = u] = UdFlag(b, s, u)
             /\ [UdFlag(b, s, k) EXCEPT !.busy = u] = UdFlag(u, s, k)
             /\ [UdFlag(b, s, k) EXCEPT !.stalled = u] = UdFlag(b, u, k)
  BY DEF UdFlag
<1>4. /\ [f EXCEPT !.claimed = v] = UdFlag(f.busy, f.stalled, v)
      /\ [f EXCEPT !.busy = v] = UdFlag(v, f.stalled, f.claimed)
      /\ [f EXCEPT !.stalled = v] = UdFlag(f.busy, v, f.claimed)
  BY <1>2, <1>3
<1>5. [f EXCEPT !.busy = v, !.claimed = w] = UdFlag(v, f.stalled, w)
  <2>1. PICK g : g = [f EXCEPT !.busy = v] OBVIOUS
  <2>2. g = UdFlag(v, f.stalled, f.claimed) BY <1>4, <2>1
  <2>3. [g EXCEPT !.claimed = w] = UdFlag(v, f.stalled, w) BY <1>3, <2>2
  <2>4. [f EXCEPT !.busy = v, !.claimed = w] = [g EXCEPT !.claimed = w]
    BY <2>1
  <2> QED BY <2>3, <2>4
<1>6. [f EXCEPT !.stalled = v, !.busy = w] = UdFlag(w, v, f.claimed)
  <2>1. PICK g : g = [f EXCEPT !.stalled = v] OBVIOUS
  <2>2. g = UdFlag(f.busy, v, f.claimed) BY <1>4, <2>1
  <2>3. [g EXCEPT !.busy = w] = UdFlag(w, v, f.claimed) BY <1>3, <2>2
  <2>4. [f EXCEPT !.stalled = v, !.busy = w] = [g EXCEPT !.busy = w]
    BY <2>1
  <2> QED BY <2>3, <2>4
<1> QED BY <1>1, <1>5, <1>6

LEMMA UdChanges ==
  ASSUME NEW f \in UsbDev!Flags
  PROVE  /\ [f EXCEPT !.claimed = TRUE] \in UsbDev!Flags
         /\ [f EXCEPT !.claimed = TRUE].claimed = TRUE
         /\ [f EXCEPT !.claimed = TRUE].busy = f.busy
         /\ [f EXCEPT !.claimed = TRUE].stalled = f.stalled
         /\ [f EXCEPT !.claimed = FALSE] \in UsbDev!Flags
         /\ [f EXCEPT !.claimed = FALSE].claimed = FALSE
         /\ [f EXCEPT !.claimed = FALSE].busy = f.busy
         /\ [f EXCEPT !.claimed = FALSE].stalled = f.stalled
         /\ [f EXCEPT !.busy = TRUE] \in UsbDev!Flags
         /\ [f EXCEPT !.busy = TRUE].claimed = f.claimed
         /\ [f EXCEPT !.busy = TRUE].stalled = f.stalled
BY DEF UsbDev!Flags

LEMMA UdTypes ==
  ASSUME UdTyped
  PROVE  /\ bus \in BOOLEAN /\ dev \in UdDevs /\ cfg \in BOOLEAN
         /\ bound \in BOOLEAN /\ edpt \in UsbDev!Flags
         /\ events \in Seq(UdEvents) /\ Len(events) \in Nat
         /\ DOMAIN events = 1..Len(events) /\ Len(events) <= Room
         /\ claimer \in [Claimers -> UdClaimers]
         /\ live \in BOOLEAN /\ wire \in BOOLEAN /\ mishap \in BOOLEAN
BY DEF UdTyped, UsbDev!TypeOK, UdDevs, UdClaimers

LEMMA UdTypedBy ==
  ASSUME bus' \in BOOLEAN, dev' \in UdDevs, cfg' \in BOOLEAN,
         bound' \in BOOLEAN, edpt' \in UsbDev!Flags,
         events' \in Seq(UdEvents), Len(events') <= Room,
         usbd' \in {UsbDev!Idle} \cup UdAsking \cup UdHalting,
         claimer' \in [Claimers -> UdClaimers],
         live' \in BOOLEAN, wire' \in BOOLEAN, mishap' \in BOOLEAN
  PROVE  UdTyped'
<1>1. usbd'.at \in {"idle", "connect", "request", "opened", "halting"}
  BY DEF UsbDev!Idle, UdAsking, UdHalting
<1> QED BY <1>1 DEF UdTyped, UsbDev!TypeOK, UdDevs, UdClaimers

LEMMA UdStart == ASSUME Init PROVE UdInv
<1>1. UsbDev!Init BY DEF Init
<1>2. /\ bus = FALSE /\ cfg = FALSE /\ bound = FALSE /\ live = FALSE
      /\ wire = FALSE /\ mishap = FALSE /\ events = <<>>
      /\ dev = [connected |-> FALSE, suspended |-> FALSE]
      /\ edpt = UsbDev!Clear /\ usbd = UsbDev!Idle
      /\ claimer = [c \in Claimers |-> UsbDev!Out]
  BY <1>1 DEF UsbDev!Init
<1>3. UsbDev!Clear \in UsbDev!Flags /\ UsbDev!Clear.claimed = FALSE
      /\ UsbDev!Clear.busy = FALSE /\ UsbDev!Clear.stalled = FALSE
  BY DEF UsbDev!Clear, UsbDev!Flags
<1>4. UsbDev!Out \in UdClaimers /\ UsbDev!Out.at = "out"
  BY <1>3 DEF UsbDev!Out, UdClaimers, UsbDev!Places
<1>5. claimer \in [Claimers -> UdClaimers]
      /\ \A c \in Claimers : claimer[c].at = "out"
  BY <1>2, <1>4
<1>6. dev \in UdDevs BY <1>2 DEF UdDevs
<1>7. events \in Seq(UdEvents) /\ Len(events) = 0 BY <1>2
<1>8. UdTyped
  <2>1. Len(events) <= Room BY <1>7, UdAssumed
  <2>2. usbd \in {UsbDev!Idle} \cup UdAsking \cup UdHalting BY <1>2
  <2>3. /\ bus \in BOOLEAN /\ cfg \in BOOLEAN /\ bound \in BOOLEAN
        /\ live \in BOOLEAN /\ wire \in BOOLEAN /\ mishap \in BOOLEAN
    BY <1>2
  <2>4. edpt \in UsbDev!Flags BY <1>2, <1>3
  <2>5. usbd.at = "idle" BY <1>2 DEF UsbDev!Idle
  <2> QED BY <1>5, <1>6, <1>7, <2>1, <2>2, <2>3, <2>4, <2>5
    DEF UdTyped, UsbDev!TypeOK, UdDevs, UdClaimers
<1>9. ~UdWaits /\ ~UdDone BY <1>2 DEF UdWaits, UdDone
<1>10. UdQueue BY <1>2 DEF UdQueue
<1>11. UdHost
  <2>1. ~UsbDev!Inside BY <1>5 DEF UsbDev!Inside
  <2>2. dev.connected = FALSE /\ dev.suspended = FALSE BY <1>2
  <2>3. usbd.at = "idle" BY <1>2 DEF UsbDev!Idle
  <2> QED BY <1>2, <2>1, <2>2, <2>3 DEF UdHost
<1>12. \A c \in Claimers : ~UdHolds(c) BY <1>5 DEF UdHolds
<1>13. UdClaims BY <1>2, <1>5, <1>9, <1>12 DEF UdClaims
<1>14. UdOne BY <1>2, <1>5, <1>12 DEF UdOne
<1>15. UdFree BY <1>2, <1>3 DEF UdFree
<1> QED BY <1>8, <1>10, <1>11, <1>13, <1>14, <1>15 DEF UdInv, UdSound

-----------------------------------------------------------------------------
(* What the interrupt sends.                                               *)
LEMMA UdSent ==
  ASSUME UdTyped, NEW e \in UdEvents, UsbDev!Send(e)
  PROVE  /\ events' \in Seq(UdEvents) /\ Len(events') <= Room
         /\ mishap' \in BOOLEAN /\ (mishap => mishap')
         /\ ~mishap' =>
              \/ /\ DOMAIN events' = 1..Len(events) + 1
                 /\ events'[Len(events) + 1] = e
                 /\ \A i \in DOMAIN events : events'[i] = events[i]
                 /\ e = "complete" => ~UdWaits
              \/ events' = events /\ e \in UsbDev!Ordered
<1>1. /\ events \in Seq(UdEvents) /\ Len(events) \in Nat /\ Room \in Nat
      /\ Len(events) <= Room /\ mishap \in BOOLEAN
      /\ DOMAIN events = 1..Len(events)
  BY UdTypes, UdAssumed
<1>2. CASE Len(events) < Room
  <2>1. events' = Append(events, e)
        /\ mishap' = (mishap \/ UsbDev!Behind(e))
    BY <1>2 DEF UsbDev!Send
  <2>2. /\ events' \in Seq(UdEvents) /\ Len(events') = Len(events) + 1
        /\ events'[Len(events) + 1] = e
        /\ \A i \in 1..Len(events) : events'[i] = events[i]
        /\ DOMAIN events' = 1..Len(events) + 1
    BY <1>1, <2>1
  <2>3. mishap' \in BOOLEAN /\ (mishap => mishap')
        /\ (~mishap' => ~UsbDev!Behind(e))
    BY <2>1, <1>1 DEF UsbDev!Behind
  <2>4. ~UsbDev!Behind(e) => (e = "complete" => ~UdWaits)
    BY DEF UsbDev!Behind, UdWaits
  <2>5. Len(events') <= Room BY <1>1, <1>2, <2>2
  <2> QED BY <1>1, <2>2, <2>3, <2>4, <2>5
<1>3. CASE ~(Len(events) < Room)
  <2>1. events' = events
        /\ mishap' = (mishap \/ e \in {"reset", "unplugged", "complete"})
    BY <1>3 DEF UsbDev!Send
  <2>2. mishap' \in BOOLEAN /\ (mishap => mishap')
        /\ (~mishap' => e \in UsbDev!Ordered)
    BY <1>1, <2>1 DEF UdEvents, UsbDev!Resets
  <2> QED BY <1>1, <2>1, <2>2
<1> QED BY <1>2, <1>3

(* What the usbd task takes.                                               *)
LEMMA UdTaken ==
  ASSUME UdTyped, NEW es, UsbDev!Handle(es)
  PROVE  /\ usbd.at = "idle" /\ Len(events) >= 1 /\ events[1] \in es
         /\ events' \in Seq(UdEvents) /\ Len(events') <= Room
         /\ DOMAIN events' = 1..Len(events) - 1
         /\ \A i \in DOMAIN events' :
              i + 1 \in DOMAIN events /\ events'[i] = events[i + 1]
         /\ \A i \in DOMAIN events : i # 1 => i - 1 \in DOMAIN events'
<1>1. /\ events \in Seq(UdEvents) /\ Len(events) \in Nat /\ Room \in Nat
      /\ Len(events) <= Room /\ DOMAIN events = 1..Len(events)
  BY UdTypes, UdAssumed
<1>2. /\ usbd.at = "idle" /\ events # <<>> /\ Head(events) \in es
      /\ events' = Tail(events)
  BY DEF UsbDev!Handle
<1>3. /\ Len(events) >= 1 /\ Head(events) = events[1]
      /\ Tail(events) \in Seq(UdEvents)
      /\ Len(Tail(events)) = Len(events) - 1
      /\ \A i \in 1..Len(events) - 1 : Tail(events)[i] = events[i + 1]
  BY <1>1, <1>2
<1>4. DOMAIN events' = 1..Len(events) - 1 BY <1>2, <1>3
<1> QED BY <1>1, <1>2, <1>3, <1>4

LEMMA UdKinds ==
  /\ UdEvents = {"reset", "unplugged", "complete", "configure",
                 "unconfigure", "halt", "unhalt"}
  /\ "complete" \notin UsbDev!Resets /\ "complete" \notin UsbDev!Ordered
  /\ \A e \in UsbDev!Ordered : e \notin UsbDev!Resets
BY DEF UdEvents, UsbDev!Resets, UsbDev!Ordered

LEMMA UdSending ==
  ASSUME UdTyped, UdQueue, NEW e \in UdEvents, UsbDev!Send(e), ~mishap',
         e = "complete" => ~UdDone, e \in UsbDev!Ordered => bus',
         ~bus' => ~bus \/ e \in UsbDev!Resets
  PROVE  /\ UdQueue' /\ (UdWaits => UdWaits') /\ (UdDone => UdDone')
         /\ e \in UsbDev!Resets => UdWaits'
         /\ e \notin UsbDev!Resets => (UdWaits' => UdWaits)
         /\ e # "complete" => (UdDone' => UdDone)
         /\ e = "complete" => UdDone'
<1> USE UdKinds
<1> DEFINE n == Len(events) + 1
<1>1. /\ DOMAIN events = 1..Len(events) /\ Len(events) \in Nat
      /\ bus \in BOOLEAN
  BY UdTypes
<1>2. CASE events' = events /\ e \in UsbDev!Ordered
  BY <1>2 DEF UdQueue, UdWaits, UdDone
<1>3. CASE /\ DOMAIN events' = 1..n /\ events'[n] = e
           /\ \A i \in DOMAIN events : events'[i] = events[i]
           /\ e = "complete" => ~UdWaits
  <2>1. /\ n \in DOMAIN events' /\ n \notin DOMAIN events
        /\ DOMAIN events' = DOMAIN events \cup {n}
        /\ \A i \in DOMAIN events : i < n /\ i \in Nat
        /\ n \in Nat
    BY <1>1, <1>3
  <2> HIDE DEF n
  <2>2. /\ UdWaits => UdWaits'
        /\ e \in UsbDev!Resets => UdWaits'
        /\ e \notin UsbDev!Resets => (UdWaits' => UdWaits)
    BY <1>3, <2>1 DEF UdWaits
  <2>3. /\ UdDone => UdDone'
        /\ e # "complete" => (UdDone' => UdDone)
        /\ e = "complete" => UdDone'
    BY <1>3, <2>1 DEF UdDone
  <2>4. ASSUME NEW i \in DOMAIN events', NEW j \in DOMAIN events',
               events'[i] = "complete", events'[j] = "complete"
        PROVE  i = j
    BY <1>3, <2>1, <2>4 DEF UdQueue, UdDone
  <2>5. ASSUME NEW i \in DOMAIN events', NEW j \in DOMAIN events',
               i < j, events'[i] \in UsbDev!Resets
        PROVE  events'[j] # "complete"
    <3>1. i \in DOMAIN events
      <4>1. ~(n < n) /\ \A k \in DOMAIN events : ~(n < k)
        BY <2>1
      <4> QED BY <2>1, <2>5, <4>1
    <3>2. CASE j = n BY <1>3, <2>5, <3>1, <3>2 DEF UdWaits
    <3>3. CASE j \in DOMAIN events
      BY <1>3, <2>5, <3>1, <3>3 DEF UdQueue
    <3> QED BY <2>1, <3>2, <3>3
  <2>6. ASSUME ~bus', NEW i \in DOMAIN events',
               events'[i] \in UsbDev!Ordered
        PROVE  \E j \in DOMAIN events' : i < j
                                        /\ events'[j] \in UsbDev!Resets
    <3>1. e \notin UsbDev!Ordered BY <2>6
    <3>2. i \in DOMAIN events BY <1>3, <2>1, <2>6, <3>1
    <3>3. CASE e \in UsbDev!Resets BY <1>3, <2>1, <3>2, <3>3
    <3>4. CASE ~bus
      <4>1. PICK j \in DOMAIN events :
              i < j /\ events[j] \in UsbDev!Resets
        BY <1>3, <2>6, <3>2, <3>4 DEF UdQueue
      <4> QED BY <1>3, <2>1, <4>1
    <3> QED BY <2>6, <3>3, <3>4
  <2>7. UdQueue' BY <2>4, <2>5, <2>6 DEF UdQueue
  <2> QED BY <2>2, <2>3, <2>7
<1> QED BY <1>2, <1>3, UdSent

LEMMA UdTaking ==
  ASSUME UdTyped, UdQueue, NEW es, UsbDev!Handle(es), bus' = bus
  PROVE  /\ UdQueue' /\ (UdWaits' => UdWaits) /\ (UdDone' => UdDone)
         /\ events[1] \in UsbDev!Resets => UdWaits /\ ~UdDone'
         /\ events[1] \notin UsbDev!Resets => (UdWaits => UdWaits')
         /\ events[1] # "complete" /\ events[1] \notin UsbDev!Resets =>
              (UdDone => UdDone')
         /\ events[1] = "complete" => UdDone /\ ~UdDone'
         /\ events[1] \in UsbDev!Ordered /\ ~UdWaits => bus
<1> USE UdKinds
<1>1. /\ DOMAIN events = 1..Len(events) /\ Len(events) \in Nat
      /\ bus \in BOOLEAN
  BY UdTypes
<1>2. /\ 1 \in DOMAIN events /\ DOMAIN events' \subseteq Nat
      /\ \A i \in DOMAIN events' : i + 1 \in DOMAIN events /\ 1 < i + 1
                                   /\ i + 1 # 1 /\ i \in Nat
                                   /\ events'[i] = events[i + 1]
      /\ \A i \in DOMAIN events : i # 1 =>
           i - 1 \in DOMAIN events' /\ events'[i - 1] = events[i]
  <2>1. \A i \in DOMAIN events : i \in Nat /\ (i - 1) + 1 = i BY <1>1
  <2> QED BY <1>1, <2>1, UdTaken
<1>3. /\ UdWaits' => UdWaits
      /\ events[1] \in UsbDev!Resets => UdWaits
      /\ events[1] \notin UsbDev!Resets => (UdWaits => UdWaits')
  BY <1>2 DEF UdWaits
<1>4. /\ UdDone' => UdDone
      /\ events[1] # "complete" => (UdDone => UdDone')
      /\ events[1] = "complete" => UdDone
  BY <1>2 DEF UdDone
<1>5. events[1] \in UsbDev!Resets => ~UdDone'
  BY <1>2 DEF UdDone, UdQueue
<1>6. events[1] = "complete" => ~UdDone'
  BY <1>2 DEF UdDone, UdQueue
<1>7. events[1] \in UsbDev!Ordered /\ ~UdWaits => bus
  BY <1>2 DEF UdQueue, UdWaits
<1>8. ASSUME NEW i \in DOMAIN events', NEW j \in DOMAIN events',
             events'[i] = "complete", events'[j] = "complete"
      PROVE  i = j
  <2>1. i + 1 = j + 1 BY <1>2, <1>8 DEF UdQueue
  <2> QED BY <1>2, <2>1
<1>9. ASSUME NEW i \in DOMAIN events', NEW j \in DOMAIN events',
             i < j, events'[i] \in UsbDev!Resets
      PROVE  events'[j] # "complete"
  <2>1. i + 1 < j + 1 BY <1>2, <1>9
  <2> QED BY <1>2, <1>9, <2>1 DEF UdQueue
<1>10. ASSUME ~bus', NEW i \in DOMAIN events',
              events'[i] \in UsbDev!Ordered
       PROVE  \E j \in DOMAIN events' : i < j
                                       /\ events'[j] \in UsbDev!Resets
  <2>1. PICK k \in DOMAIN events :
          i + 1 < k /\ events[k] \in UsbDev!Resets
    BY <1>2, <1>10 DEF UdQueue
  <2>2. i \in Nat /\ k \in Nat BY <1>1, <1>2
  <2>3. k # 1 /\ i < k - 1 BY <2>1, <2>2
  <2> QED BY <1>2, <2>1, <2>3
<1>11. UdQueue' BY <1>8, <1>9, <1>10 DEF UdQueue
<1> QED BY <1>3, <1>4, <1>5, <1>6, <1>7, <1>11

LEMMA UdWaiting ==
  ASSUME UdQueue, events' = events, bus => bus'
  PROVE  UdQueue' /\ (UdWaits' <=> UdWaits) /\ (UdDone' <=> UdDone)
BY DEF UdQueue, UdWaits, UdDone

(* The endpoint's flags and the claimers stay: what is left to be shown.   *)
LEMMA UdKeeps ==
  ASSUME UdSound, UNCHANGED <<edpt, claimer>>, UdQueue', UdHost',
         wire' => wire, UdDone' => UdDone,
         edpt.claimed =>
           \/ UdWaits' \/ wire' \/ UdDone'
           \/ usbd'.at = "halting" /\ usbd'.copy.claimed
           \/ \E c \in Claimers : UdHolds(c)
  PROVE  UdSound'
<1>1. \A c : UdHolds(c)' <=> UdHolds(c) BY DEF UdHolds
<1>2. UdClaims' BY <1>1 DEF UdSound, UdClaims
<1>3. UdOne' BY <1>1 DEF UdSound, UdOne
<1>4. UdFree' BY <1>1 DEF UdSound, UdFree
<1> QED BY <1>2, <1>3, <1>4 DEF UdSound

(* The interrupt.                                                          *)
LEMMA UdBusReset == ASSUME UdInv, UsbDev!BusReset PROVE UdInv'
<1> USE UdKinds
<1>1. /\ bus' = TRUE /\ live' = FALSE /\ wire' = FALSE
      /\ UsbDev!Send("reset") /\ "reset" \in UsbDev!Resets
      /\ UNCHANGED <<dev, cfg, bound, edpt, usbd, claimer>>
  BY DEF UsbDev!BusReset, UsbDev!Resets
<1>2. UdTyped BY DEF UdInv
<1>3. /\ events' \in Seq(UdEvents) /\ Len(events') <= Room
      /\ mishap' \in BOOLEAN /\ (mishap => mishap')
  BY <1>1, <1>2, UdSent
<1>4. UdTyped'
  <2>1. /\ bus' \in BOOLEAN /\ live' \in BOOLEAN /\ wire' \in BOOLEAN
    BY <1>1
  <2>2. usbd \in {UsbDev!Idle} \cup UdAsking \cup UdHalting
    BY <1>2 DEF UdTyped
  <2> QED BY <1>1, <1>2, <1>3, <2>1, <2>2, UdTypes, UdTypedBy
<1>5. ASSUME ~mishap' PROVE UdSound'
  <2>1. UdSound BY <1>3, <1>5 DEF UdInv
  <2>2. UdQueue' /\ UdWaits' /\ (UdDone' => UdDone)
    BY <1>1, <1>2, <1>5, <2>1, UdSending DEF UdSound
  <2>3. UdHost' BY <2>2 DEF UdHost
  <2> QED BY <1>1, <2>1, <2>2, <2>3, UdKeeps
<1> QED BY <1>4, <1>5 DEF UdInv

LEMMA UdUnplug == ASSUME UdInv, UsbDev!Unplug PROVE UdInv'
<1> USE UdKinds
<1>1. /\ bus = TRUE /\ bus' = FALSE /\ live' = FALSE /\ wire' = FALSE
      /\ UNCHANGED <<bound, edpt, usbd, claimer>>
      /\ \/ /\ dev.connected
            /\ dev' = [connected |-> FALSE, suspended |-> FALSE]
            /\ cfg' = FALSE /\ UsbDev!Send("unplugged")
         \/ /\ ~dev.connected /\ UNCHANGED <<dev, cfg, events>>
            /\ mishap' = (mishap \/ UsbDev!Requested)
  <2>1. UdTyped BY DEF UdInv
  <2> QED BY <2>1, UdTypes DEF UsbDev!Unplug
<1>2. UdTyped BY DEF UdInv
<1>3. usbd \in {UsbDev!Idle} \cup UdAsking \cup UdHalting
  BY <1>2 DEF UdTyped
<1>4. CASE /\ dev' = [connected |-> FALSE, suspended |-> FALSE]
           /\ cfg' = FALSE /\ UsbDev!Send("unplugged")
  <2>1. "unplugged" \in UsbDev!Resets BY DEF UsbDev!Resets
  <2>2. /\ events' \in Seq(UdEvents) /\ Len(events') <= Room
        /\ mishap' \in BOOLEAN /\ (mishap => mishap')
    BY <1>2, <1>4, UdSent
  <2>3. UdTyped'
    <3>1. /\ bus' \in BOOLEAN /\ live' \in BOOLEAN /\ wire' \in BOOLEAN
          /\ cfg' \in BOOLEAN
      BY <1>1, <1>4
    <3>2. dev' \in UdDevs BY <1>4 DEF UdDevs
    <3>3. UNCHANGED <<bound, edpt, usbd, claimer>> BY <1>1
    <3> QED BY <1>2, <1>3, <2>2, <3>1, <3>2, <3>3, UdTypes, UdTypedBy
  <2>4. ASSUME ~mishap' PROVE UdSound'
    <3>1. UdSound BY <2>2, <2>4 DEF UdInv
    <3>2. UdQueue' /\ UdWaits' /\ (UdDone' => UdDone)
      BY <1>2, <1>4, <2>1, <2>4, <3>1, UdSending DEF UdSound
    <3>3. UdHost' BY <3>2 DEF UdHost
    <3> QED BY <1>1, <3>1, <3>2, <3>3, UdKeeps
  <2> QED BY <2>3, <2>4 DEF UdInv
<1>5. CASE /\ ~dev.connected /\ UNCHANGED <<dev, cfg, events>>
           /\ mishap' = (mishap \/ UsbDev!Requested)
  <2>1. UdTyped'
    <3>1. /\ bus' \in BOOLEAN /\ live' \in BOOLEAN /\ wire' \in BOOLEAN
      BY <1>1
    <3>2. mishap' \in BOOLEAN
      BY <1>2, <1>5, UdTypes DEF UsbDev!Requested
    <3>3. UNCHANGED <<bound, edpt, usbd, claimer, dev, cfg, events>>
      BY <1>1, <1>5
    <3> QED BY <1>2, <1>3, <3>1, <3>2, <3>3, UdTypes, UdTypedBy
  <2>2. ASSUME ~mishap' PROVE UdSound'
    <3>1. UdSound /\ ~UsbDev!Requested BY <1>5, <2>2 DEF UdInv
    <3>2. /\ \A i \in DOMAIN events : events[i] \notin UsbDev!Ordered
          /\ usbd.at = "idle"
      <4>1. usbd.at \in {"idle", "connect", "request", "opened", "halting"}
        BY <1>2 DEF UdTyped, UsbDev!TypeOK
      <4> QED BY <3>1, <4>1 DEF UsbDev!Requested
    <3>3. (UdWaits' <=> UdWaits) /\ (UdDone' <=> UdDone)
      BY <1>5 DEF UdWaits, UdDone
    <3>4. UdQueue' BY <1>5, <3>1, <3>2 DEF UdSound, UdQueue
    <3>5. ~UdWaits => ~dev.suspended /\ ~cfg /\ ~UsbDev!Inside /\ ~wire
      BY <1>5, <3>1 DEF UdSound, UdHost
    <3>6. UdHost'
      BY <1>1, <1>5, <3>2, <3>3, <3>5 DEF UdHost, UsbDev!Inside
    <3>7. edpt.claimed =>
            \/ UdWaits \/ UdDone \/ \E c \in Claimers : UdHolds(c)
      BY <3>1, <3>2, <3>5 DEF UdSound, UdFree
    <3> QED BY <1>1, <3>1, <3>3, <3>4, <3>6, <3>7, UdKeeps
  <2> QED BY <2>1, <2>2 DEF UdInv
<1> QED BY <1>1, <1>4, <1>5

LEMMA UdSuspend == ASSUME UdInv, UsbDev!SuspendResume PROVE UdInv'
<1>1. /\ bus /\ dev.connected /\ dev' = [dev EXCEPT !.suspended = ~@]
      /\ UNCHANGED <<bus, cfg, bound, edpt, events, usbd, claimer, live,
                     wire, mishap>>
  BY DEF UsbDev!SuspendResume
<1>2. UdTyped BY DEF UdInv
<1>3. dev \in UdDevs BY <1>2, UdTypes
<1>4. dev' = [connected |-> dev.connected, suspended |-> ~dev.suspended]
  BY <1>1, <1>3 DEF UdDevs
<1>5. dev' \in UdDevs /\ dev'.connected = dev.connected
  BY <1>3, <1>4 DEF UdDevs
<1>6. UdTyped'
  <2>1. usbd \in {UsbDev!Idle} \cup UdAsking \cup UdHalting
    BY <1>2 DEF UdTyped
  <2> QED BY <1>1, <1>2, <1>5, <2>1, UdTypes, UdTypedBy
<1>7. ASSUME ~mishap' PROVE UdSound'
  <2>1. UdSound BY <1>1, <1>7 DEF UdInv
  <2>2. UdQueue' /\ (UdWaits' <=> UdWaits) /\ (UdDone' <=> UdDone)
    BY <1>1, <2>1, UdWaiting DEF UdSound
  <2>3. UdHost'
    BY <1>1, <1>5, <2>1, <2>2 DEF UdSound, UdHost, UsbDev!Inside
  <2>4. edpt.claimed =>
          \/ UdWaits \/ wire \/ UdDone
          \/ usbd.at = "halting" /\ usbd.copy.claimed
          \/ \E c \in Claimers : UdHolds(c)
    BY <2>1 DEF UdSound, UdFree
  <2> QED BY <1>1, <2>1, <2>2, <2>3, <2>4, UdKeeps
<1> QED BY <1>6, <1>7 DEF UdInv

LEMMA UdSetup == ASSUME UdInv, UsbDev!Setup PROVE UdInv'
<1> USE UdKinds
<1>1. PICK r \in UsbDev!Ordered :
        /\ bus /\ UsbDev!Send(r)
        /\ UNCHANGED <<bus, dev, cfg, bound, edpt, usbd, claimer, live, wire>>
  BY DEF UsbDev!Setup
<1>2. UdTyped /\ r \in UdEvents BY DEF UdInv, UdEvents
<1>3. /\ events' \in Seq(UdEvents) /\ Len(events') <= Room
      /\ mishap' \in BOOLEAN /\ (mishap => mishap')
  BY <1>1, <1>2, UdSent
<1>4. UdTyped'
  <2>1. usbd \in {UsbDev!Idle} \cup UdAsking \cup UdHalting
    BY <1>2 DEF UdTyped
  <2> QED BY <1>1, <1>2, <1>3, <2>1, UdTypes, UdTypedBy
<1>5. ASSUME ~mishap' PROVE UdSound'
  <2>1. UdSound BY <1>3, <1>5 DEF UdInv
  <2>2. UdQueue' /\ (UdWaits' <=> UdWaits) /\ (UdDone' <=> UdDone)
    BY <1>1, <1>2, <1>5, <2>1, UdSending DEF UdSound
  <2>3. UdHost' BY <1>1, <2>1, <2>2 DEF UdSound, UdHost, UsbDev!Inside
  <2>4. edpt.claimed =>
          \/ UdWaits \/ wire \/ UdDone
          \/ usbd.at = "halting" /\ usbd.copy.claimed
          \/ \E c \in Claimers : UdHolds(c)
    BY <2>1 DEF UdSound, UdFree
  <2> QED BY <1>1, <2>1, <2>2, <2>3, <2>4, UdKeeps
<1> QED BY <1>4, <1>5 DEF UdInv

LEMMA UdComplete == ASSUME UdInv, UsbDev!Complete PROVE UdInv'
<1> USE UdKinds
<1>1. /\ wire /\ wire' = FALSE /\ UsbDev!Send("complete")
      /\ UNCHANGED <<bus, dev, cfg, bound, edpt, usbd, claimer, live>>
  BY DEF UsbDev!Complete
<1>2. UdTyped /\ "complete" \in UdEvents BY DEF UdInv
<1>3. /\ events' \in Seq(UdEvents) /\ Len(events') <= Room
      /\ mishap' \in BOOLEAN /\ (mishap => mishap')
  BY <1>1, <1>2, UdSent
<1>4. UdTyped'
  <2>1. usbd \in {UsbDev!Idle} \cup UdAsking \cup UdHalting
    BY <1>2 DEF UdTyped
  <2>2. wire' \in BOOLEAN BY <1>1
  <2> QED BY <1>1, <1>2, <1>3, <2>1, <2>2, UdTypes, UdTypedBy
<1>5. ASSUME ~mishap' PROVE UdSound'
  <2>1. UdSound BY <1>3, <1>5 DEF UdInv
  <2>2. ~UdDone BY <1>1, <2>1 DEF UdSound, UdOne
  <2>3. UdQueue' /\ (UdWaits' <=> UdWaits) /\ UdDone'
    <3>1. bus' = bus BY <1>1
    <3> QED BY <1>1, <1>2, <1>5, <2>1, <2>2, <3>1, UdSending DEF UdSound
  <2>4. UdHost' BY <1>1, <2>1, <2>3 DEF UdSound, UdHost, UsbDev!Inside
  <2>5. \A c : UdHolds(c)' <=> UdHolds(c) BY <1>1 DEF UdHolds
  <2>6. UdClaims' BY <1>1, <2>1, <2>5 DEF UdSound, UdClaims
  <2>7. UdOne' BY <1>1, <2>1, <2>5 DEF UdSound, UdOne
  <2>8. UdFree' BY <1>1, <2>1, <2>3 DEF UdSound, UdFree
  <2> QED BY <2>3, <2>4, <2>6, <2>7, <2>8 DEF UdSound
<1> QED BY <1>4, <1>5 DEF UdInv

(* The usbd task.  A reset of the stack heals whatever went wrong.         *)
LEMMA UdReset == ASSUME UdInv, UsbDev!Reset PROVE UdInv'
<1> USE UdKinds
<1>1. /\ UsbDev!Handle(UsbDev!Resets)
      /\ dev' = [connected |-> FALSE, suspended |-> FALSE]
      /\ cfg' = FALSE /\ bound' = FALSE /\ edpt' = UsbDev!Clear
      /\ mishap' = (UsbDev!Inside \/ wire \/ (mishap /\ events' # <<>>))
      /\ UNCHANGED <<bus, usbd, claimer, live, wire>>
  BY DEF UsbDev!Reset
<1>2. UdTyped BY DEF UdInv
<1>3. /\ usbd.at = "idle" /\ events[1] \in UsbDev!Resets
      /\ events' \in Seq(UdEvents) /\ Len(events') <= Room
  BY <1>1, <1>2, UdTaken
<1>4. /\ UsbDev!Clear \in UsbDev!Flags /\ UsbDev!Clear.claimed = FALSE
      /\ UsbDev!Clear.busy = FALSE /\ UsbDev!Clear.stalled = FALSE
  BY DEF UsbDev!Clear, UsbDev!Flags
<1>5. UdTyped'
  <2>1. usbd \in {UsbDev!Idle} \cup UdAsking \cup UdHalting
    BY <1>2 DEF UdTyped
  <2>2. dev' \in UdDevs BY <1>1 DEF UdDevs
  <2>3. cfg' \in BOOLEAN /\ bound' \in BOOLEAN BY <1>1
  <2>4. mishap' \in BOOLEAN BY <1>1, <1>2, UdTypes DEF UsbDev!Inside
  <2>5. edpt' \in UsbDev!Flags BY <1>1, <1>4
  <2>6. UNCHANGED <<bus, usbd, claimer, live, wire>> BY <1>1
  <2> QED BY <1>2, <1>3, <2>1, <2>2, <2>3, <2>4, <2>5, <2>6, UdTypes,
             UdTypedBy
<1>6. ASSUME ~mishap' PROVE UdSound'
  <2>1. ~UsbDev!Inside /\ ~wire /\ (~mishap \/ events' = <<>>)
    BY <1>1, <1>6
  <2>2. UdQueue' /\ ~UdDone'
    <3>1. CASE ~mishap
      BY <1>1, <1>2, <1>3, <3>1, UdTaking DEF UdInv, UdSound
    <3>2. CASE events' = <<>> BY <3>2 DEF UdQueue, UdDone
    <3> QED BY <2>1, <3>1, <3>2
  <2>3. \A c \in Claimers : claimer[c].at = "out" BY <2>1 DEF UsbDev!Inside
  <2>4. \A c \in Claimers : claimer'[c].at = "out" BY <1>1, <2>3
  <2>5. ~dev'.connected /\ ~dev'.suspended BY <1>1
  <2>6. /\ ~cfg' /\ ~wire' /\ usbd'.at = "idle" /\ edpt' = UsbDev!Clear
    BY <1>1, <1>3, <2>1
  <2>7. UdHost' BY <2>4, <2>5, <2>6 DEF UdHost, UsbDev!Inside
  <2>8. UdClaims' BY <1>4, <2>2, <2>4, <2>6 DEF UdClaims, UdHolds
  <2>9. UdOne' BY <2>4, <2>6 DEF UdOne, UdHolds
  <2>10. UdFree' BY <1>4, <2>6 DEF UdFree
  <2> QED BY <2>2, <2>7, <2>8, <2>9, <2>10 DEF UdSound
<1> QED BY <1>5, <1>6 DEF UdInv

LEMMA UdCompleted == ASSUME UdInv, UsbDev!Completed PROVE UdInv'
<1> USE UdKinds
<1>1. /\ UsbDev!Handle({"complete"})
      /\ edpt' = [edpt EXCEPT !.busy = FALSE, !.claimed = FALSE]
      /\ UNCHANGED <<bus, dev, cfg, bound, usbd, claimer, live, wire, mishap>>
  BY DEF UsbDev!Completed
<1>2. UdTyped BY DEF UdInv
<1>3. /\ usbd.at = "idle" /\ events[1] = "complete"
      /\ events' \in Seq(UdEvents) /\ Len(events') <= Room
  BY <1>1, <1>2, UdTaken
<1>4. /\ edpt' \in UsbDev!Flags /\ edpt'.busy = FALSE
      /\ edpt'.claimed = FALSE /\ edpt'.stalled = edpt.stalled
  <2>1. edpt \in UsbDev!Flags BY <1>2, UdTypes
  <2>2. edpt' = UdFlag(FALSE, edpt.stalled, FALSE) /\ edpt.stalled \in BOOLEAN
    BY <1>1, <2>1, UdStores
  <2> QED BY <2>2, UdFlags
<1>5. UdTyped'
  <2>1. usbd \in {UsbDev!Idle} \cup UdAsking \cup UdHalting
    BY <1>2 DEF UdTyped
  <2>2. edpt' \in UsbDev!Flags BY <1>4
  <2> QED BY <1>1, <1>2, <1>3, <2>1, <2>2, UdTypes, UdTypedBy
<1>6. ASSUME ~mishap' PROVE UdSound'
  <2>1. UdSound BY <1>1, <1>6 DEF UdInv
  <2>2. UdQueue' /\ (UdWaits' <=> UdWaits) /\ UdDone /\ ~UdDone'
    <3>1. bus' = bus BY <1>1
    <3> QED BY <1>1, <1>2, <1>3, <2>1, <3>1, UdTaking DEF UdSound
  <2>3. UdHost' BY <1>1, <2>1, <2>2 DEF UdSound, UdHost, UsbDev!Inside
  <2>4. edpt.claimed /\ ~wire /\ \A c \in Claimers : ~UdHolds(c)
    BY <2>1, <2>2 DEF UdSound, UdClaims, UdOne
  <2>5. \A c \in Claimers : claimer[c].at # "claim"
    BY <2>1, <2>4 DEF UdSound, UdClaims
  <2>6. /\ \A c \in Claimers : ~UdHolds(c)'
        /\ \A c \in Claimers : claimer'[c].at \notin
                              {"claim", "owner", "mark", "release"}
    BY <1>1, <2>4, <2>5 DEF UdHolds
  <2>7. UdClaims' BY <1>1, <2>2, <2>4, <2>6 DEF UdClaims
  <2>8. UdOne' BY <1>1, <2>4, <2>6 DEF UdOne
  <2>9. UdFree' BY <1>4, <2>1, <2>4 DEF UdSound, UdFree
  <2> QED BY <2>2, <2>3, <2>7, <2>8, <2>9 DEF UdSound
<1> QED BY <1>5, <1>6 DEF UdInv

LEMMA UdUsbd ==
  ASSUME UdTyped
  PROVE  /\ usbd \in {UsbDev!Idle} \cup UdAsking \cup UdHalting
         /\ usbd.at \in {"connect", "request", "opened"} =>
              usbd \in UdAsking
         /\ usbd.at = "halting" => usbd \in UdHalting
BY DEF UdTyped, UsbDev!Idle, UdAsking, UdHalting

LEMMA UdRequest == ASSUME UdInv, UsbDev!Request PROVE UdInv'
<1> USE UdKinds
<1>1. /\ UsbDev!Handle(UsbDev!Ordered)
      /\ usbd' = [at |-> "connect", request |-> Head(events), copy |-> dev]
      /\ UNCHANGED <<bus, dev, cfg, bound, edpt, claimer, live, wire, mishap>>
  BY DEF UsbDev!Request
<1>2. UdTyped BY DEF UdInv
<1>3. /\ usbd.at = "idle" /\ events[1] \in UsbDev!Ordered
      /\ events' \in Seq(UdEvents) /\ Len(events') <= Room
  BY <1>1, <1>2, UdTaken
<1>4. Head(events) \in UsbDev!Ordered /\ dev \in UdDevs
  BY <1>1, <1>2, UdTypes DEF UsbDev!Handle
<1>5. usbd' \in UdAsking /\ usbd'.at = "connect"
  BY <1>1, <1>4 DEF UdAsking
<1>6. UdTyped'
  <2>1. usbd' \in {UsbDev!Idle} \cup UdAsking \cup UdHalting BY <1>5
  <2> QED BY <1>1, <1>2, <1>3, <2>1, UdTypes, UdTypedBy
<1>7. ASSUME ~mishap' PROVE UdSound'
  <2>1. UdSound BY <1>1, <1>7 DEF UdInv
  <2>2. /\ UdQueue' /\ (UdWaits' <=> UdWaits) /\ (UdDone' <=> UdDone)
        /\ ~UdWaits => bus
    <3>1. bus' = bus BY <1>1
    <3>2. events[1] # "complete" /\ events[1] \notin UsbDev!Resets
      BY <1>3
    <3> QED BY <1>1, <1>2, <1>3, <2>1, <3>1, <3>2, UdTaking DEF UdSound
  <2>3. UdHost' BY <1>1, <1>5, <2>1, <2>2 DEF UdSound, UdHost, UsbDev!Inside
  <2>4. edpt.claimed =>
          \/ UdWaits \/ wire \/ UdDone
          \/ \E c \in Claimers : UdHolds(c)
    BY <1>3, <2>1 DEF UdSound, UdFree
  <2> QED BY <1>1, <2>1, <2>2, <2>3, <2>4, UdKeeps
<1> QED BY <1>6, <1>7 DEF UdInv

LEMMA UdConnect == ASSUME UdInv, UsbDev!Connect PROVE UdInv'
<1>1. /\ usbd.at = "connect" /\ dev' = [usbd.copy EXCEPT !.connected = TRUE]
      /\ usbd' = [usbd EXCEPT !.at = "request"]
      /\ UNCHANGED <<bus, cfg, bound, edpt, events, claimer, live, wire,
                     mishap>>
  BY DEF UsbDev!Connect
<1>2. UdTyped BY DEF UdInv
<1>3. usbd \in UdAsking BY <1>1, <1>2, UdUsbd
<1>4. usbd' \in UdAsking /\ usbd'.at = "request"
  BY <1>1, <1>3 DEF UdAsking
<1>5. PICK copy \in UdDevs : copy = usbd.copy BY <1>3 DEF UdAsking
<1>6. dev' = [connected |-> TRUE, suspended |-> copy.suspended]
  BY <1>1, <1>5 DEF UdDevs
<1>7. dev' \in UdDevs /\ dev'.connected BY <1>5, <1>6 DEF UdDevs
<1>8. UdTyped'
  <2>1. usbd' \in {UsbDev!Idle} \cup UdAsking \cup UdHalting BY <1>4
  <2>2. dev' \in UdDevs BY <1>7
  <2> QED BY <1>1, <1>2, <2>1, <2>2, UdTypes, UdTypedBy
<1>9. ASSUME ~mishap' PROVE UdSound'
  <2>1. UdSound BY <1>1, <1>9 DEF UdInv
  <2>2. UdQueue' /\ (UdWaits' <=> UdWaits) /\ (UdDone' <=> UdDone)
    BY <1>1, <2>1, UdWaiting DEF UdSound
  <2>3. ~UdWaits => bus BY <1>1, <2>1 DEF UdSound, UdHost
  <2>4. UdHost'
    BY <1>1, <1>4, <1>7, <2>1, <2>2, <2>3 DEF UdSound, UdHost, UsbDev!Inside
  <2>5. edpt.claimed =>
          \/ UdWaits \/ wire \/ UdDone
          \/ \E c \in Claimers : UdHolds(c)
    BY <1>1, <2>1 DEF UdSound, UdFree
  <2> QED BY <1>1, <2>1, <2>2, <2>4, <2>5, UdKeeps
<1> QED BY <1>8, <1>9 DEF UdInv

LEMMA UdIdling == UsbDev!Idle.at = "idle" BY DEF UsbDev!Idle

LEMMA UdOpenDrivers == ASSUME UdInv, UsbDev!OpenDrivers PROVE UdInv'
<1>1. /\ usbd.at = "request" /\ bound' = TRUE /\ live' = bus
      /\ \/ usbd' = UsbDev!Idle
         \/ usbd' = [usbd EXCEPT !.at = "opened"]
      /\ UNCHANGED <<bus, dev, cfg, edpt, events, claimer, wire, mishap>>
  BY DEF UsbDev!OpenDrivers, UsbDev!Asked
<1>2. UdTyped BY DEF UdInv
<1>3. usbd \in UdAsking BY <1>1, <1>2, UdUsbd
<1>4. /\ usbd' \in {UsbDev!Idle} \cup UdAsking
      /\ usbd'.at \in {"idle", "opened"}
  BY <1>1, <1>3, UdIdling DEF UdAsking
<1>5. UdTyped'
  <2>1. usbd' \in {UsbDev!Idle} \cup UdAsking \cup UdHalting BY <1>4
  <2>2. bound' \in BOOLEAN BY <1>1
  <2>3. live' \in BOOLEAN BY <1>1, <1>2, UdTypes
  <2>4. UNCHANGED <<bus, dev, cfg, edpt, events, claimer, wire, mishap>>
    BY <1>1
  <2> QED BY <1>2, <2>1, <2>2, <2>3, <2>4, UdTypes, UdTypedBy
<1>6. ASSUME ~mishap' PROVE UdSound'
  <2>1. UdSound BY <1>1, <1>6 DEF UdInv
  <2>2. UdQueue' /\ (UdWaits' <=> UdWaits) /\ (UdDone' <=> UdDone)
    BY <1>1, <2>1, UdWaiting DEF UdSound
  <2>3. ~UdWaits => bus /\ live' BY <1>1, <2>1 DEF UdSound, UdHost
  <2>4. UdHost'
    BY <1>1, <1>4, <2>1, <2>2, <2>3 DEF UdSound, UdHost, UsbDev!Inside
  <2>5. edpt.claimed =>
          \/ UdWaits \/ wire \/ UdDone
          \/ \E c \in Claimers : UdHolds(c)
    BY <1>1, <2>1 DEF UdSound, UdFree
  <2> QED BY <1>1, <2>1, <2>2, <2>4, <2>5, UdKeeps
<1> QED BY <1>5, <1>6 DEF UdInv

LEMMA UdConfigure == ASSUME UdInv, UsbDev!Configure PROVE UdInv'
<1>1. /\ usbd.at \in {"opened", "request"} /\ usbd' = UsbDev!Idle
      /\ cfg' = (usbd.request = "configure")
      /\ usbd.at = "request" => cfg \/ usbd.request = "unconfigure"
      /\ UNCHANGED <<bus, dev, bound, edpt, events, claimer, live, wire,
                     mishap>>
  BY DEF UsbDev!Configure, UsbDev!Asked
<1>2. UdTyped BY DEF UdInv
<1>3. UdTyped'
  <2>1. usbd' \in {UsbDev!Idle} \cup UdAsking \cup UdHalting BY <1>1
  <2>2. cfg' \in BOOLEAN BY <1>1
  <2>3. UNCHANGED <<bus, dev, bound, edpt, events, claimer, live, wire,
                    mishap>>
    BY <1>1
  <2> QED BY <1>2, <2>1, <2>2, <2>3, UdTypes, UdTypedBy
<1>4. ASSUME ~mishap' PROVE UdSound'
  <2>1. UdSound BY <1>1, <1>4 DEF UdInv
  <2>2. UdQueue' /\ (UdWaits' <=> UdWaits) /\ (UdDone' <=> UdDone)
    BY <1>1, <2>1, UdWaiting DEF UdSound
  <2>3. ~UdWaits => bus BY <1>1, <2>1 DEF UdSound, UdHost
  <2>4. cfg' => usbd.at = "opened" \/ cfg BY <1>1
  <2>5. usbd'.at = "idle" BY <1>1, UdIdling
  <2>6. UdHost'
    BY <1>1, <2>1, <2>2, <2>3, <2>4, <2>5
    DEF UdSound, UdHost, UsbDev!Inside
  <2>7. edpt.claimed =>
          \/ UdWaits \/ wire \/ UdDone
          \/ \E c \in Claimers : UdHolds(c)
    BY <1>1, <2>1 DEF UdSound, UdFree
  <2> QED BY <1>1, <2>1, <2>2, <2>6, <2>7, UdKeeps
<1> QED BY <1>3, <1>4 DEF UdInv

LEMMA UdHalt == ASSUME UdInv, UsbDev!Halt PROVE UdInv'
<1>1. /\ usbd.at = "request" /\ wire' \in {wire, FALSE}
      /\ usbd' = [at |-> "halting", copy |-> edpt]
      /\ UNCHANGED <<bus, dev, cfg, bound, edpt, events, claimer, live,
                     mishap>>
  BY DEF UsbDev!Halt, UsbDev!Asked
<1>2. UdTyped BY DEF UdInv
<1>3. /\ usbd' \in UdHalting /\ usbd'.at = "halting"
      /\ usbd'.copy = edpt
  BY <1>1, <1>2, UdTypes DEF UdHalting
<1>4. UdTyped'
  <2>1. usbd' \in {UsbDev!Idle} \cup UdAsking \cup UdHalting BY <1>3
  <2>2. wire' \in BOOLEAN BY <1>1, <1>2, UdTypes
  <2>3. UNCHANGED <<bus, dev, cfg, bound, edpt, events, claimer, live,
                    mishap>>
    BY <1>1
  <2> QED BY <1>2, <2>1, <2>2, <2>3, UdTypes, UdTypedBy
<1>5. ASSUME ~mishap' PROVE UdSound'
  <2>1. UdSound BY <1>1, <1>5 DEF UdInv
  <2>2. UdQueue' /\ (UdWaits' <=> UdWaits) /\ (UdDone' <=> UdDone)
    BY <1>1, <2>1, UdWaiting DEF UdSound
  <2>3. wire' => wire BY <1>1
  <2>4. ~UdWaits => bus BY <1>1, <2>1 DEF UdSound, UdHost
  <2>5. UdHost'
    BY <1>1, <1>3, <2>1, <2>2, <2>3, <2>4
    DEF UdSound, UdHost, UsbDev!Inside
  <2> QED BY <1>1, <1>3, <2>1, <2>2, <2>3, <2>5, UdKeeps
<1> QED BY <1>4, <1>5 DEF UdInv

LEMMA UdHalted == ASSUME UdInv, UsbDev!Halted PROVE UdInv'
<1>1. /\ usbd.at = "halting" /\ usbd' = UsbDev!Idle
      /\ edpt' = [usbd.copy EXCEPT !.stalled = TRUE, !.busy = TRUE]
      /\ mishap' = (mishap \/ edpt # usbd.copy \/ edpt.claimed
                    \/ UsbDev!Storing)
      /\ UNCHANGED <<bus, dev, cfg, bound, events, claimer, live, wire>>
  BY DEF UsbDev!Halted
<1>2. UdTyped BY DEF UdInv
<1>3. PICK copy \in UsbDev!Flags : copy = usbd.copy
  BY <1>1, <1>2, UdUsbd DEF UdHalting
<1>4. /\ edpt' \in UsbDev!Flags /\ edpt'.busy = TRUE
      /\ edpt'.stalled = TRUE /\ edpt'.claimed = copy.claimed
  <2>1. edpt' = UdFlag(TRUE, TRUE, copy.claimed) /\ copy.claimed \in BOOLEAN
    BY <1>1, <1>3, UdStores
  <2> QED BY <2>1, UdFlags
<1>5. UdTyped'
  <2>1. usbd' \in {UsbDev!Idle} \cup UdAsking \cup UdHalting BY <1>1
  <2>2. edpt' \in UsbDev!Flags BY <1>4
  <2>3. mishap' \in BOOLEAN
    <3>1. edpt.claimed \in BOOLEAN BY <1>2, UdTypes DEF UsbDev!Flags
    <3> QED BY <1>1, <1>2, <3>1, UdTypes DEF UsbDev!Storing
  <2>4. UNCHANGED <<bus, dev, cfg, bound, events, claimer, live, wire>>
    BY <1>1
  <2> QED BY <1>2, <2>1, <2>2, <2>3, <2>4, UdTypes, UdTypedBy
<1>6. ASSUME ~mishap' PROVE UdSound'
  <2>1. /\ UdSound /\ edpt = copy /\ ~edpt.claimed /\ ~UsbDev!Storing
    BY <1>1, <1>3, <1>6 DEF UdInv
  <2>2. UdQueue' /\ (UdWaits' <=> UdWaits) /\ (UdDone' <=> UdDone)
    BY <1>1, <2>1, UdWaiting DEF UdSound
  <2>3. usbd'.at = "idle" BY <1>1, UdIdling
  <2>4. UdHost'
    BY <1>1, <2>1, <2>2, <2>3 DEF UdSound, UdHost, UsbDev!Inside
  <2>5. ~wire /\ ~UdDone /\ \A c \in Claimers : ~UdHolds(c)
    BY <2>1 DEF UdSound, UdClaims
  <2>6. \A c \in Claimers : claimer[c].at # "claim"
    BY <2>1 DEF UsbDev!Storing
  <2>7. /\ \A c \in Claimers : ~UdHolds(c)'
        /\ \A c \in Claimers : claimer'[c].at \notin
                              {"claim", "owner", "mark", "release"}
    BY <1>1, <2>5, <2>6 DEF UdHolds
  <2>8. UdClaims' BY <1>1, <2>2, <2>5, <2>7 DEF UdClaims
  <2>9. UdOne' BY <1>1, <2>5, <2>7 DEF UdOne
  <2>10. UdFree' BY <1>4, <2>1 DEF UdFree
  <2> QED BY <2>2, <2>4, <2>8, <2>9, <2>10 DEF UdSound
<1> QED BY <1>5, <1>6 DEF UdInv

LEMMA UdUnhalt == ASSUME UdInv, UsbDev!Unhalt PROVE UdInv'
<1>1. /\ usbd.at = "request" /\ usbd' = UsbDev!Idle
      /\ edpt' = [edpt EXCEPT !.stalled = FALSE, !.busy = FALSE]
      /\ mishap' = (mishap \/ (edpt' # edpt /\ UsbDev!Storing))
      /\ UNCHANGED <<bus, dev, cfg, bound, events, claimer, live, wire>>
  BY DEF UsbDev!Unhalt, UsbDev!Asked
<1>2. UdTyped BY DEF UdInv
<1>3. edpt \in UsbDev!Flags BY <1>2, UdTypes
<1>4. /\ edpt' = UdFlag(FALSE, FALSE, edpt.claimed)
      /\ edpt' \in UsbDev!Flags /\ edpt'.busy = FALSE
      /\ edpt'.stalled = FALSE /\ edpt'.claimed = edpt.claimed
  <2>1. /\ edpt' = UdFlag(FALSE, FALSE, edpt.claimed)
        /\ edpt.claimed \in BOOLEAN
    BY <1>1, <1>3, UdStores
  <2> QED BY <2>1, UdFlags
<1>5. UdTyped'
  <2>1. usbd' \in {UsbDev!Idle} \cup UdAsking \cup UdHalting BY <1>1
  <2>2. edpt' \in UsbDev!Flags BY <1>4
  <2>3. mishap' \in BOOLEAN BY <1>1, <1>2, UdTypes DEF UsbDev!Storing
  <2>4. UNCHANGED <<bus, dev, cfg, bound, events, claimer, live, wire>>
    BY <1>1
  <2> QED BY <1>2, <2>1, <2>2, <2>3, <2>4, UdTypes, UdTypedBy
<1>6. ASSUME ~mishap' PROVE UdSound'
  <2>1. UdSound /\ (edpt' = edpt \/ ~UsbDev!Storing) BY <1>1, <1>6 DEF UdInv
  <2>2. UdQueue' /\ (UdWaits' <=> UdWaits) /\ (UdDone' <=> UdDone)
    BY <1>1, <2>1, UdWaiting DEF UdSound
  <2>3. usbd'.at = "idle" BY <1>1, UdIdling
  <2>4. ~UdWaits => bus BY <1>1, <2>1 DEF UdSound, UdHost
  <2>5. UdHost'
    BY <1>1, <2>1, <2>2, <2>3, <2>4 DEF UdSound, UdHost, UsbDev!Inside
  <2>6. \A c : UdHolds(c)' <=> UdHolds(c) BY <1>1 DEF UdHolds
  <2>7. \A c \in Claimers :
          claimer[c].at \in {"claim", "mark", "release"} => edpt' = edpt
    BY <2>1 DEF UsbDev!Storing
  <2>8. UdClaims'
    <3>1. ASSUME NEW c \in Claimers, claimer'[c].at = "claim"
          PROVE  edpt' = claimer'[c].copy /\ ~edpt'.busy /\ ~edpt'.claimed
      BY <1>1, <2>1, <2>7, <3>1 DEF UdSound, UdClaims
    <3>2. ASSUME NEW c \in Claimers, claimer'[c].at \in {"mark", "release"}
          PROVE  claimer'[c].copy = edpt'
      BY <1>1, <2>1, <2>7, <3>2 DEF UdSound, UdClaims
    <3>3. /\ \A c \in Claimers : UdHolds(c)' => edpt'.claimed
          /\ wire' \/ UdDone' => edpt'.claimed
      BY <1>1, <1>4, <2>1, <2>2, <2>6 DEF UdSound, UdClaims
    <3> QED BY <1>4, <3>1, <3>2, <3>3 DEF UdClaims
  <2>9. UdOne' BY <1>1, <2>1, <2>2, <2>6 DEF UdSound, UdOne
  <2>10. UdFree'
    <3>1. edpt.claimed => \/ UdWaits \/ wire \/ UdDone
                          \/ \E c \in Claimers : UdHolds(c)
      BY <1>1, <2>1 DEF UdSound, UdFree
    <3> QED BY <1>1, <1>4, <2>2, <2>6, <3>1 DEF UdFree
  <2> QED BY <2>2, <2>5, <2>8, <2>9, <2>10 DEF UdSound
<1> QED BY <1>5, <1>6 DEF UdInv

-----------------------------------------------------------------------------
(* One claimer moves.                                                      *)
UdBeside(c) == \A d \in Claimers : d # c => claimer'[d] = claimer[d]

UdMove(c, p, f) ==
  /\ claimer' \in [Claimers -> UdClaimers] /\ UdBeside(c)
  /\ claimer'[c].at = p /\ claimer'[c].copy = f

UdElse == UNCHANGED <<bus, dev, cfg, bound, events, usbd, live, mishap>>

LEMMA UdTo ==
  ASSUME UdTyped, NEW c \in Claimers, NEW p \in UsbDev!Places
  PROVE  /\ UsbDev!Clear \in UsbDev!Flags /\ edpt \in UsbDev!Flags
         /\ UsbDev!To(c, p) => UdMove(c, p, UsbDev!Clear)
         /\ UsbDev!Load(c, p) => UdMove(c, p, edpt)
<1>1. UsbDev!Clear \in UsbDev!Flags BY DEF UsbDev!Clear, UsbDev!Flags
<1>2. edpt \in UsbDev!Flags /\ claimer \in [Claimers -> UdClaimers]
  BY UdTypes
<1>3. ASSUME NEW f \in UsbDev!Flags,
             claimer' = [claimer EXCEPT ![c] = [at |-> p, copy |-> f]]
      PROVE  UdMove(c, p, f)
  <2>1. [at |-> p, copy |-> f] \in UdClaimers BY DEF UdClaimers
  <2>2. PICK r \in UdClaimers : r = [at |-> p, copy |-> f] BY <2>1
  <2>3. claimer' = [claimer EXCEPT ![c] = r] BY <1>3, <2>2
  <2>4. claimer'[c] = r /\ claimer' \in [Claimers -> UdClaimers]
        /\ UdBeside(c)
    BY <1>2, <2>3 DEF UdBeside
  <2>5. r.at = p /\ r.copy = f BY <2>2
  <2> QED BY <2>4, <2>5 DEF UdMove
<1> QED BY <1>1, <1>2, <1>3 DEF UsbDev!To, UsbDev!Load

LEMMA UdMoveTyped ==
  ASSUME UdTyped, NEW c \in Claimers, NEW p, NEW f, UdMove(c, p, f), UdElse,
         edpt' \in UsbDev!Flags, wire' \in BOOLEAN
  PROVE  UdTyped'
<1>1. usbd \in {UsbDev!Idle} \cup UdAsking \cup UdHalting BY DEF UdTyped
<1> QED BY <1>1, UdTypes, UdTypedBy DEF UdElse, UdMove

LEMMA UdMoveHost ==
  ASSUME UdTyped, UdSound, NEW c \in Claimers, UdBeside(c), UdElse,
         claimer[c].at # "out" \/ cfg,
         wire' => wire \/ claimer[c].at # "out"
  PROVE  /\ UdQueue' /\ UdHost'
         /\ (UdWaits' <=> UdWaits) /\ (UdDone' <=> UdDone)
         /\ \A d \in Claimers : d # c => (UdHolds(d)' <=> UdHolds(d))
<1>1. UdQueue' /\ (UdWaits' <=> UdWaits) /\ (UdDone' <=> UdDone)
  BY UdWaiting DEF UdSound, UdElse
<1>2. UsbDev!Inside' => UsbDev!Inside \/ cfg
  BY DEF UsbDev!Inside, UdBeside
<1>3. claimer[c].at # "out" => UsbDev!Inside BY DEF UsbDev!Inside
<1>4. UdHost' BY <1>1, <1>2, <1>3 DEF UdSound, UdHost, UdElse
<1>5. \A d \in Claimers : d # c => (UdHolds(d)' <=> UdHolds(d))
  BY DEF UdHolds, UdBeside
<1> QED BY <1>1, <1>4, <1>5

LEMMA UdReadyRefused ==
  ASSUME UdInv, NEW c \in Claimers, UdElse,
         UsbDev!Ready(c) \/ UsbDev!Refused(c)
  PROVE  UdInv'
<1>1. UdTyped /\ {"ready", "out"} \subseteq UsbDev!Places
  BY DEF UdInv, UsbDev!Places
<1>2. /\ claimer[c].at \in {"out", "ready"}
      /\ claimer[c].at # "out" \/ cfg
      /\ UsbDev!To(c, "ready") \/ UsbDev!To(c, "out")
      /\ UNCHANGED <<edpt, wire>>
  BY DEF UsbDev!Ready, UsbDev!Refused, UsbDev!At
<1>3. PICK p \in {"ready", "out"} : UdMove(c, p, UsbDev!Clear)
  BY <1>1, <1>2, UdTo
<1>4. UdTyped' BY <1>1, <1>2, <1>3, UdMoveTyped, UdTypes
<1>5. ASSUME ~mishap' PROVE UdSound'
  <2>1. UdSound BY <1>5 DEF UdInv, UdElse
  <2>2. UdBeside(c) /\ claimer'[c].at \in {"out", "ready"}
    BY <1>3 DEF UdMove
  <2>3. /\ UdQueue' /\ UdHost'
        /\ (UdWaits' <=> UdWaits) /\ (UdDone' <=> UdDone)
        /\ \A d \in Claimers : d # c => (UdHolds(d)' <=> UdHolds(d))
    BY <1>1, <1>2, <2>1, <2>2, UdMoveHost
  <2>4. ~UdHolds(c) /\ ~UdHolds(c)' BY <1>2, <2>2 DEF UdHolds
  <2>5. UdClaims'
    BY <1>2, <2>1, <2>2, <2>3, <2>4 DEF UdSound, UdClaims, UdBeside
  <2>6. UdOne'
    BY <1>2, <2>1, <2>2, <2>3, <2>4 DEF UdSound, UdOne, UdBeside
  <2>7. UdFree' BY <1>2, <2>1, <2>3, <2>4 DEF UdSound, UdFree, UdElse
  <2> QED BY <2>3, <2>5, <2>6, <2>7 DEF UdSound
<1> QED BY <1>4, <1>5 DEF UdInv

(* Under the mutex the endpoint is found free ...                          *)
LEMMA UdClaim ==
  ASSUME UdInv, NEW c \in Claimers, UdElse, UsbDev!Claim(c) PROVE UdInv'
<1>1. UdTyped /\ "claim" \in UsbDev!Places BY DEF UdInv, UsbDev!Places
<1>2. /\ claimer[c].at = "ready" /\ ~UsbDev!Locked /\ ~edpt.busy
      /\ ~edpt.claimed /\ UsbDev!Load(c, "claim")
      /\ UNCHANGED <<edpt, wire>>
  BY DEF UsbDev!Claim, UsbDev!At
<1>3. UdMove(c, "claim", edpt) BY <1>1, <1>2, UdTo
<1>4. UdTyped' BY <1>1, <1>2, <1>3, UdMoveTyped, UdTypes
<1>5. ASSUME ~mishap' PROVE UdSound'
  <2>1. UdSound BY <1>5 DEF UdInv, UdElse
  <2>2. UdBeside(c) /\ claimer'[c].at = "claim" /\ claimer'[c].copy = edpt
    BY <1>3 DEF UdMove
  <2>3. /\ UdQueue' /\ UdHost'
        /\ (UdWaits' <=> UdWaits) /\ (UdDone' <=> UdDone)
        /\ \A d \in Claimers : d # c => (UdHolds(d)' <=> UdHolds(d))
    BY <1>1, <1>2, <2>1, <2>2, UdMoveHost
  <2>4. ~UdHolds(c) /\ ~UdHolds(c)' BY <1>2, <2>2 DEF UdHolds
  <2>5. UdClaims'
    BY <1>2, <2>1, <2>2, <2>3, <2>4 DEF UdSound, UdClaims, UdBeside
  <2>6. \A d \in Claimers : claimer[d].at # "claim"
    BY <1>2 DEF UsbDev!Locked
  <2>7. UdOne'
    BY <1>2, <2>1, <2>2, <2>3, <2>4, <2>6 DEF UdSound, UdOne, UdBeside
  <2>8. UdFree' BY <1>2, <2>1, <2>3, <2>4 DEF UdSound, UdFree, UdElse
  <2> QED BY <2>3, <2>5, <2>7, <2>8 DEF UdSound
<1> QED BY <1>4, <1>5 DEF UdInv

(* ... and taken: nobody else has it, and nobody else is about to.         *)
LEMMA UdStoreClaim ==
  ASSUME UdInv, NEW c \in Claimers, UdElse, wire' = wire,
         claimer[c].at = "claim", UsbDev!To(c, "owner"),
         edpt' = [claimer[c].copy EXCEPT !.claimed = TRUE]
  PROVE  UdInv'
<1>1. UdTyped /\ "owner" \in UsbDev!Places BY DEF UdInv, UsbDev!Places
<1>2. PICK copy \in UsbDev!Flags : copy = claimer[c].copy
  BY <1>1, UdTypes DEF UdClaimers
<1>3. /\ edpt' \in UsbDev!Flags /\ edpt'.busy = copy.busy
      /\ edpt'.stalled = copy.stalled /\ edpt'.claimed = TRUE
  <2>1. claimer[c].copy \in UsbDev!Flags BY <1>2
  <2> QED BY <1>2, <2>1, UdChanges
<1>4. UdMove(c, "owner", UsbDev!Clear) BY <1>1, UdTo
<1>5. UdTyped' BY <1>1, <1>3, <1>4, UdMoveTyped, UdTypes
<1>6. ASSUME ~mishap' PROVE UdSound'
  <2>1. UdSound BY <1>6 DEF UdInv, UdElse
  <2>2. UdBeside(c) /\ claimer'[c].at = "owner" BY <1>4 DEF UdMove
  <2>3. /\ UdQueue' /\ UdHost'
        /\ (UdWaits' <=> UdWaits) /\ (UdDone' <=> UdDone)
        /\ \A d \in Claimers : d # c => (UdHolds(d)' <=> UdHolds(d))
    BY <1>1, <2>1, <2>2, UdMoveHost
  <2>4. /\ edpt = copy /\ ~edpt.busy /\ ~edpt.claimed /\ ~edpt.stalled
    BY <1>2, <2>1 DEF UdSound, UdClaims, UdFree
  <2>5. /\ ~wire /\ ~UdDone /\ \A d \in Claimers : ~UdHolds(d)
    BY <2>1, <2>4 DEF UdSound, UdClaims
  <2>6. \A d \in Claimers : d # c => claimer[d].at # "claim"
    BY <2>1 DEF UdSound, UdOne
  <2>7. \A d \in Claimers : /\ d # c => ~UdHolds(d)'
                            /\ claimer'[d].at # "claim"
    BY <2>2, <2>3, <2>5, <2>6 DEF UdBeside
  <2>8. \A d \in Claimers : claimer'[d].at \in {"mark", "release"} => FALSE
    BY <2>2, <2>7 DEF UdHolds
  <2>9. UdClaims'
    BY <1>3, <2>4, <2>7, <2>8 DEF UdClaims
  <2>10. UdOne' BY <2>3, <2>5, <2>7 DEF UdOne
  <2>11. UdFree'
    <3>1. UdHolds(c)' BY <2>2 DEF UdHolds
    <3> QED BY <1>3, <2>4, <3>1 DEF UdFree
  <2> QED BY <2>3, <2>9, <2>10, <2>11 DEF UdSound
<1> QED BY <1>5, <1>6 DEF UdInv

(* Whoever holds the endpoint is alone with it.                            *)
LEMMA UdAlone ==
  ASSUME UdSound, NEW c \in Claimers, UdHolds(c)
  PROVE  /\ edpt.claimed /\ ~edpt.stalled /\ ~wire /\ ~UdDone
         /\ \A d \in Claimers : claimer[d].at # "claim"
         /\ \A d \in Claimers : d # c => ~UdHolds(d)
BY DEF UdSound, UdClaims, UdOne, UdFree

LEMMA UdLeaves ==
  ASSUME UdSound, NEW c \in Claimers, UdHolds(c), UdBeside(c),
         ~UdHolds(c)', claimer'[c].at # "claim", UdDone' <=> UdDone,
         \A d \in Claimers : d # c => (UdHolds(d)' <=> UdHolds(d)),
         wire' => edpt'.claimed
  PROVE  /\ UdClaims' /\ UdOne'
         /\ \A d \in Claimers : ~UdHolds(d)'
<1>1. /\ \A d \in Claimers : ~UdHolds(d)'
      /\ \A d \in Claimers : claimer'[d].at # "claim"
      /\ ~UdDone'
  BY UdAlone DEF UdBeside
<1>2. \A d \in Claimers :
        claimer'[d].at \notin {"owner", "mark", "release"}
  BY <1>1 DEF UdHolds
<1>3. UdClaims' BY <1>1, <1>2 DEF UdClaims
<1>4. UdOne' BY <1>1 DEF UdOne
<1> QED BY <1>1, <1>3, <1>4

LEMMA UdStoreRelease ==
  ASSUME UdInv, NEW c \in Claimers, UdElse, wire' = wire,
         claimer[c].at = "release", UsbDev!To(c, "out"),
         edpt' = [claimer[c].copy EXCEPT !.claimed = FALSE]
  PROVE  UdInv'
<1>1. UdTyped /\ "out" \in UsbDev!Places BY DEF UdInv, UsbDev!Places
<1>2. PICK copy \in UsbDev!Flags : copy = claimer[c].copy
  BY <1>1, UdTypes DEF UdClaimers
<1>3. /\ edpt' \in UsbDev!Flags /\ edpt'.busy = copy.busy
      /\ edpt'.stalled = copy.stalled /\ edpt'.claimed = FALSE
  <2>1. claimer[c].copy \in UsbDev!Flags BY <1>2
  <2> QED BY <1>2, <2>1, UdChanges
<1>4. UdMove(c, "out", UsbDev!Clear) BY <1>1, UdTo
<1>5. UdTyped' BY <1>1, <1>3, <1>4, UdMoveTyped, UdTypes
<1>6. ASSUME ~mishap' PROVE UdSound'
  <2>1. UdSound BY <1>6 DEF UdInv, UdElse
  <2>2. UdBeside(c) /\ claimer'[c].at = "out" BY <1>4 DEF UdMove
  <2>3. /\ UdQueue' /\ UdHost' /\ (UdDone' <=> UdDone)
        /\ \A d \in Claimers : d # c => (UdHolds(d)' <=> UdHolds(d))
    BY <1>1, <2>1, <2>2, UdMoveHost
  <2>4. UdHolds(c) /\ ~UdHolds(c)' BY <2>2 DEF UdHolds
  <2>5. ~edpt.stalled /\ ~wire BY <2>1, <2>4, UdAlone
  <2>6. UdClaims' /\ UdOne' BY <2>1, <2>2, <2>3, <2>4, <2>5, UdLeaves
  <2>7. copy = edpt /\ ~edpt.busy BY <1>2, <2>1 DEF UdSound, UdClaims
  <2>8. UdFree' BY <1>3, <2>5, <2>7 DEF UdFree
  <2> QED BY <2>3, <2>6, <2>8 DEF UdSound
<1> QED BY <1>5, <1>6 DEF UdInv

(* The owner goes on: what stays true of it.                               *)
LEMMA UdOwnerMoves ==
  ASSUME UdSound, UdQueue', UdHost', NEW c \in Claimers, UdHolds(c),
         UdBeside(c), UdHolds(c)', wire' = wire,
         \A d \in Claimers : d # c => (UdHolds(d)' <=> UdHolds(d)),
         UdDone' <=> UdDone, edpt'.claimed, edpt'.stalled = edpt.stalled,
         claimer'[c].at \in {"owner", "mark", "release"} => ~edpt'.busy,
         claimer'[c].at \in {"mark", "release"} =>
           claimer'[c].copy = edpt'
  PROVE  UdSound'
<1>1. /\ edpt.claimed /\ ~edpt.stalled /\ ~wire /\ ~UdDone
      /\ \A d \in Claimers : claimer[d].at # "claim"
      /\ \A d \in Claimers : d # c => ~UdHolds(d)
  BY UdAlone
<1>2. /\ \A d \in Claimers : d # c => ~UdHolds(d)'
      /\ \A d \in Claimers : d # c => claimer'[d].at # "claim"
      /\ claimer'[c].at # "claim"
  BY <1>1 DEF UdBeside, UdHolds
<1>3. \A d \in Claimers : d # c =>
        claimer'[d].at \notin {"owner", "mark", "release"}
  BY <1>2 DEF UdHolds
<1>4. UdClaims' BY <1>2, <1>3 DEF UdClaims
<1>5. UdOne' BY <1>1, <1>2 DEF UdOne
<1>6. UdFree' BY <1>1 DEF UdFree
<1> QED BY <1>4, <1>5, <1>6 DEF UdSound

LEMMA UdStoreMark ==
  ASSUME UdInv, NEW c \in Claimers, UdElse, wire' = wire,
         claimer[c].at = "mark", UsbDev!To(c, "start"),
         edpt' = [claimer[c].copy EXCEPT !.busy = TRUE]
  PROVE  UdInv'
<1>1. UdTyped /\ "start" \in UsbDev!Places BY DEF UdInv, UsbDev!Places
<1>2. PICK copy \in UsbDev!Flags : copy = claimer[c].copy
  BY <1>1, UdTypes DEF UdClaimers
<1>3. /\ edpt' \in UsbDev!Flags
      /\ edpt'.stalled = copy.stalled /\ edpt'.claimed = copy.claimed
  <2>1. claimer[c].copy \in UsbDev!Flags BY <1>2
  <2> QED BY <1>2, <2>1, UdChanges
<1>4. UdMove(c, "start", UsbDev!Clear) BY <1>1, UdTo
<1>5. UdTyped' BY <1>1, <1>3, <1>4, UdMoveTyped, UdTypes
<1>6. ASSUME ~mishap' PROVE UdSound'
  <2>1. UdSound BY <1>6 DEF UdInv, UdElse
  <2>2. UdBeside(c) /\ claimer'[c].at = "start" BY <1>4 DEF UdMove
  <2>3. /\ UdQueue' /\ UdHost' /\ (UdDone' <=> UdDone)
        /\ \A d \in Claimers : d # c => (UdHolds(d)' <=> UdHolds(d))
    BY <1>1, <2>1, <2>2, UdMoveHost
  <2>4. UdHolds(c) /\ UdHolds(c)' BY <2>2 DEF UdHolds
  <2>5. copy = edpt BY <1>2, <2>1 DEF UdSound, UdClaims
  <2>6. edpt'.claimed BY <1>3, <2>1, <2>4, <2>5, UdAlone
  <2> QED BY <1>3, <2>1, <2>2, <2>3, <2>4, <2>5, <2>6, UdOwnerMoves
<1> QED BY <1>5, <1>6 DEF UdInv

LEMMA UdStore ==
  ASSUME UdInv, NEW c \in Claimers, UdElse, UsbDev!Store(c) PROVE UdInv'
<1>1. /\ claimer[c].at \in {"claim", "release", "mark"} /\ wire' = wire
  BY DEF UsbDev!Store
<1>2. CASE claimer[c].at = "claim"
  BY <1>1, <1>2, UdStoreClaim DEF UsbDev!Store, UsbDev!At
<1>3. CASE claimer[c].at = "release"
  BY <1>1, <1>3, UdStoreRelease DEF UsbDev!Store, UsbDev!At
<1>4. CASE claimer[c].at = "mark"
  BY <1>1, <1>4, UdStoreMark DEF UsbDev!Store, UsbDev!At
<1> QED BY <1>1, <1>2, <1>3, <1>4

LEMMA UdReleaseMark ==
  ASSUME UdInv, NEW c \in Claimers, UdElse,
         UsbDev!Release(c) \/ UsbDev!Mark(c)
  PROVE  UdInv'
<1>1. UdTyped /\ {"release", "mark", "out"} \subseteq UsbDev!Places
  BY DEF UdInv, UsbDev!Places
<1>2. /\ claimer[c].at = "owner" /\ UNCHANGED <<edpt, wire>>
      /\ \/ UsbDev!Load(c, "release") \/ UsbDev!Load(c, "mark")
         \/ UsbDev!To(c, "out") /\ (edpt.busy \/ ~edpt.claimed)
  BY DEF UsbDev!Release, UsbDev!Mark, UsbDev!At
<1>3. \/ \E p \in {"release", "mark"} : UdMove(c, p, edpt)
      \/ UdMove(c, "out", UsbDev!Clear) /\ (edpt.busy \/ ~edpt.claimed)
  BY <1>1, <1>2, UdTo
<1>4. UdTyped' BY <1>1, <1>2, <1>3, UdMoveTyped, UdTypes
<1>5. ASSUME ~mishap' PROVE UdSound'
  <2>1. UdSound BY <1>5 DEF UdInv, UdElse
  <2>2. UdHolds(c) /\ ~edpt.busy /\ edpt.claimed
    BY <1>2, <2>1 DEF UdSound, UdClaims, UdHolds
  <2>3. PICK p \in {"release", "mark"} : UdMove(c, p, edpt)
    BY <1>3, <2>2
  <2>4. /\ UdBeside(c) /\ claimer'[c].at \in {"release", "mark"}
        /\ claimer'[c].copy = edpt
    BY <2>3 DEF UdMove
  <2>5. /\ UdQueue' /\ UdHost' /\ (UdDone' <=> UdDone)
        /\ \A d \in Claimers : d # c => (UdHolds(d)' <=> UdHolds(d))
    BY <1>1, <1>2, <2>1, <2>4, UdMoveHost
  <2>6. UdHolds(c)' BY <2>4 DEF UdHolds
  <2> QED BY <1>2, <2>1, <2>2, <2>4, <2>5, <2>6, UdOwnerMoves
<1> QED BY <1>4, <1>5 DEF UdInv

(* The transfer starts on an endpoint that is open, or a reset waits.      *)
LEMMA UdStarts ==
  ASSUME UdInv, NEW c \in Claimers, UdElse, UsbDev!Start(c) PROVE UdInv'
<1>1. UdTyped /\ "out" \in UsbDev!Places BY DEF UdInv, UsbDev!Places
<1>2. /\ claimer[c].at = "start" /\ wire' = live /\ edpt' = edpt
      /\ UsbDev!To(c, "out")
  BY DEF UsbDev!Start, UsbDev!At
<1>3. UdMove(c, "out", UsbDev!Clear) BY <1>1, <1>2, UdTo
<1>4. UdTyped' BY <1>1, <1>2, <1>3, UdMoveTyped, UdTypes
<1>5. ASSUME ~mishap' PROVE UdSound'
  <2>1. UdSound BY <1>5 DEF UdInv, UdElse
  <2>2. UdBeside(c) /\ claimer'[c].at = "out" BY <1>3 DEF UdMove
  <2>3. /\ UdQueue' /\ UdHost'
        /\ (UdWaits' <=> UdWaits) /\ (UdDone' <=> UdDone)
        /\ \A d \in Claimers : d # c => (UdHolds(d)' <=> UdHolds(d))
    BY <1>1, <1>2, <2>1, <2>2, UdMoveHost
  <2>4. UdHolds(c) /\ ~UdHolds(c)' BY <1>2, <2>2 DEF UdHolds
  <2>5. edpt.claimed /\ ~edpt.stalled BY <2>1, <2>4, UdAlone
  <2>6. UdClaims' /\ UdOne'
    BY <1>2, <2>1, <2>2, <2>3, <2>4, <2>5, UdLeaves
  <2>7. ~UdWaits => live
    BY <1>2, <2>1 DEF UdSound, UdHost, UsbDev!Inside
  <2>8. UdFree' BY <1>2, <2>3, <2>5, <2>7 DEF UdFree
  <2> QED BY <2>3, <2>6, <2>8 DEF UdSound
<1> QED BY <1>4, <1>5 DEF UdInv

LEMMA UdStartFails ==
  ASSUME UdInv, NEW c \in Claimers, UdElse, UsbDev!StartFails(c)
  PROVE  UdInv'
<1>1. UdTyped /\ "out" \in UsbDev!Places BY DEF UdInv, UsbDev!Places
<1>2. /\ claimer[c].at = "start" /\ wire' = wire
      /\ edpt' = [edpt EXCEPT !.busy = FALSE, !.claimed = FALSE]
      /\ UsbDev!To(c, "out")
  BY DEF UsbDev!StartFails, UsbDev!At
<1>3. UdMove(c, "out", UsbDev!Clear) BY <1>1, <1>2, UdTo
<1>4. /\ edpt' \in UsbDev!Flags /\ edpt'.busy = FALSE
      /\ edpt'.claimed = FALSE /\ edpt'.stalled = edpt.stalled
  <2>1. edpt \in UsbDev!Flags BY <1>1, UdTypes
  <2>2. edpt' = UdFlag(FALSE, edpt.stalled, FALSE) /\ edpt.stalled \in BOOLEAN
    BY <1>2, <2>1, UdStores
  <2> QED BY <2>2, UdFlags
<1>5. UdTyped' BY <1>1, <1>2, <1>3, <1>4, UdMoveTyped, UdTypes
<1>6. ASSUME ~mishap' PROVE UdSound'
  <2>1. UdSound BY <1>6 DEF UdInv, UdElse
  <2>2. UdBeside(c) /\ claimer'[c].at = "out" BY <1>3 DEF UdMove
  <2>3. /\ UdQueue' /\ UdHost' /\ (UdDone' <=> UdDone)
        /\ \A d \in Claimers : d # c => (UdHolds(d)' <=> UdHolds(d))
    BY <1>1, <1>2, <2>1, <2>2, UdMoveHost
  <2>4. UdHolds(c) /\ ~UdHolds(c)' BY <1>2, <2>2 DEF UdHolds
  <2>5. ~edpt.stalled /\ ~wire BY <2>1, <2>4, UdAlone
  <2>6. UdClaims' /\ UdOne'
    BY <1>2, <2>1, <2>2, <2>3, <2>4, <2>5, UdLeaves
  <2>7. UdFree' BY <1>4, <2>5 DEF UdFree
  <2> QED BY <2>3, <2>6, <2>7 DEF UdSound
<1> QED BY <1>5, <1>6 DEF UdInv

LEMMA UdClaiming ==
  ASSUME UdInv, NEW c \in Claimers, UsbDev!Claiming(c) PROVE UdInv'
<1>1. UdElse
  BY DEF UsbDev!Claiming, UdElse, UsbDev!Ready, UsbDev!Refused,
     UsbDev!Claim, UsbDev!Store, UsbDev!Release, UsbDev!Mark,
     UsbDev!Start, UsbDev!StartFails
<1>2. CASE UsbDev!Ready(c) \/ UsbDev!Refused(c)
  BY <1>1, <1>2, UdReadyRefused
<1>3. CASE UsbDev!Claim(c) BY <1>1, <1>3, UdClaim
<1>4. CASE UsbDev!Store(c) BY <1>1, <1>4, UdStore
<1>5. CASE UsbDev!Release(c) \/ UsbDev!Mark(c)
  BY <1>1, <1>5, UdReleaseMark
<1>6. CASE UsbDev!Start(c) BY <1>1, <1>6, UdStarts
<1>7. CASE UsbDev!StartFails(c) BY <1>1, <1>7, UdStartFails
<1> QED BY <1>2, <1>3, <1>4, <1>5, <1>6, <1>7 DEF UsbDev!Claiming

LEMMA UdIdle == ASSUME UdInv, UNCHANGED usbDev PROVE UdInv'
<1>1. UNCHANGED <<bus, dev, cfg, bound, edpt, events, usbd, claimer, live,
                  wire, mishap>>
  BY DEF usbDev
<1>2. UdTyped'
  <2>1. UdTyped /\ usbd \in {UsbDev!Idle} \cup UdAsking \cup UdHalting
    BY DEF UdInv, UdTyped
  <2> QED BY <1>1, <2>1, UdTypes, UdTypedBy
<1>3. ASSUME UdSound PROVE UdSound'
  <2>1. (UdWaits' <=> UdWaits) /\ (UdDone' <=> UdDone) /\ UdQueue'
    BY <1>1, <1>3, UdWaiting DEF UdSound
  <2>2. \A c : UdHolds(c)' <=> UdHolds(c) BY <1>1 DEF UdHolds
  <2>3. UdHost' BY <1>1, <1>3, <2>1 DEF UdSound, UdHost, UsbDev!Inside
  <2>4. UdClaims' BY <1>1, <1>3, <2>1, <2>2 DEF UdSound, UdClaims
  <2>5. UdOne' BY <1>1, <1>3, <2>1, <2>2 DEF UdSound, UdOne
  <2>6. UdFree' BY <1>1, <1>3, <2>1, <2>2 DEF UdSound, UdFree
  <2> QED BY <2>1, <2>3, <2>4, <2>5, <2>6 DEF UdSound
<1> QED BY <1>1, <1>2, <1>3 DEF UdInv

LEMMA UdNext == ASSUME UdInv, UsbDev!Next PROVE UdInv'
<1>1. CASE UsbDev!Interrupt
  BY <1>1, UdBusReset, UdUnplug, UdSuspend, UdSetup, UdComplete
  DEF UsbDev!Interrupt
<1>2. CASE UsbDev!Task
  BY <1>2, UdReset, UdCompleted, UdRequest, UdConnect, UdOpenDrivers,
     UdConfigure, UdHalt, UdHalted, UdUnhalt
  DEF UsbDev!Task
<1>3. ASSUME NEW c \in Claimers, UsbDev!Claiming(c) PROVE UdInv'
  BY <1>3, UdClaiming
<1> QED BY <1>1, <1>2, <1>3 DEF UsbDev!Next

LEMMA UdInvariant == Spec => []UdInv
<1>1. UdInv /\ [Next]_vars => UdInv' BY UdMoves, UdNext, UdIdle
<1> QED BY UdStart, <1>1, PTL DEF Spec

LEMMA UdOwns == UdInv => DeviceSound
<1> SUFFICES ASSUME UdInv, ~mishap PROVE DeviceSound
  BY DEF DeviceSound, UsbDev!DeviceSound
<1>1. UdTyped /\ UdSound BY DEF UdInv
<1>2. \A S : UsbDev!Cardinality(S) = Cardinality(S)
  BY DEF UsbDev!Cardinality, Cardinality
<1> DEFINE owners == UsbDev!Owners
<1>3. \A c \in Claimers : c \in owners <=> UdHolds(c)
  BY DEF UsbDev!Owners, UdHolds
<1>4. owners \subseteq Claimers BY DEF UsbDev!Owners
<1> HIDE DEF owners
<1>5. Cardinality(owners) + (IF wire THEN 1 ELSE 0) <= 1
  <2>1. CASE owners = {}
    <3>1. Cardinality(owners) = 0 BY <2>1, FS_EmptySet
    <3>2. (IF wire THEN 1 ELSE 0) \in {0, 1} OBVIOUS
    <3> QED BY <3>1, <3>2
  <2>2. CASE owners # {}
    <3>1. PICK c \in owners : TRUE BY <2>2
    <3>2. owners = {c} /\ ~wire
      BY <1>1, <1>3, <1>4, <3>1 DEF UdSound, UdOne
    <3>3. Cardinality(owners) = 1 BY <3>2, FS_Singleton
    <3>4. (IF wire THEN 1 ELSE 0) = 0 BY <3>2
    <3> QED BY <3>3, <3>4
  <2> QED BY <2>1, <2>2
<1>6. ASSUME UsbDev!Quiet
      PROVE  /\ ~edpt.claimed /\ (edpt.busy => edpt.stalled)
             /\ ~bus => ~dev.connected /\ ~dev.suspended /\ ~cfg
  <2>1. /\ usbd.at = "idle" /\ events = <<>> /\ ~wire
        /\ \A c \in Claimers : claimer[c].at = "out"
    BY <1>6, UdIdling DEF UsbDev!Quiet
  <2>2. ~UdWaits /\ ~UdDone BY <2>1 DEF UdWaits, UdDone
  <2>3. \A c \in Claimers : ~UdHolds(c) BY <2>1 DEF UdHolds
  <2> QED BY <1>1, <2>1, <2>2, <2>3 DEF UdSound, UdFree, UdHost
<1> QED BY <1>2, <1>5, <1>6
  DEF DeviceSound, UsbDev!DeviceSound, owners

(* One task at a time owns the endpoint or has a transfer on it, it comes  *)
(* free again, and a device without host is not configured, unless a       *)
(* mishap came after the last reset: usbd.c's claim, release, transfer and *)
(* event loop.                                                             *)
THEOREM DeviceSoundCorrect == Spec => []DeviceSound
BY UdInvariant, UdOwns, PTL

-----------------------------------------------------------------------------
(* Firmware download.  The first so many blocks of the host's file are in  *)
(* the flash, and nothing else.                                            *)
DfuHolds(n) ==
  /\ Len(dfuFlash) = n
  /\ \A i \in 1..n : dfuFlash[i] = <<host.file, i>>
  /\ n > 0 => checked

(* Between two transfers the driver is where the host believes it to be.   *)
DfuProtocol ==
  /\ dfu.ok = (dfu.state # "error")
  /\ control.request = "block" =>
       /\ host.at = "ready" /\ host.sent < DfuBlocks
       /\ dfu.state = "dnSync" /\ dfu.flashing
  /\ control.request = "finish" =>
       /\ host.at = "ready" /\ host.sent = DfuBlocks
       /\ dfu.state = "manifestSync" /\ dfu.flashing
  /\ control.request = "poll" =>
       /\ host.at \in {"waits", "finishes"}
       /\ control.state = Dfu!NextState /\ control.ok = dfu.ok
  /\ host.at = "waits" =>
       /\ host.sent < DfuBlocks /\ dfu.state \in {"dnSync", "error"}
       /\ block = <<host.file, host.sent + 1>>
  /\ host.at \in {"finishes", "done"} => host.sent = DfuBlocks
  /\ host.at = "finishes" => dfu.state \in {"manifestSync", "error"}

(* What was written, by what the host knows and what is left to flash.     *)
DfuReady ==
  host.at = "ready" =>
    DfuHolds(host.sent) /\ (host.sent = 0 => ~checked)

DfuWaits ==
  host.at = "waits" /\ dfu.state = "dnSync" =>
    IF dfu.flashing
    THEN DfuHolds(host.sent) /\ (host.sent = 0 => ~checked)
    ELSE DfuHolds(host.sent + 1)

DfuFinishes ==
  host.at = "finishes" /\ dfu.state = "manifestSync" =>
    IF dfu.flashing THEN DfuHolds(DfuBlocks)
                    ELSE checked /\ bootable = host.file

DfuDone == host.at = "done" => checked /\ bootable = host.file

DfuWritten == ~again => DfuReady /\ DfuWaits /\ DfuFinishes /\ DfuDone

DfuInv == /\ Dfu!TypeOK /\ DfuProtocol
          /\ ~checked => dfuFlash = <<>>
          /\ DfuWritten

LEMMA DfuMoves == ASSUME [Next]_vars PROVE Dfu!Next \/ UNCHANGED dfuDev
BY DEF Next, LedStep, UpdateStep, HistoryStep, LogStep, StartUpStep,
   GatewayStep, UsbLifeStep, FramesStep, CameraStep, UsbDevStep, DfuStep,
   NetStep, AcmStep, Rest, DeviceRest, deviceSide, vars

LEMMA DfuAssumed ==
  /\ DfuBlocks \in Nat /\ DfuBlocks > 0
  /\ NoFile \notin Files
BY ServicesAssumption DEF Dfu!DfuAssumption

DfuHosts == [file : Files, sent : 0..DfuBlocks,
             at : {"ready", "waits", "finishes", "failed", "done"}]
DfuStates == [state : Dfu!States, ok : BOOLEAN, flashing : BOOLEAN]

(* A restart, and with it the start.                                       *)
DfuFresh ==
  /\ control = Dfu!None /\ dfu = Dfu!ResetState /\ opened = FALSE
  /\ block = Dfu!Junk /\ checked = FALSE /\ dfuHandle = FALSE
  /\ dfuFlash = <<>> /\ again = FALSE
  /\ \E f \in Files : host = [file |-> f, sent |-> 0, at |-> "ready"]
  /\ bootable \in Files \cup {NoFile}

LEMMA DfuReset ==
  /\ Dfu!ResetState \in DfuStates
  /\ Dfu!ResetState.state = "idle" /\ Dfu!ResetState.ok = TRUE
  /\ Dfu!ResetState.flashing = FALSE
BY DEF Dfu!ResetState, DfuStates, Dfu!States

LEMMA DfuAfresh == DfuFresh => DfuInv
<1> SUFFICES ASSUME DfuFresh PROVE DfuInv OBVIOUS
<1>1. PICK f \in Files : host = [file |-> f, sent |-> 0, at |-> "ready"]
  BY DEF DfuFresh
<1>2. host \in DfuHosts /\ host.at = "ready" /\ host.sent = 0
  BY <1>1, DfuAssumed DEF DfuHosts
<1>3. control.request = "none" BY DEF DfuFresh, Dfu!None
<1>4. dfu \in DfuStates /\ dfu.state = "idle" /\ dfu.ok = TRUE
  BY DfuReset DEF DfuFresh
<1>5. Dfu!TypeOK
  <2>1. dfuFlash \in Seq(Dfu!AllBlocks) BY DEF DfuFresh
  <2> QED BY <1>2, <1>3, <1>4, <2>1
    DEF DfuFresh, Dfu!TypeOK, DfuHosts, DfuStates
<1>6. DfuProtocol BY <1>2, <1>3, <1>4 DEF DfuProtocol
<1>7. DfuHolds(0) /\ ~checked /\ dfuFlash = <<>> BY DEF DfuFresh, DfuHolds
<1>8. DfuWritten
  BY <1>2, <1>7 DEF DfuWritten, DfuReady, DfuWaits, DfuFinishes, DfuDone
<1> QED BY <1>5, <1>6, <1>7, <1>8 DEF DfuInv

LEMMA DfuStart == ASSUME Init PROVE DfuInv
<1>1. Dfu!Init BY DEF Init
<1>2. PICK f \in Files : host = [file |-> f, sent |-> 0, at |-> "ready"]
  BY <1>1 DEF Dfu!Init
<1> QED BY <1>1, <1>2, DfuAfresh DEF Dfu!Init, DfuFresh

LEMMA DfuRestart == ASSUME DfuInv, Dfu!Restart PROVE DfuInv'
<1>1. bootable' \in Files \cup {NoFile}
  BY DEF Dfu!Restart, DfuInv, Dfu!TypeOK
<1>2. control' = Dfu!None BY DEF Dfu!Restart
<1>4. \E f \in Files : host' = [file |-> f, sent |-> 0, at |-> "ready"]
  BY DEF Dfu!Restart
<1>5. /\ dfu' = Dfu!ResetState /\ opened' = FALSE /\ block' = Dfu!Junk
      /\ checked' = FALSE /\ dfuHandle' = FALSE
      /\ dfuFlash' = <<>> /\ again' = FALSE
  BY DEF Dfu!Restart
<1>3. DfuFresh' BY <1>1, <1>2, <1>4, <1>5 DEF DfuFresh
<1> QED BY <1>3, DfuAfresh, PTL

(* The two records, one field at a time.                                   *)
LEMMA DfuToFlash ==
  ASSUME dfu \in DfuStates, NEW s,
         dfu' = [dfu EXCEPT !.state = s, !.flashing = TRUE]
  PROVE  dfu' = [state |-> s, ok |-> dfu.ok, flashing |-> TRUE]
<1>1. PICK g : g = [dfu EXCEPT !.state = s] OBVIOUS
<1>2. g = [state |-> s, ok |-> dfu.ok, flashing |-> dfu.flashing]
  BY <1>1 DEF DfuStates
<1>3. PICK t : t = TRUE OBVIOUS
<1>4. [g EXCEPT !.flashing = t] = [state |-> s, ok |-> dfu.ok, flashing |-> t]
  BY <1>2
<1>5. dfu' = [g EXCEPT !.flashing = t] BY <1>1, <1>3
<1> QED BY <1>3, <1>4, <1>5

LEMMA DfuHostAt ==
  ASSUME NEW a \in {"ready", "waits", "finishes", "failed", "done"},
         host \in DfuHosts
  PROVE  /\ [host EXCEPT !.at = a] \in DfuHosts
         /\ [host EXCEPT !.at = a].at = a
         /\ [host EXCEPT !.at = a].sent = host.sent
         /\ [host EXCEPT !.at = a].file = host.file
BY DEF DfuHosts

LEMMA DfuHostTold ==
  ASSUME NEW a \in {"ready", "waits", "finishes", "failed", "done"},
         NEW n \in 0..DfuBlocks, host \in DfuHosts,
         host' = [host EXCEPT !.at = a, !.sent = n]
  PROVE  /\ host' \in DfuHosts /\ host'.at = a /\ host'.sent = n
         /\ host'.file = host.file
<1>1. PICK g : g = [host EXCEPT !.at = a] OBVIOUS
<1>2. g = [file |-> host.file, sent |-> host.sent, at |-> a]
  BY <1>1 DEF DfuHosts
<1>3. [g EXCEPT !.sent = n] = [file |-> host.file, sent |-> n, at |-> a]
  BY <1>2
<1>4. host' = [g EXCEPT !.sent = n] BY <1>1
<1> QED BY <1>3, <1>4 DEF DfuHosts

(* A set-up or an end that leaves what was written as it is.               *)
LEMMA DfuControl ==
  ASSUME DfuInv,
         \/ Dfu!SetupBlock \/ Dfu!SetupFinish \/ Dfu!SetupPoll
         \/ Dfu!SetupRenew \/ Dfu!SetupUpload \/ Dfu!SetupDetach \/ Dfu!Cut
         \/ Dfu!EndBlock \/ Dfu!EndFinish \/ Dfu!EndUpload \/ Dfu!BusReset
         \/ Dfu!Open
  PROVE  DfuInv'
<1> USE DEF DfuInv
<1>1. UNCHANGED <<checked, dfuHandle, dfuFlash, bootable, again>>
  BY DEF Dfu!SetupBlock, Dfu!SetupFinish, Dfu!SetupPoll, Dfu!SetupRenew,
     Dfu!SetupUpload, Dfu!SetupDetach, Dfu!Cut, Dfu!EndBlock,
     Dfu!EndFinish, Dfu!EndUpload, Dfu!BusReset, Dfu!Open, Dfu!device
<1>2. host \in DfuHosts /\ dfu \in DfuStates
  BY DEF Dfu!TypeOK, DfuHosts, DfuStates
<1>3. ASSUME host' \in DfuHosts, dfu' \in DfuStates, opened' \in BOOLEAN,
             block' \in Dfu!AllBlocks \cup {Dfu!Junk},
             control'.request \in {"none", "block", "finish", "poll",
                                   "renew", "upload", "detach"},
             DfuProtocol', DfuWritten'
      PROVE  DfuInv'
  BY <1>1, <1>3 DEF Dfu!TypeOK, DfuHosts, DfuStates
<1>4. ASSUME host' = host
      PROVE  DfuReady' = DfuReady /\ DfuDone' = DfuDone
  BY <1>1, <1>4 DEF DfuReady, DfuDone, DfuHolds
<1>5. ASSUME host'.at = "failed" PROVE DfuWritten'
  BY <1>5 DEF DfuWritten, DfuReady, DfuWaits, DfuFinishes, DfuDone
<1>6. ASSUME host' = host, dfu' = dfu PROVE DfuWritten'
  BY <1>1, <1>6
  DEF DfuWritten, DfuReady, DfuWaits, DfuFinishes, DfuDone, DfuHolds
<1>7. ASSUME host' = host, host.at \in {"ready", "failed", "done"}
      PROVE  DfuWritten'
  BY <1>1, <1>4, <1>7 DEF DfuWritten, DfuWaits, DfuFinishes
<1>8. CASE Dfu!Stalls /\ UNCHANGED opened
  <2>1. host' = [host EXCEPT !.at = "failed"] /\ UNCHANGED <<dfu, block>>
        /\ control' = control /\ control.request = "none"
    BY <1>8 DEF Dfu!Stalls, Dfu!None
  <2>2. host' \in DfuHosts /\ host'.at = "failed"
    BY <1>2, <2>1, DfuHostAt
  <2>3. control'.request = "none" BY <2>1
  <2>4. (dfu.ok = (dfu.state # "error"))' BY <2>1 DEF DfuProtocol
  <2>5. DfuProtocol' BY <2>2, <2>3, <2>4 DEF DfuProtocol
  <2> QED BY <1>2, <1>3, <1>5, <1>8, <2>1, <2>2, <2>5
    DEF Dfu!TypeOK
<1>9. CASE Dfu!SetupBlock
  <2>1. CASE Dfu!Accepts
    <3>1. /\ control' = [request |-> "block"] /\ block' = Dfu!Junk
          /\ dfu' = [dfu EXCEPT !.state = "dnSync", !.flashing = TRUE]
          /\ host.at = "ready" /\ host.sent < DfuBlocks
          /\ UNCHANGED <<host, opened>>
          /\ dfu.state \in {"idle", "dnIdle"}
      BY <1>9, <2>1
      DEF Dfu!SetupBlock, Dfu!Begins, Dfu!device, Dfu!Accepts
    <3>5. dfu' = [state |-> "dnSync", ok |-> dfu.ok, flashing |-> TRUE]
      BY <1>2, <3>1, DfuToFlash
    <3>6. dfu' \in DfuStates BY <1>2, <3>5 DEF DfuStates, Dfu!States
    <3>7. dfu.ok = TRUE BY <1>2, <3>1 DEF DfuProtocol
    <3>8. DfuProtocol' BY <3>1, <3>5, <3>7 DEF DfuProtocol
    <3> QED BY <1>2, <1>3, <1>7, <3>1, <3>6, <3>8 DEF Dfu!TypeOK
  <2> QED BY <1>8, <1>9, <2>1 DEF Dfu!SetupBlock, Dfu!device
<1>10. CASE Dfu!SetupFinish
  <2>1. CASE Dfu!Accepts
    <3>1. /\ control' = [request |-> "finish"]
          /\ dfu' = [dfu EXCEPT !.state = "manifestSync",
                                !.flashing = TRUE]
          /\ host.at = "ready" /\ host.sent = DfuBlocks
          /\ UNCHANGED <<host, opened, block>>
          /\ dfu.state \in {"idle", "dnIdle"}
      BY <1>10, <2>1
      DEF Dfu!SetupFinish, Dfu!Begins, Dfu!device, Dfu!Accepts
    <3>5. dfu' = [state |-> "manifestSync", ok |-> dfu.ok,
                  flashing |-> TRUE]
      BY <1>2, <3>1, DfuToFlash
    <3>6. dfu' \in DfuStates BY <1>2, <3>5 DEF DfuStates, Dfu!States
    <3>7. dfu.ok = TRUE BY <1>2, <3>1 DEF DfuProtocol
    <3>8. DfuProtocol' BY <3>1, <3>5, <3>7 DEF DfuProtocol
    <3> QED BY <1>2, <1>3, <1>7, <3>1, <3>6, <3>8 DEF Dfu!TypeOK
  <2> QED BY <1>8, <1>10, <2>1 DEF Dfu!SetupFinish, Dfu!device
<1>11. CASE Dfu!SetupPoll
  <2>1. /\ control' = [request |-> "poll", state |-> Dfu!NextState,
                       ok |-> dfu.ok]
        /\ host.at \in {"waits", "finishes"}
        /\ UNCHANGED <<dfu, block, host, opened>>
    BY <1>11 DEF Dfu!SetupPoll, Dfu!device
  <2>2. /\ control'.request = "poll" /\ control'.state = Dfu!NextState
        /\ control'.ok = dfu.ok
    BY <2>1
  <2>3. Dfu!NextState' = Dfu!NextState BY <2>1 DEF Dfu!NextState
  <2>4. DfuProtocol' BY <2>1, <2>2, <2>3 DEF DfuProtocol
  <2> QED BY <1>2, <1>3, <1>6, <2>1, <2>2, <2>4 DEF Dfu!TypeOK
<1>12. CASE Dfu!SetupRenew
  <2>1. /\ control' = [request |-> "renew"] /\ dfu' = Dfu!ResetState
        /\ host.at \in {"ready", "failed", "done"}
        /\ UNCHANGED <<block, host, opened>>
    BY <1>12 DEF Dfu!SetupRenew, Dfu!Begins, Dfu!device
  <2>2. DfuProtocol' BY <2>1, DfuReset DEF DfuProtocol
  <2> QED BY <1>2, <1>3, <1>7, <2>1, <2>2, DfuReset DEF Dfu!TypeOK
<1>13. CASE Dfu!SetupUpload
  <2>1. CASE opened
    <3>1. /\ control' = [request |-> "upload"] /\ block' = Dfu!Junk
          /\ host.at = "ready" /\ UNCHANGED <<dfu, host, opened>>
      BY <1>13, <2>1 DEF Dfu!SetupUpload, Dfu!Begins, Dfu!device
    <3>2. DfuProtocol' BY <3>1 DEF DfuProtocol
    <3> QED BY <1>2, <1>3, <1>6, <3>1, <3>2 DEF Dfu!TypeOK
  <2> QED BY <1>8, <1>13, <2>1 DEF Dfu!SetupUpload, Dfu!device
<1>14. CASE Dfu!SetupDetach
  <2>1. /\ control' = [request |-> "detach"]
        /\ UNCHANGED <<dfu, block, host, opened>>
    BY <1>14 DEF Dfu!SetupDetach, Dfu!Begins, Dfu!device
  <2>2. DfuProtocol' BY <2>1 DEF DfuProtocol
  <2> QED BY <1>2, <1>3, <1>6, <2>1, <2>2 DEF Dfu!TypeOK
<1>15. CASE Dfu!Cut
  <2>1. control' = Dfu!None /\ UNCHANGED <<dfu, block, opened>>
    BY <1>15 DEF Dfu!Cut, Dfu!device
  <2>2. control'.request = "none" BY <2>1 DEF Dfu!None
  <2>3. CASE host' = host
    <3>1. DfuProtocol' BY <2>1, <2>2, <2>3 DEF DfuProtocol
    <3> QED BY <1>2, <1>3, <1>6, <2>1, <2>2, <2>3, <3>1 DEF Dfu!TypeOK
  <2>4. CASE host' = [host EXCEPT !.at = "failed"]
    <3>1. host' \in DfuHosts /\ host'.at = "failed"
      BY <1>2, <2>4, DfuHostAt
    <3>2. DfuProtocol' BY <2>1, <2>2, <3>1 DEF DfuProtocol
    <3> QED BY <1>2, <1>3, <1>5, <2>1, <2>2, <3>1, <3>2 DEF Dfu!TypeOK
  <2> QED BY <1>15, <2>3, <2>4 DEF Dfu!Cut
<1>16. CASE Dfu!EndBlock
  <2>1. /\ control.request = "block" /\ control' = Dfu!None
        /\ block' = <<host.file, host.sent + 1>>
        /\ host' = [host EXCEPT !.at = "waits"]
        /\ UNCHANGED <<dfu, opened>>
    BY <1>16 DEF Dfu!EndBlock, Dfu!Ends, Dfu!device
  <2>2. control'.request = "none" BY <2>1 DEF Dfu!None
  <2>3. host' \in DfuHosts /\ host'.at = "waits" /\ host'.sent = host.sent
        /\ host'.file = host.file
    BY <1>2, <2>1, DfuHostAt
  <2>4. /\ host.at = "ready" /\ host.sent < DfuBlocks
        /\ dfu.state = "dnSync" /\ dfu.flashing
    BY <2>1 DEF DfuProtocol
  <2>5. DfuProtocol' BY <2>1, <2>2, <2>3, <2>4 DEF DfuProtocol
  <2>6. DfuWritten'
    BY <1>1, <2>1, <2>3, <2>4
    DEF DfuWritten, DfuReady, DfuWaits, DfuFinishes, DfuDone, DfuHolds
  <2>7. block' \in Dfu!AllBlocks
    BY <1>2, <2>1, <2>4, DfuAssumed DEF DfuHosts, Dfu!AllBlocks
  <2> QED BY <1>2, <1>3, <2>1, <2>2, <2>3, <2>5, <2>6, <2>7
    DEF Dfu!TypeOK
<1>17. CASE Dfu!EndFinish
  <2>1. /\ control.request = "finish" /\ control' = Dfu!None
        /\ host' = [host EXCEPT !.at = "finishes"]
        /\ UNCHANGED <<dfu, block, opened>>
    BY <1>17 DEF Dfu!EndFinish, Dfu!Ends, Dfu!device
  <2>2. control'.request = "none" BY <2>1 DEF Dfu!None
  <2>3. host' \in DfuHosts /\ host'.at = "finishes"
        /\ host'.sent = host.sent /\ host'.file = host.file
    BY <1>2, <2>1, DfuHostAt
  <2>4. /\ host.at = "ready" /\ host.sent = DfuBlocks
        /\ dfu.state = "manifestSync" /\ dfu.flashing
    BY <2>1 DEF DfuProtocol
  <2>5. DfuProtocol' BY <2>1, <2>2, <2>3, <2>4 DEF DfuProtocol
  <2>6. DfuWritten'
    BY <1>1, <2>1, <2>3, <2>4
    DEF DfuWritten, DfuReady, DfuWaits, DfuFinishes, DfuDone, DfuHolds
  <2> QED BY <1>2, <1>3, <2>1, <2>2, <2>3, <2>5, <2>6 DEF Dfu!TypeOK
<1>18. CASE Dfu!EndUpload
  <2>1. control' = Dfu!None /\ UNCHANGED <<dfu, block, host, opened>>
    BY <1>18 DEF Dfu!EndUpload, Dfu!Ends, Dfu!device
  <2>2. control'.request = "none" BY <2>1 DEF Dfu!None
  <2>3. DfuProtocol' BY <2>1, <2>2 DEF DfuProtocol
  <2> QED BY <1>2, <1>3, <1>6, <2>1, <2>2, <2>3 DEF Dfu!TypeOK
<1>19. CASE Dfu!BusReset
  <2>1. /\ opened' = FALSE /\ dfu' = Dfu!ResetState /\ control' = Dfu!None
        /\ block' = block
        /\ host' = [host EXCEPT !.at = IF host.at = "done" THEN host.at
                                       ELSE "failed"]
    BY <1>19 DEF Dfu!BusReset
  <2>2. control'.request = "none" BY <2>1 DEF Dfu!None
  <2>3. host' \in DfuHosts /\ host'.sent = host.sent
        /\ host'.file = host.file
        /\ host'.at = IF host.at = "done" THEN "done" ELSE "failed"
    BY <1>2, <2>1, DfuHostAt
  <2>6. (dfu.ok = (dfu.state # "error"))'
    <3>1. dfu'.ok = TRUE /\ dfu'.state = "idle" BY <2>1, DfuReset
    <3> QED BY <3>1
  <2>7. host'.at = "done" => host'.sent = DfuBlocks
    BY <2>3 DEF DfuProtocol
  <2>4. DfuProtocol' BY <2>2, <2>3, <2>6, <2>7 DEF DfuProtocol
  <2>5. DfuWritten'
    BY <1>1, <2>3
    DEF DfuWritten, DfuReady, DfuWaits, DfuFinishes, DfuDone
  <2> QED BY <1>3, <2>1, <2>2, <2>3, <2>4, <2>5, DfuReset DEF Dfu!TypeOK
<1>20. CASE Dfu!Open
  <2>1. opened' = TRUE /\ UNCHANGED <<dfu, block, control, host>>
    BY <1>20 DEF Dfu!Open
  <2>2. DfuProtocol' BY <2>1 DEF DfuProtocol, Dfu!NextState
  <2> QED BY <1>2, <1>3, <1>6, <2>1, <2>2 DEF Dfu!TypeOK
<1> QED BY <1>9, <1>10, <1>11, <1>12, <1>13, <1>14, <1>15, <1>16, <1>17,
        <1>18, <1>19, <1>20

(* The host starts over: what was written counts as another download.      *)
LEMMA DfuRenew == ASSUME DfuInv, Dfu!EndRenew PROVE DfuInv'
<1> USE DEF DfuInv
<1>1. /\ control' = Dfu!None
      /\ again' = (again \/ checked)
      /\ UNCHANGED <<dfu, block, opened, checked, dfuHandle, dfuFlash,
                     bootable>>
      /\ \E f \in Files : host' = [file |-> f, sent |-> 0, at |-> "ready"]
  BY DEF Dfu!EndRenew, Dfu!Ends
<1>2. host' \in DfuHosts /\ host'.at = "ready" /\ host'.sent = 0
  BY <1>1, DfuAssumed DEF DfuHosts
<1>3. control'.request = "none" BY <1>1 DEF Dfu!None
<1>4. Dfu!TypeOK' BY <1>1, <1>2, <1>3 DEF Dfu!TypeOK, DfuHosts
<1>5. DfuProtocol' BY <1>1, <1>2, <1>3 DEF DfuProtocol
<1>6. DfuWritten'
  <2>1. SUFFICES ASSUME ~again' PROVE DfuWritten' BY DEF DfuWritten
  <2>2. ~checked' /\ dfuFlash' = <<>> BY <1>1, <2>1
  <2>3. DfuReady' BY <1>2, <2>2 DEF DfuReady, DfuHolds
  <2> QED BY <1>2, <2>3
    DEF DfuWritten, DfuWaits, DfuFinishes, DfuDone
<1> QED BY <1>1, <1>4, <1>5, <1>6

(* The end of a poll, and what the host makes of it.                       *)
LEMMA DfuPolled ==
  ASSUME DfuInv, Dfu!Ends("poll"), Dfu!Told
  PROVE  /\ host' \in DfuHosts /\ host'.file = host.file
         /\ control'.request = "none"
         /\ ~dfu.ok => host'.at = "failed"
         /\ dfu.ok /\ dfu.flashing =>
              host'.at = host.at /\ host'.sent = host.sent
         /\ dfu.ok /\ ~dfu.flashing /\ host.at = "waits" =>
              host'.at = "ready" /\ host'.sent = host.sent + 1
         /\ dfu.ok /\ ~dfu.flashing /\ host.at = "finishes" =>
              host'.at = "done" /\ host'.sent = host.sent
<1> USE DEF DfuInv
<1>1. /\ host.at \in {"waits", "finishes"}
      /\ control.state = Dfu!NextState /\ control.ok = dfu.ok
      /\ control' = Dfu!None
  BY DEF Dfu!Ends, DfuProtocol
<1>2. host \in DfuHosts /\ dfu \in DfuStates
  BY DEF Dfu!TypeOK, DfuHosts, DfuStates
<1>3. dfu.ok \in BOOLEAN /\ dfu.flashing \in BOOLEAN BY <1>2 DEF DfuStates
<1> DEFINE a == CASE ~control.ok -> "failed"
                  [] host.at = "waits" /\ control.state = "dnIdle" -> "ready"
                  [] host.at = "finishes" /\ control.state = "idle" -> "done"
                  [] OTHER -> host.at
           n == IF control.ok /\ host.at = "waits"
                   /\ control.state = "dnIdle"
                THEN host.sent + 1 ELSE host.sent
<1>4. host' = [host EXCEPT !.at = a, !.sent = n] BY DEF Dfu!Told
<1>5. /\ ~dfu.ok => a = "failed" /\ n = host.sent
      /\ dfu.ok /\ dfu.flashing => a = host.at /\ n = host.sent
      /\ dfu.ok /\ ~dfu.flashing /\ host.at = "waits" =>
           a = "ready" /\ n = host.sent + 1
      /\ dfu.ok /\ ~dfu.flashing /\ host.at = "finishes" =>
           a = "done" /\ n = host.sent
  <2>1. CASE ~dfu.ok
    <3>1. control.ok = FALSE BY <1>1, <1>3, <2>1
    <3>4. dfu.state = "error" BY <1>3, <2>1 DEF DfuProtocol
    <3>5. control.state = "error" BY <1>1, <3>4 DEF Dfu!NextState
    <3>2. a = "failed" BY <3>1, <3>5
    <3>3. n = host.sent BY <3>1
    <3> QED BY <2>1, <3>2, <3>3
  <2>2. CASE dfu.ok /\ host.at = "waits"
    <3>1. dfu.state = "dnSync" BY <2>2 DEF DfuProtocol
    <3>2. control.state = IF dfu.flashing THEN "dnBusy" ELSE "dnIdle"
      BY <1>1, <3>1 DEF Dfu!NextState
    <3> QED BY <1>1, <1>3, <2>2, <3>2
  <2>3. CASE dfu.ok /\ host.at = "finishes"
    <3>1. dfu.state = "manifestSync" BY <2>3 DEF DfuProtocol
    <3>2. control.state = IF dfu.flashing THEN "manifest" ELSE "idle"
      BY <1>1, <3>1 DEF Dfu!NextState
    <3> QED BY <1>1, <1>3, <2>3, <3>2
  <2> QED BY <1>1, <1>3, <2>1, <2>2, <2>3
<1>6. a \in {"ready", "waits", "finishes", "failed", "done"}
  BY <1>1, <1>3, <1>5
<1>7. n \in 0..DfuBlocks
  <2>1. host.sent \in 0..DfuBlocks BY <1>2 DEF DfuHosts
  <2>2. host.at = "waits" => host.sent < DfuBlocks BY DEF DfuProtocol
  <2> QED BY <1>1, <1>3, <1>5, <2>1, <2>2, DfuAssumed
<1> HIDE DEF a, n
<1>8. /\ host' \in DfuHosts /\ host'.at = a /\ host'.sent = n
      /\ host'.file = host.file
  BY <1>2, <1>4, <1>6, <1>7, DfuHostTold
<1>9. control'.request = "none" BY <1>1 DEF Dfu!None
<1> QED BY <1>5, <1>8, <1>9

(* A write or a manifestation that fails.                                  *)
LEMMA DfuFails ==
  ASSUME DfuInv, Dfu!Ends("poll"), Dfu!Told, dfu.flashing,
         Dfu!FinishFlashing(FALSE), checked' \in BOOLEAN,
         dfuHandle' \in BOOLEAN, ~checked' => ~checked,
         again' \in BOOLEAN, UNCHANGED <<dfuFlash, bootable, opened, block>>
  PROVE  DfuInv'
<1> USE DEF DfuInv
<1>1. dfu' = [state |-> "error", ok |-> FALSE, flashing |-> FALSE]
  BY DEF Dfu!FinishFlashing
<1>2. dfu' \in DfuStates /\ dfu'.state = "error" /\ dfu'.ok = FALSE
  BY <1>1 DEF DfuStates, Dfu!States
<1>3. /\ host' \in DfuHosts /\ host'.file = host.file
      /\ control'.request = "none"
      /\ \/ host'.at = "failed"
         \/ host'.at = host.at /\ host'.sent = host.sent
    BY DfuPolled
<1>4. host.at \in {"waits", "finishes"} BY DEF Dfu!Ends, DfuProtocol
<1>5. Dfu!TypeOK' BY <1>2, <1>3 DEF Dfu!TypeOK, DfuStates, DfuHosts
<1>6. DfuProtocol' BY <1>2, <1>3, <1>4 DEF DfuProtocol
<1>7. DfuWritten'
  BY <1>2, <1>3, <1>4
  DEF DfuWritten, DfuReady, DfuWaits, DfuFinishes, DfuDone
<1> QED BY <1>5, <1>6, <1>7

LEMMA DfuSucceeds ==
  ASSUME DfuInv, Dfu!Ends("poll"), dfu.flashing, dfu.state # "error",
         Dfu!FinishFlashing(TRUE)
  PROVE  /\ dfu' \in DfuStates /\ dfu'.state = dfu.state
         /\ dfu'.ok = TRUE /\ dfu.ok = TRUE /\ dfu'.flashing = FALSE
<1> USE DEF DfuInv
<1>1. dfu \in DfuStates BY DEF Dfu!TypeOK, DfuStates
<1>2. dfu.ok = TRUE BY <1>1 DEF DfuProtocol
<1>3. dfu' = [state |-> dfu.state, ok |-> TRUE, flashing |-> FALSE]
  BY <1>2 DEF Dfu!FinishFlashing
<1> QED BY <1>1, <1>2, <1>3 DEF DfuStates

LEMMA DfuWriteBlock == ASSUME DfuInv, Dfu!WriteBlock PROVE DfuInv'
<1> USE DEF DfuInv
<1>1. /\ Dfu!Ends("poll") /\ Dfu!Told /\ dfu.state = "dnSync"
      /\ dfu.flashing /\ UNCHANGED <<opened, block, bootable, again>>
      /\ checked' = TRUE /\ dfuHandle' = TRUE
      /\ Dfu!FinishFlashing(TRUE)
      /\ dfuFlash' = Append(IF checked THEN dfuFlash ELSE <<>>, block)
  BY DEF Dfu!WriteBlock, Dfu!Flashing
<1>2. /\ dfu' \in DfuStates /\ dfu'.state = "dnSync" /\ dfu'.ok = TRUE
      /\ dfu.ok = TRUE /\ dfu'.flashing = FALSE
  BY <1>1, DfuSucceeds
<1>3. host.at = "waits"
  <2>1. host.at \in {"waits", "finishes"}
    BY <1>1 DEF Dfu!Ends, DfuProtocol
  <2> QED BY <1>1, <2>1 DEF DfuProtocol
<1>4. /\ host' \in DfuHosts /\ host'.file = host.file
      /\ control'.request = "none"
      /\ host'.at = "waits" /\ host'.sent = host.sent
  BY <1>1, <1>2, <1>3, DfuPolled
<1>5. /\ block = <<host.file, host.sent + 1>> /\ host.sent < DfuBlocks
      /\ host.sent \in Nat /\ block \in Dfu!AllBlocks
  BY <1>3, DfuAssumed DEF DfuProtocol, Dfu!TypeOK, Dfu!AllBlocks
<1>6. dfuFlash \in Seq(Dfu!AllBlocks) BY DEF Dfu!TypeOK
<1>7. dfuFlash' = Append(dfuFlash, block) BY <1>1
<1>8. dfuFlash' \in Seq(Dfu!AllBlocks) BY <1>5, <1>6, <1>7
<1>9. Dfu!TypeOK'
  BY <1>1, <1>2, <1>4, <1>8 DEF Dfu!TypeOK, DfuStates, DfuHosts
<1>10. DfuProtocol' BY <1>1, <1>2, <1>4, <1>5 DEF DfuProtocol
<1>11. DfuWritten'
  <2>1. SUFFICES ASSUME ~again PROVE DfuWaits'
    BY <1>1, <1>4
    DEF DfuWritten, DfuReady, DfuWaits, DfuFinishes, DfuDone
  <2>2. DfuHolds(host.sent)
    BY <1>1, <1>3, <2>1 DEF DfuWritten, DfuWaits
  <2>3. Len(dfuFlash') = host.sent + 1
        /\ \A i \in 1..host.sent + 1 : dfuFlash'[i] = <<host.file, i>>
    BY SMTT(30), <1>5, <1>6, <1>7, <2>2 DEF DfuHolds
  <2> QED BY <1>1, <1>2, <1>4, <1>5, <2>3 DEF DfuWaits, DfuHolds
<1> QED BY <1>1, <1>9, <1>10, <1>11

(* A block too short for a header: reported written though it is not, the  *)
(* download counts as another one.                                         *)
LEMMA DfuWriteShort == ASSUME DfuInv, Dfu!WriteShort PROVE DfuInv'
<1> USE DEF DfuInv
<1>1. PICK ok \in BOOLEAN :
        Dfu!FinishFlashing(ok) /\ again' = (again \/ ok)
  BY DEF Dfu!WriteShort
<1>2. /\ Dfu!Ends("poll") /\ Dfu!Told /\ dfu.state = "dnSync"
      /\ dfu.flashing
      /\ UNCHANGED <<opened, block, bootable, checked, dfuHandle, dfuFlash>>
  BY DEF Dfu!WriteShort, Dfu!Flashing
<1>3. again' \in BOOLEAN BY <1>1 DEF Dfu!TypeOK
<1>4. CASE ok = FALSE
  <2>1. Dfu!FinishFlashing(FALSE) BY <1>1, <1>4
  <2>2. checked' \in BOOLEAN /\ dfuHandle' \in BOOLEAN
    BY <1>2 DEF Dfu!TypeOK
  <2> QED BY <1>2, <1>3, <2>1, <2>2, DfuFails
<1>5. CASE ok = TRUE
  <2>1. Dfu!FinishFlashing(TRUE) /\ again' = TRUE BY <1>1, <1>5
  <2>2. /\ dfu' \in DfuStates /\ dfu'.state = "dnSync" /\ dfu'.ok = TRUE
        /\ dfu.ok = TRUE /\ dfu'.flashing = FALSE
    BY <1>2, <2>1, DfuSucceeds
  <2>3. host.at = "waits"
    <3>1. host.at \in {"waits", "finishes"}
      BY <1>2 DEF Dfu!Ends, DfuProtocol
    <3> QED BY <1>2, <3>1 DEF DfuProtocol
  <2>4. /\ host' \in DfuHosts /\ host'.file = host.file
        /\ control'.request = "none"
        /\ host'.at = "waits" /\ host'.sent = host.sent
    BY <1>2, <2>2, <2>3, DfuPolled
  <2>5. Dfu!TypeOK'
    BY <1>2, <1>3, <2>2, <2>4 DEF Dfu!TypeOK, DfuStates, DfuHosts
  <2>6. DfuProtocol' BY <1>2, <2>2, <2>3, <2>4 DEF DfuProtocol
  <2>7. DfuWritten' BY <2>1 DEF DfuWritten
  <2> QED BY <1>2, <2>5, <2>6, <2>7
<1> QED BY <1>4, <1>5

LEMMA DfuManifest == ASSUME DfuInv, Dfu!Manifest PROVE DfuInv'
<1> USE DEF DfuInv
<1>1. /\ Dfu!Ends("poll") /\ Dfu!Told /\ dfu.state = "manifestSync"
      /\ dfu.flashing
      /\ UNCHANGED <<opened, block, checked, dfuFlash, again>>
      /\ dfuHandle' = FALSE /\ Dfu!FinishFlashing(TRUE)
  BY DEF Dfu!Manifest, Dfu!Flashing
<1>2. PICK f \in Files : Dfu!Valid(f) /\ bootable' = f
  BY DEF Dfu!Manifest
<1>3. /\ dfu' \in DfuStates /\ dfu'.state = "manifestSync"
      /\ dfu'.ok = TRUE /\ dfu.ok = TRUE /\ dfu'.flashing = FALSE
  BY <1>1, DfuSucceeds
<1>4. host.at = "finishes"
  <2>1. host.at \in {"waits", "finishes"}
    BY <1>1 DEF Dfu!Ends, DfuProtocol
  <2> QED BY <1>1, <2>1 DEF DfuProtocol
<1>5. /\ host' \in DfuHosts /\ host'.file = host.file
      /\ control'.request = "none"
      /\ host'.at = "finishes" /\ host'.sent = host.sent
  BY <1>1, <1>3, <1>4, DfuPolled
<1>6. Dfu!TypeOK'
  BY <1>1, <1>2, <1>3, <1>5 DEF Dfu!TypeOK, DfuStates, DfuHosts
<1>7. DfuProtocol' BY <1>1, <1>3, <1>4, <1>5 DEF DfuProtocol
<1>8. DfuWritten'
  <2>1. SUFFICES ASSUME ~again PROVE DfuFinishes'
    BY <1>1, <1>5
    DEF DfuWritten, DfuReady, DfuWaits, DfuFinishes, DfuDone
  <2>2. DfuHolds(DfuBlocks)
    BY <1>1, <1>4, <2>1 DEF DfuWritten, DfuFinishes
  <2>3. dfuFlash[1] = <<host.file, 1>> /\ checked
    BY <2>2, DfuAssumed DEF DfuHolds
  <2>4. dfuFlash[1] = <<f, 1>> BY <1>2, DfuAssumed DEF Dfu!Valid
  <2>5. f = host.file BY <2>3, <2>4
  <2> QED BY <1>1, <1>2, <1>3, <1>5, <2>3, <2>5 DEF DfuFinishes
<1> QED BY <1>1, <1>6, <1>7, <1>8

LEMMA DfuEndPoll == ASSUME DfuInv, Dfu!EndPoll PROVE DfuInv'
<1> USE DEF DfuInv
<1>1. /\ Dfu!Ends("poll") /\ Dfu!Told
      /\ ~(dfu.state \in {"dnSync", "manifestSync"} /\ dfu.flashing)
      /\ dfu' = [dfu EXCEPT !.state = Dfu!NextState]
      /\ UNCHANGED <<block, opened, checked, dfuHandle, dfuFlash, bootable,
                     again>>
  BY DEF Dfu!EndPoll, Dfu!device
<1>2. dfu \in DfuStates BY DEF Dfu!TypeOK, DfuStates
<1>3. host.at \in {"waits", "finishes"} BY <1>1 DEF Dfu!Ends, DfuProtocol
<1>4. /\ host' \in DfuHosts /\ host'.file = host.file
      /\ control'.request = "none"
      /\ ~dfu.ok => host'.at = "failed"
      /\ dfu.ok /\ ~dfu.flashing /\ host.at = "waits" =>
           host'.at = "ready" /\ host'.sent = host.sent + 1
      /\ dfu.ok /\ ~dfu.flashing /\ host.at = "finishes" =>
           host'.at = "done" /\ host'.sent = host.sent
  BY <1>1, DfuPolled
<1>5. ASSUME Dfu!NextState \in Dfu!States
      PROVE  /\ dfu' \in DfuStates /\ dfu'.state = Dfu!NextState
             /\ dfu'.ok = dfu.ok
  BY <1>1, <1>2, <1>5 DEF DfuStates
<1>6. CASE dfu.state = "error"
  <2>1. dfu.ok = FALSE BY <1>2, <1>6 DEF DfuProtocol
  <2>2. Dfu!NextState = "error" BY <1>6 DEF Dfu!NextState
  <2>3. dfu' \in DfuStates /\ dfu'.state = "error" /\ dfu'.ok = FALSE
    BY <1>5, <2>1, <2>2 DEF Dfu!States
  <2>4. host'.at = "failed" BY <1>4, <2>1
  <2>5. Dfu!TypeOK' BY <1>1, <1>4, <2>3 DEF Dfu!TypeOK, DfuStates, DfuHosts
  <2>6. DfuProtocol' BY <1>4, <2>3, <2>4 DEF DfuProtocol
  <2>7. DfuWritten'
    BY <2>4 DEF DfuWritten, DfuReady, DfuWaits, DfuFinishes, DfuDone
  <2> QED BY <1>1, <2>5, <2>6, <2>7
<1>7. CASE dfu.state # "error" /\ host.at = "waits"
  <2>1. /\ dfu.ok = TRUE /\ dfu.state = "dnSync" /\ ~dfu.flashing
    BY <1>1, <1>2, <1>7 DEF DfuProtocol
  <2>2. Dfu!NextState = "dnIdle" BY <2>1 DEF Dfu!NextState
  <2>3. dfu' \in DfuStates /\ dfu'.state = "dnIdle" /\ dfu'.ok = TRUE
    BY <1>5, <2>1, <2>2 DEF Dfu!States
  <2>4. host'.at = "ready" /\ host'.sent = host.sent + 1
    BY <1>4, <1>7, <2>1
  <2>5. Dfu!TypeOK' BY <1>1, <1>4, <2>3 DEF Dfu!TypeOK, DfuStates, DfuHosts
  <2>6. DfuProtocol' BY <1>4, <2>3, <2>4 DEF DfuProtocol
  <2>7. ASSUME ~again PROVE DfuReady'
    <3>1. DfuHolds(host.sent + 1)
      BY <1>7, <2>1, <2>7 DEF DfuWritten, DfuWaits
    <3>2. host.sent \in Nat BY DEF Dfu!TypeOK
    <3> QED BY <1>1, <1>4, <2>4, <3>1, <3>2 DEF DfuReady, DfuHolds
  <2>8. DfuWritten'
    BY <1>1, <2>4, <2>7 DEF DfuWritten, DfuWaits, DfuFinishes, DfuDone
  <2> QED BY <1>1, <2>5, <2>6, <2>8
<1>8. CASE dfu.state # "error" /\ host.at = "finishes"
  <2>1. /\ dfu.ok = TRUE /\ dfu.state = "manifestSync" /\ ~dfu.flashing
        /\ host.sent = DfuBlocks
    BY <1>1, <1>2, <1>8 DEF DfuProtocol
  <2>2. Dfu!NextState = "idle" BY <2>1 DEF Dfu!NextState
  <2>3. dfu' \in DfuStates /\ dfu'.state = "idle" /\ dfu'.ok = TRUE
    BY <1>5, <2>1, <2>2 DEF Dfu!States
  <2>4. host'.at = "done" /\ host'.sent = host.sent
    BY <1>4, <1>8, <2>1
  <2>5. Dfu!TypeOK' BY <1>1, <1>4, <2>3 DEF Dfu!TypeOK, DfuStates, DfuHosts
  <2>6. DfuProtocol' BY <1>4, <2>1, <2>3, <2>4 DEF DfuProtocol
  <2>7. ASSUME ~again PROVE checked /\ bootable = host.file
    BY <1>8, <2>1, <2>7 DEF DfuWritten, DfuFinishes
  <2>8. DfuWritten'
    BY <1>1, <1>4, <2>4, <2>7
    DEF DfuWritten, DfuReady, DfuWaits, DfuFinishes, DfuDone
  <2> QED BY <1>1, <2>5, <2>6, <2>8
<1> QED BY <1>3, <1>6, <1>7, <1>8

LEMMA DfuStep1 == ASSUME DfuInv, Dfu!Next PROVE DfuInv'
<1>1. CASE Dfu!WriteFails
  <2>1. /\ Dfu!Ends("poll") /\ Dfu!Told /\ dfu.flashing
        /\ Dfu!FinishFlashing(FALSE) /\ checked' = TRUE
        /\ dfuHandle' = FALSE
        /\ UNCHANGED <<dfuFlash, bootable, again, opened, block>>
    BY <1>1 DEF Dfu!WriteFails, Dfu!Flashing
  <2>2. again' \in BOOLEAN BY <2>1 DEF DfuInv, Dfu!TypeOK
  <2> QED BY <2>1, <2>2, DfuFails
<1>2. CASE Dfu!ManifestFails
  <2>1. /\ Dfu!Ends("poll") /\ Dfu!Told /\ dfu.flashing
        /\ Dfu!FinishFlashing(FALSE) /\ dfuHandle' = FALSE
        /\ UNCHANGED <<checked, dfuFlash, bootable, again, opened, block>>
    BY <1>2 DEF Dfu!ManifestFails, Dfu!Flashing
  <2>2. again' \in BOOLEAN /\ checked' \in BOOLEAN
    BY <2>1 DEF DfuInv, Dfu!TypeOK
  <2> QED BY <2>1, <2>2, DfuFails
<1>3. CASE Dfu!Detach \/ Dfu!PowerLoss
  BY <1>3, DfuRestart DEF Dfu!Detach, Dfu!PowerLoss
<1> QED BY <1>1, <1>2, <1>3, DfuControl, DfuRenew, DfuWriteBlock,
        DfuWriteShort, DfuManifest, DfuEndPoll DEF Dfu!Next

LEMMA DfuInvariant == Spec => []DfuInv
<1>1. ASSUME DfuInv, [Next]_vars PROVE DfuInv'
  <2>1. CASE UNCHANGED dfuDev
    BY <1>1, <2>1
    DEF dfuDev, DfuInv, Dfu!TypeOK, DfuProtocol, Dfu!NextState, DfuWritten,
        DfuReady, DfuWaits, DfuFinishes, DfuDone, DfuHolds
  <2> QED BY <1>1, <2>1, DfuMoves, DfuStep1
<1> QED BY <1>1, DfuStart, PTL DEF Spec

(* StatusHonest: a host that was told that so many blocks are written has  *)
(* them in the flash, and one that was told that its download is done has  *)
(* its image booted, whatever was cut, stalled, reset or not written.      *)
THEOREM StatusHonestCorrect == Spec => []StatusHonest
<1>1. ASSUME DfuInv PROVE StatusHonest
  <2>1. SUFFICES ASSUME ~again, host.at = "ready", host.sent > 0
                 PROVE  dfuFlash = [i \in 1..host.sent |-> <<host.file, i>>]
    BY <1>1 DEF DfuInv, DfuWritten, DfuDone, StatusHonest, Dfu!StatusHonest
  <2>2. Len(dfuFlash) = host.sent
        /\ \A i \in 1..host.sent : dfuFlash[i] = <<host.file, i>>
    BY <1>1, <2>1 DEF DfuInv, DfuWritten, DfuReady, DfuHolds
  <2>3. dfuFlash = [i \in 1..Len(dfuFlash) |-> dfuFlash[i]]
    BY <1>1 DEF DfuInv, Dfu!TypeOK
  <2> QED BY <2>2, <2>3
<1> QED BY <1>1, DfuInvariant, PTL

-----------------------------------------------------------------------------
(* The network device.  The flag, and not the semaphore, keeps the buffer  *)
(* of a transfer: it is down from the mark on, up to the end of the        *)
(* transfer, and nobody but the WiFi task takes it down.                   *)
NetCopied == wifi \in {"copied", "marked"}

NetBuffer ==
  /\ ~mounted => ~epIn
  /\ ~epIn /\ ~overlap => xfer = Net!NoXfer
  /\ wifi # "out" => packet.n # 0
  /\ NetCopied => netBuffer.n # 0
  /\ NetCopied /\ ~overlap => xfer = Net!NoXfer
  /\ ~overlap /\ wifi = "copied" => canXmit
  /\ ~overlap /\ wifi = "marked" => ~canXmit

NetSending ==
  ~overlap /\ xfer # Net!NoXfer =>
    ~canXmit /\ xfer.kind # "none" /\ xfer.of = netBuffer /\ netBuffer.n # 0

NetFrames ==
  ~overlap =>
    /\ partial = IF xfer.kind = "zlp" THEN <<netBuffer.n>> ELSE <<>>
    /\ netFrame = <<>> \/ \E n \in Nat \ {0} : netFrame = <<n>>

NetReady ==
  ~overlap /\ epIn =>
    /\ xfer = Net!NoXfer /\ wifi # "marked" => canXmit
    /\ xfer = Net!NoXfer /\ ~giving /\ wifi \notin {"took", "marked"} => sem
    /\ ~giving => rx

NetInv == Net!TypeOK /\ NetBuffer /\ NetSending /\ NetFrames /\ NetReady

LEMMA NetMoves == ASSUME [Next]_vars PROVE Net!Next \/ UNCHANGED netDev
BY DEF Next, LedStep, UpdateStep, HistoryStep, LogStep, StartUpStep,
   GatewayStep, UsbLifeStep, FramesStep, CameraStep, UsbDevStep, DfuStep,
   NetStep, AcmStep, Rest, DeviceRest, deviceSide, vars

LEMMA NetStart == ASSUME Init PROVE NetInv
<1>1. Net!Init BY DEF Init
<1>2. Net!TypeOK
  <2>1. Net!NoData \in Net!Packets BY ServicesAssumption
    DEF Net!NoData, Net!Packets, Net!NetDeviceAssumption
  <2>2. <<>> \in Seq(0..MaxPackets) OBVIOUS
  <2>3. {ecm, mounted, epIn, canXmit, sem, giving, rx, overlap}
          \subseteq BOOLEAN
    BY <1>1 DEF Net!Init
  <2> QED BY <1>1, <2>1, <2>2, <2>3 DEF Net!Init, Net!TypeOK, Net!NoXfer
<1>3. NetBuffer /\ NetSending /\ NetFrames /\ NetReady
  BY <1>1 DEF Net!Init, NetBuffer, NetSending, NetFrames, NetReady,
     NetCopied, Net!NoXfer
<1> QED BY <1>2, <1>3 DEF NetInv

LEMMA NetTypes == ASSUME NetInv, Net!Next PROVE Net!TypeOK'
<1> USE DEF NetInv, Net!TypeOK, Net!bus, Net!driver, Net!Goes, Net!OpenPair
<1>1. MaxPackets \in Nat
  BY ServicesAssumption DEF Net!NetDeviceAssumption
<1>2. CASE Net!Packet BY <1>1, <1>2 DEF Net!Packet, Net!Packets
<1>3. CASE Net!WaitTake BY <1>3 DEF Net!WaitTake
<1>4. CASE Net!WaitTimeout BY <1>4 DEF Net!WaitTimeout
<1>5. CASE Net!WaitGive BY <1>5 DEF Net!WaitGive
<1>6. CASE Net!Refuse BY <1>6 DEF Net!Refuse
<1>7. CASE Net!Copy BY <1>7 DEF Net!Copy
<1>8. CASE Net!Mark BY <1>8 DEF Net!Mark
<1>9. CASE Net!Start BY <1>9 DEF Net!Start
<1>10. CASE Net!Reset
  <2>1. Net!NoXfer \in [kind : {"none", "data", "zlp"}, of : Net!Packets]
    BY <1>1 DEF Net!NoXfer, Net!NoData, Net!Packets
  <2>2. overlap' \in BOOLEAN BY <1>10 DEF Net!Reset
  <2>3. <<>> \in Seq(0..MaxPackets) OBVIOUS
  <2> QED BY <1>10, <2>1, <2>2, <2>3 DEF Net!Reset
<1>11. CASE Net!Configure BY <1>11 DEF Net!Configure
<1>12. CASE Net!SetInterface BY <1>12 DEF Net!SetInterface
<1>13. CASE Net!Give BY <1>13 DEF Net!Give
<1> DEFINE more == Append(partial, Net!Data)
<1>17. more \in Seq(0..MaxPackets)
  <2>1. Net!Data \in 0..MaxPackets BY <1>1 DEF Net!Data, Net!Packets
  <2> QED BY <2>1
<1> HIDE DEF more
<1>14. CASE Net!SentFull
  <2>1. partial' = more BY <1>14 DEF Net!SentFull, more
  <2>2. xfer' \in [kind : {"none", "data", "zlp"}, of : Net!Packets]
    BY <1>14 DEF Net!SentFull
  <2> QED BY <1>14, <1>17, <2>1, <2>2 DEF Net!SentFull
<1>15. CASE Net!Sent
  <2>1. Net!NoXfer \in [kind : {"none", "data", "zlp"}, of : Net!Packets]
    BY <1>1 DEF Net!NoXfer, Net!NoData, Net!Packets
  <2>2. netFrame' \in {partial, more} BY <1>15 DEF Net!Sent, more
  <2>3. <<>> \in Seq(0..MaxPackets) OBVIOUS
  <2> QED BY <1>15, <1>17, <2>1, <2>2, <2>3 DEF Net!Sent
<1>16. CASE Net!Received BY <1>16 DEF Net!Received
<1> QED BY <1>2, <1>3, <1>4, <1>5, <1>6, <1>7, <1>8, <1>9, <1>10, <1>11,
           <1>12, <1>13, <1>14, <1>15, <1>16 DEF Net!Next, Net!Wifi, Net!Usbd

LEMMA NetBufferStep == ASSUME NetInv, Net!Next PROVE NetBuffer'
<1> USE DEF NetInv, NetBuffer, NetSending, NetCopied, Net!bus, Net!driver,
            Net!Goes, Net!OpenPair
<1>1. packet.n \in Nat BY DEF Net!TypeOK, Net!Packets
<1>2. CASE Net!Packet BY <1>1, <1>2 DEF Net!Packet
<1>3. CASE Net!WaitTake BY <1>3 DEF Net!WaitTake
<1>4. CASE Net!WaitTimeout BY <1>4 DEF Net!WaitTimeout
<1>5. CASE Net!WaitGive BY <1>5 DEF Net!WaitGive
<1>6. CASE Net!Refuse BY <1>6 DEF Net!Refuse
<1>7. CASE Net!Copy BY <1>7 DEF Net!Copy
<1>8. CASE Net!Mark BY <1>8 DEF Net!Mark
<1>9. CASE Net!Start BY <1>9 DEF Net!Start
<1>10. CASE Net!Reset BY <1>10 DEF Net!Reset
<1>11. CASE Net!Configure BY <1>11 DEF Net!Configure
<1>12. CASE Net!SetInterface BY <1>12 DEF Net!SetInterface
<1>13. CASE Net!Give BY <1>13 DEF Net!Give
<1>14. CASE Net!SentFull BY <1>14 DEF Net!SentFull, Net!NoXfer
<1>15. CASE Net!Sent BY <1>15 DEF Net!Sent
<1>16. CASE Net!Received BY <1>16 DEF Net!Received
<1> QED BY <1>2, <1>3, <1>4, <1>5, <1>6, <1>7, <1>8, <1>9, <1>10, <1>11,
           <1>12, <1>13, <1>14, <1>15, <1>16 DEF Net!Next, Net!Wifi, Net!Usbd

LEMMA NetSendingStep == ASSUME NetInv, Net!Next PROVE NetSending'
<1> USE DEF NetInv, NetBuffer, NetSending, NetCopied, Net!bus, Net!driver,
            Net!Goes, Net!OpenPair
<1>2. CASE Net!Packet BY <1>2 DEF Net!Packet
<1>3. CASE Net!WaitTake BY <1>3 DEF Net!WaitTake
<1>4. CASE Net!WaitTimeout BY <1>4 DEF Net!WaitTimeout
<1>5. CASE Net!WaitGive BY <1>5 DEF Net!WaitGive
<1>6. CASE Net!Refuse BY <1>6 DEF Net!Refuse
<1>7. CASE Net!Copy BY <1>7 DEF Net!Copy
<1>8. CASE Net!Mark BY <1>8 DEF Net!Mark
<1>9. CASE Net!Start BY <1>9 DEF Net!Start
<1>10. CASE Net!Reset BY <1>10 DEF Net!Reset
<1>11. CASE Net!Configure BY <1>11 DEF Net!Configure
<1>12. CASE Net!SetInterface BY <1>12 DEF Net!SetInterface
<1>13. CASE Net!Give BY <1>13 DEF Net!Give
<1>14. CASE Net!SentFull
  BY <1>14 DEF Net!SentFull, Net!NoXfer, Net!TypeOK
<1>15. CASE Net!Sent BY <1>15 DEF Net!Sent
<1>16. CASE Net!Received BY <1>16 DEF Net!Received
<1> QED BY <1>2, <1>3, <1>4, <1>5, <1>6, <1>7, <1>8, <1>9, <1>10, <1>11,
           <1>12, <1>13, <1>14, <1>15, <1>16 DEF Net!Next, Net!Wifi, Net!Usbd

LEMMA NetFramesStep == ASSUME NetInv, Net!Next PROVE NetFrames'
<1> USE DEF NetInv, NetBuffer, NetSending, NetFrames, NetCopied, Net!bus,
            Net!driver, Net!Goes, Net!OpenPair
<1>1. netBuffer.n \in Nat BY DEF Net!TypeOK, Net!Packets
<1>2. CASE Net!Packet BY <1>2 DEF Net!Packet
<1>3. CASE Net!WaitTake BY <1>3 DEF Net!WaitTake
<1>4. CASE Net!WaitTimeout BY <1>4 DEF Net!WaitTimeout
<1>5. CASE Net!WaitGive BY <1>5 DEF Net!WaitGive
<1>6. CASE Net!Refuse BY <1>6 DEF Net!Refuse
<1>7. CASE Net!Copy BY <1>7 DEF Net!Copy, Net!NoXfer
<1>8. CASE Net!Mark BY <1>8 DEF Net!Mark
<1>9. CASE Net!Start BY <1>9 DEF Net!Start, Net!NoXfer
<1>10. CASE Net!Reset BY <1>10 DEF Net!Reset, Net!NoXfer
<1>11. CASE Net!Configure BY <1>11 DEF Net!Configure
<1>12. CASE Net!SetInterface BY <1>12 DEF Net!SetInterface
<1>13. CASE Net!Give BY <1>13 DEF Net!Give
<1>14. CASE Net!SentFull
  BY <1>1, <1>14 DEF Net!SentFull, Net!NoXfer, Net!Data, Net!TypeOK
<1>15. CASE Net!Sent
  <2> SUFFICES ASSUME ~overlap PROVE NetFrames'
    BY <1>15 DEF Net!Sent
  <2>1. Net!Data = netBuffer.n /\ netBuffer.n \in Nat \ {0}
    BY <1>1, <1>15 DEF Net!Sent, Net!Data
  <2>2. xfer.kind # "zlp" => netFrame' = <<netBuffer.n>>
    BY <1>1, <1>15, <2>1 DEF Net!Sent
  <2>3. xfer.kind = "zlp" => netFrame' = <<netBuffer.n>>
    BY <1>15 DEF Net!Sent
  <2>4. partial' = <<>> /\ xfer'.kind = "none"
    BY <1>15 DEF Net!Sent, Net!NoXfer
  <2> QED BY <2>1, <2>2, <2>3, <2>4
<1>16. CASE Net!Received BY <1>16 DEF Net!Received
<1> QED BY <1>2, <1>3, <1>4, <1>5, <1>6, <1>7, <1>8, <1>9, <1>10, <1>11,
           <1>12, <1>13, <1>14, <1>15, <1>16 DEF Net!Next, Net!Wifi, Net!Usbd

LEMMA NetReadyStep == ASSUME NetInv, Net!Next PROVE NetReady'
<1> USE DEF NetInv, NetBuffer, NetSending, NetReady, NetCopied, Net!bus,
            Net!driver, Net!Goes, Net!OpenPair
<1>2. CASE Net!Packet BY <1>2 DEF Net!Packet
<1>3. CASE Net!WaitTake BY <1>3 DEF Net!WaitTake
<1>4. CASE Net!WaitTimeout BY <1>4 DEF Net!WaitTimeout
<1>5. CASE Net!WaitGive BY <1>5 DEF Net!WaitGive
<1>6. CASE Net!Refuse BY <1>6 DEF Net!Refuse
<1>7. CASE Net!Copy BY <1>7 DEF Net!Copy
<1>8. CASE Net!Mark BY <1>8 DEF Net!Mark
<1>9. CASE Net!Start BY <1>9 DEF Net!Start, Net!NoXfer
<1>10. CASE Net!Reset BY <1>10 DEF Net!Reset
<1>11. CASE Net!Configure BY <1>11 DEF Net!Configure
<1>12. CASE Net!SetInterface BY <1>12 DEF Net!SetInterface
<1>13. CASE Net!Give BY <1>13 DEF Net!Give
<1>14. CASE Net!SentFull BY <1>14 DEF Net!SentFull, Net!NoXfer, Net!TypeOK
<1>15. CASE Net!Sent BY <1>15 DEF Net!Sent
<1>16. CASE Net!Received BY <1>16 DEF Net!Received
<1> QED BY <1>2, <1>3, <1>4, <1>5, <1>6, <1>7, <1>8, <1>9, <1>10, <1>11,
           <1>12, <1>13, <1>14, <1>15, <1>16 DEF Net!Next, Net!Wifi, Net!Usbd

LEMMA NetStays == ASSUME NetInv, [Next]_vars PROVE NetInv'
<1>1. CASE UNCHANGED netDev
  BY <1>1 DEF netDev, NetInv, Net!TypeOK, NetBuffer, NetSending, NetFrames,
     NetReady, NetCopied
<1>2. CASE Net!Next
  BY <1>2, NetTypes, NetBufferStep, NetSendingStep, NetFramesStep,
     NetReadyStep DEF NetInv
<1> QED BY <1>1, <1>2, NetMoves

(* Unless the last reset or opening found the WiFi task on its way, each   *)
(* frame is one packet of it, and an interface at rest takes the next one. *)
THEOREM PacketsWholeCorrect == Spec => []PacketsWhole
<1>1. Init => NetInv BY NetStart
<1>2. NetInv /\ [Next]_vars => NetInv' BY NetStays
<1>3. NetInv => PacketsWhole
  <2>1. NetInv /\ ~overlap /\ netFrame # <<>>
          => Len(netFrame) = 1 /\ netFrame[1] # 0
    BY DEF NetInv, NetFrames
  <2>2. NetInv /\ ~overlap /\ Net!Quiet /\ epIn => canXmit /\ sem /\ rx
    BY DEF NetInv, NetReady, Net!Quiet
  <2> QED BY <2>1, <2>2 DEF PacketsWhole, Net!PacketsWhole
<1> QED BY <1>1, <1>2, <1>3, PTL DEF Spec

-----------------------------------------------------------------------------
(* The serial device.  While a reader is between its two pieces it holds   *)
(* the mutex of its object, and no other reader is there.                  *)
AcmReading(r) == reader[r].at \in {"first", "second"}

AcmOrdered ==
  /\ Acm!HasObject => object # 0
  /\ initing /\ stage = "cdc" => object < MaxInits
  /\ \A o \in Acm!Objects : /\ ring[o].lo <= ring[o].hi
                            /\ ring[o].hi - ring[o].lo <= RingSize

AcmAlone ==
  /\ \A r \in Readers : AcmReading(r) => mux[reader[r].of]
  /\ \A r, s \in Readers :
       AcmReading(r) /\ AcmReading(s) /\ reader[r].of = reader[s].of => r = s

(* What was there is still to come, or is got; after a first piece that    *)
(* was short of it the ring goes on at its beginning.                      *)
AcmAhead(me, q) ==
  /\ me.at = "first" => /\ me.want > 0 /\ me.there <= me.want
                        /\ me.there <= q.hi - q.lo
  /\ me.at = "second" => /\ me.got <= me.want /\ me.there <= me.want
                         /\ me.there <= me.got + (q.hi - q.lo)
                         /\ q.lo = me.to
                         /\ me.there <= me.got \/ q.lo % RingSize = 0
  /\ me.at = "end" => me.there <= me.got

AcmWhole == \A r \in Readers : AcmAhead(reader[r], ring[reader[r].of])

AcmInv == Acm!TypeOK /\ AcmOrdered /\ AcmAlone /\ AcmWhole

LEMMA AcmMoves == ASSUME [Next]_vars PROVE Acm!Next \/ UNCHANGED acmDev
BY DEF Next, LedStep, UpdateStep, HistoryStep, LogStep, StartUpStep,
   GatewayStep, UsbLifeStep, FramesStep, CameraStep, UsbDevStep, DfuStep,
   NetStep, AcmStep, Rest, DeviceRest, deviceSide, vars

LEMMA Least ==
  ASSUME NEW S \in SUBSET Int, NEW m \in S, \A x \in S : m <= x
  PROVE  Acm!Min(S) = m
<1> DEFINE Low(n) == n \in S /\ \A x \in S : n <= x
<1>1. \A n : Low(n) => n = m OBVIOUS
<1>2. Low(m) OBVIOUS
<1>3. Acm!Min(S) = CHOOSE n \in S : \A x \in S : n <= x BY DEF Acm!Min
<1> QED BY <1>1, <1>2, <1>3

LEMMA LeastOfTwo ==
  ASSUME NEW a \in Int, NEW b \in Int
  PROVE  /\ Acm!Min({a, b}) \in {a, b}
         /\ Acm!Min({a, b}) <= a /\ Acm!Min({a, b}) <= b
<1>1. PICK m \in {a, b} : m <= a /\ m <= b OBVIOUS
<1>2. Acm!Min({a, b}) = m BY <1>1, Least
<1> QED BY <1>1, <1>2

LEMMA LeastOfThree ==
  ASSUME NEW a \in Int, NEW b \in Int, NEW c \in Int
  PROVE  LET m == Acm!Min({a, b, c}) IN
         m \in {a, b, c} /\ m <= a /\ m <= b /\ m <= c
<1>1. PICK m \in {a, b, c} : m <= a /\ m <= b /\ m <= c OBVIOUS
<1>2. Acm!Min({a, b, c}) = m BY <1>1, Least
<1> QED BY <1>1, <1>2

(* The piece of a read is what it wants, or all there is, or up to the end *)
(* of the ring, after which it goes on at the beginning.                   *)
LEMMA WrapsToStart ==
  ASSUME NEW a \in Nat, NEW n \in Nat \ {0}
  PROVE  /\ a % n \in 0..n - 1
         /\ (a + (n - (a % n))) % n = 0
<1>1. a % n \in 0..n - 1 BY SMT
<1>2. (a + (n - (a % n))) % n = 0 BY SMT
<1> QED BY <1>1, <1>2

LEMMA PieceTaken ==
  ASSUME RingSize \in Nat \ {0}, NEW lo \in Nat, NEW hi \in Nat, lo <= hi,
         NEW want \in Nat,
         NEW n, n = Acm!Piece([lo |-> lo, hi |-> hi], want)
  PROVE  /\ n \in Nat /\ n <= want /\ lo + n <= hi
         /\ \/ n = want
            \/ lo + n = hi
            \/ n = RingSize - (lo % RingSize) /\ (lo + n) % RingSize = 0
         /\ want > 0 /\ lo < hi => n > 0
<1> DEFINE end == RingSize - (lo % RingSize)
<1>1. end \in Nat /\ end > 0 /\ (lo + end) % RingSize = 0
  <2>1. lo % RingSize \in 0..RingSize - 1 BY WrapsToStart
  <2>2. (lo + end) % RingSize = 0 BY WrapsToStart
  <2> QED BY <2>1, <2>2
<1>2. hi - lo \in Nat OBVIOUS
<1>3. n = Acm!Min({want, hi - lo, end}) BY DEF Acm!Piece
<1> HIDE DEF end
<1>4. /\ n \in {want, hi - lo, end}
      /\ n <= want /\ n <= hi - lo /\ n <= end
  <2> DEFINE there == hi - lo
  <2>1. want \in Int /\ there \in Int /\ end \in Int BY <1>1, <1>2
  <2> HIDE DEF there
  <2>2. LET m == Acm!Min({want, there, end}) IN
        m \in {want, there, end} /\ m <= want /\ m <= there /\ m <= end
    BY <2>1, LeastOfThree
  <2> QED BY <1>3, <2>2 DEF there
<1>5. n \in Nat /\ lo + n <= hi BY <1>1, <1>2, <1>4
<1>6. n = hi - lo => lo + n = hi OBVIOUS
<1> QED BY <1>1, <1>4, <1>5, <1>6 DEF end

LEMMA AcmAssumed ==
  RingSize \in Nat \ {0} /\ MaxBytes \in Nat /\ MaxInits \in Nat \ {0}
BY ServicesAssumption DEF Acm!CdcAcmAssumption

LEMMA AcmStart == ASSUME Init PROVE AcmInv
<1> USE AcmAssumed DEF Acm!Objects
<1>1. Acm!Init BY DEF Init
<1>2. Acm!TypeOK
  <2>1. {initing, aborted} \subseteq BOOLEAN BY <1>1 DEF Acm!Init
  <2>2. Acm!Out \in [at : {"out", "first", "second", "end"},
                     of : Acm!Objects, want : 0..RingSize,
                     got : 0..RingSize, to : 0..MaxBytes,
                     there : 0..RingSize] BY DEF Acm!Out
  <2>3. [lo |-> 0, hi |-> 0] \in [lo : 0..MaxBytes, hi : 0..MaxBytes]
    OBVIOUS
  <2>4. object \in 0..MaxInits BY <1>1 DEF Acm!Init
  <2> QED BY <1>1, <2>1, <2>2, <2>3, <2>4 DEF Acm!Init, Acm!TypeOK
<1>3. AcmOrdered BY <1>1 DEF Acm!Init, AcmOrdered, Acm!HasObject
<1>4. AcmAlone BY <1>1 DEF Acm!Init, AcmAlone, AcmReading, Acm!Out
<1>5. AcmWhole BY <1>1 DEF Acm!Init, AcmWhole, AcmAhead, Acm!Out
<1> QED BY <1>2, <1>3, <1>4, <1>5 DEF AcmInv

(* A reader's turn at its object: what it does there leaves the others'    *)
(* reads and the order of every ring as they were.                         *)
AcmMe == [at : {"out", "first", "second", "end"}, of : Acm!Objects,
          want : 0..RingSize, got : 0..RingSize, to : 0..MaxBytes,
          there : 0..RingSize]

LEMMA AcmTurn ==
  ASSUME AcmInv, NEW r \in Readers, AcmReading(r),
         NEW lo, NEW held \in BOOLEAN, NEW me \in AcmMe,
         LET q == ring[reader[r].of] IN
         /\ lo \in q.lo..q.hi
         /\ AcmAhead(me, [q EXCEPT !.lo = lo]),
         me.at # "first", me.at = "second" => held /\ me.of = reader[r].of,
         ring' = [ring EXCEPT ![reader[r].of].lo = lo],
         mux' = [mux EXCEPT ![reader[r].of] = held],
         reader' = [reader EXCEPT ![r] = me],
         UNCHANGED <<stage, initing, object, aborted>>
  PROVE  AcmInv'
<1> DEFINE o == reader[r].of
           Q == [lo : 0..MaxBytes, hi : 0..MaxBytes]
           q == ring[o]
           p == [q EXCEPT !.lo = lo]
<1> USE AcmAssumed DEF Acm!Objects
<1>1. /\ o \in Acm!Objects /\ q \in Q /\ reader \in [Readers -> AcmMe]
      /\ q.lo <= q.hi /\ q.hi - q.lo <= RingSize
      /\ ring \in [Acm!Objects -> Q] /\ mux \in [Acm!Objects -> BOOLEAN]
  BY DEF AcmInv, Acm!TypeOK, AcmOrdered, AcmMe
<1>2. p \in Q /\ p.lo <= p.hi /\ p.hi - p.lo <= RingSize
  <2>1. q.lo \in Nat /\ q.hi \in 0..MaxBytes /\ q.lo <= q.hi BY <1>1
  <2>2. lo \in q.lo..q.hi OBVIOUS
  <2>3. lo \in 0..MaxBytes /\ lo <= q.hi /\ q.hi - lo <= RingSize
    BY <1>1, <2>1, <2>2
  <2>4. p.lo = lo /\ p.hi = q.hi /\ p = [lo |-> lo, hi |-> q.hi] BY <1>1
  <2> QED BY <2>1, <2>3, <2>4
<1>3. ring' = [ring EXCEPT ![o] = p] BY <1>1
<1> HIDE DEF p, q, Q
<1>4. /\ ring' \in [Acm!Objects -> Q] /\ mux' \in [Acm!Objects -> BOOLEAN]
      /\ reader' \in [Readers -> AcmMe]
  BY <1>1, <1>2, <1>3
<1>5. Acm!TypeOK' BY <1>4 DEF AcmInv, Acm!TypeOK, AcmMe, Q
<1>6. AcmOrdered'
  BY <1>1, <1>2, <1>3 DEF AcmInv, AcmOrdered, Acm!HasObject
<1>7. AcmAlone' BY <1>1 DEF AcmInv, AcmAlone, AcmReading
<1>8. AcmWhole'
  <2> SUFFICES ASSUME NEW s \in Readers
               PROVE  AcmAhead(reader[s], ring[reader[s].of])'
    BY DEF AcmWhole
  <2>1. CASE s = r
    <3>1. reader'[s] = me /\ AcmAhead(me, p) BY <1>1, <2>1 DEF p, q
    <3>2. CASE me.at = "second" BY <1>1, <1>3, <3>1, <3>2
    <3>3. CASE me.at # "second" BY <3>1, <3>3 DEF AcmAhead
    <3> QED BY <3>2, <3>3
  <2>2. CASE s # r /\ reader[s].of # o
    BY <1>1, <1>3, <2>2 DEF AcmInv, AcmWhole
  <2>3. CASE s # r /\ reader[s].of = o
    <3>1. ~AcmReading(s) BY <2>3 DEF AcmInv, AcmAlone
    <3>2. reader'[s] = reader[s] BY <1>1, <2>3
    <3>3. AcmAhead(reader[s], ring[reader[s].of]) BY DEF AcmInv, AcmWhole
    <3> QED BY <3>1, <3>2, <3>3 DEF AcmReading, AcmAhead
  <2> QED BY <2>1, <2>2, <2>3
<1> QED BY <1>5, <1>6, <1>7, <1>8 DEF AcmInv

LEMMA AcmSetUp ==
  ASSUME AcmInv, Acm!InitCdc \/ Acm!InitObject \/ Acm!InitMutex
                 \/ Acm!InitRing \/ Acm!InitFails \/ Acm!Deinit
  PROVE  AcmInv'
<1> USE AcmAssumed DEF Acm!InitCdc, Acm!InitObject, Acm!InitMutex,
        Acm!InitRing, Acm!InitFails, Acm!Deinit, Acm!rest
<1>1. UNCHANGED <<ring, mux, reader, aborted>> OBVIOUS
<1>2. Acm!TypeOK'
  <2>1. object' \in 0..MaxInits BY DEF AcmInv, Acm!TypeOK, AcmOrdered
  <2>2. initing' \in BOOLEAN BY DEF AcmInv, Acm!TypeOK
  <2> QED BY <1>1, <2>1, <2>2 DEF AcmInv, Acm!TypeOK
<1>3. AcmOrdered'
  BY <1>1 DEF AcmInv, Acm!TypeOK, AcmOrdered, Acm!HasObject
<1>4. AcmAlone' /\ AcmWhole'
  BY <1>1 DEF AcmInv, AcmAlone, AcmWhole, AcmReading
<1> QED BY <1>2, <1>3, <1>4 DEF AcmInv

(* What comes from the host makes more of what is there.                   *)
LEMMA AcmMore ==
  ASSUME NEW me \in AcmMe, NEW q \in [lo : 0..MaxBytes, hi : 0..MaxBytes],
         NEW n \in Nat, q.hi + n <= MaxBytes, AcmAhead(me, q)
  PROVE  AcmAhead(me, [q EXCEPT !.hi = @ + n])
<1> DEFINE p == [q EXCEPT !.hi = @ + n]
<1>1. p.lo = q.lo /\ p.hi = q.hi + n OBVIOUS
<1>2. /\ q.lo \in Nat /\ q.hi \in Nat /\ me.there \in Nat /\ me.got \in Nat
      /\ MaxBytes \in Nat /\ RingSize \in Nat
  BY AcmAssumed DEF AcmMe
<1> HIDE DEF p
<1>3. me.there <= q.hi - q.lo => me.there <= p.hi - p.lo BY <1>1, <1>2
<1>4. me.there <= me.got + (q.hi - q.lo)
        => me.there <= me.got + (p.hi - p.lo)
  BY <1>1, <1>2
<1> SUFFICES AcmAhead(me, p) BY DEF p
<1> QED BY <1>1, <1>3, <1>4 DEF AcmAhead

LEMMA AcmReceived ==
  ASSUME AcmInv, NEW n \in 1..RingSize, Acm!Received(n)
  PROVE  AcmInv'
<1> DEFINE Q == [lo : 0..MaxBytes, hi : 0..MaxBytes]
<1> USE AcmAssumed DEF Acm!Objects
<1>1. /\ ring \in [Acm!Objects -> Q] /\ reader \in [Readers -> AcmMe]
      /\ object \in Acm!Objects /\ n \in Nat
      /\ aborted' \in BOOLEAN
      /\ UNCHANGED <<stage, initing, object, mux, reader>>
  BY DEF AcmInv, Acm!TypeOK, AcmOrdered, AcmMe, Acm!Received
<1>2. AcmAlone'
  BY <1>1 DEF AcmInv, AcmAlone, AcmReading
<1>3. CASE stage # "ready"
  <2>1. ring' = ring BY <1>3 DEF Acm!Received
  <2>2. Acm!TypeOK' BY <1>1, <2>1 DEF AcmInv, Acm!TypeOK
  <2>3. AcmOrdered' /\ AcmWhole'
    BY <1>1, <2>1 DEF AcmInv, AcmOrdered, AcmWhole, Acm!HasObject
  <2> QED BY <1>2, <2>2, <2>3 DEF AcmInv
<1>4. CASE stage = "ready"
  <2> DEFINE q == ring[object]
             p == [q EXCEPT !.hi = @ + n]
  <2>1. /\ n <= RingSize - (q.hi - q.lo) /\ q.hi + n <= MaxBytes
        /\ ring' = [ring EXCEPT ![object] = p]
    BY <1>1, <1>4 DEF Acm!Received, Acm!Vacant
  <2>2. q \in Q /\ q.lo <= q.hi BY <1>1 DEF AcmInv, AcmOrdered
  <2>3. p.lo = q.lo /\ p.hi = q.hi + n BY <2>2
  <2>4. p \in Q /\ p.lo <= p.hi /\ p.hi - p.lo <= RingSize
    <3>1. p = [lo |-> q.lo, hi |-> q.hi + n] BY <2>2
    <3>2. q.lo \in 0..MaxBytes /\ q.hi \in Nat BY <2>2
    <3>3. q.hi + n \in 0..MaxBytes /\ q.lo <= q.hi + n
          /\ (q.hi + n) - q.lo <= RingSize
      BY <1>1, <2>1, <2>2, <3>2
    <3> QED BY <2>3, <3>1, <3>2, <3>3
  <2>5. \A me \in AcmMe : AcmAhead(me, q) => AcmAhead(me, p)
    BY <1>1, <2>1, <2>2, AcmMore
  <2> HIDE DEF p, q
  <2>6. Acm!TypeOK' BY <1>1, <2>1, <2>4 DEF AcmInv, Acm!TypeOK
  <2>7. AcmOrdered'
    BY <1>1, <2>1, <2>4 DEF AcmInv, AcmOrdered, Acm!HasObject
  <2>8. AcmWhole' BY SMTT(30), <1>1, <2>1, <2>5 DEF AcmInv, AcmWhole, q
  <2> QED BY <1>2, <2>6, <2>7, <2>8 DEF AcmInv
<1> QED BY <1>3, <1>4

LEMMA AcmTake ==
  ASSUME AcmInv, NEW r \in Readers, Acm!Take(r)
  PROVE  AcmInv'
<1> DEFINE Q == [lo : 0..MaxBytes, hi : 0..MaxBytes]
           q == ring[object]
           there(n) == Acm!Min({n, q.hi - q.lo})
           me(n) == [at |-> "first", of |-> object, want |-> n, got |-> 0,
                     to |-> 0, there |-> there(n)]
<1> USE AcmAssumed DEF Acm!Objects
<1>1. /\ ring \in [Acm!Objects -> Q] /\ reader \in [Readers -> AcmMe]
      /\ mux \in [Acm!Objects -> BOOLEAN]
      /\ object \in Acm!Objects
      /\ ring[object].lo <= ring[object].hi
      /\ ~mux[object] /\ mux' = [mux EXCEPT ![object] = TRUE]
      /\ UNCHANGED <<stage, initing, object, ring, aborted>>
  <2>1. object \in Acm!Objects
    BY DEF AcmInv, Acm!TypeOK, AcmOrdered, Acm!Take, Acm!Ready,
       Acm!HasObject
  <2>2. ring[object].lo <= ring[object].hi
    BY <2>1 DEF AcmInv, AcmOrdered
  <2> QED BY <2>1, <2>2 DEF AcmInv, Acm!TypeOK, AcmMe, Acm!Take
<1>2. PICK n \in 1..RingSize : reader' = [reader EXCEPT ![r] = me(n)]
  BY DEF Acm!Take, Acm!Start
<1>3. there(n) \in 0..RingSize /\ there(n) <= n /\ there(n) <= q.hi - q.lo
  <2>1. q \in Q /\ q.lo <= q.hi /\ q.hi - q.lo \in Nat BY <1>1
  <2>2. n \in Int /\ q.hi - q.lo \in Int BY <2>1
  <2> HIDE DEF q
  <2>3. there(n) \in {n, q.hi - q.lo} /\ there(n) <= n
        /\ there(n) <= q.hi - q.lo
    BY <2>2, LeastOfTwo
  <2> QED BY <2>1, <2>3
<1> HIDE DEF there
<1>4. me(n) \in AcmMe BY <1>1, <1>3 DEF AcmMe
<1>5. AcmAhead(me(n), q) BY <1>3 DEF AcmAhead
<1>6. me(n).at = "first" /\ me(n).of = object OBVIOUS
<1> HIDE DEF me, q
<1>7. Acm!TypeOK' BY <1>1, <1>2, <1>4 DEF AcmInv, Acm!TypeOK, AcmMe
<1>8. AcmOrdered' BY <1>1 DEF AcmInv, AcmOrdered, Acm!HasObject
<1>9. \A s \in Readers : AcmReading(s) => reader[s].of # object
  BY <1>1 DEF AcmInv, AcmAlone
<1>10. AcmAlone'
  BY <1>1, <1>2, <1>6, <1>9 DEF AcmInv, AcmAlone, AcmReading
<1>11. AcmWhole' BY <1>1, <1>2, <1>5, <1>6 DEF AcmInv, AcmWhole, q
<1> QED BY <1>7, <1>8, <1>10, <1>11 DEF AcmInv

LEMMA AcmTurns ==
  ASSUME AcmInv, NEW r \in Readers, AcmReading(r)
  PROVE  LET me == reader[r]
             q  == ring[me.of] IN
         /\ me \in AcmMe /\ me.of \in Acm!Objects
         /\ q = [lo |-> q.lo, hi |-> q.hi]
         /\ q.lo \in 0..MaxBytes /\ q.hi \in 0..MaxBytes /\ q.lo <= q.hi
         /\ q.hi - q.lo <= RingSize
         /\ AcmAhead(me, q)
BY AcmAssumed DEF AcmInv, Acm!TypeOK, AcmOrdered, AcmWhole, AcmMe

LEMMA AcmFirst ==
  ASSUME AcmInv, NEW r \in Readers, Acm!First(r)
  PROVE  AcmInv'
<1> DEFINE me == reader[r]
           q  == ring[me.of]
           n  == Acm!Piece(q, me.want)
           next == IF n = 0 THEN Acm!Ended(r, 0)
                   ELSE [me EXCEPT !.at = "second", !.got = n,
                                   !.to = q.lo + n]
<1> USE AcmAssumed
<1>1. /\ me.at = "first" /\ AcmReading(r)
      /\ ring' = [ring EXCEPT ![me.of].lo = q.lo + n]
      /\ mux' = [mux EXCEPT ![me.of] = mux[me.of] /\ n > 0]
      /\ reader' = [reader EXCEPT ![r] = next]
      /\ UNCHANGED <<stage, initing, object, aborted>>
  BY DEF Acm!First, AcmReading
<1>2. /\ me \in AcmMe /\ me.of \in Acm!Objects
      /\ q = [lo |-> q.lo, hi |-> q.hi]
      /\ q.lo \in 0..MaxBytes /\ q.hi \in 0..MaxBytes /\ q.lo <= q.hi
      /\ q.hi - q.lo <= RingSize
      /\ me.want > 0 /\ me.there <= me.want /\ me.there <= q.hi - q.lo
  BY <1>1, AcmTurns DEF AcmAhead
<1>3. /\ n \in Nat /\ n <= me.want /\ q.lo + n <= q.hi
      /\ \/ n = me.want
         \/ q.lo + n = q.hi
         \/ (q.lo + n) % RingSize = 0
      /\ q.lo < q.hi => n > 0
  <2> DEFINE lo == q.lo
             hi == q.hi
  <2>1. /\ lo \in Nat /\ hi \in Nat /\ lo <= hi /\ me.want \in Nat
        /\ n = Acm!Piece([lo |-> lo, hi |-> hi], me.want)
        /\ me.want > 0
    BY <1>2 DEF AcmMe
  <2> HIDE DEF lo, hi, n
  <2> QED BY <2>1, PieceTaken DEF lo, hi
<1>4. mux[me.of] \in BOOLEAN /\ mux[me.of]
  BY <1>1, <1>2 DEF AcmInv, AcmAlone, Acm!TypeOK
<1>5. /\ me.want \in 0..RingSize /\ me.there \in 0..RingSize
      /\ me = [at |-> "first", of |-> me.of, want |-> me.want,
               got |-> me.got, to |-> me.to, there |-> me.there]
  BY <1>1, <1>2 DEF AcmMe
<1> HIDE DEF n
<1>6. CASE n = 0
  <2>1. next = [at |-> "end", of |-> 1, want |-> 0, got |-> 0, to |-> 0,
                there |-> me.there]
    BY <1>6 DEF Acm!Ended, Acm!Out
  <2> HIDE DEF next
  <2>2. next \in AcmMe BY <1>5, <2>1 DEF AcmMe, Acm!Objects
  <2>3. ~(q.lo < q.hi) BY <1>3, <1>6
  <2>4. me.there <= 0 BY <1>2, <1>5, <2>3
  <2>5. AcmAhead(next, [q EXCEPT !.lo = q.lo + n])
    BY <1>5, <2>1, <2>4 DEF AcmAhead
  <2>6. q.lo + n \in q.lo..q.hi BY <1>2, <1>3
  <2>7. next.at = "end" BY <2>1
  <2> HIDE DEF me, q
  <2>8. mux' = [mux EXCEPT ![me.of] = FALSE]
    <3>1. ~(n > 0) BY <1>6
    <3>2. (mux[me.of] /\ n > 0) = FALSE BY <3>1
    <3> QED BY <1>1, <3>2
  <2> QED BY <1>1, <2>2, <2>5, <2>6, <2>7, <2>8, AcmTurn DEF me, q
<1>7. CASE n # 0
  <2>1. next = [at |-> "second", of |-> me.of, want |-> me.want, got |-> n,
                to |-> q.lo + n, there |-> me.there]
    BY <1>5, <1>7
  <2> HIDE DEF next
  <2>2. n \in 0..RingSize /\ q.lo + n \in 0..MaxBytes
    BY <1>2, <1>3, <1>5
  <2>3. next \in AcmMe BY <1>2, <1>5, <2>1, <2>2 DEF AcmMe
  <2>4. AcmAhead(next, [q EXCEPT !.lo = q.lo + n])
    <3> DEFINE p == [lo |-> q.lo + n, hi |-> q.hi]
    <3>1. p = [q EXCEPT !.lo = q.lo + n] BY <1>2
    <3>2. n <= me.want /\ me.there <= me.want BY <1>2, <1>3
    <3>3. me.there <= n + (q.hi - (q.lo + n)) BY <1>2, <1>3, <1>5
    <3>4. me.there <= n \/ (q.lo + n) % RingSize = 0
      <4>1. q.lo + n = q.hi => me.there <= n BY <1>2, <1>3, <1>5
      <4>2. n = me.want => me.there <= n BY <1>2
      <4> QED BY <1>3, <4>1, <4>2
    <3>5. AcmAhead(next, p) BY <2>1, <3>2, <3>3, <3>4 DEF AcmAhead
    <3> HIDE DEF p
    <3> QED BY <3>1, <3>5
  <2>5. q.lo + n \in q.lo..q.hi BY <1>2, <1>3
  <2>6. next.at = "second" /\ next.of = me.of BY <2>1
  <2> HIDE DEF me, q
  <2>7. mux' = [mux EXCEPT ![me.of] = TRUE]
    <3>1. n > 0 BY <1>3, <1>7
    <3>2. (mux[me.of] /\ n > 0) = TRUE BY <1>4, <3>1
    <3> QED BY <1>1, <3>2
  <2> QED BY <1>1, <2>3, <2>4, <2>5, <2>6, <2>7, AcmTurn DEF me, q
<1> QED BY <1>6, <1>7

LEMMA AcmSecond ==
  ASSUME AcmInv, NEW r \in Readers, Acm!Second(r)
  PROVE  AcmInv'
<1> DEFINE me == reader[r]
           q  == ring[me.of]
           n  == Acm!Piece(q, me.want - me.got)
           next == Acm!Ended(r, me.got + n)
<1> USE AcmAssumed
<1>1. /\ me.at = "second" /\ AcmReading(r)
      /\ ring' = [ring EXCEPT ![me.of].lo = q.lo + n]
      /\ mux' = [mux EXCEPT ![me.of] = FALSE]
      /\ reader' = [reader EXCEPT ![r] = next]
      /\ UNCHANGED <<stage, initing, object, aborted>>
  BY DEF Acm!Second, AcmReading
<1>2. /\ me \in AcmMe /\ me.of \in Acm!Objects
      /\ q = [lo |-> q.lo, hi |-> q.hi]
      /\ q.lo \in 0..MaxBytes /\ q.hi \in 0..MaxBytes /\ q.lo <= q.hi
      /\ q.hi - q.lo <= RingSize
      /\ me.got <= me.want /\ me.there <= me.want
      /\ me.there <= me.got + (q.hi - q.lo)
      /\ me.there <= me.got \/ q.lo % RingSize = 0
  BY <1>1, AcmTurns DEF AcmAhead
<1>3. me.want \in 0..RingSize /\ me.got \in 0..RingSize
      /\ me.there \in 0..RingSize
  BY <1>2 DEF AcmMe
<1>4. /\ n \in Nat /\ n <= me.want - me.got /\ q.lo + n <= q.hi
      /\ \/ n = me.want - me.got
         \/ q.lo + n = q.hi
         \/ n = RingSize - (q.lo % RingSize)
  <2> DEFINE lo == q.lo
             hi == q.hi
             want == me.want - me.got
  <2>1. /\ lo \in Nat /\ hi \in Nat /\ lo <= hi /\ want \in Nat
        /\ n = Acm!Piece([lo |-> lo, hi |-> hi], want)
    BY <1>2, <1>3
  <2> HIDE DEF lo, hi, n, want
  <2> QED BY SMTT(30), <2>1, PieceTaken DEF lo, hi, want
<1> HIDE DEF n
(* The second piece ends at what was wanted, or with all there is, or it   *)
(* is a whole ring: that is no less.                                       *)
<1>5. me.there <= me.got + n
  <2>1. CASE me.there <= me.got BY <1>3, <1>4, <2>1
  <2>2. CASE n = me.want - me.got BY <1>2, <1>3, <2>2
  <2>3. CASE q.lo + n = q.hi
    <3>1. n = q.hi - q.lo BY <1>2, <1>4, <2>3
    <3> QED BY <1>2, <3>1
  <2>4. CASE n = RingSize - (q.lo % RingSize) /\ q.lo % RingSize = 0
    <3>1. n = RingSize BY <2>4
    <3> QED BY <1>3, <3>1
  <2> QED BY <1>2, <1>4, <2>1, <2>2, <2>3, <2>4
<1>6. next = [at |-> "end", of |-> 1, want |-> 0, got |-> me.got + n,
              to |-> 0, there |-> me.there]
  <2> DEFINE got == me.got + n
             there == me.there
  <2> HIDE DEF me, got
  <2>1. Acm!Ended(r, got) = [Acm!Out EXCEPT !.at = "end", !.got = got,
                                            !.there = there]
    BY DEF Acm!Ended, me
  <2> HIDE DEF there
  <2>2. Acm!Ended(r, got) = [at |-> "end", of |-> 1, want |-> 0, got |-> got,
                             to |-> 0, there |-> there]
    BY <2>1 DEF Acm!Out
  <2> QED BY <2>2 DEF got, there
<1> HIDE DEF next
<1>7. me.got + n \in 0..RingSize BY <1>3, <1>4
<1>8. next \in AcmMe BY <1>3, <1>6, <1>7 DEF AcmMe, Acm!Objects
<1>9. AcmAhead(next, [q EXCEPT !.lo = q.lo + n])
  BY <1>5, <1>6 DEF AcmAhead
<1>10. q.lo + n \in q.lo..q.hi BY <1>2, <1>4
<1>11. next.at = "end" BY <1>6
<1> HIDE DEF me, q
<1> QED BY <1>1, <1>8, <1>9, <1>10, <1>11, AcmTurn DEF me, q

LEMMA AcmIdle ==
  ASSUME AcmInv, NEW r \in Readers, Acm!TakeNull(r) \/ Acm!Return(r)
  PROVE  AcmInv'
<1>1. /\ UNCHANGED <<stage, initing, object, ring, mux>>
      /\ \/ reader' = reader /\ aborted' = TRUE
         \/ reader' = [reader EXCEPT ![r] = Acm!Out] /\ aborted' = aborted
  BY DEF Acm!TakeNull, Acm!Return
<1>2. Acm!Out \in AcmMe /\ Acm!Out.at = "out"
  BY AcmAssumed DEF AcmMe, Acm!Objects, Acm!Out
<1>3. Acm!TypeOK'
  <2>1. reader' \in [Readers -> AcmMe]
    BY <1>1, <1>2 DEF AcmInv, Acm!TypeOK, AcmMe
  <2>2. aborted' \in BOOLEAN BY <1>1 DEF AcmInv, Acm!TypeOK
  <2> QED BY <1>1, <2>1, <2>2 DEF AcmInv, Acm!TypeOK, AcmMe
<1>4. AcmOrdered' BY <1>1 DEF AcmInv, AcmOrdered, Acm!HasObject
<1>5. \A s \in Readers : reader'[s] = reader[s] \/ reader'[s].at = "out"
  BY <1>1, <1>2 DEF AcmInv, Acm!TypeOK
<1>6. AcmAlone' BY <1>1, <1>5 DEF AcmInv, AcmAlone, AcmReading
<1>7. AcmWhole' BY <1>1, <1>5 DEF AcmInv, AcmWhole, AcmAhead
<1> QED BY <1>3, <1>4, <1>6, <1>7 DEF AcmInv

LEMMA AcmStays == ASSUME AcmInv, [Next]_vars PROVE AcmInv'
<1>1. CASE UNCHANGED acmDev
  BY <1>1 DEF acmDev, AcmInv, Acm!TypeOK, AcmOrdered, AcmAlone, AcmWhole,
     AcmReading, Acm!HasObject
<1>2. CASE Acm!Next
  BY <1>2, AcmSetUp, AcmReceived, AcmTake, AcmFirst, AcmSecond, AcmIdle
     DEF Acm!Next
<1> QED BY <1>1, <1>2, AcmMoves

(* Between its two pieces a reader of the serial port is never overtaken,  *)
(* and no wrap of the ring makes its read shorter than what was there.     *)
THEOREM ReadsWholeCorrect == Spec => []ReadsWhole
<1>1. Init => AcmInv BY AcmStart
<1>2. AcmInv /\ [Next]_vars => AcmInv' BY AcmStays
<1>3. AcmInv => ReadsWhole
  <2> SUFFICES ASSUME AcmInv, NEW r \in Readers
               PROVE  LET me == reader[r] IN
                      /\ me.at = "second" => ring[me.of].lo = me.to
                      /\ me.at = "end" => me.got >= me.there
    BY DEF ReadsWhole, Acm!ReadsWhole
  <2>1. reader[r].got \in Int /\ reader[r].there \in Int
    BY AcmAssumed DEF AcmInv, Acm!TypeOK
  <2> QED BY <2>1 DEF AcmInv, AcmWhole, AcmAhead
<1> QED BY <1>1, <1>2, <1>3, PTL DEF Spec

-----------------------------------------------------------------------------
(* The types of every part.  Those of the two parts with proofs of their   *)
(* own are theirs; in the other parts they belong to the invariant.        *)
LEMMA CameraTypeInit == ASSUME Init PROVE CP!TypeInv
<1>1. CP!Init BY DEF Init, Camera!Init, CP!Init
<1>2. CP!UvcStreamAssumption
  BY ServicesAssumption DEF Camera!UvcStreamAssumption,
     CP!UvcStreamAssumption
<1> QED BY <1>1, <1>2, CP!TypeInit

LEMMA CameraTypeStays == ASSUME CP!TypeInv, [Next]_vars PROVE CP!TypeInv'
<1>1. CP!UvcStreamAssumption
  BY ServicesAssumption DEF Camera!UvcStreamAssumption,
     CP!UvcStreamAssumption
<1> QED BY <1>1, CameraMoves, CP!TypeStep

LEMMA CameraTypeHolds == ASSUME CP!TypeInv PROVE Camera!TypeOK
<1>1. CP!TypeOK BY CP!TypeHolds
<1> QED
  BY <1>1 DEF Camera!TypeOK, CP!TypeOK, Camera!Commands, CP!Commands,
     Camera!Bits, CP!Bits

LEMMA UsbLifeTypeHolds == ASSUME UP!IInv PROVE UsbLife!TypeOK
<1>1. UP!TypeOK BY DEF UP!IInv
<1> QED
  BY <1>1 DEF UsbLife!TypeOK, UP!TypeOK, UsbLife!TasksTyped, UP!TasksTyped,
     UsbLife!UrbsTyped, UP!UrbsTyped, UsbLife!PortTyped, UP!PortTyped,
     UsbLife!Owners, UP!Owners, UsbLife!Procs, UP!Procs, UsbLife!Ports,
     UP!Ports, UsbLife!Events, UP!Events

(* Every part keeps its types, whatever its bounds and its constants.      *)
THEOREM TypeCorrect == Spec => []TypeOK
<1>1. Spec => []CP!TypeInv
  <2>1. CP!TypeInv /\ [Next]_vars => CP!TypeInv' BY CameraTypeStays
  <2> QED BY CameraTypeInit, <2>1, PTL DEF Spec
<1>2. Spec => []SuTyped
  BY StartUpInvariant, PTL
<1>3. Spec => []UP!IInv
  <2>1. UP!IInv /\ [Next]_vars => UP!IInv' BY UsbLifeStays
  <2> QED BY UsbLifeInit, <2>1, PTL DEF Spec
<1>4. Spec => []OtaInv
  <2>1. OtaInv /\ [Next]_vars => OtaInv' BY OtaStays
  <2> QED BY OtaStart, <2>1, PTL DEF Spec
<1>5. Spec => []FramesInv
  <2>1. FramesInv /\ [Next]_vars => FramesInv' BY FramesStays
  <2> QED BY FramesStart, <2>1, PTL DEF Spec
<1>6. Spec => []NetInv
  <2>1. NetInv /\ [Next]_vars => NetInv' BY NetStays
  <2> QED BY NetStart, <2>1, PTL DEF Spec
<1>7. Spec => []AcmInv
  <2>1. AcmInv /\ [Next]_vars => AcmInv' BY AcmStays
  <2> QED BY AcmStart, <2>1, PTL DEF Spec
<1>8. /\ CP!TypeInv /\ SuTyped /\ UP!IInv /\ OtaInv /\ FramesInv
      /\ NetInv /\ AcmInv /\ LedInv /\ HistInv /\ GateInv /\ UdInv /\ DfuInv
      => TypeOK
  BY CameraTypeHolds, SuTypeHolds, UsbLifeTypeHolds
     DEF TypeOK, OtaInv, FramesInv, NetInv, AcmInv, LedInv, LedTyped,
         HistInv, GateInv, UdInv, UdTyped, DfuInv
<1> QED
  BY <1>1, <1>2, <1>3, <1>4, <1>5, <1>6, <1>7, <1>8, LedInvariant,
     HistInvariant, GateInvariant, UdInvariant, DfuInvariant, PTL
=============================================================================
