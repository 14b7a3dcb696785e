------------------------------- MODULE CdcAcm -------------------------------
(***************************************************************************)
(* The serial port of the USB device, tusb_cdc_acm.c on cdc.c: what the    *)
(* host sends goes from the stack's FIFO into a ring of unread bytes, from *)
(* which the tasks of the application read.  The object is built in steps, *)
(* and the usbd task and the readers find it half built.                   *)
(*                                                                         *)
(* The bytes the ring takes are numbered; those it has no room for are     *)
(* lost, which changes nothing here.  An object that cdc.c drops is not    *)
(* freed: who has it goes on with it.  The writing side, the events of the *)
(* line and the application's callbacks are left out.                      *)
(***************************************************************************)
EXTENDS Naturals, FiniteSetsExt

CONSTANTS
  Readers,   \* the tasks that read
  RingSize,  \* rx_unread_buf_sz
  MaxBytes,  \* bound: the bytes a ring takes
  MaxInits   \* bound: the objects allocated

CdcAcmAssumption ==
  /\ RingSize \in Nat \ {0} /\ MaxBytes \in Nat /\ MaxInits \in Nat \ {0}

VARIABLES
  stage,     \* how much of cdc_obj there is
  initing,   \* tusb_cdc_acm_init is under way
  object,    \* the object in subclass_obj, or the last one
  ring,      \* per object, the first byte in rx_unread_buf and the next one
  mux,       \* per object, ringbuf_read_mux is taken
  reader,    \* the readers
  aborted    \* abort, or a NULL handle

vars == <<stage, initing, object, ring, mux, reader, aborted>>

Objects == 1..MaxInits

(* A reader: its object, what it asks for, has got, the byte after that,   *)
(* and what it was to get.                                                 *)
Out == [at |-> "out", of |-> 1, want |-> 0, got |-> 0, to |-> 0, there |-> 0]

TypeOK ==
  /\ stage \in {"none", "cdc", "object", "mutex", "ready"}
  /\ {initing, aborted} \subseteq BOOLEAN /\ object \in 0..MaxInits
  /\ ring \in [Objects -> [lo : 0..MaxBytes, hi : 0..MaxBytes]]
  /\ mux \in [Objects -> BOOLEAN]
  /\ reader \in [Readers -> [at : {"out", "first", "second", "end"},
                             of : Objects, want : 0..RingSize,
                             got : 0..RingSize, to : 0..MaxBytes,
                             there : 0..RingSize]]

Init ==
  /\ stage = "none" /\ initing = FALSE /\ object = 0
  /\ ring = [o \in Objects |-> [lo |-> 0, hi |-> 0]]
  /\ mux = [o \in Objects |-> FALSE]
  /\ reader = [r \in Readers |-> Out]
  /\ aborted = FALSE

-----------------------------------------------------------------------------
(* tusb_cdc_acm_init.  tinyusb_cdc_init refuses an interface that is set   *)
(* up, or half of it.                                                      *)
rest == <<ring, mux, reader, aborted>>

InitCdc ==
  /\ stage = "none" /\ ~initing /\ ~aborted /\ object < MaxInits
  /\ stage' = "cdc" /\ initing' = TRUE
  /\ UNCHANGED <<object, rest>>

InitObject ==
  /\ stage = "cdc" /\ initing /\ ~aborted
  /\ stage' = "object" /\ object' = object + 1
  /\ UNCHANGED <<initing, rest>>

InitMutex ==
  /\ stage = "object" /\ initing /\ ~aborted
  /\ stage' = "mutex"
  /\ UNCHANGED <<initing, object, rest>>

InitRing ==
  /\ stage = "mutex" /\ initing /\ ~aborted
  /\ stage' = "ready" /\ initing' = FALSE
  /\ UNCHANGED <<object, rest>>

(* Memory is short: free_obj, and cdc_obj remains.                         *)
InitFails ==
  /\ initing /\ ~aborted /\ stage' = "cdc" /\ initing' = FALSE
  /\ UNCHANGED <<object, rest>>

(* tinyusb_cdc_deinit, by the task that set the interface up.              *)
Deinit ==
  /\ stage # "none" /\ ~initing /\ ~aborted /\ stage' = "none"
  /\ UNCHANGED <<initing, object, rest>>

-----------------------------------------------------------------------------
(* tud_cdc_rx_cb, for what the stack's FIFO holds: the ring takes all that *)
(* was read, or nothing; without an object it is dropped.                  *)
HasObject == stage \in {"object", "mutex", "ready"}
Vacant    == RingSize - (ring[object].hi - ring[object].lo)

Received(n) ==
  /\ HasObject /\ ~aborted
  /\ stage = "ready" => n <= Vacant /\ ring[object].hi + n <= MaxBytes
  /\ aborted' = (stage # "ready")
  /\ ring' = IF stage = "ready" THEN [ring EXCEPT ![object].hi = @ + n]
             ELSE ring
  /\ UNCHANGED <<stage, initing, object, mux, reader>>

-----------------------------------------------------------------------------
(* tinyusb_cdcacm_read.  A second reader does not wait for the mutex.      *)
Ready(r) == HasObject /\ ~aborted /\ reader[r].at = "out"

Start(r, n) ==
  reader' = [reader EXCEPT ![r] =
    [at |-> "first", of |-> object, want |-> n, got |-> 0, to |-> 0,
     there |-> Min({n, ring[object].hi - ring[object].lo})]]

(* Variant: the mutex is not tried.                                        *)
TakeAlways(r) ==
  /\ Ready(r) /\ stage = "ready"
  /\ mux' = [mux EXCEPT ![object] = TRUE]
  /\ \E n \in 1..RingSize : Start(r, n)
  /\ UNCHANGED <<stage, initing, object, ring, aborted>>

Take(r) ==
  /\ Ready(r) /\ stage = "ready" /\ ~mux[object]
  /\ mux' = [mux EXCEPT ![object] = TRUE]
  /\ \E n \in 1..RingSize : Start(r, n)
  /\ UNCHANGED <<stage, initing, object, ring, aborted>>

(* The handle of the mutex, or of the ring, is still NULL.                 *)
TakeNull(r) ==
  /\ Ready(r) /\ stage # "ready" /\ aborted' = TRUE
  /\ UNCHANGED <<stage, initing, object, ring, mux, reader>>

(* read_from_rx_unread_to_buffer: xRingbufferReceiveUpTo gives what is     *)
(* there, not across the end of the ring; the copy included.               *)
Piece(q, n) == Min({n, q.hi - q.lo, RingSize - (q.lo % RingSize)})

Ended(r, n) == [Out EXCEPT !.at = "end", !.got = n,
                           !.there = reader[r].there]

(* Nothing there: the mutex is given back.                                 *)
First(r) ==
  LET me == reader[r]
      q  == ring[me.of]
      n  == Piece(q, me.want)
  IN /\ me.at = "first" /\ ~aborted
     /\ ring' = [ring EXCEPT ![me.of].lo = @ + n]
     /\ mux' = [mux EXCEPT ![me.of] = @ /\ n > 0]
     /\ reader' = [reader EXCEPT ![r] =
          IF n = 0 THEN Ended(r, 0)
          ELSE [me EXCEPT !.at = "second", !.got = n, !.to = q.lo + n]]
     /\ UNCHANGED <<stage, initing, object, aborted>>

(* The bytes that are wrapped.                                             *)
Second(r) ==
  LET me == reader[r]
      q  == ring[me.of]
      n  == Piece(q, me.want - me.got)
  IN /\ me.at = "second" /\ ~aborted
     /\ ring' = [ring EXCEPT ![me.of].lo = @ + n]
     /\ mux' = [mux EXCEPT ![me.of] = FALSE]
     /\ reader' = [reader EXCEPT ![r] = Ended(r, me.got + n)]
     /\ UNCHANGED <<stage, initing, object, aborted>>

Return(r) ==
  /\ reader[r].at = "end" /\ ~aborted /\ reader' = [reader EXCEPT ![r] = Out]
  /\ UNCHANGED <<stage, initing, object, ring, mux, aborted>>

Next ==
  \/ InitCdc \/ InitObject \/ InitMutex \/ InitRing \/ InitFails \/ Deinit
  \/ \E n \in 1..RingSize : Received(n)
  \/ \E r \in Readers : Take(r) \/ TakeNull(r) \/ First(r) \/ Second(r)
                        \/ Return(r)

Spec == Init /\ [][Next]_vars

-----------------------------------------------------------------------------
(* "Take a mutex to proceed two uninterrupted read operations": what a     *)
(* reader's second piece follows is its first one, and it gets all that    *)
(* was in the ring when it took the mutex, up to what it asked for, even   *)
(* while bytes come, the ring wraps or the interface is set up anew.       *)
ReadsWhole ==
  \A r \in Readers :
    LET me == reader[r] IN
    /\ me.at = "second" => ring[me.of].lo = me.to
    /\ me.at = "end" => me.got >= me.there
=============================================================================
