----------------------------- MODULE UvcFrames ------------------------------
(***************************************************************************)
(* The stream of a camera (uvc_stream.c): the USB task assembles frames    *)
(* from the payloads of isochronous packets in one buffer and swaps it     *)
(* with a second one when a frame ends; the sample task copies the second  *)
(* one for the callback of the user.  They share the stream handle, whose  *)
(* mutex guards the second buffer, and the USB task frees the handle when  *)
(* the stream stops.  UvcStream models when it starts and stops it.        *)
(*                                                                         *)
(* Any payload may come next: the camera's own, or, for a packet behind a  *)
(* bad one, an old one, because the index into the data counts only good   *)
(* packets.  A byte is the number of the frame it was received for.        *)
(***************************************************************************)
EXTENDS Naturals

CONSTANTS
  XferSize,    \* size of the transfer buffers and of the callback's
  LastSeq,     \* bound: frames of a stream
  MaxStreams   \* bound: streams opened

(* The buffers are of one size, as in the guide and the test of the        *)
(* component, so that _uvc_populate_frame never finds its own too small.   *)
UvcFramesAssumption ==
  {XferSize, LastSeq, MaxStreams} \subseteq Nat \ {0}

VARIABLES
  usb,          \* where the USB task is with the stream
  handle,       \* the stream handle is there
  running,      \* its fields: running,
  fid, gotBytes, seq,    \* the frame being assembled,
  out, buffer,           \* in buffer[out], and in the other
  holdBytes, holdSeq,    \* the one that was published last,
  frame,                 \* the frame of the callback,
  holder,                \* and who holds cb_mutex
  sample,       \* where the sample task is
  notified,     \* its notification
  lastSeq,      \* and its local
  stopDone,     \* SAMPLE_PROC_STOP_DONE
  streams

assembly == <<fid, gotBytes, seq, out, buffer, holdBytes, holdSeq>>
task     == <<sample, lastSeq, frame>>
vars     == <<usb, handle, running, assembly, holder, task, notified,
              stopDone, streams>>

Bytes == [1..XferSize -> 0..LastSeq + 1]
Other(b) == 3 - b

TypeOK ==
  /\ usb \in {"closed", "streaming", "swap", "notify", "await", "stopped"}
  /\ sample \in {"none", "start", "lock", "test", "sleep", "copy",
                 "callback", "finish"}
  /\ {handle, running, notified, stopDone} \subseteq BOOLEAN
  /\ fid \in 0..1 /\ seq \in 0..LastSeq + 1 /\ out \in 1..2
  /\ buffer \in [1..2 -> Bytes] /\ {gotBytes, holdBytes} \subseteq 0..XferSize
  /\ {holdSeq, lastSeq} \subseteq 0..LastSeq
  /\ frame \in [seq : 0..LastSeq, bytes : 0..XferSize, data : Bytes]
  /\ holder \in {"none", "sample"} /\ streams \in 0..MaxStreams

NoBytes == [i \in 1..XferSize |-> 0]
NoFrame == [seq |-> 0, bytes |-> 0, data |-> NoBytes]

Init ==
  /\ usb = "closed" /\ handle = FALSE /\ running = FALSE
  /\ fid = 0 /\ gotBytes = 0 /\ seq = 0 /\ out = 1
  /\ buffer = [b \in 1..2 |-> NoBytes] /\ holdBytes = 0 /\ holdSeq = 0
  /\ frame = NoFrame /\ holder = "none"
  /\ sample = "none" /\ notified = FALSE /\ lastSeq = 0 /\ stopDone = FALSE
  /\ streams = 0

-----------------------------------------------------------------------------
(* uvc_stream_open_ctrl, which clears the handle but not the buffers, and  *)
(* uvc_stream_start.  When the sample task cannot be created the handle    *)
(* is closed again; it also ends when there is no memory for it.           *)
Open ==
  /\ usb = "closed" /\ streams < MaxStreams /\ streams' = streams + 1
  /\ handle' = TRUE /\ running' = TRUE
  /\ fid' = 0 /\ gotBytes' = 0 /\ seq' = 1 /\ out' = 1
  /\ holdBytes' = 0 /\ holdSeq' = 0 /\ frame' = [frame EXCEPT !.seq = 0,
                                                              !.bytes = 0]
  /\ \/ /\ usb' = "streaming" /\ sample' = "start" /\ notified' = FALSE
        /\ lastSeq' = 0
     \/ usb' = "stopped" /\ UNCHANGED <<sample, notified, lastSeq>>
  /\ UNCHANGED <<buffer, holder, stopDone>>

(* _uvc_process_payload: a payload that is empty, bogus or marked bad      *)
(* changes nothing.  Another drops what is there if the frame's bit flips  *)
(* or the buffer would overflow, and is appended otherwise.                *)
Got(bit) == IF fid # bit THEN 0 ELSE gotBytes

Payload(bit, length, last) ==
  /\ usb = "streaming" /\ seq <= LastSeq
  /\ fid' = bit
  /\ IF Got(bit) + length > XferSize
     THEN gotBytes' = 0 /\ UNCHANGED <<buffer, usb>>
     ELSE /\ gotBytes' = Got(bit) + length
          /\ buffer' = [buffer EXCEPT ![out] =
               [i \in 1..XferSize |->
                  IF i \in Got(bit) + 1..Got(bit) + length THEN seq
                  ELSE @[i]]]
          /\ usb' = IF length > 0 /\ last THEN "swap" ELSE usb
  /\ UNCHANGED <<handle, running, seq, out, holdBytes, holdSeq, holder, task,
                 notified, stopDone, streams>>

(* Variant: the mutex of the callback is not asked for.                    *)
SwapBuffersAnyway ==
  /\ usb = "swap" /\ usb' = "streaming"
  /\ seq' = seq + 1 /\ gotBytes' = 0
  /\ out' = Other(out) /\ holdBytes' = gotBytes /\ holdSeq' = seq
  /\ notified' = TRUE
  /\ UNCHANGED <<handle, running, fid, buffer, holder, task, stopDone,
                 streams>>

(* _uvc_swap_buffers: publishes the frame and wakes the sample task.  The  *)
(* time to wait for the mutex comes out as zero ticks, for the comparison  *)
(* is inside the conversion: a frame is dropped when the other is copied.  *)
SwapBuffers ==
  /\ usb = "swap" /\ usb' = "streaming"
  /\ seq' = seq + 1 /\ gotBytes' = 0
  /\ IF holder = "none"
     THEN /\ out' = Other(out) /\ holdBytes' = gotBytes /\ holdSeq' = seq
          /\ notified' = TRUE
     ELSE UNCHANGED <<out, holdBytes, holdSeq, notified>>
  /\ UNCHANGED <<handle, running, fid, buffer, holder, task, stopDone,
                 streams>>

(* uvc_stream_stop: running is cleared without the mutex, then the task is *)
(* woken.                                                                  *)
Stop ==
  /\ usb = "streaming" /\ usb' = "notify" /\ running' = FALSE
  /\ UNCHANGED <<handle, assembly, holder, task, notified, stopDone,
                 streams>>

(* Variant: it is not woken.                                               *)
NotifyNot ==
  /\ usb = "notify" /\ usb' = "await"
  /\ UNCHANGED <<handle, running, assembly, holder, task, notified, stopDone,
                 streams>>

Notify ==
  /\ usb = "notify" /\ usb' = "await" /\ notified' = TRUE
  /\ UNCHANGED <<handle, running, assembly, holder, task, stopDone, streams>>

Await ==
  /\ usb = "await" /\ stopDone /\ usb' = "stopped" /\ stopDone' = FALSE
  /\ UNCHANGED <<handle, running, assembly, holder, task, notified, streams>>

(* uvc_stream_close.                                                       *)
Close ==
  /\ usb = "stopped" /\ usb' = "closed" /\ handle' = FALSE
  /\ UNCHANGED <<running, assembly, holder, task, notified, stopDone,
                 streams>>

-----------------------------------------------------------------------------
(* The sample task.                                                        *)
Start ==
  /\ sample = "start" /\ sample' = "lock" /\ stopDone' = FALSE
  /\ UNCHANGED <<usb, handle, running, assembly, holder, lastSeq, frame,
                 notified, streams>>

Lock ==
  /\ sample = "lock" /\ holder = "none"
  /\ holder' = "sample" /\ sample' = "test"
  /\ UNCHANGED <<usb, handle, running, assembly, lastSeq, frame, notified,
                 stopDone, streams>>

(* With the mutex: nothing new, the end, or a frame to copy.               *)
Test ==
  /\ sample = "test"
  /\ sample' = IF running THEN IF lastSeq = holdSeq THEN "sleep" ELSE "copy"
                          ELSE "finish"
  /\ lastSeq' = IF sample' = "copy" THEN holdSeq ELSE lastSeq
  /\ frame' = IF sample' = "copy"
              THEN [frame EXCEPT !.seq = holdSeq, !.bytes = 0] ELSE frame
  /\ holder' = IF sample' = "copy" THEN holder ELSE "none"
  /\ UNCHANGED <<usb, handle, running, assembly, notified, stopDone, streams>>

Wake ==
  /\ sample = "sleep" /\ notified
  /\ notified' = FALSE /\ sample' = "lock"
  /\ UNCHANGED <<usb, handle, running, assembly, holder, lastSeq, frame,
                 stopDone, streams>>

(* _uvc_populate_frame, byte by byte.                                      *)
Copy ==
  /\ sample = "copy" /\ frame.bytes < holdBytes
  /\ LET i == frame.bytes + 1 IN
       frame' = [frame EXCEPT !.bytes = i,
                              !.data[i] = buffer[Other(out)][i]]
  /\ UNCHANGED <<usb, handle, running, assembly, holder, sample, lastSeq,
                 notified, stopDone, streams>>

Copied ==
  /\ sample = "copy" /\ frame.bytes = holdBytes
  /\ holder' = "none" /\ sample' = "callback"
  /\ UNCHANGED <<usb, handle, running, assembly, lastSeq, frame, notified,
                 stopDone, streams>>

(* The callback of the user returns.                                       *)
Callback ==
  /\ sample = "callback" /\ sample' = "lock"
  /\ UNCHANGED <<usb, handle, running, assembly, holder, lastSeq, frame,
                 notified, stopDone, streams>>

Finish ==
  /\ sample = "finish" /\ sample' = "none" /\ stopDone' = TRUE
  /\ UNCHANGED <<usb, handle, running, assembly, holder, lastSeq, frame,
                 notified, streams>>

-----------------------------------------------------------------------------
Usb ==
  \/ Open \/ SwapBuffers \/ Stop \/ Notify \/ Await \/ Close
  \/ \E bit \in 0..1, length \in 0..XferSize, last \in BOOLEAN :
       Payload(bit, length, last)

Sample == Start \/ Lock \/ Test \/ Wake \/ Copy \/ Copied \/ Callback \/ Finish

(* What the end of a stream needs: the sample task runs, and the callback  *)
(* returns; the USB task goes on once it stops the stream.                 *)
Scheduled == Sample \/ Notify \/ Await

Next == Usb \/ Sample

Spec == Init /\ [][Next]_vars /\ WF_vars(Scheduled)

-----------------------------------------------------------------------------
(* The callback gets whole frames: every byte belongs to the frame, which  *)
(* is of the size it was published with although the USB task goes on      *)
(* receiving; and as long as the sample task uses the handle, which the    *)
(* USB task frees, it is there.                                            *)
FrameIntact ==
  /\ sample = "callback" =>
       /\ frame.seq = lastSeq /\ frame.bytes > 0
       /\ \A i \in 1..frame.bytes : frame.data[i] = frame.seq
  /\ sample \notin {"none", "finish"} => handle

(* uvc_stream_stop, which waits without limit for the sample task, is open *)
(* until it returns, wherever that task is when running is cleared.        *)
StopOpen == usb = "await"
=============================================================================
