------------------------------- MODULE UsbCdc -------------------------------
(***************************************************************************)
(* The bytes on their way through the USB CDC host driver (esp_usbh_cdc.c) *)
(* to and from the modem:                                                  *)
(*                                                                         *)
(*   writers    tasks in usbh_cdc_write_bytes: AT commands and PPP output; *)
(*   data task  _cdc_data_task, between the ring buffers and the URBs of   *)
(*              the two bulk pipes;                                        *)
(*   reader     _usb_data_recv_task of the DTE (esp_modem_usb_dte.c), the  *)
(*              only caller of usbh_cdc_read_bytes.                        *)
(*                                                                         *)
(* A ring buffer is safe by itself, but its length is kept beside it, in a *)
(* counter of its own: a push sends first and counts afterwards.  What a   *)
(* task does with a counter that only it reads is one step with its ring   *)
(* access; the count after a push is a step of its own.                    *)
(*                                                                         *)
(* Bytes are numbered in the order in which they enter a ring (out) or     *)
(* arrive (in); every third byte that arrives is a newline.  A             *)
(* disconnect restarts the gateway and ends the behaviour.                 *)
(***************************************************************************)
EXTENDS Integers, SequencesExt, FiniteSetsExt

CONSTANTS
  Writers,    (* Tasks that write.                                         *)
  OutUrbs,    (* URBs of the bulk-out pipe: 4 in the build.                *)
  InUrbs,     (* Number of URBs of the bulk-in pipe: 4 in the build.       *)
  RingSize,   (* Size of either ring buffer.                               *)
  UrbSize,    (* Bytes that an URB takes.                                  *)
  LineSize,   (* line_buffer_size of the DTE.                              *)
  MaxOut,     (* Bound on the bytes written.                               *)
  MaxIn,      (* Bound on the bytes that arrive.                           *)
  Failures    (* A bulk-out transfer may be done without being completed,  *)
              (* and an error may halt either pipe.                        *)

ASSUME SizesAssumption ==
  /\ OutUrbs # {} /\ IsFiniteSet(OutUrbs)
  /\ {InUrbs, RingSize, UrbSize} \subseteq Nat \ {0}
  /\ LineSize \in Nat \ {0, 1}
  /\ {MaxOut, MaxIn} \subseteq Nat
  /\ Failures \in BOOLEAN

VARIABLES
  outRing,   (* s_out_ringbuf                                              *)
  outLen,    (* s_out_buffered_data_len                                    *)
  writer,    (* where each writer is, and the bytes it brings              *)
  pending,   (* pendding_urb: the bulk-out URBs without a transfer         *)
  payload,   (* the data buffer of each bulk-out URB                       *)
  outPipe,   (* bulk-out URBs enqueued, in order                           *)
  outHalted, (* an error has halted the bulk-out pipe (HCD)                *)
  inFree,    (* number of bulk-in URBs enqueued                            *)
  inHalted,  (* an error has halted the bulk-in pipe (HCD)                 *)
  events,    (* data_queue: URBs done, each kept with its event, and errors*)
  dataPc,    (* where the data task is                                     *)
  held,      (* the payload it is pushing                                  *)
  inRing,    (* s_in_ringbuf                                               *)
  inLen,     (* s_in_buffered_data_len                                     *)
  reader,    (* where the reader is, for how many bytes, with which mode   *)
  line,      (* the DTE's line buffer                                      *)
  written,   (* ghost: number of bytes accepted from the writers           *)
  sent,      (* ghost: bytes that reached the modem                        *)
  arrived,   (* ghost: number of bytes from the modem                      *)
  handed,    (* ghost: bytes passed to handle_line or receive_cb           *)
  mishaps    (* ghost: what went wrong so far                              *)

outSide == <<outRing, outLen, writer, pending, payload, outPipe, outHalted,
             written, sent>>
inTask  == <<inFree, inHalted, dataPc, held, arrived>>
inRead  == <<inRing, inLen, reader, line, handed>>
inSide  == <<inTask, inRead>>
vars    == <<outSide, inSide, events, mishaps>>

(* failed: a bulk-out transfer was not completed.  dropped: the in ring    *)
(* stayed full and a payload was skipped.  overtaken: the reader took bytes*)
(* that the data task has not counted yet.  cut: a read of one byte timed  *)
(* out and its -1 shortened the line; wrapped: and there was no byte left  *)
(* to lose.  oversized: a read of 0 bytes failed and its -1 was passed on. *)
Mishaps == {"failed", "dropped", "overtaken", "cut", "wrapped", "oversized"}

Note(mishap) == mishaps' = mishaps \cup {mishap}

NewLine(byte) == byte % 3 = 0
Numbers(from, n) == [i \in 1..n |-> from + i]

(* xRingbufferReceiveUpTo: what is contiguous in the buffer, up to n bytes *)
(* of it, so any part from the front when the data wraps around.           *)
Takes(ring, n) == 1..Min({n, Len(ring)})
First(ring, k) == SubSeq(ring, 1, k)
Rest(ring, k)  == SubSeq(ring, k + 1, Len(ring))

(* The ready bit is set once all URBs of both pipes are enqueued.  Those of*)
(* the out pipe start empty, and are on their way to the pending list.     *)
Init ==
  /\ outRing = <<>>
  /\ outLen = 0
  /\ writer = [w \in Writers |-> [pc |-> "idle", bytes |-> 0]]
  /\ pending = {}
  /\ payload = [u \in OutUrbs |-> <<>>]
  /\ outPipe = SetToSeq(OutUrbs)
  /\ outHalted = FALSE
  /\ inFree = InUrbs
  /\ inHalted = FALSE
  /\ events = <<>>
  /\ dataPc = "wait"
  /\ held = <<>>
  /\ inRing = <<>>
  /\ inLen = 0
  /\ reader = [pc |-> "loop", want |-> 0, ppp |-> FALSE]
  /\ line = <<>>
  /\ written = 0
  /\ sent = <<>>
  /\ arrived = 0
  /\ handed = <<>>
  /\ mishaps = {}

-----------------------------------------------------------------------------
(* usbh_cdc_write_bytes, under s_usb_write_mux.                            *)

Lock(w) ==
  /\ \A v \in Writers : writer[v].pc = "idle"
  /\ \E n \in 1..(MaxOut - written) :
       writer' = [writer EXCEPT ![w] = [pc |-> "send", bytes |-> n]]
  /\ UNCHANGED <<outRing, outLen, pending, payload, outPipe, outHalted,
                 written, sent, inSide, events, mishaps>>

(* xRingbufferSend takes all of the bytes, or after 200 ms none of them.   *)
Send(w) ==
  LET n == writer[w].bytes
  IN  /\ writer[w].pc = "send"
      /\ \/ /\ Len(outRing) + n <= RingSize
            /\ outRing' = outRing \o Numbers(written, n)
            /\ written' = written + n
            /\ writer' = [writer EXCEPT ![w].pc = "count"]
         \/ /\ Len(outRing) + n > RingSize
            /\ writer' = [writer EXCEPT ![w] = [pc |-> "idle", bytes |-> 0]]
            /\ UNCHANGED <<outRing, written>>
      /\ UNCHANGED <<outLen, pending, payload, outPipe, outHalted, sent,
                     inSide, events, mishaps>>

(* Variant: a write counts as one item.                                    *)
CountAsItem(w) ==
  /\ writer[w].pc = "count"
  /\ outLen' = outLen + 1
  /\ writer' = [writer EXCEPT ![w] = [pc |-> "idle", bytes |-> 0]]
  /\ UNCHANGED <<outRing, pending, payload, outPipe, outHalted, written,
                 sent, inSide, events, mishaps>>

Count(w) ==
  /\ writer[w].pc = "count"
  /\ outLen' = outLen + writer[w].bytes
  /\ writer' = [writer EXCEPT ![w] = [pc |-> "idle", bytes |-> 0]]
  /\ UNCHANGED <<outRing, pending, payload, outPipe, outHalted, written,
                 sent, inSide, events, mishaps>>

-----------------------------------------------------------------------------
(* The data task: _processing_out_pipe.                                    *)

(* hcd_urb_enqueue refuses an URB when its pipe is halted.  Its result is  *)
(* ignored: that URB, with its bytes, is then in no list any more.         *)
Enqueued(urb) == IF outHalted THEN outPipe ELSE Append(outPipe, urb)

(* Variant: the URB stays in the list.                                     *)
SendNextKeepsUrb(idle) ==
  IF outLen = 0 \/ outRing = <<>>
    THEN /\ pending' = idle
         /\ UNCHANGED <<outRing, outLen, payload, outPipe>>
    ELSE \E u \in idle, k \in Takes(outRing, UrbSize) :
           /\ payload' = [payload EXCEPT ![u] = First(outRing, k)]
           /\ outRing' = Rest(outRing, k)
           /\ outLen' = outLen - k
           /\ outPipe' = Enqueued(u)
           /\ pending' = idle

(* With data counted and in the ring, an idle URB takes some of it.        *)
SendNext(idle) ==
  IF outLen = 0 \/ outRing = <<>>
    THEN /\ pending' = idle
         /\ UNCHANGED <<outRing, outLen, payload, outPipe>>
    ELSE \E u \in idle, k \in Takes(outRing, UrbSize) :
           /\ payload' = [payload EXCEPT ![u] = First(outRing, k)]
           /\ outRing' = Rest(outRing, k)
           /\ outLen' = outLen - k
           /\ outPipe' = Enqueued(u)
           /\ pending' = idle \ {u}

NextEvent(pipe) ==
  /\ dataPc = "wait"
  /\ events # <<>>
  /\ Head(events).pipe = pipe
  /\ events' = Tail(events)

(* Variant: the status of a done URB is not looked at.                     *)
OutUrbDoneRegardless ==
  /\ NextEvent("out")
  /\ SendNext(pending \cup {Head(events).urb})
  /\ UNCHANGED <<outHalted, writer, written, sent, inSide, mishaps>>

(* A done URB is idle again, or, when it was not completed, retried.       *)
OutUrbDone ==
  /\ NextEvent("out")
  /\ LET urb == Head(events).urb
     IN  IF Head(events).ok
           THEN SendNext(pending \cup {urb})
           ELSE /\ outPipe' = Enqueued(urb)
                /\ UNCHANGED <<outRing, outLen, pending, payload>>
  /\ UNCHANGED <<outHalted, writer, written, sent, inSide, mishaps>>

(* Variant: the receive blocks until there is an event.                    *)
PollNever == FALSE /\ UNCHANGED vars

(* No event for a tick: the task looks for data to send by itself.         *)
Poll ==
  /\ dataPc = "wait"
  /\ events = <<>>
  /\ pending # {}
  /\ SendNext(pending)
  /\ UNCHANGED <<outHalted, writer, written, sent, inSide, events, mishaps>>

(* An error event is only logged: the URB of the failed transfer is not    *)
(* dequeued and the pipe not cleared, so that it stays halted.             *)
PipeError ==
  /\ NextEvent("error")
  /\ UNCHANGED <<outSide, inSide, mishaps>>

-----------------------------------------------------------------------------
(* The data task: _processing_in_pipe.                                     *)

InUrbDone ==
  /\ NextEvent("in")
  /\ held' = Head(events).bytes
  /\ dataPc' = "push"
  /\ UNCHANGED <<outSide, inFree, inHalted, arrived, inRead, mishaps>>

(* hcd_urb_enqueue on the bulk-in pipe: as for the other one.              *)
GiveBack == inFree' = IF inHalted THEN inFree ELSE inFree + 1

(* xRingbufferSend, then the counter, the callback and the URB's return.   *)
Push ==
  /\ dataPc = "push"
  /\ Len(inRing) + Len(held) <= RingSize
  /\ inRing' = inRing \o held
  /\ dataPc' = "count"
  /\ UNCHANGED <<outSide, inFree, inHalted, held, inLen, reader, line,
                 arrived, handed, events, mishaps>>

CountPushed ==
  /\ dataPc = "count"
  /\ inLen' = inLen + Len(held)
  /\ held' = <<>>
  /\ GiveBack
  /\ dataPc' = "wait"
  /\ UNCHANGED <<outSide, inHalted, inRing, reader, line, arrived, handed,
                 events, mishaps>>

(* Variant: a skipped payload's URB is not enqueued again.                 *)
SkipPayloadAndUrb ==
  /\ dataPc = "push"
  /\ Len(inRing) + Len(held) > RingSize
  /\ held' = <<>>
  /\ dataPc' = "wait"
  /\ Note("dropped")
  /\ UNCHANGED <<outSide, inFree, inHalted, arrived, inRead, events>>

(* The ring had no room for 200 ms: the payload is skipped.                *)
SkipPayload ==
  /\ dataPc = "push"
  /\ Len(inRing) + Len(held) > RingSize
  /\ held' = <<>>
  /\ GiveBack
  /\ dataPc' = "wait"
  /\ Note("dropped")
  /\ UNCHANGED <<outSide, inHalted, arrived, inRead, events>>

-----------------------------------------------------------------------------
(* The reader: _usb_data_recv_task and esp_handle_usb_data.                *)

ReaderIs(pc) == [reader EXCEPT !.pc = pc]
Idle == [pc |-> "loop", want |-> 0, ppp |-> FALSE]

(* As a size_t, a counter below zero is larger than every buffer.          *)
Least(n) == IF inLen < 0 THEN n ELSE Min({n, inLen})

(* Takes the first k bytes; the counter is then short of those that have   *)
(* not been counted.                                                       *)
Pop(k) ==
  /\ inRing' = Rest(inRing, k)
  /\ inLen' = inLen - k
  /\ mishaps' = mishaps \cup {m \in {"overtaken"} : inLen \in 0..(k - 1)}

(* Variant: the loop does not look at the length.                          *)
LookAway ==
  /\ reader.pc = "loop"
  /\ reader' = ReaderIs("handle")
  /\ UNCHANGED <<outSide, inTask, inRing, inLen, line, handed, events,
                 mishaps>>

Look ==
  /\ reader.pc = "loop"
  /\ inLen # 0
  /\ reader' = ReaderIs("handle")
  /\ UNCHANGED <<outSide, inTask, inRing, inLen, line, handed, events,
                 mishaps>>

(* The length is read again; a command line leaves room for its terminator.*)
Handle ==
  /\ reader.pc = "handle"
  /\ \/ /\ inLen # 0
        /\ reader' = [pc |-> "read", want |-> Least(LineSize - 1),
                       ppp |-> FALSE]
     \/ reader' = [pc |-> "read", want |-> Least(LineSize), ppp |-> TRUE]
  /\ UNCHANGED <<outSide, inTask, inRing, inLen, line, handed, events,
                 mishaps>>

(* usbh_cdc_read_bytes: waits for the first byte as long as it takes.      *)
Read ==
  /\ reader.pc = "read"
  /\ \E k \in Takes(inRing, reader.want) :
       /\ Pop(k)
       /\ line' = First(inRing, k)
       /\ reader' = [reader EXCEPT !.pc = "rest", !.want = @ - k]
  /\ UNCHANGED <<outSide, inTask, handed, events>>

(* A read of no bytes fails, and its -1 is the length of the PPP input.    *)
ReadNothing ==
  /\ reader.pc = "read"
  /\ reader.want = 0
  /\ reader' = Idle
  /\ Note("oversized")
  /\ UNCHANGED <<outSide, inTask, inRing, inLen, line, handed, events>>

(* Variant: the second piece is copied over the first.                     *)
ReadRestOver ==
  /\ reader.pc = "rest"
  /\ \/ \E k \in Takes(inRing, reader.want) :
          Pop(k) /\ line' = First(inRing, k)
     \/ /\ Takes(inRing, reader.want) = {}
        /\ UNCHANGED <<inRing, inLen, line, mishaps>>
  /\ reader' = ReaderIs(IF reader.ppp THEN "ppp" ELSE "line")
  /\ UNCHANGED <<outSide, inTask, handed, events>>

(* The second piece, when the data wraps around the end of the ring.       *)
ReadRest ==
  /\ reader.pc = "rest"
  /\ \/ \E k \in Takes(inRing, reader.want) :
          Pop(k) /\ line' = line \o First(inRing, k)
     \/ /\ Takes(inRing, reader.want) = {}
        /\ UNCHANGED <<inRing, inLen, line, mishaps>>
  /\ reader' = ReaderIs(IF reader.ppp THEN "ppp" ELSE "line")
  /\ UNCHANGED <<outSide, inTask, handed, events>>

HasNewLine == \E i \in DOMAIN line : NewLine(line[i])

(* PPP input goes to the netif.  A command line is handed over once it has *)
(* its newline or is full, or the command has ended meanwhile.             *)
HandOver ==
  /\ reader.pc \in {"ppp", "line"}
  /\ handed' = handed \o line
  /\ line' = <<>>
  /\ reader' = Idle
  /\ UNCHANGED <<outSide, inTask, inRing, inLen, events, mishaps>>

(* Variant: the line may fill its buffer.                                  *)
ReadOnToTheEnd ==
  /\ reader.pc = "line"
  /\ ~HasNewLine
  /\ Len(line) < LineSize
  /\ inRing # <<>>
  /\ Pop(1)
  /\ line' = Append(line, Head(inRing))
  /\ UNCHANGED <<outSide, inTask, reader, handed, events>>

(* While the command is in progress, the line is read on byte by byte.     *)
ReadOn ==
  /\ reader.pc = "line"
  /\ ~HasNewLine
  /\ Len(line) < LineSize - 1
  /\ inRing # <<>>
  /\ Pop(1)
  /\ line' = Append(line, Head(inRing))
  /\ UNCHANGED <<outSide, inTask, reader, handed, events>>

(* No byte within a tick: -1 is added to the length of the line.  The      *)
(* length of an empty line wraps, which ends the loop.                     *)
ReadOnTimeout ==
  /\ reader.pc = "line"
  /\ ~HasNewLine
  /\ Len(line) < LineSize - 1
  /\ inRing = <<>>
  /\ \/ /\ line # <<>>
        /\ line' = First(line, Len(line) - 1)
        /\ Note("cut")
        /\ UNCHANGED reader
     \/ /\ line = <<>>
        /\ reader' = Idle
        /\ Note("wrapped")
        /\ UNCHANGED line
  /\ UNCHANGED <<outSide, inTask, inRing, inLen, handed, events>>

-----------------------------------------------------------------------------
(* The modem and the host controller (external).  The completion of an URB *)
(* puts an event into data_queue, where the data task finds both in the    *)
(* same order.                                                             *)

CompleteOut(ok) ==
  /\ ~outHalted
  /\ outPipe # <<>>
  /\ outPipe' = Tail(outPipe)
  /\ events' = Append(events,
                       [pipe |-> "out", urb |-> Head(outPipe), ok |-> ok])
  /\ sent' = IF ok THEN sent \o payload[Head(outPipe)] ELSE sent
  /\ IF ok THEN UNCHANGED mishaps ELSE Note("failed")
  /\ UNCHANGED <<outRing, outLen, writer, pending, payload, outHalted,
                 written, inSide>>

CompleteIn ==
  /\ ~inHalted
  /\ inFree > 0
  /\ inFree' = inFree - 1
  /\ \E n \in 1..Min({UrbSize, MaxIn - arrived}) :
       /\ events' = Append(events,
                           [pipe |-> "in", bytes |-> Numbers(arrived, n)])
       /\ arrived' = arrived + n
  /\ UNCHANGED <<outSide, inHalted, dataPc, held, inRead, mishaps>>

(* A transfer error, a stall or an overflow: the URB stays in its pipe,    *)
(* which is halted.                                                        *)
HaltOut ==
  /\ ~outHalted
  /\ outPipe # <<>>
  /\ outHalted' = TRUE
  /\ events' = Append(events, [pipe |-> "error"])
  /\ UNCHANGED <<outRing, outLen, writer, pending, payload, outPipe, written,
                 sent, inSide, mishaps>>

HaltIn ==
  /\ ~inHalted
  /\ inFree > 0
  /\ inHalted' = TRUE
  /\ events' = Append(events, [pipe |-> "error"])
  /\ UNCHANGED <<outSide, inFree, dataPc, held, arrived, inRead, mishaps>>

-----------------------------------------------------------------------------
Writing(w) == Lock(w) \/ Send(w) \/ Count(w)
DataTask   == OutUrbDone \/ Poll \/ InUrbDone \/ Push \/ CountPushed
                \/ SkipPayload \/ PipeError
Reader     == Look \/ Handle \/ Read \/ ReadNothing \/ ReadRest \/ HandOver
                \/ ReadOn \/ ReadOnTimeout
Modem      == CompleteIn \/ CompleteOut(TRUE)
                \/ (Failures /\ (CompleteOut(FALSE) \/ HaltOut \/ HaltIn))

Next == (\E w \in Writers : Writing(w)) \/ DataTask \/ Reader \/ Modem

(* The tasks that write and the data task are scheduled; on a pipe that is *)
(* not halted the modem completes a transfer in the end; and there are     *)
(* always ticks without an event, in which the data task polls.  Nothing is*)
(* assumed of the reader.                                                  *)
Fairness ==
  /\ \A w \in Writers : WF_vars(Count(w))
  /\ WF_vars(OutUrbDone) /\ WF_vars(InUrbDone) /\ WF_vars(PipeError)
  /\ WF_vars(Push) /\ WF_vars(CountPushed) /\ WF_vars(SkipPayload)
  /\ SF_vars(Poll) /\ SF_vars(CompleteOut(TRUE))

Spec == Init /\ [][Next]_vars /\ Fairness

-----------------------------------------------------------------------------
WriterStates == [pc : {"idle", "send", "count"}, bytes : 0..MaxOut]

OutTyped ==
  /\ outRing \in Seq(1..MaxOut) /\ Len(outRing) <= RingSize
  /\ outLen \in Int
  /\ writer \in [Writers -> WriterStates]
  /\ pending \subseteq OutUrbs
  /\ payload \in [OutUrbs -> Seq(1..MaxOut)]
  /\ outPipe \in Seq(OutUrbs)
  /\ outHalted \in BOOLEAN
  /\ written \in 0..MaxOut
  /\ sent \in Seq(1..MaxOut)

InTyped ==
  /\ inFree \in Nat
  /\ inHalted \in BOOLEAN
  /\ dataPc \in {"wait", "push", "count"}
  /\ held \in Seq(1..MaxIn)
  /\ inRing \in Seq(1..MaxIn) /\ Len(inRing) <= RingSize
  /\ inLen \in Int
  /\ reader \in [pc : {"loop", "handle", "read", "rest", "ppp", "line"},
                 want : 0..LineSize, ppp : BOOLEAN]
  /\ line \in Seq(1..MaxIn) /\ Len(line) <= LineSize
  /\ ~reader.ppp => Len(line) < LineSize
  /\ arrived \in 0..MaxIn
  /\ handed \in Seq(1..MaxIn)

OutEvents == [pipe : {"out"}, urb : OutUrbs, ok : BOOLEAN]
InEvents  == [pipe : {"in"}, bytes : Seq(1..MaxIn)]
Errors    == [pipe : {"error"}]
Events    == OutEvents \cup InEvents \cup Errors

(* Types; the rings stay within their buffers, and so does a line with its *)
(* terminator.                                                             *)
TypeOK ==
  /\ OutTyped /\ InTyped
  /\ events \in Seq(Events)
  /\ mishaps \subseteq Mishaps

(* How many of a queue's entries are in S.                                 *)
Entries(queue, S) == Cardinality({i \in DOMAIN queue : queue[i] \in S})

DoneWith(u) == [pipe : {"out"}, urb : {u}, ok : BOOLEAN]

(* In how many places an URB of the out pipe is, and how many URBs of the  *)
(* in pipe there are.                                                      *)
PlacesOf(u) ==
  Entries(outPipe, {u}) + Entries(events, DoneWith(u))
    + (IF u \in pending THEN 1 ELSE 0)

InUrbsLeft ==
  inFree + Entries(events, InEvents) + (IF dataPc = "wait" THEN 0 ELSE 1)

HaltedPipes == (IF outHalted THEN 1 ELSE 0) + (IF inHalted THEN 1 ELSE 0)

(* Every URB is in at most one place, so that none is filled while it is   *)
(* transferred, and in exactly one as long as its pipe is not halted, so   *)
(* that none is lost before; and each pipe puts at most one error beside   *)
(* the events of its URBs into data_queue, whose length is 32.             *)
UrbsAccounted ==
  /\ \A u \in OutUrbs :
       PlacesOf(u) <= 1 /\ (~outHalted => PlacesOf(u) = 1)
  /\ InUrbsLeft <= InUrbs /\ (~inHalted => InUrbsLeft = InUrbs)
  /\ Entries(events, Errors) <= HaltedPipes

(* The counters beside the rings, read without them by the data task and   *)
(* the DTE, are right except for a push between its two steps.             *)
OutCounterSettles ==
  IF \E w \in Writers : writer[w].pc = "count"
    THEN \A w \in Writers :
           writer[w].pc = "count" => outLen + writer[w].bytes = Len(outRing)
    ELSE outLen = Len(outRing)

InCounterSettles ==
  inLen + (IF dataPc = "count" THEN Len(held) ELSE 0) = Len(inRing)

CountersSettle == OutCounterSettles /\ InCounterSettles

(* As long as the reader takes no byte before it is counted, it finds all  *)
(* the bytes it asks for: the read without a time limit (esp_handle_usb_   *)
(* data) does not block the task that also runs the DTE's event loop.      *)
ReadFindsItsBytes ==
  "overtaken" \notin mishaps /\ reader.pc = "read"
    => reader.want \in 1..Len(inRing)

(* The bytes of each direction, a piece for each place that holds some, in *)
(* the order of the places on the way.                                     *)
Bytes(pieces) == UNION {ToSet(pieces[m]) : m \in DOMAIN pieces}

Rising(bytes) == \A i, j \in DOMAIN bytes : i < j => bytes[i] < bytes[j]
Below(S, T)   == \A a \in S, b \in T : a < b

InOrder(pieces) ==
  /\ \A m \in DOMAIN pieces : Rising(pieces[m])
  /\ \A m, n \in DOMAIN pieces :
       m < n => Below(ToSet(pieces[m]), ToSet(pieces[n]))

NoneTwice(pieces) ==
  /\ \A m \in DOMAIN pieces : IsInjective(pieces[m])
  /\ \A m, n \in DOMAIN pieces :
       m # n => ToSet(pieces[m]) \cap ToSet(pieces[n]) = {}

(* An URB whose transfer failed still has its bytes to send.               *)
Unsent(e) == IF e.pipe = "out" /\ ~e.ok THEN payload[e.urb] ELSE <<>>

Underway ==
  [i \in DOMAIN events |-> Unsent(events[i])]
    \o [i \in DOMAIN outPipe |-> payload[outPipe[i]]] \o <<outRing>>

Outgoing == <<sent>> \o Underway

(* What the writers wrote reaches the modem in order, with no byte sent    *)
(* twice, and none is lost while the pipe is not halted; a transfer that   *)
(* had to be retried only costs the order.  The bytes of URBs that a halted*)
(* pipe keeps count as under way.                                          *)
TransmitOrder ==
  /\ NoneTwice(Outgoing)
  /\ Bytes(Outgoing) \subseteq 1..written
  /\ ~outHalted => Bytes(Outgoing) = 1..written
  /\ "failed" \notin mishaps => InOrder(Outgoing)

Received(e) == IF e.pipe = "in" THEN e.bytes ELSE <<>>

Unread ==
  <<line, inRing, IF dataPc = "push" THEN held ELSE <<>> >>
    \o [i \in DOMAIN events |-> Received(events[i])]

Incoming == <<handed>> \o Unread

(* What the modem sends reaches the handlers in order, and complete unless *)
(* a full ring dropped a payload or the read-on loop shortened a line,     *)
(* however the reader overtakes the counter.                               *)
ReceiveOrder ==
  /\ InOrder(Incoming)
  /\ Bytes(Incoming) \subseteq 1..arrived
  /\ {"dropped", "cut"} \cap mishaps = {} => Bytes(Incoming) = 1..arrived

(* Both directions keep the bytes they were given, and their order, but for*)
(* the losses named: those of a halted bulk-out pipe, a full ring and a    *)
(* shortened line.                                                         *)
BytesInOrder == TransmitOrder /\ ReceiveOrder

(* The two directions of the driver as channels: what is in transit is in  *)
(* the ring, in an URB on its way or, inward, in the DTE's line buffer.    *)
Outward ==
  INSTANCE ByteChannel WITH
    Faults <- {"late", "lost"},
    accepted <- written, delivered <- sent, transit <- Bytes(Underway),
    faults <- {f \in {"late"} : "failed" \in mishaps}
                \cup {f \in {"lost"} : outHalted}

Inward ==
  INSTANCE ByteChannel WITH
    Faults <- {"lost"},
    accepted <- arrived, delivered <- handed, transit <- Bytes(Unread),
    faults <- {f \in {"lost"} : {"dropped", "cut"} \cap mishaps # {}}

(* The driver with the DTE's reader implements both channels: step by step *)
(* a byte moves on, only a transfer that is retried puts bytes behind      *)
(* others, and only a halted bulk-out pipe, a skipped payload or a         *)
(* shortened line loses any.                                               *)
ImplementsChannels == Outward!Spec /\ Inward!Spec

(* A write that was accepted reaches the modem, even if the reader never   *)
(* reads and the in ring stays full, if transfers have to be retried and if*)
(* the bulk-in pipe halts; only a halted bulk-out pipe, which nothing      *)
(* clears before a disconnect, ends the sending.                           *)
AcceptedIsSent ==
  \A n \in 1..MaxOut : written >= n ~> n \in ToSet(sent) \/ outHalted

(* The comment in the read-on loop, "continue reading as long as the modem *)
(* is in MODEM_STATE_PROCESSING, checking for the pattern": waiting for the*)
(* rest of a line keeps what was read of it.                               *)
LineKeepsBytes == "dropped" \notin mishaps => Bytes(Incoming) = 1..arrived
=============================================================================
