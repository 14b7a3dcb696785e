---------------------------- MODULE UsbCdcProofs ----------------------------
(***************************************************************************)
(* Proofs about UsbCdc, for every set of writers, every number of URBs and *)
(* every size of the rings, the URBs and the line: type correctness,       *)
(* CountersSettle, ReadFindsItsBytes, UrbsAccounted, BytesInOrder, and     *)
(* that each direction implements ByteChannel.                             *)
(*                                                                         *)
(* The out side and the in side meet in data_queue and in the ghost        *)
(* mishaps only, so the invariant is a conjunction of a part for each.     *)
(* What it says of the bytes themselves, OutBytes and InBytes, comes last: *)
(* it speaks of the sets of bytes each place holds, and lemmas relate them *)
(* to the lists of pieces that UsbCdc defines.                             *)
(***************************************************************************)
EXTENDS UsbCdc, FiniteSetTheorems, TLAPS

(* s_usb_write_mux: one writer at a time is past Lock, with bytes that are *)
(* within the bound until they are in the ring.                            *)
WriteMux ==
  /\ \A v, w \in Writers :
       writer[v].pc # "idle" /\ writer[w].pc # "idle" => v = w
  /\ \A w \in Writers :
       writer[w].pc = "send" => written + writer[w].bytes <= MaxOut

OutInv == OutTyped /\ WriteMux /\ OutCounterSettles

Room == IF reader.ppp THEN LineSize ELSE LineSize - 1

(* What has been read and what is still wanted fit into the line buffer.   *)
LineFits ==
  /\ reader.pc \in {"loop", "handle", "read"} => line = <<>>
  /\ reader.pc \in {"read", "rest"} => reader.want + Len(line) <= Room
  /\ Len(line) <= Room

(* Until a byte is overtaken, the counter covers what the reader wants.    *)
Covered ==
  /\ inLen >= 0
  /\ reader.pc = "handle" => inLen >= 1
  /\ reader.pc = "read" => reader.want \in 1..inLen
  /\ reader.pc = "rest" => reader.want <= inLen

InInv ==
  /\ InTyped /\ LineFits /\ InCounterSettles
  /\ "overtaken" \notin mishaps => Covered

QueueInv ==
  /\ events \in Seq(Events)
  /\ mishaps \subseteq Mishaps

IInv == OutInv /\ InInv /\ QueueInv

-----------------------------------------------------------------------------
LEMMA MinOfTwo ==
  ASSUME NEW a \in Int, NEW b \in Int
  PROVE  /\ Min({a, b}) \in {a, b}
         /\ Min({a, b}) <= a
         /\ Min({a, b}) <= b
<1>1. \E x \in {a, b} : \A y \in {a, b} : x <= y
  <2>1. CASE a <= b
    BY <2>1
  <2>2. CASE b <= a
    BY <2>2
  <2> QED
    BY <2>1, <2>2
<1> QED
  BY <1>1 DEF Min

(* A take is not empty, and neither more than there is nor than was wanted.*)
LEMMA TakesBounds ==
  ASSUME NEW S, NEW ring \in Seq(S), NEW n \in Int, NEW k \in Takes(ring, n)
  PROVE  k \in 1..Len(ring) /\ k <= n
<1>1. Len(ring) \in Int
  OBVIOUS
<1> DEFINE m == Min({n, Len(ring)})
<1>2. m \in {n, Len(ring)} /\ m <= n /\ m <= Len(ring)
  BY <1>1, MinOfTwo, Zenon
<1>3. k \in 1..m
  BY DEF Takes
<1> HIDE DEF m
<1> QED
  BY <1>1, <1>2, <1>3

LEMMA SplitRing ==
  ASSUME NEW S, NEW ring \in Seq(S), NEW k \in 0..Len(ring)
  PROVE  /\ First(ring, k) \in Seq(S) /\ Len(First(ring, k)) = k
         /\ Rest(ring, k) \in Seq(S) /\ Len(Rest(ring, k)) = Len(ring) - k
BY DEF First, Rest

LEMMA NumbersTyped ==
  ASSUME NEW M \in Nat, NEW from \in Nat, NEW n \in Nat, from + n <= M
  PROVE  Numbers(from, n) \in Seq(1..M) /\ Len(Numbers(from, n)) = n
<1>1. Numbers(from, n) \in [1..n -> 1..M]
  BY DEF Numbers
<1> QED
  BY <1>1 DEF Numbers

LEMMA Joined ==
  ASSUME NEW S, NEW a \in Seq(S), NEW b \in Seq(S)
  PROVE  a \o b \in Seq(S) /\ Len(a \o b) = Len(a) + Len(b)
OBVIOUS

LEMMA AppendTyped ==
  ASSUME NEW S, NEW a \in Seq(S), NEW x \in S
  PROVE  Append(a, x) \in Seq(S) /\ Len(Append(a, x)) = Len(a) + 1
OBVIOUS

LEMMA HeadTyped ==
  ASSUME NEW S, NEW a \in Seq(S), a # <<>>
  PROVE  Head(a) \in S
OBVIOUS

LEMMA Bounds ==
  /\ RingSize \in Nat /\ UrbSize \in Nat /\ LineSize \in Nat /\ LineSize >= 2
  /\ MaxOut \in Nat /\ MaxIn \in Nat /\ InUrbs \in Nat
BY SizesAssumption

-----------------------------------------------------------------------------
(* The initial state.                                                      *)

LEMMA UrbsInAnOrder == SetToSeq(OutUrbs) \in Seq(OutUrbs)
<1> DEFINE n == Cardinality(OutUrbs)
<1>1. n \in Nat /\ ExistsBijection(1..n, OutUrbs)
  BY SizesAssumption, FS_CardinalityType
<1>2. PICK f \in Bijection(1..n, OutUrbs) : TRUE
  BY <1>1 DEF ExistsBijection
<1>3. f \in [1..n -> OutUrbs] /\ IsInjective(f)
  BY <1>2 DEF Bijection, Injection, Surjection, IsInjective
<1>4. SetToSeq(OutUrbs) \in [1..n -> OutUrbs]
  BY <1>3 DEF SetToSeq
<1> QED
  BY <1>1, <1>4

LEMMA InitInv == Init => IInv
<1> SUFFICES ASSUME Init PROVE IInv
  OBVIOUS
<1> USE DEF Init
<1>1. OutTyped
  <2>1. outHalted \in BOOLEAN /\ outPipe \in Seq(OutUrbs)
    BY UrbsInAnOrder
  <2>2. /\ outRing = <<>> /\ outLen = 0 /\ pending = {} /\ written = 0
        /\ sent = <<>>
        /\ writer \in [Writers -> WriterStates]
        /\ payload \in [OutUrbs -> Seq(1..MaxOut)]
    BY Bounds DEF WriterStates
  <2> USE DEF OutTyped
  <2> HIDE DEF Init
  <2> QED
    BY <2>1, <2>2, Bounds
<1>2. WriteMux /\ OutCounterSettles
  BY DEF WriteMux, OutCounterSettles
<1>3. InTyped
  <2>1. inHalted \in BOOLEAN
    OBVIOUS
  <2>2. /\ inFree = InUrbs /\ dataPc = "wait" /\ held = <<>> /\ inRing = <<>>
        /\ inLen = 0 /\ line = <<>> /\ arrived = 0 /\ handed = <<>>
        /\ reader = [pc |-> "loop", want |-> 0, ppp |-> FALSE]
    OBVIOUS
  <2> USE DEF InTyped
  <2> HIDE DEF Init
  <2> QED
    BY <2>1, <2>2, Bounds
<1>4. LineFits /\ InCounterSettles /\ Covered
  BY Bounds DEF LineFits, InCounterSettles, Covered, Room
<1>5. QueueInv
  BY DEF QueueInv
<1> QED
  BY <1>1, <1>2, <1>3, <1>4, <1>5 DEF IInv, OutInv, InInv

-----------------------------------------------------------------------------
(* The out side.                                                           *)

LEMMA OutFrame == OutInv /\ UNCHANGED outSide => OutInv'
BY DEF OutInv, OutTyped, WriteMux, OutCounterSettles, outSide

LEMMA LockStep ==
  ASSUME OutInv, NEW w \in Writers, Lock(w)
  PROVE  OutInv'
<1> USE Bounds DEF OutInv, Lock
<1>1. PICK n \in 1..(MaxOut - written) :
        writer' = [writer EXCEPT ![w] = [pc |-> "send", bytes |-> n]]
  OBVIOUS
<1>2. n \in 0..MaxOut /\ written + n <= MaxOut
  BY DEF OutTyped
<1>3. OutTyped'
  BY <1>1, <1>2 DEF OutTyped, WriterStates
<1>4. WriteMux'
  BY <1>1, <1>2 DEF OutTyped, WriteMux, WriterStates
<1>5. OutCounterSettles'
  <2>1. \A v \in Writers : writer'[v].pc # "count"
    BY <1>1 DEF OutTyped, WriterStates
  <2>2. outLen = Len(outRing)
    BY DEF OutCounterSettles
  <2> QED
    BY <2>1, <2>2 DEF OutCounterSettles
<1> QED
  BY <1>3, <1>4, <1>5

LEMMA SendStep ==
  ASSUME OutInv, NEW w \in Writers, Send(w)
  PROVE  OutInv'
<1> USE Bounds DEF OutInv
<1> DEFINE n == writer[w].bytes
<1>1. writer[w].pc = "send" /\ n \in 0..MaxOut /\ written + n <= MaxOut
  BY DEF Send, OutTyped, WriteMux, WriterStates
<1>2. \A v \in Writers : v # w => writer[v].pc = "idle"
  BY <1>1 DEF WriteMux
<1>3. outLen = Len(outRing)
  BY <1>1, <1>2 DEF OutCounterSettles
<1>4. UNCHANGED <<outLen, pending, payload, outPipe, outHalted, sent>>
  BY DEF Send
<1>5. CASE /\ Len(outRing) + n <= RingSize
           /\ outRing' = outRing \o Numbers(written, n)
           /\ written' = written + n
           /\ writer' = [writer EXCEPT ![w].pc = "count"]
  <2>1. Numbers(written, n) \in Seq(1..MaxOut) /\ Len(Numbers(written, n)) = n
    BY SMTT(30), <1>1, NumbersTyped DEF OutTyped
  <2>2. outRing' \in Seq(1..MaxOut) /\ Len(outRing') = Len(outRing) + n
    <3>1. outRing \in Seq(1..MaxOut)
      BY DEF OutTyped
    <3> QED
      BY <1>5, <2>1, <3>1, Joined
  <2>3. /\ writer' \in [Writers -> WriterStates]
        /\ writer'[w] = [pc |-> "count", bytes |-> n]
        /\ \A v \in Writers : v # w => writer'[v] = writer[v]
    BY <1>5 DEF OutTyped, WriterStates
  <2>4. OutTyped'
    BY SMTT(30), <1>1, <1>4, <1>5, <2>2, <2>3 DEF OutTyped
  <2>5. WriteMux'
    BY <1>2, <2>3 DEF WriteMux
  <2>6. OutCounterSettles'
    BY <1>2, <1>3, <1>4, <2>2, <2>3 DEF OutCounterSettles
  <2> QED
    BY <2>4, <2>5, <2>6
<1>6. CASE /\ writer' = [writer EXCEPT ![w] = [pc |-> "idle", bytes |-> 0]]
           /\ UNCHANGED <<outRing, written>>
  <2>1. /\ writer' \in [Writers -> WriterStates]
        /\ \A v \in Writers : writer'[v].pc = "idle"
    BY <1>2, <1>6 DEF OutTyped, WriterStates
  <2>2. OutTyped'
    BY <1>4, <1>6, <2>1 DEF OutTyped
  <2> QED
    BY <1>3, <1>4, <1>6, <2>1, <2>2 DEF WriteMux, OutCounterSettles
<1> QED
  BY <1>5, <1>6 DEF Send

LEMMA CountStep ==
  ASSUME OutInv, NEW w \in Writers, Count(w)
  PROVE  OutInv'
<1> USE Bounds DEF OutInv, Count
<1>1. \A v \in Writers : v # w => writer[v].pc = "idle"
  BY DEF WriteMux
<1>2. outLen + writer[w].bytes = Len(outRing)
  BY DEF OutCounterSettles
<1>3. /\ writer' \in [Writers -> WriterStates]
      /\ \A v \in Writers : writer'[v].pc = "idle"
  BY <1>1 DEF OutTyped, WriterStates
<1>4. OutTyped'
  BY <1>2, <1>3 DEF OutTyped
<1> QED
  BY <1>2, <1>3, <1>4 DEF WriteMux, OutCounterSettles

LEMMA EnqueuedTyped ==
  ASSUME OutTyped, NEW u \in OutUrbs  PROVE Enqueued(u) \in Seq(OutUrbs)
BY AppendTyped DEF OutTyped, Enqueued

LEMMA SendNextStep ==
  ASSUME OutInv, NEW idle \in SUBSET OutUrbs,
         SendNext(idle), UNCHANGED <<outHalted, writer, written, sent>>
  PROVE  OutInv'
<1> USE Bounds DEF OutInv
<1>1. CASE /\ pending' = idle
           /\ UNCHANGED <<outRing, outLen, payload, outPipe>>
  BY <1>1 DEF OutTyped, WriteMux, OutCounterSettles
<1>2. ASSUME NEW u \in idle, NEW k \in Takes(outRing, UrbSize),
             payload' = [payload EXCEPT ![u] = First(outRing, k)],
             outRing' = Rest(outRing, k),
             outLen' = outLen - k,
             outPipe' = Enqueued(u),
             pending' = idle \ {u}
      PROVE  OutInv'
  <2>1. outRing \in Seq(1..MaxOut) /\ outLen \in Int
    BY DEF OutTyped
  <2>2. k \in 1..Len(outRing)
    BY <2>1, TakesBounds
  <2>3. /\ First(outRing, k) \in Seq(1..MaxOut)
        /\ outRing' \in Seq(1..MaxOut)
        /\ Len(outRing') = Len(outRing) - k
    BY <1>2, <2>1, <2>2, SplitRing, SMTT(30)
  <2>4. OutTyped'
    <3>1. outPipe' \in Seq(OutUrbs)
      BY <1>2, EnqueuedTyped
    <3> QED
      BY SMTT(30), <1>2, <2>1, <2>2, <2>3, <3>1 DEF OutTyped
  <2>5. WriteMux'
    BY DEF WriteMux
  <2>6. OutCounterSettles'
    <3>1. outLen' = outLen - k /\ Len(outRing') = Len(outRing) - k
      BY <1>2, <2>3
    <3>2. \A w \in Writers : writer[w].bytes \in Nat
      BY DEF OutTyped, WriterStates
    <3>3. Len(outRing) \in Nat /\ k \in Nat
      BY <2>1, <2>2
    <3>4. CASE \E w \in Writers : writer[w].pc = "count"
      <4>1. \A w \in Writers : writer[w].pc = "count"
              => outLen + writer[w].bytes = Len(outRing)
        BY <3>4 DEF OutCounterSettles
      <4>2. \A w \in Writers : writer[w].pc = "count"
              => outLen' + writer[w].bytes = Len(outRing')
        <5>1. ASSUME NEW w \in Writers, writer[w].pc = "count"
              PROVE  outLen' + writer[w].bytes = Len(outRing')
          <6>1. outLen \in Int /\ writer[w].bytes \in Nat
                /\ outLen + writer[w].bytes = Len(outRing)
            BY <2>1, <3>2, <4>1, <5>1
          <6> QED
            BY <3>1, <3>3, <6>1, SMTT(60)
        <5> QED
          BY <5>1
      <4>3. UNCHANGED writer
        OBVIOUS
      <4> QED
        BY <3>4, <4>2, <4>3 DEF OutCounterSettles
    <3>5. CASE ~ \E w \in Writers : writer[w].pc = "count"
      <4>1. outLen' = Len(outRing')
        BY <2>1, <3>1, <3>3, <3>5 DEF OutCounterSettles
      <4>2. UNCHANGED writer
        OBVIOUS
      <4> QED
        BY <3>5, <4>1, <4>2 DEF OutCounterSettles
    <3> QED
      BY <3>4, <3>5
  <2> QED
    BY <2>4, <2>5, <2>6
<1> QED
  BY <1>1, <1>2 DEF SendNext

LEMMA OutUrbDoneStep ==
  ASSUME OutInv, QueueInv, OutUrbDone
  PROVE  OutInv'
<1> DEFINE urb == Head(events).urb
<1>1. urb \in OutUrbs
  BY DEF OutUrbDone, NextEvent, QueueInv, Events, OutEvents, InEvents, Errors
<1>2. UNCHANGED <<outHalted, writer, written, sent>>
  BY DEF OutUrbDone
<1>3. CASE SendNext(pending \cup {urb})
  BY <1>1, <1>2, <1>3, SendNextStep DEF OutInv, OutTyped
<1>4. CASE /\ outPipe' = Enqueued(urb)
           /\ UNCHANGED <<outRing, outLen, pending, payload>>
  <2>1. outPipe' \in Seq(OutUrbs)
    BY <1>1, <1>4, EnqueuedTyped DEF OutInv
  <2> QED
    BY <1>2, <1>4, <2>1 DEF OutInv, OutTyped, WriteMux, OutCounterSettles
<1> QED
  BY <1>3, <1>4 DEF OutUrbDone

LEMMA CompleteOutStep ==
  ASSUME OutInv, NEW ok \in BOOLEAN, CompleteOut(ok)
  PROVE  OutInv'
<1>1. Head(outPipe) \in OutUrbs /\ Tail(outPipe) \in Seq(OutUrbs)
  BY DEF CompleteOut, OutInv, OutTyped
<1>2. sent' \in Seq(1..MaxOut)
  <2>1. sent \in Seq(1..MaxOut) /\ payload[Head(outPipe)] \in Seq(1..MaxOut)
    BY <1>1 DEF OutInv, OutTyped
  <2>2. sent' = IF ok THEN sent \o payload[Head(outPipe)] ELSE sent
    BY DEF CompleteOut
  <2> QED
    BY <2>1, <2>2, Joined
<1> QED
  BY <1>1, <1>2
     DEF CompleteOut, OutInv, OutTyped, WriteMux, OutCounterSettles

LEMMA HaltOutStep ==
  ASSUME OutInv, HaltOut
  PROVE  OutInv'
BY DEF OutInv, HaltOut, OutTyped, WriteMux, OutCounterSettles

-----------------------------------------------------------------------------
(* The in side.                                                            *)

LEMMA InFrame ==
  ASSUME InInv, UNCHANGED inSide, mishaps \subseteq mishaps'
  PROVE  InInv'
BY DEF InInv, InTyped, LineFits, Room, InCounterSettles, Covered, inSide,
       inTask, inRead

(* The data task and the modem: the reader's part of the invariant needs   *)
(* only that the counter does not become smaller.                          *)
LEMMA InUrbDoneStep ==
  ASSUME InInv, QueueInv, InUrbDone
  PROVE  InInv'
<1>1. Head(events).bytes \in Seq(1..MaxIn)
  BY DEF InUrbDone, NextEvent, QueueInv, Events, OutEvents, InEvents, Errors
<1>2. InTyped'
  BY <1>1 DEF InInv, InUrbDone, inRead, InTyped
<1> QED
  BY <1>2 DEF InInv, InUrbDone, NextEvent, inRead, LineFits, Room, Covered,
              InCounterSettles

LEMMA PushStep ==
  ASSUME InInv, Push
  PROVE  InInv'
<1>1. inRing \in Seq(1..MaxIn) /\ held \in Seq(1..MaxIn)
  BY DEF InInv, InTyped
<1>2. inRing \o held \in Seq(1..MaxIn)
      /\ Len(inRing \o held) = Len(inRing) + Len(held)
  BY <1>1, Joined
<1>3. InTyped'
  BY <1>2 DEF InInv, Push, InTyped
<1>4. LineFits' /\ ("overtaken" \notin mishaps' => Covered')
  BY DEF InInv, Push, LineFits, Room, Covered
<1>5. InCounterSettles'
  <2>1. /\ inRing' = inRing \o held
        /\ dataPc = "push" /\ dataPc' = "count"
        /\ UNCHANGED <<held, inLen>>
    BY DEF Push
  <2>2. inLen = Len(inRing) /\ Len(held) \in Nat /\ Len(inRing) \in Nat
    BY <1>1, <2>1 DEF InInv, InTyped, InCounterSettles
  <2> QED
    BY <1>2, <2>1, <2>2 DEF InCounterSettles
<1> QED
  BY <1>3, <1>4, <1>5 DEF InInv

LEMMA CountPushedStep ==
  ASSUME InInv, CountPushed
  PROVE  InInv'
<1>1. Len(held) \in Nat /\ inLen \in Int
  BY DEF InInv, InTyped
<1>2. InTyped'
  BY <1>1 DEF InInv, CountPushed, GiveBack, InTyped
<1>3. LineFits' /\ InCounterSettles'
  BY <1>1 DEF InInv, CountPushed, LineFits, Room, InCounterSettles
<1>4. "overtaken" \notin mishaps' => Covered'
  BY <1>1 DEF InInv, InTyped, CountPushed, Covered
<1> QED
  BY <1>2, <1>3, <1>4 DEF InInv

LEMMA SkipPayloadStep ==
  ASSUME InInv, SkipPayload
  PROVE  InInv'
<1>1. InTyped'
  BY DEF InInv, SkipPayload, GiveBack, InTyped, inRead
<1> QED
  BY <1>1 DEF InInv, SkipPayload, Note, inRead, LineFits, Room, Covered,
              InCounterSettles

LEMMA CompleteInStep ==
  ASSUME InInv, CompleteIn
  PROVE  InInv'
<1>1. PICK n \in 1..Min({UrbSize, MaxIn - arrived}) : arrived' = arrived + n
  BY DEF CompleteIn
<1>2. MaxIn - arrived \in Int /\ arrived \in Nat
  BY Bounds DEF InInv, InTyped
<1>3. arrived' \in 0..MaxIn
  <2> DEFINE m == Min({UrbSize, MaxIn - arrived})
  <2>1. m \in {UrbSize, MaxIn - arrived} /\ m <= MaxIn - arrived
    <3>1. UrbSize \in Int
      BY Bounds
    <3> QED
      BY <1>2, <3>1, MinOfTwo, Zenon
  <2>2. n \in 1..m
    BY <1>1
  <2> HIDE DEF m
  <2> QED
    BY <1>1, <1>2, <2>1, <2>2, Bounds
<1>4. InTyped'
  BY <1>3 DEF InInv, CompleteIn, InTyped, inRead
<1> QED
  BY <1>4 DEF InInv, CompleteIn, inRead, LineFits, Room, Covered,
              InCounterSettles

LEMMA HaltInStep ==
  ASSUME InInv, HaltIn
  PROVE  InInv'
BY DEF InInv, HaltIn, inRead, InTyped, LineFits, Room, Covered,
       InCounterSettles

(* The reader.                                                             *)

LEMMA LeastBounds ==
  ASSUME InTyped, NEW n \in Nat
  PROVE  /\ Least(n) \in Int /\ Least(n) <= n /\ 0 <= Least(n)
         /\ inLen >= 0 => Least(n) <= inLen
         /\ inLen # 0 /\ n >= 1 => 1 <= Least(n)
<1>1. inLen \in Int
  BY DEF InTyped
<1>2. Min({n, inLen}) \in {n, inLen} /\ Min({n, inLen}) <= n
      /\ Min({n, inLen}) <= inLen
  BY <1>1, MinOfTwo
<1> QED
  BY <1>1, <1>2 DEF Least

LEMMA LookStep ==
  ASSUME InInv, Look
  PROVE  InInv'
<1>1. reader' = [reader EXCEPT !.pc = "handle"]
  BY DEF Look, ReaderIs
<1>2. InTyped'
  BY <1>1 DEF InInv, Look, InTyped, inTask
<1> QED
  BY <1>1, <1>2 DEF InInv, Look, InTyped, inTask, LineFits, Room, Covered,
                    InCounterSettles

LEMMA HandleStep ==
  ASSUME InInv, Handle
  PROVE  InInv'
<1> USE Bounds
<1>1. LineSize - 1 \in Nat /\ InTyped
  BY DEF InInv
<1>2. PICK ppp \in BOOLEAN :
        LET n == IF ppp THEN LineSize ELSE LineSize - 1
        IN  /\ reader' = [pc |-> "read", want |-> Least(n), ppp |-> ppp]
            /\ ~ppp => inLen # 0
  BY DEF Handle
<1> DEFINE n == IF ppp THEN LineSize ELSE LineSize - 1
<1>3. n \in Nat /\ n >= 1 /\ n <= LineSize
  BY <1>1
<1>4. /\ Least(n) \in 0..LineSize /\ Least(n) <= n
      /\ inLen >= 0 => Least(n) <= inLen
      /\ inLen # 0 => 1 <= Least(n)
  <2> HIDE DEF n
  <2> QED
    BY <1>1, <1>3, LeastBounds
<1>5. reader' = [pc |-> "read", want |-> Least(n), ppp |-> ppp]
  BY <1>2
<1>6. UNCHANGED <<inTask, inRing, inLen, line, handed, mishaps>>
      /\ reader.pc = "handle"
  BY DEF Handle
<1>7. line = <<>>
  BY <1>6 DEF InInv, LineFits
<1>8. InTyped'
  BY <1>1, <1>4, <1>5, <1>6, <1>7 DEF InTyped, inTask
<1>9. LineFits'
  BY <1>4, <1>5, <1>6, <1>7 DEF LineFits, Room
<1>10. InCounterSettles'
  BY <1>6 DEF InInv, InCounterSettles, inTask
<1>11. "overtaken" \notin mishaps' => Covered'
  <2> HIDE DEF n
  <2> QED
    BY <1>1, <1>4, <1>5, <1>6 DEF InInv, InTyped, Covered
<1> QED
  BY <1>8, <1>9, <1>10, <1>11 DEF InInv

(* Taking bytes keeps the counter right; if they were not all counted, that*)
(* is noted.                                                               *)
LEMMA Popped ==
  ASSUME InInv, NEW n \in Int, NEW k \in Takes(inRing, n), Pop(k),
         UNCHANGED inTask
  PROVE  /\ k \in 1..Len(inRing) /\ k <= n
         /\ First(inRing, k) \in Seq(1..MaxIn) /\ Len(First(inRing, k)) = k
         /\ inRing' \in Seq(1..MaxIn) /\ Len(inRing') <= RingSize
         /\ inLen' = inLen - k /\ inLen' \in Int
         /\ InCounterSettles'
         /\ "overtaken" \notin mishaps'
              => "overtaken" \notin mishaps /\ Covered /\ inLen' >= 0
<1>1. inRing \in Seq(1..MaxIn) /\ inLen \in Int /\ Len(inRing) <= RingSize
  BY DEF InInv, InTyped
<1>2. k \in 1..Len(inRing) /\ k <= n
  BY <1>1, TakesBounds
<1>3. /\ First(inRing, k) \in Seq(1..MaxIn) /\ Len(First(inRing, k)) = k
      /\ inRing' \in Seq(1..MaxIn) /\ Len(inRing') = Len(inRing) - k
  BY <1>1, <1>2, SplitRing DEF Pop
<1>4. inLen' = inLen - k
  BY DEF Pop
<1>5. InCounterSettles'
  <2>1. UNCHANGED <<dataPc, held>> /\ Len(held) \in Nat
    BY DEF inTask, InInv, InTyped
  <2>2. Len(inRing) \in Nat
    BY <1>1
  <2> QED
    BY <1>1, <1>2, <1>3, <1>4, <2>1, <2>2 DEF InInv, InCounterSettles
<1>6. ASSUME "overtaken" \notin mishaps'
      PROVE  "overtaken" \notin mishaps /\ Covered /\ inLen' >= 0
  <2>1. "overtaken" \notin mishaps /\ inLen \notin 0..(k - 1)
    BY <1>6 DEF Pop
  <2>2. Covered
    BY <2>1 DEF InInv
  <2> QED
    BY <1>1, <1>2, <1>4, <2>1, <2>2 DEF Covered
<1>7. Len(inRing') <= RingSize /\ inLen' \in Int
  BY <1>1, <1>2, <1>3, <1>4, Bounds
<1> QED
  BY <1>2, <1>3, <1>4, <1>5, <1>6, <1>7

LEMMA ReadStep ==
  ASSUME InInv, Read
  PROVE  InInv'
<1>1. PICK k \in Takes(inRing, reader.want) :
        /\ Pop(k)
        /\ line' = First(inRing, k)
        /\ reader' = [reader EXCEPT !.pc = "rest", !.want = @ - k]
  BY DEF Read
<1>2. UNCHANGED <<inTask, handed>> /\ reader.pc = "read"
  BY DEF Read
<1>3. /\ reader \in [pc : {"loop", "handle", "read", "rest", "ppp", "line"},
                     want : 0..LineSize, ppp : BOOLEAN]
      /\ reader.want \in Int
  BY DEF InInv, InTyped
<1>4. reader.want <= Room /\ Room <= LineSize
      /\ Room \in Int
  <2>1. line = <<>> /\ reader.want + Len(line) <= Room
    BY <1>2 DEF InInv, LineFits
  <2> QED
    BY <1>3, <2>1, Bounds DEF Room
<1>5. /\ k \in 1..Len(inRing) /\ k <= reader.want
      /\ line' \in Seq(1..MaxIn) /\ Len(line') = k
      /\ inRing' \in Seq(1..MaxIn) /\ Len(inRing') <= RingSize
      /\ inLen' = inLen - k /\ inLen' \in Int
      /\ InCounterSettles'
      /\ "overtaken" \notin mishaps'
           => "overtaken" \notin mishaps /\ Covered /\ inLen' >= 0
  BY <1>1, <1>2, <1>3, Popped
<1>6. /\ reader'.pc = "rest" /\ reader'.want = reader.want - k
      /\ reader'.ppp = reader.ppp
      /\ reader' \in [pc : {"loop", "handle", "read", "rest", "ppp", "line"},
                      want : 0..LineSize, ppp : BOOLEAN]
  <2>1. k \in 1..Len(inRing) /\ k <= reader.want /\ reader.want \in 0..LineSize
    BY <1>3, <1>5
  <2>2. reader.want - k \in 0..LineSize
    BY <2>1, Bounds
  <2> QED
    BY <1>1, <1>3, <2>2
<1>7. Room' = Room
  BY <1>6 DEF Room
<1>8. k \in Nat
  BY <1>5
<1>9. LineFits'
  BY <1>3, <1>4, <1>5, <1>6, <1>7, <1>8 DEF LineFits
<1>10. InTyped'
  <2>1. UNCHANGED <<inFree, inHalted, dataPc, held, arrived>>
    BY <1>2 DEF inTask
  <2>2. Len(line') <= LineSize /\ (~reader'.ppp => Len(line') < LineSize)
    BY <1>3, <1>4, <1>5, <1>6, <1>8, Bounds DEF Room
  <2> QED
    BY <1>2, <1>5, <1>6, <2>1, <2>2 DEF InInv, InTyped
<1>11. "overtaken" \notin mishaps' => Covered'
  BY <1>2, <1>3, <1>5, <1>6, <1>8 DEF Covered, InInv, InTyped
<1> QED
  BY <1>5, <1>9, <1>10, <1>11 DEF InInv

LEMMA ReadNothingStep ==
  ASSUME InInv, ReadNothing
  PROVE  InInv'
<1>1. reader' = Idle /\ line = <<>> /\ UNCHANGED <<inTask, inRing, inLen, line,
                                                  handed>>
      /\ mishaps \subseteq mishaps'
  BY DEF ReadNothing, Note, InInv, LineFits
<1>2. InTyped'
  BY <1>1, Bounds DEF InInv, InTyped, inTask, Idle
<1> QED
  BY <1>1, <1>2, Bounds DEF InInv, InTyped, inTask, Idle, LineFits, Room,
                            Covered, InCounterSettles

LEMMA ReadRestStep ==
  ASSUME InInv, ReadRest
  PROVE  InInv'
<1> DEFINE next == IF reader.ppp THEN "ppp" ELSE "line"
<1>1. reader' = [reader EXCEPT !.pc = next] /\ UNCHANGED <<inTask, handed>>
      /\ reader.pc = "rest"
  BY DEF ReadRest, ReaderIs
<1>2. /\ reader \in [pc : {"loop", "handle", "read", "rest", "ppp", "line"},
                     want : 0..LineSize, ppp : BOOLEAN]
      /\ reader.want \in Int /\ line \in Seq(1..MaxIn)
      /\ Len(line) \in Nat
  BY DEF InInv, InTyped
<1>3. /\ reader'.pc \in {"ppp", "line"} /\ reader'.ppp = reader.ppp
      /\ reader' \in [pc : {"loop", "handle", "read", "rest", "ppp", "line"},
                      want : 0..LineSize, ppp : BOOLEAN]
  BY <1>1, <1>2
<1>4. reader.want + Len(line) <= Room /\ Len(line) <= Room
      /\ Room' = Room /\ Room \in Int
  BY <1>1, <1>3, Bounds DEF InInv, LineFits, Room
<1>5. /\ line' \in Seq(1..MaxIn) /\ Len(line') <= Room
      /\ inRing' \in Seq(1..MaxIn) /\ Len(inRing') <= RingSize
      /\ inLen' \in Int
      /\ InCounterSettles'
      /\ "overtaken" \notin mishaps' => inLen' >= 0
  <2>1. CASE UNCHANGED <<inRing, inLen, line, mishaps>>
    BY <1>1, <1>2, <1>4, <2>1
       DEF InInv, InTyped, InCounterSettles, inTask, Covered
  <2>2. ASSUME NEW k \in Takes(inRing, reader.want), Pop(k),
               line' = line \o First(inRing, k)
        PROVE  <1>5!:
    <3>1. /\ k \in 1..Len(inRing) /\ k <= reader.want
          /\ First(inRing, k) \in Seq(1..MaxIn) /\ Len(First(inRing, k)) = k
          /\ inRing' \in Seq(1..MaxIn) /\ Len(inRing') <= RingSize
          /\ inLen' \in Int
          /\ InCounterSettles'
          /\ "overtaken" \notin mishaps' => inLen' >= 0
      BY <1>1, <1>2, <2>2, Popped
    <3>2. line' \in Seq(1..MaxIn) /\ Len(line') = Len(line) + k
      <4>1. line \o First(inRing, k) \in Seq(1..MaxIn)
            /\ Len(line \o First(inRing, k))
                 = Len(line) + Len(First(inRing, k))
        BY <1>2, <3>1, Joined, ZenonT(40)
      <4> QED
        BY <2>2, <3>1, <4>1
    <3>3. Len(line') <= Room
      BY <1>2, <1>4, <3>1, <3>2
    <3> QED
      BY <3>1, <3>2, <3>3
  <2> QED
    BY <2>1, <2>2 DEF ReadRest
<1>6. LineFits'
  BY <1>3, <1>4, <1>5 DEF LineFits
<1>7. InTyped'
  <2>1. UNCHANGED <<inFree, inHalted, dataPc, held, arrived>>
    BY <1>1 DEF inTask
  <2>2. Len(line') <= LineSize /\ (~reader'.ppp => Len(line') < LineSize)
    BY <1>3, <1>4, <1>5, Bounds DEF Room
  <2> QED
    BY <1>1, <1>3, <1>5, <2>1, <2>2 DEF InInv, InTyped
<1>8. "overtaken" \notin mishaps' => Covered'
  BY <1>3, <1>5 DEF Covered
<1> QED
  BY <1>5, <1>6, <1>7, <1>8 DEF InInv

LEMMA HandOverStep ==
  ASSUME InInv, HandOver
  PROVE  InInv'
<1>1. /\ reader' = Idle /\ line' = <<>>
      /\ UNCHANGED <<inTask, inRing, inLen, mishaps>>
  BY DEF HandOver
<1>2. handed' \in Seq(1..MaxIn)
  <2>1. handed \in Seq(1..MaxIn) /\ line \in Seq(1..MaxIn)
    BY DEF InInv, InTyped
  <2> QED
    BY <2>1, Joined DEF HandOver
<1>3. InTyped'
  BY <1>1, <1>2, Bounds DEF InInv, InTyped, inTask, Idle
<1> QED
  BY <1>1, <1>3, Bounds DEF InInv, InTyped, inTask, Idle, LineFits, Room,
                            Covered, InCounterSettles

LEMMA ReadOnStep ==
  ASSUME InInv, ReadOn
  PROVE  InInv'
<1>1. /\ Pop(1) /\ inRing # <<>> /\ line' = Append(line, Head(inRing))
      /\ Len(line) < LineSize - 1 /\ reader.pc = "line"
      /\ UNCHANGED <<inTask, reader, handed>>
  BY DEF ReadOn
<1>2. /\ inRing \in Seq(1..MaxIn) /\ line \in Seq(1..MaxIn)
      /\ Len(line) \in Nat
  BY DEF InInv, InTyped
<1>3. 1 \in Takes(inRing, 1)
  <2>1. 1 \in Int /\ Len(inRing) \in Int /\ Len(inRing) >= 1
    BY <1>1, <1>2
  <2> DEFINE m == Min({1, Len(inRing)})
  <2>2. m \in {1, Len(inRing)}
    BY <2>1, MinOfTwo, Zenon
  <2>3. 1 \in 1..m
    <3> HIDE DEF m
    <3> QED
      BY <2>1, <2>2
  <2> QED
    BY <2>3 DEF Takes
<1>4. /\ inRing' \in Seq(1..MaxIn) /\ Len(inRing') <= RingSize
      /\ inLen' \in Int
      /\ InCounterSettles'
      /\ "overtaken" \notin mishaps' => inLen' >= 0
  BY <1>1, <1>3, Popped
<1>5. line' \in Seq(1..MaxIn) /\ Len(line') = Len(line) + 1
  <2>1. Head(inRing) \in 1..MaxIn
    BY <1>1, <1>2, HeadTyped
  <2>2. line' = Append(line, Head(inRing))
    BY <1>1
  <2> QED
    BY <1>2, <2>1, <2>2, AppendTyped
<1>6. Len(line') <= LineSize - 1
  BY <1>1, <1>2, <1>5, Bounds
<1>7. LineFits'
  BY <1>1, <1>2, <1>5, <1>6, Bounds DEF LineFits, Room
<1>8. InTyped'
  BY SMTT(30), <1>1, <1>4, <1>5, <1>6, Bounds DEF InInv, InTyped, inTask
<1>9. "overtaken" \notin mishaps' => Covered'
  BY <1>1, <1>4 DEF Covered
<1> QED
  BY <1>4, <1>7, <1>8, <1>9 DEF InInv

LEMMA ReadOnTimeoutStep ==
  ASSUME InInv, ReadOnTimeout
  PROVE  InInv'
<1>1. /\ UNCHANGED <<inTask, inRing, inLen, handed>> /\ reader.pc = "line"
      /\ mishaps \subseteq mishaps'
  BY DEF ReadOnTimeout, Note
<1>2. line \in Seq(1..MaxIn) /\ Len(line) \in Nat
  BY DEF InInv, InTyped
<1>3. CASE /\ line # <<>> /\ line' = First(line, Len(line) - 1)
           /\ UNCHANGED reader
  <2>1. line' \in Seq(1..MaxIn) /\ Len(line') = Len(line) - 1
    <3>1. Len(line) - 1 \in 0..Len(line)
      BY <1>2, <1>3
    <3> QED
      BY <1>2, <1>3, <3>1, SplitRing
  <2>2. InTyped'
    BY <1>1, <1>2, <1>3, <2>1, Bounds DEF InInv, InTyped, inTask
  <2>3. LineFits'
    <3>1. Room' = Room /\ Room \in Int /\ Len(line) <= Room
      BY <1>3, Bounds DEF InInv, LineFits, Room
    <3> QED
      BY <1>1, <1>2, <1>3, <2>1, <3>1 DEF LineFits
  <2> QED
    BY <1>1, <1>3, <2>2, <2>3 DEF InInv, inTask, Covered, InCounterSettles
<1>4. CASE line = <<>> /\ reader' = Idle /\ UNCHANGED line
  <2>1. InTyped'
    BY <1>1, <1>4, Bounds DEF InInv, InTyped, inTask, Idle
  <2> QED
    BY <1>1, <1>4, <2>1, Bounds
       DEF InInv, InTyped, inTask, Idle, LineFits, Room, Covered,
           InCounterSettles
<1> QED
  BY <1>3, <1>4 DEF ReadOnTimeout

-----------------------------------------------------------------------------
(* The queue and the ghost.                                                *)

LEMMA QueueStep == InInv /\ OutInv /\ QueueInv /\ [Next]_vars => QueueInv'
<1> SUFFICES ASSUME InInv, OutInv, QueueInv, [Next]_vars PROVE QueueInv'
  OBVIOUS
<1>1. events \in Seq(Events) /\ mishaps \subseteq Mishaps
  BY DEF QueueInv
<1>2. CASE UNCHANGED <<events, mishaps>>
  BY <1>1, <1>2 DEF QueueInv
<1>3. CASE OutUrbDone \/ InUrbDone \/ PipeError
  BY <1>1, <1>3 DEF OutUrbDone, InUrbDone, PipeError, NextEvent, QueueInv
<1>4. CASE /\ UNCHANGED events
           /\ \E m \in Mishaps : mishaps' \subseteq mishaps \cup {m}
  BY <1>1, <1>4 DEF QueueInv
<1>5. ASSUME NEW ok \in BOOLEAN, CompleteOut(ok) PROVE QueueInv'
  <2>1. Head(outPipe) \in OutUrbs
    BY <1>5 DEF CompleteOut, OutInv, OutTyped
  <2>2. [pipe |-> "out", urb |-> Head(outPipe), ok |-> ok] \in OutEvents
    BY <2>1 DEF OutEvents
  <2>3. events' \in Seq(Events)
    BY <1>1, <1>5, <2>2 DEF CompleteOut, Events
  <2>4. mishaps' \subseteq Mishaps
    BY <1>1, <1>5 DEF CompleteOut, Note, Mishaps
  <2> QED
    BY <2>3, <2>4 DEF QueueInv
<1>6. CASE CompleteIn
  <2>1. PICK n \in 1..Min({UrbSize, MaxIn - arrived}) :
          events' = Append(events,
                           [pipe |-> "in", bytes |-> Numbers(arrived, n)])
    BY <1>6 DEF CompleteIn
  <2>2. MaxIn - arrived \in Int /\ arrived \in Nat /\ UrbSize \in Int
    BY Bounds DEF InInv, InTyped
  <2>3. n \in Nat /\ arrived + n <= MaxIn
    <3> DEFINE m == Min({UrbSize, MaxIn - arrived})
    <3>1. m \in {UrbSize, MaxIn - arrived} /\ m <= MaxIn - arrived
      BY <2>2, MinOfTwo, Zenon
    <3>2. n \in 1..m
      BY <2>1
    <3> HIDE DEF m
    <3> QED
      BY <2>2, <3>1, <3>2, Bounds
  <2>4. Numbers(arrived, n) \in Seq(1..MaxIn)
    BY <2>2, <2>3, NumbersTyped, Bounds
  <2>5. [pipe |-> "in", bytes |-> Numbers(arrived, n)] \in InEvents
    BY <2>4 DEF InEvents
  <2>6. UNCHANGED mishaps
    BY <1>6 DEF CompleteIn
  <2> QED
    BY <1>1, <2>1, <2>5, <2>6 DEF QueueInv, Events
<1>7. CASE \E w \in Writers : Writing(w)
  BY <1>2, <1>7 DEF Writing, Lock, Send, Count
<1>8. CASE Poll \/ Push \/ CountPushed
  BY <1>2, <1>8 DEF Poll, Push, CountPushed
<1>9. CASE SkipPayload
  BY <1>4, <1>9 DEF SkipPayload, Note, Mishaps
<1>10. CASE Look \/ Handle \/ HandOver
  BY <1>2, <1>10 DEF Look, Handle, HandOver
<1>11. CASE Read \/ ReadNothing \/ ReadRest \/ ReadOn \/ ReadOnTimeout
  BY <1>2, <1>4, <1>11 DEF Read, ReadNothing, ReadRest, ReadOn, ReadOnTimeout,
                           Pop, Note, Mishaps
<1>12. CASE UNCHANGED vars
  BY <1>2, <1>12 DEF vars
<1>13. CASE HaltOut \/ HaltIn
  BY <1>1, <1>13 DEF HaltOut, HaltIn, QueueInv, Events, Errors
<1> QED
  BY <1>3, <1>5, <1>6, <1>7, <1>8, <1>9, <1>10, <1>11, <1>12, <1>13
     DEF Next, DataTask, Reader, Modem

-----------------------------------------------------------------------------
(* Every step.                                                             *)

LEMMA OutStep == IInv /\ [Next]_vars => OutInv'
<1> SUFFICES ASSUME OutInv, QueueInv, [Next]_vars PROVE OutInv'
  BY DEF IInv
<1>1. CASE \E w \in Writers : Writing(w)
  BY <1>1, LockStep, SendStep, CountStep DEF Writing
<1>2. CASE OutUrbDone
  BY <1>2, OutUrbDoneStep
<1>3. CASE Poll
  BY <1>3, SendNextStep DEF Poll, OutInv, OutTyped
<1>4. CASE InUrbDone \/ Push \/ CountPushed \/ SkipPayload \/ PipeError
  BY <1>4, OutFrame DEF InUrbDone, Push, CountPushed, SkipPayload, PipeError
<1>5. CASE Reader
  BY <1>5, OutFrame DEF Reader, Look, Handle, Read, ReadNothing, ReadRest,
                        HandOver, ReadOn, ReadOnTimeout
<1>6. CASE Modem
  <2>1. CASE CompleteIn \/ HaltIn
    BY <2>1, OutFrame DEF CompleteIn, HaltIn
  <2>2. CASE CompleteOut(TRUE) \/ CompleteOut(FALSE) \/ HaltOut
    BY <2>2, CompleteOutStep, HaltOutStep
  <2> QED
    BY <1>6, <2>1, <2>2 DEF Modem
<1>7. CASE UNCHANGED vars
  BY <1>7, OutFrame DEF vars
<1> QED
  BY <1>1, <1>2, <1>3, <1>4, <1>5, <1>6, <1>7 DEF Next, DataTask

LEMMA InStep == IInv /\ [Next]_vars => InInv'
<1> SUFFICES ASSUME InInv, QueueInv, [Next]_vars PROVE InInv'
  BY DEF IInv
<1>1. CASE \E w \in Writers : Writing(w)
  BY <1>1, InFrame DEF Writing, Lock, Send, Count
<1>2. CASE OutUrbDone \/ Poll \/ PipeError
  BY <1>2, InFrame DEF OutUrbDone, Poll, PipeError
<1>3. CASE InUrbDone \/ Push \/ CountPushed \/ SkipPayload
  BY <1>3, InUrbDoneStep, PushStep, CountPushedStep, SkipPayloadStep
<1>4. CASE Reader
  BY <1>4, LookStep, HandleStep, ReadStep, ReadNothingStep, ReadRestStep,
     HandOverStep, ReadOnStep, ReadOnTimeoutStep DEF Reader
<1>5. CASE Modem
  <2>1. CASE CompleteIn \/ HaltIn
    BY <2>1, CompleteInStep, HaltInStep
  <2>2. ASSUME NEW ok \in BOOLEAN, CompleteOut(ok) PROVE InInv'
    BY <2>2, InFrame DEF CompleteOut, Note
  <2>3. CASE HaltOut
    BY <2>3, InFrame DEF HaltOut
  <2> QED
    BY <1>5, <2>1, <2>2, <2>3 DEF Modem
<1>6. CASE UNCHANGED vars
  BY <1>6, InFrame DEF vars
<1> QED
  BY <1>1, <1>2, <1>3, <1>4, <1>5, <1>6 DEF Next, DataTask

LEMMA Inductive == IInv /\ [Next]_vars => IInv'
BY OutStep, InStep, QueueStep DEF IInv

LEMMA Invariance == Spec => []IInv
<1>1. Init => IInv
  BY InitInv
<1>2. IInv /\ [Next]_vars => IInv'
  BY Inductive
<1> QED
  BY <1>1, <1>2, PTL DEF Spec

(* Types are kept; no ring and no line outgrows its buffer (the reads of   *)
(* esp_handle_usb_data leave room for the terminator).                     *)
THEOREM TypeCorrect == Spec => []TypeOK
<1>1. IInv => TypeOK
  BY DEF IInv, OutInv, InInv, QueueInv, TypeOK
<1> QED
  BY <1>1, Invariance, PTL

(* The counters beside the two rings agree with them, whoever writes and   *)
(* reads, except for a push between its two steps.                         *)
THEOREM CountersAgree == Spec => []CountersSettle
<1>1. IInv => CountersSettle
  BY DEF IInv, OutInv, InInv, CountersSettle
<1> QED
  BY <1>1, Invariance, PTL

(* The DTE's read without a time limit does not block as long as it takes  *)
(* no byte before the data task has counted it.                            *)
THEOREM ReadsDoNotBlock == Spec => []ReadFindsItsBytes
<1>1. IInv => ReadFindsItsBytes
  <2> SUFFICES ASSUME IInv, "overtaken" \notin mishaps, reader.pc = "read"
               PROVE  reader.want \in 1..Len(inRing)
    BY DEF ReadFindsItsBytes
  <2>1. InTyped /\ InCounterSettles /\ Covered
    BY DEF IInv, InInv
  <2>2. reader.want \in 1..inLen /\ inLen \in Int
    BY <2>1 DEF Covered, InTyped
  <2>3. Len(held) \in Nat /\ Len(inRing) \in Nat
    BY <2>1 DEF InTyped
  <2>4. inLen <= Len(inRing)
    BY <2>1, <2>2, <2>3 DEF InCounterSettles
  <2> QED
    BY <2>2, <2>3, <2>4
<1> QED
  BY <1>1, Invariance, PTL

-----------------------------------------------------------------------------
(* Every URB is in one place.                                              *)

(* An empty queue has no entries.                                          *)
LEMMA NoEntries == ASSUME NEW S PROVE Entries(<<>>, S) = 0
<1>1. {i \in DOMAIN <<>> : <<>>[i] \in S} = {}
  OBVIOUS
<1> QED
  BY <1>1, FS_EmptySet DEF Entries

(* The entries of a queue are counted by a number.                         *)
LEMMA EntriesTyped ==
  ASSUME NEW T, NEW q \in Seq(T), NEW S
  PROVE  /\ IsFiniteSet({i \in DOMAIN q : q[i] \in S})
         /\ Entries(q, S) \in Nat
<1>1. DOMAIN q = 1..Len(q) /\ Len(q) \in Nat
  OBVIOUS
<1>2. IsFiniteSet(DOMAIN q)
  BY <1>1, FS_Interval
<1>3. IsFiniteSet({i \in DOMAIN q : q[i] \in S})
  BY <1>2, FS_Subset
<1> QED
  BY <1>3, FS_CardinalityType DEF Entries

(* An entry that is put into a queue counts if it is in the set.           *)
LEMMA EntriesAppended ==
  ASSUME NEW T, NEW q \in Seq(T), NEW e \in T, NEW S
  PROVE  Entries(Append(q, e), S) = Entries(q, S) + (IF e \in S THEN 1 ELSE 0)
<1> DEFINE D == {i \in DOMAIN q : q[i] \in S}
           E == {i \in DOMAIN Append(q, e) : Append(q, e)[i] \in S}
           n == Len(q)
<1>1. /\ n \in Nat /\ DOMAIN q = 1..n /\ DOMAIN Append(q, e) = 1..(n + 1)
      /\ \A i \in 1..n : Append(q, e)[i] = q[i]
      /\ Append(q, e)[n + 1] = e
  OBVIOUS
<1>2. IsFiniteSet(D)
  BY EntriesTyped
<1>3. CASE e \in S
  <2>1. E = D \cup {n + 1}
    BY <1>1, <1>3
  <2>2. n + 1 \notin D
    BY <1>1
  <2>3. Cardinality(E) = Cardinality(D) + 1
    BY <1>2, <2>1, <2>2, FS_AddElement
  <2> QED
    BY <1>3, <2>3 DEF Entries
<1>4. CASE e \notin S
  <2>1. E = D
    BY <1>1, <1>4
  <2>2. Entries(q, S) \in Nat
    BY EntriesTyped
  <2>3. Entries(Append(q, e), S) = Entries(q, S)
    BY <2>1 DEF Entries
  <2> QED
    BY <1>4, <2>2, <2>3
<1> QED
  BY <1>3, <1>4

(* An entry that is taken from a queue counts no more.                     *)
LEMMA EntriesTaken ==
  ASSUME NEW T, NEW q \in Seq(T), q # <<>>, NEW S
  PROVE  Entries(q, S) = Entries(Tail(q), S) + (IF Head(q) \in S THEN 1 ELSE 0)
<1> DEFINE D == {i \in DOMAIN q : q[i] \in S}
           E == {i \in DOMAIN Tail(q) : Tail(q)[i] \in S}
           f == [i \in E |-> i + 1]
<1>1. PICK n \in Nat : n = Len(q)
  OBVIOUS
<1>2. /\ n >= 1 /\ DOMAIN q = 1..n /\ DOMAIN Tail(q) = 1..(n - 1)
      /\ \A i \in 1..(n - 1) : Tail(q)[i] = q[i + 1]
      /\ Head(q) = q[1]
  BY <1>1
<1>3. IsFiniteSet(D) /\ IsFiniteSet(E) /\ Cardinality(D) \in Nat
        /\ Cardinality(E) \in Nat
  <2>1. Tail(q) \in Seq(T)
    OBVIOUS
  <2> QED
    BY <2>1, EntriesTyped DEF Entries
<1>4. ExistsBijection(E, D \ {1})
  <2>1. f \in [E -> D \ {1}]
    <3> SUFFICES ASSUME NEW i \in E  PROVE i + 1 \in D \ {1}
      OBVIOUS
    <3>1. i \in 1..(n - 1) /\ q[i + 1] \in S
      BY <1>2
    <3>2. i + 1 \in 1..n /\ i + 1 # 1
      BY <1>2, <3>1
    <3> QED
      BY <1>2, <3>1, <3>2
  <2>2. \A a, b \in E : f[a] = f[b] => a = b
    <3> SUFFICES ASSUME NEW a \in E, NEW b \in E, a + 1 = b + 1  PROVE a = b
      OBVIOUS
    <3>1. a \in Int /\ b \in Int
      BY <1>2
    <3> QED
      BY <3>1
  <2>3. \A d \in D \ {1} : \E i \in E : f[i] = d
    <3> SUFFICES ASSUME NEW d \in D \ {1}  PROVE d - 1 \in E /\ (d - 1) + 1 = d
      OBVIOUS
    <3>1. d \in 1..n /\ d # 1 /\ q[d] \in S
      BY <1>2
    <3>2. d - 1 \in 1..(n - 1) /\ (d - 1) + 1 = d
      BY <1>2, <3>1
    <3>3. Tail(q)[d - 1] = q[d]
      BY <1>2, <3>2
    <3> QED
      BY <1>2, <3>1, <3>2, <3>3
  <2> HIDE DEF f, D, E
  <2> QED
    BY <2>1, <2>2, <2>3
       DEF ExistsBijection, Bijection, Injection, Surjection, IsInjective
<1>5. Cardinality(D \ {1}) = Cardinality(E)
  BY <1>3, <1>4, FS_Bijection
<1>6. Cardinality(D \ {1}) = IF 1 \in D THEN Cardinality(D) - 1
                                        ELSE Cardinality(D)
  BY <1>3, FS_RemoveElement
<1>7. 1 \in D <=> Head(q) \in S
  BY <1>2
<1>8. Cardinality(D) = Cardinality(E) + (IF Head(q) \in S THEN 1 ELSE 0)
  <2> HIDE DEF D, E
  <2> QED
    BY <1>3, <1>5, <1>6, <1>7
<1> QED
  BY <1>8 DEF Entries

(* At first every bulk-out URB is in the pipe once.                        *)
LEMMA EachUrbOnce ==
  ASSUME NEW u \in OutUrbs  PROVE Entries(SetToSeq(OutUrbs), {u}) = 1
<1> DEFINE n == Cardinality(OutUrbs)
           q == SetToSeq(OutUrbs)
<1>1. n \in Nat /\ ExistsBijection(1..n, OutUrbs)
  BY SizesAssumption, FS_CardinalityType
<1>2. PICK f \in Bijection(1..n, OutUrbs) : TRUE
  BY <1>1 DEF ExistsBijection
<1>3. f \in [1..n -> OutUrbs] /\ IsInjective(f)
  BY <1>2 DEF Bijection, Injection, Surjection, IsInjective
<1>4. q \in [1..n -> OutUrbs] /\ IsInjective(q)
  BY <1>3 DEF SetToSeq
<1> HIDE DEF q
<1>5. \A a, b \in 1..n : q[a] = q[b] => a = b
  BY <1>4 DEF IsInjective
<1>6. IsFiniteSet(1..n) /\ Cardinality(1..n) = n
  BY <1>1, FS_Interval
<1>7. q \in Surjection(1..n, OutUrbs)
  <2>1. q \in Injection(1..n, OutUrbs)
    BY <1>4, <1>5 DEF Injection, IsInjective
  <2> QED
    BY <1>6, <2>1, SizesAssumption, FS_Injection
<1>8. PICK i \in 1..n : q[i] = u
  BY <1>7 DEF Surjection
<1>9. {j \in DOMAIN q : q[j] \in {u}} = {i}
  BY <1>4, <1>5, <1>8
<1> QED
  BY <1>9, FS_Singleton DEF Entries, q

(* What a step may do to the URBs: none gets into a second place, only a   *)
(* halted pipe loses one, and an error event comes with the halt of a pipe.*)
UrbMoves(u) ==
  /\ PlacesOf(u)' <= PlacesOf(u)
  /\ outHalted' \/ PlacesOf(u)' = PlacesOf(u)

InUrbsMove ==
  /\ InUrbsLeft' <= InUrbsLeft
  /\ inHalted' \/ InUrbsLeft' = InUrbsLeft

PipesStayHalted == (outHalted => outHalted') /\ (inHalted => inHalted')

ErrorsMove ==
  Entries(events, Errors)' + HaltedPipes
    <= Entries(events, Errors) + HaltedPipes'

UrbsMove ==
  /\ \A u \in OutUrbs : UrbMoves(u)
  /\ InUrbsMove /\ PipesStayHalted /\ ErrorsMove

(* The numbers of UrbsAccounted are numbers, before and after a step.      *)
LEMMA PlacesTyped ==
  ASSUME OutTyped, InTyped, QueueInv
  PROVE  /\ \A u : /\ Entries(outPipe, {u}) \in Nat /\ PlacesOf(u) \in Nat
                   /\ Entries(events, DoneWith(u)) \in Nat
         /\ Entries(events, InEvents) \in Nat /\ InUrbsLeft \in Nat
         /\ Entries(events, Errors) \in Nat /\ HaltedPipes \in Nat
<1>1. outPipe \in Seq(OutUrbs) /\ events \in Seq(Events) /\ inFree \in Nat
  BY DEF OutTyped, InTyped, QueueInv
<1>2. /\ \A S : Entries(outPipe, S) \in Nat
      /\ \A S : Entries(events, S) \in Nat
  BY <1>1, EntriesTyped
<1> QED
  BY <1>1, <1>2 DEF PlacesOf, InUrbsLeft, HaltedPipes

LEMMA MovesAccount ==
  ASSUME IInv, IInv', UrbsAccounted, UrbsMove
  PROVE  UrbsAccounted'
<1>1. /\ \A u : PlacesOf(u) \in Nat
      /\ InUrbsLeft \in Nat /\ HaltedPipes \in Nat
      /\ Entries(events, Errors) \in Nat
  BY PlacesTyped DEF IInv, OutInv, InInv
<1>2. /\ \A u : PlacesOf(u)' \in Nat
      /\ InUrbsLeft' \in Nat /\ HaltedPipes' \in Nat
      /\ Entries(events, Errors)' \in Nat
  <2>1. /\ outPipe' \in Seq(OutUrbs) /\ events' \in Seq(Events)
        /\ inFree' \in Nat
    BY DEF IInv, OutInv, OutTyped, InInv, InTyped, QueueInv
  <2>2. /\ \A S : Entries(outPipe', S) \in Nat
        /\ \A S : Entries(events', S) \in Nat
    BY <2>1, EntriesTyped
  <2> QED
    BY <2>1, <2>2 DEF PlacesOf, InUrbsLeft, HaltedPipes
<1>3. outHalted \in BOOLEAN /\ inHalted \in BOOLEAN /\ InUrbs \in Nat
  BY Bounds DEF IInv, OutInv, OutTyped, InInv, InTyped
<1>4. \A u \in OutUrbs :
        PlacesOf(u)' <= 1 /\ (~outHalted' => PlacesOf(u)' = 1)
  <2> SUFFICES ASSUME NEW u \in OutUrbs
               PROVE  PlacesOf(u)' <= 1 /\ (~outHalted' => PlacesOf(u)' = 1)
    OBVIOUS
  <2>1. PlacesOf(u) <= 1 /\ (~outHalted => PlacesOf(u) = 1)
    BY DEF UrbsAccounted
  <2>2. /\ PlacesOf(u)' <= PlacesOf(u)
        /\ outHalted' \/ PlacesOf(u)' = PlacesOf(u)
        /\ outHalted => outHalted'
    BY DEF UrbsMove, UrbMoves, PipesStayHalted
  <2> QED
    BY <1>1, <1>2, <2>1, <2>2
<1>5. InUrbsLeft' <= InUrbs /\ (~inHalted' => InUrbsLeft' = InUrbs)
  BY <1>1, <1>2, <1>3
     DEF UrbsAccounted, UrbsMove, InUrbsMove, PipesStayHalted
<1>6. Entries(events, Errors)' <= HaltedPipes'
  BY <1>1, <1>2 DEF UrbsAccounted, UrbsMove, ErrorsMove
<1> QED
  BY <1>4, <1>5, <1>6 DEF UrbsAccounted

(* Where the URBs are is not changed by the writers and the reader.        *)
LEMMA UrbsFrame ==
  ASSUME IInv,
         UNCHANGED <<outPipe, events, pending, inFree, dataPc, outHalted,
                     inHalted>>
  PROVE  UrbsMove
<1>1. /\ \A u : PlacesOf(u) \in Nat
      /\ InUrbsLeft \in Nat /\ HaltedPipes \in Nat
      /\ Entries(events, Errors) \in Nat
  BY PlacesTyped DEF IInv, OutInv, InInv
<1>2. /\ \A u : PlacesOf(u)' = PlacesOf(u)
      /\ InUrbsLeft' = InUrbsLeft /\ HaltedPipes' = HaltedPipes
      /\ Entries(events, Errors)' = Entries(events, Errors)
  BY DEF PlacesOf, InUrbsLeft, HaltedPipes
<1> QED
  BY <1>1, <1>2 DEF UrbsMove, UrbMoves, InUrbsMove, PipesStayHalted,
                    ErrorsMove

(* What an event stands for.                                               *)
LEMMA EventKinds ==
  /\ \A e \in Events :
       /\ e.pipe = "out"   => e \in OutEvents /\ e.urb \in OutUrbs
       /\ e.pipe = "in"    => e \in InEvents
       /\ e.pipe = "error" => e \in Errors
  /\ \A e \in OutEvents :
       /\ e \notin InEvents /\ e \notin Errors
       /\ \A u : e \in DoneWith(u) <=> u = e.urb
  /\ \A e \in InEvents :
       e \notin OutEvents /\ e \notin Errors /\ \A u : e \notin DoneWith(u)
  /\ \A e \in Errors :
       e \notin OutEvents /\ e \notin InEvents /\ \A u : e \notin DoneWith(u)
<1>1. \A e \in OutEvents : e.pipe = "out" /\ e.urb \in OutUrbs
  BY DEF OutEvents
<1>2. \A e \in InEvents : e.pipe = "in"
  BY DEF InEvents
<1>3. \A e \in Errors : e.pipe = "error"
  BY DEF Errors
<1>4. ASSUME NEW e \in OutEvents, NEW u  PROVE e \in DoneWith(u) <=> u = e.urb
  BY DEF OutEvents, DoneWith
<1>5. ASSUME NEW e, NEW u, e \in DoneWith(u)  PROVE e.pipe = "out"
  BY <1>5 DEF DoneWith
<1> QED
  BY <1>1, <1>2, <1>3, <1>4, <1>5 DEF Events

(* An idle URB that takes data moves to the pipe, or gets lost there.      *)
LEMMA SendNextUrbs ==
  ASSUME NEW idle \in SUBSET OutUrbs, OutTyped, SendNext(idle),
         NEW u \in OutUrbs
  PROVE  LET after  == Entries(outPipe', {u})
                         + (IF u \in pending' THEN 1 ELSE 0)
             before == Entries(outPipe, {u}) + (IF u \in idle THEN 1 ELSE 0)
         IN  /\ Entries(outPipe', {u}) \in Nat /\ Entries(outPipe, {u}) \in Nat
             /\ after <= before /\ (outHalted \/ after = before)
<1> DEFINE after  == Entries(outPipe', {u}) + (IF u \in pending' THEN 1 ELSE 0)
           before == Entries(outPipe, {u}) + (IF u \in idle THEN 1 ELSE 0)
<1>0. outPipe \in Seq(OutUrbs) /\ Entries(outPipe, {u}) \in Nat
  BY EntriesTyped DEF OutTyped
<1>1. CASE outPipe' = outPipe /\ pending' = idle
  BY <1>0, <1>1
<1>2. ASSUME NEW v \in idle, outPipe' = Enqueued(v), pending' = idle \ {v}
      PROVE  /\ Entries(outPipe', {u}) \in Nat
             /\ after <= before /\ (outHalted \/ after = before)
  <2>1. CASE outHalted
    <3>1. outPipe' = outPipe
      BY <1>2, <2>1 DEF Enqueued
    <3>2. u \in pending' => u \in idle
      BY <1>2
    <3> QED
      BY <1>0, <2>1, <3>1, <3>2
  <2>2. CASE ~outHalted
    <3>1. Entries(outPipe', {u})
            = Entries(outPipe, {u}) + (IF v \in {u} THEN 1 ELSE 0)
      <4>1. outPipe' = Append(outPipe, v) /\ v \in OutUrbs
        BY <1>2, <2>2 DEF Enqueued
      <4> QED
        BY <1>0, <4>1, EntriesAppended
    <3>2. CASE u = v
      <4>1. Entries(outPipe', {u}) = Entries(outPipe, {u}) + 1
        BY <3>1, <3>2
      <4>2. u \notin pending' /\ u \in idle
        BY <1>2, <3>2
      <4> QED
        BY <1>0, <4>1, <4>2
    <3>3. CASE u # v
      <4>1. Entries(outPipe', {u}) = Entries(outPipe, {u})
        BY <1>0, <3>1, <3>3
      <4>2. u \in pending' <=> u \in idle
        BY <1>2, <3>3
      <4> QED
        BY <1>0, <4>1, <4>2
    <3> QED
      BY <3>2, <3>3
  <2> QED
    BY <2>1, <2>2
<1>3. \/ outPipe' = outPipe /\ pending' = idle
      \/ \E v \in idle : outPipe' = Enqueued(v) /\ pending' = idle \ {v}
  BY DEF SendNext
<1> QED
  BY <1>0, <1>1, <1>2, <1>3

(* Each step keeps every URB in its place or moves it, unless its pipe is  *)
(* halted.                                                                 *)
LEMMA UrbsStep == IInv /\ UrbsAccounted /\ [Next]_vars => UrbsMove
<1> SUFFICES ASSUME IInv, UrbsAccounted, [Next]_vars PROVE UrbsMove
  OBVIOUS
<1>0. /\ OutTyped /\ outPipe \in Seq(OutUrbs) /\ pending \subseteq OutUrbs
      /\ events \in Seq(Events)
      /\ inFree \in Nat /\ outHalted \in BOOLEAN /\ inHalted \in BOOLEAN
  BY DEF IInv, OutInv, OutTyped, InInv, InTyped, QueueInv
<1>a. /\ \A u : /\ Entries(outPipe, {u}) \in Nat
                /\ Entries(events, DoneWith(u)) \in Nat
      /\ Entries(events, InEvents) \in Nat
      /\ Entries(events, Errors) \in Nat /\ HaltedPipes \in Nat
  BY PlacesTyped DEF IInv, OutInv, InInv
<1>b. ASSUME events # <<>>
      PROVE  /\ Head(events) \in Events
             /\ Tail(events) \in Seq(Events)
             /\ \A S : Entries(Tail(events), S) \in Nat
             /\ \A S : Entries(events, S) = Entries(Tail(events), S)
                         + (IF Head(events) \in S THEN 1 ELSE 0)
  <2>1. Head(events) \in Events /\ Tail(events) \in Seq(Events)
    BY <1>0, <1>b
  <2> QED
    BY <1>0, <1>b, <2>1, EntriesTyped, EntriesTaken
<1>c. ASSUME NEW e \in Events, events' = Append(events, e)
      PROVE  \A S : Entries(events', S)
                      = Entries(events, S) + (IF e \in S THEN 1 ELSE 0)
  BY <1>0, <1>c, EntriesAppended
<1>1. CASE \E w \in Writers : Writing(w)
  BY <1>1, UrbsFrame
     DEF Writing, Lock, Send, Count, inSide, inTask
<1>2. CASE Reader
  BY <1>2, UrbsFrame
     DEF Reader, Look, Handle, Read, ReadNothing, ReadRest, HandOver, ReadOn,
         ReadOnTimeout, outSide, inTask
<1>3. CASE OutUrbDone
  <2>1. /\ events # <<>> /\ Head(events).pipe = "out" /\ events' = Tail(events)
        /\ UNCHANGED <<inFree, dataPc, outHalted, inHalted>>
    BY <1>3 DEF OutUrbDone, NextEvent, inSide, inTask
  <2>2. PICK urb \in OutUrbs :
          /\ urb = Head(events).urb
          /\ Head(events) \notin InEvents /\ Head(events) \notin Errors
          /\ \A u : Head(events) \in DoneWith(u) <=> u = urb
    BY <1>b, <2>1, EventKinds
  <2>3. /\ Entries(events', InEvents) = Entries(events, InEvents)
        /\ Entries(events', Errors) = Entries(events, Errors)
    BY <1>a, <1>b, <2>1, <2>2
  <2>4. ASSUME NEW u \in OutUrbs  PROVE UrbMoves(u)
    <3>1. /\ Entries(events', DoneWith(u)) \in Nat
          /\ Entries(events, DoneWith(u)) = Entries(events', DoneWith(u))
               + (IF u = urb THEN 1 ELSE 0)
      BY <1>b, <2>1, <2>2
    <3>2. u = urb => u \notin pending
      <4>1. PlacesOf(u) <= 1
        BY DEF UrbsAccounted
      <4> QED
        BY <1>a, <3>1, <4>1 DEF PlacesOf
    <3>3. CASE Head(events).ok
      <4>1. SendNext(pending \cup {urb})
        BY <1>3, <2>2, <3>3 DEF OutUrbDone
      <4>2. LET after == Entries(outPipe', {u})
                           + (IF u \in pending' THEN 1 ELSE 0)
                before == Entries(outPipe, {u})
                            + (IF u \in pending \cup {urb} THEN 1 ELSE 0)
            IN  /\ Entries(outPipe', {u}) \in Nat
                /\ after <= before /\ (outHalted \/ after = before)
        BY <1>0, <4>1, SendNextUrbs
      <4>3. CASE u = urb
        <5>1. /\ (IF u \in pending THEN 1 ELSE 0) = 0
              /\ (IF u \in pending \cup {urb} THEN 1 ELSE 0) = 1
              /\ Entries(events, DoneWith(u)) = Entries(events', DoneWith(u)) + 1
          BY <3>1, <3>2, <4>3
        <5>2. PlacesOf(u) = Entries(outPipe, {u}) + Entries(events', DoneWith(u))
                + (IF u \in pending \cup {urb} THEN 1 ELSE 0)
          BY <1>a, <3>1, <5>1 DEF PlacesOf
        <5>3. PlacesOf(u)' = Entries(outPipe', {u})
                + Entries(events', DoneWith(u))
                + (IF u \in pending' THEN 1 ELSE 0)
          BY DEF PlacesOf
        <5> QED
          BY <1>a, <2>1, <3>1, <4>2, <5>2, <5>3 DEF UrbMoves
      <4>4. CASE u # urb
        BY <1>a, <2>1, <3>1, <4>2, <4>4 DEF UrbMoves, PlacesOf
      <4> QED
        BY <4>3, <4>4
    <3>4. CASE ~Head(events).ok
      <4>1. outPipe' = Enqueued(urb) /\ pending' = pending
        BY <1>3, <2>2, <3>4 DEF OutUrbDone
      <4>2. CASE outHalted
        <5>1. Entries(outPipe', {u}) = Entries(outPipe, {u})
          BY <4>1, <4>2 DEF Enqueued
        <5> QED
          BY <1>a, <2>1, <3>1, <4>1, <4>2, <5>1 DEF UrbMoves, PlacesOf
      <4>3. CASE ~outHalted
        <5>1. Entries(outPipe', {u})
                = Entries(outPipe, {u}) + (IF urb \in {u} THEN 1 ELSE 0)
          BY <1>0, <4>1, <4>3, EntriesAppended DEF Enqueued
        <5>2. CASE u = urb
          BY <1>a, <2>1, <3>1, <4>1, <5>1, <5>2 DEF UrbMoves, PlacesOf
        <5>3. CASE u # urb
          BY <1>a, <2>1, <3>1, <4>1, <5>1, <5>3 DEF UrbMoves, PlacesOf
        <5> QED
          BY <5>2, <5>3
      <4> QED
        BY <4>2, <4>3
    <3> QED
      BY <3>3, <3>4
  <2>5. InUrbsMove /\ PipesStayHalted /\ ErrorsMove
    BY <1>0, <1>a, <2>1, <2>3
       DEF InUrbsMove, InUrbsLeft, PipesStayHalted, ErrorsMove, HaltedPipes
  <2> QED
    BY <2>4, <2>5 DEF UrbsMove
<1>4. CASE Poll
  <2>1. /\ SendNext(pending)
        /\ UNCHANGED <<events, inFree, dataPc, outHalted, inHalted>>
    BY <1>4 DEF Poll, inSide, inTask
  <2>2. ASSUME NEW u \in OutUrbs  PROVE UrbMoves(u)
    <3>1. LET after == Entries(outPipe', {u})
                         + (IF u \in pending' THEN 1 ELSE 0)
              before == Entries(outPipe, {u})
                          + (IF u \in pending THEN 1 ELSE 0)
          IN  /\ Entries(outPipe', {u}) \in Nat
              /\ after <= before /\ (outHalted \/ after = before)
      BY <1>0, <2>1, SendNextUrbs
    <3>2. Entries(events', DoneWith(u)) = Entries(events, DoneWith(u))
      BY <2>1
    <3> QED
      BY <1>a, <2>1, <3>1, <3>2 DEF UrbMoves, PlacesOf
  <2>3. /\ Entries(events', InEvents) = Entries(events, InEvents)
        /\ Entries(events', Errors) = Entries(events, Errors)
    BY <2>1
  <2>4. InUrbsMove /\ PipesStayHalted /\ ErrorsMove
    BY <1>0, <1>a, <2>1, <2>3
       DEF InUrbsMove, InUrbsLeft, PipesStayHalted, ErrorsMove, HaltedPipes
  <2> QED
    BY <2>2, <2>4 DEF UrbsMove
<1>5. CASE InUrbDone
  <2>1. /\ events # <<>> /\ Head(events).pipe = "in" /\ events' = Tail(events)
        /\ dataPc = "wait" /\ dataPc' = "push"
        /\ UNCHANGED <<outPipe, pending, inFree, outHalted, inHalted>>
    BY <1>5 DEF InUrbDone, NextEvent, outSide
  <2>2. /\ Head(events) \in InEvents /\ Head(events) \notin Errors
        /\ \A u : Head(events) \notin DoneWith(u)
    BY <1>b, <2>1, EventKinds
  <2>3. /\ Entries(events', InEvents) \in Nat
        /\ Entries(events, InEvents) = Entries(events', InEvents) + 1
        /\ Entries(events', Errors) = Entries(events, Errors)
    BY <1>a, <1>b, <2>1, <2>2
  <2>4. \A u : Entries(events', DoneWith(u)) = Entries(events, DoneWith(u))
    BY <1>a, <1>b, <2>1, <2>2
  <2>5. \A u \in OutUrbs : UrbMoves(u)
    BY <1>a, <2>1, <2>4 DEF UrbMoves, PlacesOf
  <2>6. InUrbsMove
    BY <1>0, <1>a, <2>1, <2>3 DEF InUrbsMove, InUrbsLeft
  <2>7. PipesStayHalted /\ HaltedPipes' = HaltedPipes
    BY <2>1 DEF PipesStayHalted, HaltedPipes
  <2>8. ErrorsMove
    BY <1>a, <2>3, <2>7 DEF ErrorsMove
  <2> QED
    BY <2>5, <2>6, <2>7, <2>8 DEF UrbsMove
<1>6. CASE Push \/ CountPushed \/ SkipPayload
  <2>1. UNCHANGED <<outPipe, pending, events, outHalted, inHalted>>
    BY <1>6 DEF Push, CountPushed, SkipPayload, outSide
  <2>2. \/ /\ dataPc = "push" /\ dataPc' = "count" /\ inFree' = inFree
        \/ /\ dataPc \in {"push", "count"} /\ dataPc' = "wait"
           /\ inFree' = IF inHalted THEN inFree ELSE inFree + 1
    BY <1>6 DEF Push, CountPushed, SkipPayload, GiveBack
  <2>3. /\ Entries(events', InEvents) = Entries(events, InEvents)
        /\ Entries(events', Errors) = Entries(events, Errors)
        /\ \A u : /\ Entries(events', DoneWith(u))
                       = Entries(events, DoneWith(u))
                  /\ Entries(outPipe', {u}) = Entries(outPipe, {u})
    BY <2>1
  <2>4. \A u \in OutUrbs : UrbMoves(u)
    BY <1>a, <2>1, <2>3 DEF UrbMoves, PlacesOf
  <2>5. InUrbsMove
    BY <1>0, <1>a, <2>1, <2>2, <2>3 DEF InUrbsMove, InUrbsLeft
  <2>6. PipesStayHalted /\ ErrorsMove
    BY <1>a, <2>1, <2>3 DEF PipesStayHalted, ErrorsMove, HaltedPipes
  <2> QED
    BY <2>4, <2>5, <2>6 DEF UrbsMove
<1>7. CASE PipeError
  <2>1. /\ events # <<>> /\ Head(events).pipe = "error"
        /\ events' = Tail(events)
        /\ UNCHANGED <<outPipe, pending, inFree, dataPc, outHalted, inHalted>>
    BY <1>7 DEF PipeError, NextEvent, outSide, inSide, inTask
  <2>2. /\ Head(events) \in Errors /\ Head(events) \notin InEvents
        /\ \A u : Head(events) \notin DoneWith(u)
    BY <1>b, <2>1, EventKinds
  <2>3. /\ Entries(events', Errors) \in Nat
        /\ Entries(events, Errors) = Entries(events', Errors) + 1
        /\ Entries(events', InEvents) = Entries(events, InEvents)
        /\ \A u : Entries(events', DoneWith(u)) = Entries(events, DoneWith(u))
    BY <1>a, <1>b, <2>1, <2>2
  <2>4. \A u \in OutUrbs : UrbMoves(u)
    BY <1>a, <2>1, <2>3 DEF UrbMoves, PlacesOf
  <2>5. InUrbsMove /\ PipesStayHalted /\ ErrorsMove
    BY <1>0, <1>a, <2>1, <2>3
       DEF InUrbsMove, InUrbsLeft, PipesStayHalted, ErrorsMove, HaltedPipes
  <2> QED
    BY <2>4, <2>5 DEF UrbsMove
<1>8. CASE CompleteIn
  <2>1. PICK e \in InEvents : events' = Append(events, e)
    <3>1. PICK n \in 1..Min({UrbSize, MaxIn - arrived}) :
            events' = Append(events,
                             [pipe |-> "in", bytes |-> Numbers(arrived, n)])
      BY <1>8 DEF CompleteIn
    <3>2. events' \in Seq(Events)
      BY <1>8, Inductive DEF IInv, QueueInv
    <3> DEFINE e == [pipe |-> "in", bytes |-> Numbers(arrived, n)]
    <3>3. e \in Events
      <4>1. Len(events) + 1 \in 1..Len(events')
        BY <1>0, <3>1
      <4>2. events'[Len(events) + 1] = e
        BY <1>0, <3>1
      <4> HIDE DEF e
      <4> QED
        BY <3>2, <4>1, <4>2
    <3>4. e.pipe = "in"
      OBVIOUS
    <3> HIDE DEF e
    <3>5. e \in InEvents
      BY <3>3, <3>4, EventKinds
    <3> QED
      BY <3>1, <3>5 DEF e
  <2>2. /\ inFree > 0 /\ inFree' = inFree - 1
        /\ UNCHANGED <<outPipe, pending, dataPc, outHalted, inHalted>>
    BY <1>8 DEF CompleteIn, outSide
  <2>3. /\ e \in Events /\ e \notin Errors /\ \A u : e \notin DoneWith(u)
        /\ \A S : Entries(events', S)
                    = Entries(events, S) + (IF e \in S THEN 1 ELSE 0)
    BY <1>c, <2>1, EventKinds DEF Events
  <2>4. /\ Entries(events', InEvents) = Entries(events, InEvents) + 1
        /\ Entries(events', Errors) = Entries(events, Errors)
        /\ \A u : Entries(events', DoneWith(u)) = Entries(events, DoneWith(u))
    <3>1. ASSUME NEW S, e \notin S
          PROVE  Entries(events', S) = Entries(events, S) + 0
      BY <2>3, <3>1
    <3>2. Entries(events', InEvents) = Entries(events, InEvents) + 1
      BY <2>1, <2>3
    <3>3. Entries(events', Errors) = Entries(events, Errors)
      BY <1>a, <2>3, <3>1
    <3>4. ASSUME NEW u
          PROVE  Entries(events', DoneWith(u)) = Entries(events, DoneWith(u))
      <4>1. e \notin DoneWith(u)
        BY <2>3
      <4>2. Entries(events', DoneWith(u)) = Entries(events, DoneWith(u)) + 0
        BY <3>1, <4>1
      <4>3. Entries(events, DoneWith(u)) \in Nat
        BY <1>a
      <4> QED
        BY <4>2, <4>3
    <3> QED
      BY <3>2, <3>3, <3>4
  <2>5. \A u \in OutUrbs : UrbMoves(u)
    BY <1>a, <2>2, <2>4 DEF UrbMoves, PlacesOf
  <2>6. InUrbsMove /\ PipesStayHalted /\ ErrorsMove
    BY <1>0, <1>a, <2>2, <2>4
       DEF InUrbsMove, InUrbsLeft, PipesStayHalted, ErrorsMove, HaltedPipes
  <2> QED
    BY <2>5, <2>6 DEF UrbsMove
<1>9. ASSUME NEW ok \in BOOLEAN, CompleteOut(ok)  PROVE UrbsMove
  <2>1. /\ outPipe # <<>> /\ outPipe' = Tail(outPipe)
        /\ UNCHANGED <<pending, inFree, dataPc, outHalted, inHalted>>
    BY <1>9 DEF CompleteOut, inSide, inTask
  <2>2. PICK urb \in OutUrbs, e \in OutEvents :
          /\ urb = Head(outPipe) /\ urb = e.urb /\ events' = Append(events, e)
    <3>1. Head(outPipe) \in OutUrbs
      BY <1>0, <2>1
    <3>2. [pipe |-> "out", urb |-> Head(outPipe), ok |-> ok] \in OutEvents
      BY <3>1 DEF OutEvents
    <3> QED
      BY <1>9, <3>1, <3>2 DEF CompleteOut
  <2>3. /\ e \in Events /\ e \notin InEvents /\ e \notin Errors
        /\ \A u : e \in DoneWith(u) <=> u = urb
    BY <2>2, EventKinds DEF Events
  <2>4. /\ Entries(events', InEvents) = Entries(events, InEvents)
        /\ Entries(events', Errors) = Entries(events, Errors)
    BY <1>a, <1>c, <2>2, <2>3
  <2>5. ASSUME NEW u \in OutUrbs  PROVE UrbMoves(u)
    <3>1. /\ Entries(outPipe', {u}) \in Nat
          /\ Entries(outPipe, {u}) = Entries(outPipe', {u})
               + (IF urb \in {u} THEN 1 ELSE 0)
      <4>1. Tail(outPipe) \in Seq(OutUrbs)
        BY <1>0, <2>1
      <4> QED
        BY <1>0, <2>1, <2>2, <4>1, EntriesTaken, EntriesTyped
    <3>2. Entries(events', DoneWith(u)) = Entries(events, DoneWith(u))
            + (IF u = urb THEN 1 ELSE 0)
      BY <1>c, <2>2, <2>3
    <3>3. CASE u = urb
      <4>1. /\ Entries(outPipe, {u}) = Entries(outPipe', {u}) + 1
            /\ Entries(events', DoneWith(u)) = Entries(events, DoneWith(u)) + 1
        BY <3>1, <3>2, <3>3
      <4> QED
        BY <1>a, <2>1, <3>1, <4>1 DEF UrbMoves, PlacesOf
    <3>4. CASE u # urb
      BY <1>a, <2>1, <3>1, <3>2, <3>4 DEF UrbMoves, PlacesOf
    <3> QED
      BY <3>3, <3>4
  <2>6. InUrbsMove /\ PipesStayHalted /\ ErrorsMove
    BY <1>0, <1>a, <2>1, <2>4
       DEF InUrbsMove, InUrbsLeft, PipesStayHalted, ErrorsMove, HaltedPipes
  <2> QED
    BY <2>5, <2>6 DEF UrbsMove
<1>10. CASE HaltOut \/ HaltIn
  <2>1. /\ events' = Append(events, [pipe |-> "error"])
        /\ UNCHANGED <<outPipe, pending, inFree, dataPc>>
        /\ \/ ~outHalted /\ outHalted' = TRUE /\ inHalted' = inHalted
           \/ ~inHalted /\ inHalted' = TRUE /\ outHalted' = outHalted
    BY <1>10 DEF HaltOut, HaltIn, outSide, inSide, inTask
  <2>2. PICK e \in Errors : events' = Append(events, e)
    BY <2>1 DEF Errors
  <2>3. /\ e \in Events /\ e \notin InEvents /\ \A u : e \notin DoneWith(u)
        /\ \A S : Entries(events', S)
                    = Entries(events, S) + (IF e \in S THEN 1 ELSE 0)
    BY <1>c, <2>2, EventKinds DEF Events
  <2>4. /\ Entries(events', Errors) = Entries(events, Errors) + 1
        /\ Entries(events', InEvents) = Entries(events, InEvents)
        /\ \A u : Entries(events', DoneWith(u)) = Entries(events, DoneWith(u))
    <3>1. ASSUME NEW S, e \notin S
          PROVE  Entries(events', S) = Entries(events, S) + 0
      BY <2>3, <3>1
    <3>2. Entries(events', Errors) = Entries(events, Errors) + 1
      BY <2>2, <2>3
    <3>3. Entries(events', InEvents) = Entries(events, InEvents)
      BY <1>a, <2>3, <3>1
    <3>4. ASSUME NEW u
          PROVE  Entries(events', DoneWith(u)) = Entries(events, DoneWith(u))
      <4>1. e \notin DoneWith(u)
        BY <2>3
      <4>2. Entries(events', DoneWith(u)) = Entries(events, DoneWith(u)) + 0
        BY <3>1, <4>1
      <4>3. Entries(events, DoneWith(u)) \in Nat
        BY <1>a
      <4> QED
        BY <4>2, <4>3
    <3> QED
      BY <3>2, <3>3, <3>4
  <2>5. \A u \in OutUrbs : UrbMoves(u)
    BY <1>a, <2>1, <2>4 DEF UrbMoves, PlacesOf
  <2>6. InUrbsMove /\ PipesStayHalted
    BY <1>0, <1>a, <2>1, <2>4 DEF InUrbsMove, InUrbsLeft, PipesStayHalted
  <2>7. ErrorsMove
    BY <1>0, <1>a, <2>1, <2>4 DEF ErrorsMove, HaltedPipes
  <2> QED
    BY <2>5, <2>6, <2>7 DEF UrbsMove
<1>11. CASE UNCHANGED vars
  BY <1>11, UrbsFrame DEF vars, outSide, inSide, inTask
<1> QED
  BY <1>1, <1>2, <1>3, <1>4, <1>5, <1>6, <1>7, <1>8, <1>9, <1>10, <1>11
  DEF Next, DataTask, Modem

(* Every URB is in at most one place, whatever fails: none is filled while *)
(* it is transferred; none is lost before its pipe is halted; and          *)
(* data_queue never holds more events than there are URBs and pipes.       *)
THEOREM UrbsAccountedCorrect == Spec => []UrbsAccounted
<1>1. Init => UrbsAccounted
  <2> SUFFICES ASSUME Init PROVE UrbsAccounted
    OBVIOUS
  <2>1. \A u \in OutUrbs : Entries(outPipe, {u}) = 1
    BY EachUrbOnce DEF Init
  <2>2. \A S : Entries(events, S) = 0
    BY NoEntries DEF Init
  <2>3. /\ pending = {} /\ inFree = InUrbs /\ dataPc = "wait" /\ InUrbs \in Nat
        /\ outHalted = FALSE /\ inHalted = FALSE
    BY Bounds DEF Init
  <2> QED
    BY <2>1, <2>2, <2>3
       DEF UrbsAccounted, PlacesOf, InUrbsLeft, HaltedPipes
<1>2. IInv /\ UrbsAccounted /\ [Next]_vars => UrbsAccounted'
  BY UrbsStep, MovesAccount, Inductive
<1> QED
  BY <1>1, <1>2, Invariance, PTL DEF Spec

-----------------------------------------------------------------------------
(* Bytes on the way: sequences as the sets of what they hold.              *)

LEMMA HeldTyped ==
  ASSUME NEW S, NEW s \in Seq(S)
  PROVE  ToSet(s) \subseteq S /\ ToSet(<<>>) = {}
BY DEF ToSet

LEMMA Numbered ==
  ASSUME NEW S \in SUBSET Int, NEW s \in Seq(S)
  PROVE  s \in Seq(Int)
<1>1. Len(s) \in Nat /\ s \in [1..Len(s) -> S]
  OBVIOUS
<1>2. s \in [1..Len(s) -> Int]
  BY <1>1
<1> QED
  BY <1>1, <1>2

(* What two sequences hold together.                                       *)
LEMMA HeldJoined ==
  ASSUME NEW S, NEW s \in Seq(S), NEW t \in Seq(S)
  PROVE  ToSet(s \o t) = ToSet(s) \cup ToSet(t)
<1>1. \A i \in DOMAIN (s \o t) :
        (s \o t)[i] = IF i <= Len(s) THEN s[i] ELSE t[i - Len(s)]
  OBVIOUS
<1>2. ASSUME NEW i \in DOMAIN (s \o t)
      PROVE  (s \o t)[i] \in ToSet(s) \cup ToSet(t)
  <2>1. CASE i <= Len(s)
    BY <2>1 DEF ToSet
  <2>2. CASE i > Len(s)
    <3>1. i - Len(s) \in DOMAIN t /\ (s \o t)[i] = t[i - Len(s)]
      BY <2>2
    <3> QED
      BY <3>1 DEF ToSet
  <2> QED
    BY <2>1, <2>2
<1>3. ASSUME NEW i \in DOMAIN s  PROVE s[i] \in ToSet(s \o t)
  <2>1. i \in DOMAIN (s \o t) /\ (s \o t)[i] = s[i]
    OBVIOUS
  <2> QED
    BY <2>1 DEF ToSet
<1>4. ASSUME NEW i \in DOMAIN t  PROVE t[i] \in ToSet(s \o t)
  <2>1. /\ i + Len(s) \in DOMAIN (s \o t)
        /\ (s \o t)[i + Len(s)] = t[i]
    OBVIOUS
  <2> QED
    BY <2>1 DEF ToSet
<1> QED
  BY <1>2, <1>3, <1>4 DEF ToSet

LEMMA JoinedAt ==
  ASSUME NEW S, NEW a \in Seq(S), NEW b \in Seq(S),
         NEW i \in 1..(Len(a) + Len(b))
  PROVE  (a \o b)[i] = IF i <= Len(a) THEN a[i] ELSE b[i - Len(a)]
OBVIOUS

LEMMA SplitAt ==
  ASSUME NEW S, NEW s \in Seq(S), NEW k \in 0..Len(s)
  PROVE  /\ DOMAIN First(s, k) = 1..k /\ DOMAIN Rest(s, k) = 1..(Len(s) - k)
         /\ \A i \in 1..k : First(s, k)[i] = s[i]
         /\ \A i \in 1..(Len(s) - k) : Rest(s, k)[i] = s[i + k]
         /\ DOMAIN s = 1..Len(s) /\ Len(s) \in Nat
BY DEF First, Rest

LEMMA SameFunction ==
  ASSUME NEW D, NEW S, NEW f \in [D -> S], NEW g \in [D -> S],
         \A x \in D : f[x] = g[x]
  PROVE  f = g
OBVIOUS

(* What the first k elements and the others hold.                          *)
LEMMA HeldSplit ==
  ASSUME NEW S, NEW s \in Seq(S), NEW k \in 0..Len(s)
  PROVE  /\ First(s, k) \in Seq(S) /\ Rest(s, k) \in Seq(S)
         /\ s = First(s, k) \o Rest(s, k)
         /\ ToSet(s) = ToSet(First(s, k)) \cup ToSet(Rest(s, k))
<1>1. First(s, k) \in Seq(S) /\ Rest(s, k) \in Seq(S)
  BY SplitRing
<1>2. s = First(s, k) \o Rest(s, k)
  <2> DEFINE r == First(s, k) \o Rest(s, k)
  <2>1. Len(s) \in Nat /\ s \in [1..Len(s) -> S]
    OBVIOUS
  <2>2. r \in Seq(S) /\ Len(r) = Len(s)
    BY <1>1, SplitRing
  <2>3. r \in [1..Len(s) -> S]
    <3> HIDE DEF r
    <3> QED
      BY <2>1, <2>2
  <2>4. ASSUME NEW i \in 1..Len(s)  PROVE r[i] = s[i]
    <3>1. /\ Len(First(s, k)) = k /\ Len(Rest(s, k)) = Len(s) - k
          /\ k \in Nat /\ i \in Nat
      BY SplitRing
    <3>2. r[i] = IF i <= k THEN First(s, k)[i] ELSE Rest(s, k)[i - k]
      <4>1. i \in 1..(Len(First(s, k)) + Len(Rest(s, k)))
        BY <2>1, <3>1
      <4>2. r[i] = IF i <= Len(First(s, k)) THEN First(s, k)[i]
                   ELSE Rest(s, k)[i - Len(First(s, k))]
        BY <1>1, <4>1, JoinedAt
      <4> HIDE DEF r
      <4> QED
        BY <3>1, <4>2
    <3>3. i <= k => First(s, k)[i] = s[i]
      BY <3>1, SplitAt
    <3>4. ASSUME i > k  PROVE Rest(s, k)[i - k] = s[i]
      <4>1. i - k \in 1..(Len(s) - k) /\ (i - k) + k = i
        BY <2>1, <3>1, <3>4
      <4> QED
        BY <4>1, SplitAt
    <3> HIDE DEF r
    <3> QED
      BY <3>1, <3>2, <3>3, <3>4
  <2> HIDE DEF r
  <2>5. r = s
    BY <2>1, <2>3, <2>4, SameFunction
  <2> QED
    BY <2>5 DEF r
<1>3. ToSet(First(s, k) \o Rest(s, k))
        = ToSet(First(s, k)) \cup ToSet(Rest(s, k))
  BY <1>1, HeldJoined
<1> QED
  BY <1>1, <1>2, <1>3

LEMMA FirstAppended ==
  ASSUME NEW S, NEW s \in Seq(S), s # <<>>, NEW t \in Seq(S)
  PROVE  Append(t, Head(s)) = t \o First(s, 1)
<1>1. PICK n \in Nat : n = Len(t) + 1
  OBVIOUS
<1>2. /\ 1 \in 0..Len(s) /\ 1 \in 1..1
      /\ Head(s) = s[1] /\ Head(s) \in S /\ Len(t) \in Nat
  OBVIOUS
<1>3. /\ First(s, 1) \in Seq(S) /\ Len(First(s, 1)) = 1
      /\ First(s, 1)[1] = Head(s)
  BY <1>2, SplitRing, SplitAt
<1> DEFINE p == Append(t, Head(s))
           q == t \o First(s, 1)
<1>4. p \in Seq(S) /\ Len(p) = n
  BY <1>1, <1>2, AppendTyped
<1>5. q \in Seq(S) /\ Len(q) = n
  BY <1>1, <1>3, Joined
<1>6. ASSUME NEW i \in 1..n  PROVE p[i] = q[i]
  <2>1. p[i] = IF i <= Len(t) THEN t[i] ELSE Head(s)
    BY <1>1
  <2>2. q[i] = IF i <= Len(t) THEN t[i] ELSE First(s, 1)[i - Len(t)]
    BY <1>1, <1>3, JoinedAt
  <2>3. i > Len(t) => i - Len(t) = 1
    BY <1>1, <1>2
  <2> HIDE DEF p, q
  <2> QED
    BY <1>2, <1>3, <2>1, <2>2, <2>3
<1> HIDE DEF p, q
<1>7. p \in [1..n -> S]
  BY <1>1, <1>4
<1>8. q \in [1..n -> S]
  BY <1>1, <1>5
<1>9. p = q
  BY <1>6, <1>7, <1>8, SameFunction
<1> QED
  BY <1>9 DEF p, q

(* One element more at the end.                                            *)
LEMMA HeldAppended ==
  ASSUME NEW S, NEW s \in Seq(S), NEW x \in S
  PROVE  ToSet(Append(s, x)) = ToSet(s) \cup {x}
<1>1. \A i \in DOMAIN Append(s, x) :
        Append(s, x)[i] = IF i = Len(s) + 1 THEN x ELSE s[i]
  OBVIOUS
<1>2. DOMAIN Append(s, x) = DOMAIN s \cup {Len(s) + 1}
      /\ Len(s) + 1 \notin DOMAIN s
  OBVIOUS
<1> QED
  BY <1>1, <1>2 DEF ToSet

(* The others than the first.                                              *)
LEMMA HeldTail ==
  ASSUME NEW S, NEW s \in Seq(S), s # <<>>
  PROVE  /\ Head(s) \in S /\ Tail(s) \in Seq(S)
         /\ ToSet(s) = {Head(s)} \cup ToSet(Tail(s))
         /\ DOMAIN Tail(s) = 1..(Len(s) - 1)
         /\ \A i \in DOMAIN Tail(s) :
              i + 1 \in DOMAIN s /\ Tail(s)[i] = s[i + 1]
<1>1. /\ \A i \in DOMAIN Tail(s) : i + 1 \in DOMAIN s /\ Tail(s)[i] = s[i + 1]
      /\ Head(s) = s[1] /\ 1 \in DOMAIN s
      /\ DOMAIN Tail(s) = 1..(Len(s) - 1)
  OBVIOUS
<1>2. \A i \in DOMAIN s : i = 1 \/ (i - 1 \in DOMAIN Tail(s)
                                     /\ Tail(s)[i - 1] = s[i])
  OBVIOUS
<1>3. ToSet(s) \subseteq {Head(s)} \cup ToSet(Tail(s))
  BY <1>1, <1>2 DEF ToSet
<1>4. {Head(s)} \cup ToSet(Tail(s)) \subseteq ToSet(s)
  BY <1>1 DEF ToSet
<1> QED
  BY <1>1, <1>3, <1>4

(* New bytes are numbered on.                                              *)
LEMMA NumbersHeld ==
  ASSUME NEW from \in Nat, NEW n \in Nat
  PROVE  /\ Numbers(from, n) \in Seq(Nat)
         /\ ToSet(Numbers(from, n)) = (from + 1)..(from + n)
         /\ Rising(Numbers(from, n)) /\ IsInjective(Numbers(from, n))
<1>1. Numbers(from, n) \in Seq(Nat)
  <2>1. Numbers(from, n) \in [1..n -> Nat]
    BY DEF Numbers
  <2> QED
    BY <2>1
<1>2. ASSUME NEW b \in (from + 1)..(from + n)
      PROVE  b - from \in 1..n /\ from + (b - from) = b
  OBVIOUS
<1>3. ToSet(Numbers(from, n)) = (from + 1)..(from + n)
  <2>1. ToSet(Numbers(from, n)) \subseteq (from + 1)..(from + n)
    BY DEF ToSet, Numbers
  <2>2. (from + 1)..(from + n) \subseteq ToSet(Numbers(from, n))
    BY <1>2 DEF ToSet, Numbers
  <2> QED
    BY <2>1, <2>2
<1> QED
  BY <1>1, <1>3 DEF Rising, IsInjective, Numbers

(* Two pieces are in order together if the first is below the second.      *)
LEMMA RisingJoined ==
  ASSUME NEW s \in Seq(Int), NEW t \in Seq(Int), Rising(s), Rising(t),
         Below(ToSet(s), ToSet(t))
  PROVE  Rising(s \o t)
<1> SUFFICES ASSUME NEW i \in DOMAIN (s \o t), NEW j \in DOMAIN (s \o t), i < j
             PROVE  (s \o t)[i] < (s \o t)[j]
  BY DEF Rising
<1>1. CASE j <= Len(s)
  BY <1>1 DEF Rising
<1>2. CASE i > Len(s)
  <2>1. /\ i - Len(s) \in DOMAIN t /\ (s \o t)[i] = t[i - Len(s)]
        /\ j - Len(s) \in DOMAIN t /\ (s \o t)[j] = t[j - Len(s)]
        /\ i - Len(s) < j - Len(s)
    BY <1>2
  <2> QED
    BY <2>1 DEF Rising
<1>3. CASE i <= Len(s) /\ j > Len(s)
  <2>1. /\ i \in DOMAIN s /\ (s \o t)[i] = s[i]
        /\ j - Len(s) \in DOMAIN t /\ (s \o t)[j] = t[j - Len(s)]
    BY <1>3
  <2> QED
    BY <2>1 DEF Below, ToSet
<1> QED
  BY <1>1, <1>2, <1>3

(* Both parts of a piece in order are, and the first is below the other.   *)
LEMMA RisingSplit ==
  ASSUME NEW s \in Seq(Int), NEW k \in 0..Len(s), Rising(s)
  PROVE  /\ Rising(First(s, k)) /\ Rising(Rest(s, k))
         /\ Below(ToSet(First(s, k)), ToSet(Rest(s, k)))
<1>1. /\ DOMAIN First(s, k) = 1..k /\ DOMAIN Rest(s, k) = 1..(Len(s) - k)
      /\ \A i \in 1..k : First(s, k)[i] = s[i]
      /\ \A i \in 1..(Len(s) - k) : Rest(s, k)[i] = s[i + k]
      /\ DOMAIN s = 1..Len(s) /\ Len(s) \in Nat
  BY SplitAt
<1>2. Rising(First(s, k))
  BY <1>1 DEF Rising
<1>3. Rising(Rest(s, k))
  <2> SUFFICES ASSUME NEW i \in 1..(Len(s) - k),
                      NEW j \in 1..(Len(s) - k), i < j
               PROVE  Rest(s, k)[i] < Rest(s, k)[j]
    BY <1>1 DEF Rising
  <2>1. i + k \in DOMAIN s /\ j + k \in DOMAIN s /\ i + k < j + k
    BY <1>1
  <2> QED
    BY <1>1, <2>1 DEF Rising
<1>4. ASSUME NEW i \in 1..k, NEW j \in 1..(Len(s) - k)
      PROVE  First(s, k)[i] < Rest(s, k)[j]
  <2>1. i \in DOMAIN s /\ j + k \in DOMAIN s /\ i < j + k
    BY <1>1
  <2> QED
    BY <1>1, <2>1 DEF Rising
<1> QED
  BY <1>1, <1>2, <1>3, <1>4 DEF Below, ToSet

(* No byte twice in two pieces that share none.                            *)
LEMMA InjectiveJoined ==
  ASSUME NEW s \in Seq(Int), NEW t \in Seq(Int),
         IsInjective(s), IsInjective(t),
         ToSet(s) \cap ToSet(t) = {}
  PROVE  IsInjective(s \o t)
<1> SUFFICES ASSUME NEW i \in DOMAIN (s \o t), NEW j \in DOMAIN (s \o t), i # j
             PROVE  (s \o t)[i] # (s \o t)[j]
  BY Zenon DEF IsInjective
<1>1. CASE i <= Len(s) /\ j <= Len(s)
  BY <1>1 DEF IsInjective
<1>2. CASE i > Len(s) /\ j > Len(s)
  <2>1. /\ i - Len(s) \in DOMAIN t /\ (s \o t)[i] = t[i - Len(s)]
        /\ j - Len(s) \in DOMAIN t /\ (s \o t)[j] = t[j - Len(s)]
        /\ i - Len(s) # j - Len(s)
    BY <1>2
  <2> QED
    BY <2>1 DEF IsInjective
<1>3. CASE i <= Len(s) /\ j > Len(s)
  <2>1. /\ i \in DOMAIN s /\ (s \o t)[i] = s[i]
        /\ j - Len(s) \in DOMAIN t /\ (s \o t)[j] = t[j - Len(s)]
    BY <1>3
  <2> QED
    BY <2>1 DEF ToSet
<1>4. CASE i > Len(s) /\ j <= Len(s)
  <2>1. /\ j \in DOMAIN s /\ (s \o t)[j] = s[j]
        /\ i - Len(s) \in DOMAIN t /\ (s \o t)[i] = t[i - Len(s)]
    BY <1>4, SMTT(30)
  <2> QED
    BY <2>1 DEF ToSet
<1> QED
  BY <1>1, <1>2, <1>3, <1>4

(* No byte twice in either part, nor in both.                              *)
LEMMA InjectiveSplit ==
  ASSUME NEW s \in Seq(Int), NEW k \in 0..Len(s), IsInjective(s)
  PROVE  /\ IsInjective(First(s, k)) /\ IsInjective(Rest(s, k))
         /\ ToSet(First(s, k)) \cap ToSet(Rest(s, k)) = {}
<1>1. /\ DOMAIN First(s, k) = 1..k /\ DOMAIN Rest(s, k) = 1..(Len(s) - k)
      /\ \A i \in 1..k : First(s, k)[i] = s[i]
      /\ \A i \in 1..(Len(s) - k) : Rest(s, k)[i] = s[i + k]
      /\ DOMAIN s = 1..Len(s) /\ Len(s) \in Nat
  BY SplitAt
<1>2. IsInjective(First(s, k))
  BY <1>1 DEF IsInjective
<1>3. IsInjective(Rest(s, k))
  <2> SUFFICES ASSUME NEW i \in 1..(Len(s) - k),
                      NEW j \in 1..(Len(s) - k), i # j
               PROVE  Rest(s, k)[i] # Rest(s, k)[j]
    BY <1>1 DEF IsInjective
  <2>1. i + k \in DOMAIN s /\ j + k \in DOMAIN s /\ i + k # j + k
    BY <1>1
  <2> QED
    BY <1>1, <2>1 DEF IsInjective
<1>4. ASSUME NEW i \in 1..k, NEW j \in 1..(Len(s) - k)
      PROVE  First(s, k)[i] # Rest(s, k)[j]
  <2>1. i \in DOMAIN s /\ j + k \in DOMAIN s /\ i # j + k
    BY <1>1
  <2> QED
    BY <1>1, <2>1 DEF IsInjective
<1> QED
  BY <1>1, <1>2, <1>3, <1>4 DEF ToSet

(* Pieces put one behind the other.                                        *)
LEMMA OnePiece ==
  ASSUME NEW s \in Seq(Int)
  PROVE  /\ <<s>> \in Seq(Seq(Int)) /\ Bytes(<<s>>) = ToSet(s)
         /\ Rising(s) => InOrder(<<s>>)
         /\ IsInjective(s) => NoneTwice(<<s>>)
<1>1. DOMAIN <<s>> = {1} /\ <<s>>[1] = s
  OBVIOUS
<1>2. Bytes(<<s>>) = ToSet(s)
  BY <1>1 DEF Bytes
<1>3. Rising(s) => InOrder(<<s>>)
  BY <1>1 DEF InOrder
<1>4. IsInjective(s) => NoneTwice(<<s>>)
  BY <1>1 DEF NoneTwice
<1> QED
  BY <1>2, <1>3, <1>4

(* Two lists of pieces: what they hold together, and when it is in order.  *)
LEMMA PiecesJoined ==
  ASSUME NEW p \in Seq(Seq(Int)), NEW q \in Seq(Seq(Int))
  PROVE  /\ p \o q \in Seq(Seq(Int))
         /\ Bytes(p \o q) = Bytes(p) \cup Bytes(q)
         /\ InOrder(p) /\ InOrder(q) /\ Below(Bytes(p), Bytes(q))
              => InOrder(p \o q)
         /\ NoneTwice(p) /\ NoneTwice(q) /\ Bytes(p) \cap Bytes(q) = {}
              => NoneTwice(p \o q)
<1> DEFINE r == p \o q
<1>1. /\ r \in Seq(Seq(Int))
      /\ \A m \in DOMAIN p : m \in DOMAIN r /\ r[m] = p[m]
      /\ \A m \in DOMAIN q : m + Len(p) \in DOMAIN r /\ r[m + Len(p)] = q[m]
      /\ \A m \in DOMAIN r :
           \/ m \in DOMAIN p
           \/ m > Len(p) /\ m - Len(p) \in DOMAIN q /\ r[m] = q[m - Len(p)]
      /\ Len(p) \in Nat /\ DOMAIN p = 1..Len(p)
      /\ Len(q) \in Nat /\ DOMAIN q = 1..Len(q)
      /\ DOMAIN r = 1..(Len(p) + Len(q))
  <2>1. r \in Seq(Seq(Int)) /\ Len(r) = Len(p) + Len(q)
    BY Joined
  <2>2. ASSUME NEW m \in DOMAIN p  PROVE m \in DOMAIN r /\ r[m] = p[m]
    OBVIOUS
  <2>3. ASSUME NEW m \in DOMAIN q
        PROVE  m + Len(p) \in DOMAIN r /\ r[m + Len(p)] = q[m]
    OBVIOUS
  <2>4. ASSUME NEW m \in DOMAIN r
        PROVE  \/ m \in DOMAIN p
               \/ m > Len(p) /\ m - Len(p) \in DOMAIN q
                    /\ r[m] = q[m - Len(p)]
    OBVIOUS
  <2> HIDE DEF r
  <2> QED
    BY <2>1, <2>2, <2>3, <2>4
<1> HIDE DEF r
<1>2. /\ \A m \in DOMAIN p : ToSet(p[m]) \subseteq Bytes(p)
      /\ \A m \in DOMAIN q : ToSet(q[m]) \subseteq Bytes(q)
  BY DEF Bytes
<1>3. Bytes(r) = Bytes(p) \cup Bytes(q)
  <2>1. \A m \in DOMAIN r : ToSet(r[m]) \subseteq Bytes(p) \cup Bytes(q)
    BY <1>1, <1>2
  <2>2. /\ \A m \in DOMAIN p : ToSet(p[m]) \subseteq Bytes(r)
        /\ \A m \in DOMAIN q : ToSet(q[m]) \subseteq Bytes(r)
    BY <1>1 DEF Bytes
  <2> QED
    BY <2>1, <2>2 DEF Bytes
<1>4. ASSUME InOrder(p), InOrder(q), Below(Bytes(p), Bytes(q))
      PROVE  InOrder(r)
  <2>1. ASSUME NEW m \in DOMAIN r  PROVE Rising(r[m])
    BY <1>1, <1>4 DEF InOrder
  <2>2. ASSUME NEW m \in DOMAIN r, NEW n \in DOMAIN r, m < n
        PROVE  Below(ToSet(r[m]), ToSet(r[n]))
    <3>1. CASE n \in DOMAIN p
      <4>1. m \in DOMAIN p
        BY <1>1, <2>2, <3>1
      <4> QED
        BY <1>1, <1>4, <2>2, <3>1, <4>1 DEF InOrder
    <3>2. CASE m \notin DOMAIN p
      <4>1. /\ m - Len(p) \in DOMAIN q /\ r[m] = q[m - Len(p)]
            /\ n - Len(p) \in DOMAIN q /\ r[n] = q[n - Len(p)]
            /\ m - Len(p) < n - Len(p)
        <5>1. m \in Int /\ n \in Int /\ n \notin DOMAIN p
          BY <1>1, <2>2, <3>2
        <5> QED
          BY <1>1, <2>2, <3>2, <5>1
      <4> QED
        BY <1>4, <4>1 DEF InOrder
    <3>3. CASE m \in DOMAIN p /\ n \notin DOMAIN p
      <4>1. r[m] = p[m] /\ n - Len(p) \in DOMAIN q /\ r[n] = q[n - Len(p)]
        BY <1>1, <3>3
      <4>2. ToSet(r[m]) \subseteq Bytes(p) /\ ToSet(r[n]) \subseteq Bytes(q)
        BY <1>2, <3>3, <4>1
      <4> QED
        BY <1>4, <4>2 DEF Below
    <3> QED
      BY <1>1, <2>2, <3>1, <3>2, <3>3
  <2> QED
    BY <2>1, <2>2 DEF InOrder
<1>5. ASSUME NoneTwice(p), NoneTwice(q), Bytes(p) \cap Bytes(q) = {}
      PROVE  NoneTwice(r)
  <2>1. ASSUME NEW m \in DOMAIN r  PROVE IsInjective(r[m])
    BY <1>1, <1>5 DEF NoneTwice
  <2>2. ASSUME NEW m \in DOMAIN r, NEW n \in DOMAIN r, m < n
        PROVE  ToSet(r[m]) \cap ToSet(r[n]) = {}
    <3>1. CASE n \in DOMAIN p
      <4>1. m \in DOMAIN p /\ m # n
        BY <1>1, <2>2, <3>1
      <4> QED
        BY <1>1, <1>5, <3>1, <4>1 DEF NoneTwice
    <3>2. CASE m \notin DOMAIN p
      <4>1. /\ m - Len(p) \in DOMAIN q /\ r[m] = q[m - Len(p)]
            /\ n - Len(p) \in DOMAIN q /\ r[n] = q[n - Len(p)]
            /\ m - Len(p) # n - Len(p)
        <5>1. m \in Int /\ n \in Int /\ n \notin DOMAIN p
          BY <1>1, <2>2, <3>2
        <5> QED
          BY <1>1, <2>2, <3>2, <5>1
      <4> QED
        BY <1>5, <4>1 DEF NoneTwice
    <3>3. CASE m \in DOMAIN p /\ n \notin DOMAIN p
      <4>1. r[m] = p[m] /\ n - Len(p) \in DOMAIN q /\ r[n] = q[n - Len(p)]
        BY <1>1, <3>3
      <4>2. ToSet(r[m]) \subseteq Bytes(p) /\ ToSet(r[n]) \subseteq Bytes(q)
        BY <1>2, <3>3, <4>1
      <4> QED
        BY <1>5, <4>2
    <3> QED
      BY <1>1, <2>2, <3>1, <3>2, <3>3
  <2>3. ASSUME NEW m \in DOMAIN r, NEW n \in DOMAIN r, m # n
        PROVE  ToSet(r[m]) \cap ToSet(r[n]) = {}
    <3>1. m < n \/ n < m
      BY <1>1, <2>3
    <3> QED
      BY <2>2, <3>1
  <2> QED
    BY <2>1, <2>3 DEF NoneTwice
<1> QED
  BY <1>1, <1>3, <1>4, <1>5 DEF r

-----------------------------------------------------------------------------
(* The bytes on the way: what the invariant says of each direction.        *)

(* The URBs that hold bytes to be sent: those enqueued, and those whose    *)
(* transfer failed.                                                        *)
Failed(e) == e.pipe = "out" /\ ~e.ok

FailedUrbs == {e.urb : e \in {f \in ToSet(events) : Failed(f)}}
Loaded == ToSet(outPipe) \cup FailedUrbs

Load == UNION {ToSet(payload[u]) : u \in Loaded}

Afloat == Load \cup ToSet(outRing)

(* No byte is in two places, and none is missing before the pipe is halted.*)
OutApart ==
  /\ IsInjective(sent) /\ IsInjective(outRing)
  /\ ToSet(sent) \cap ToSet(outRing) = {}
  /\ \A u \in Loaded :
       /\ IsInjective(payload[u])
       /\ ToSet(payload[u]) \cap ToSet(sent) = {}
       /\ ToSet(payload[u]) \cap ToSet(outRing) = {}
  /\ \A u, v \in Loaded :
       u # v => ToSet(payload[u]) \cap ToSet(payload[v]) = {}

OutComplete ==
  /\ ToSet(sent) \cup Afloat \subseteq 1..written
  /\ ~outHalted => ToSet(sent) \cup Afloat = 1..written

(* Until a transfer fails, the pipe holds its bytes in order.              *)
OutOrdered ==
  /\ \A e \in ToSet(events) : ~Failed(e)
  /\ Rising(sent) /\ Rising(outRing)
  /\ Below(ToSet(sent), ToSet(outRing))
  /\ \A u \in ToSet(outPipe) :
       /\ Rising(payload[u])
       /\ Below(ToSet(sent), ToSet(payload[u]))
       /\ Below(ToSet(payload[u]), ToSet(outRing))
  /\ \A i, j \in DOMAIN outPipe :
       i < j => Below(ToSet(payload[outPipe[i]]), ToSet(payload[outPipe[j]]))

OutBytes ==
  /\ OutApart /\ OutComplete
  /\ "failed" \notin mishaps => OutOrdered

(* What the data task is about to push.                                    *)
Pushing == IF dataPc = "push" THEN held ELSE <<>>

Queued == UNION {ToSet(Received(e)) : e \in ToSet(events)}
Waiting == ToSet(line) \cup ToSet(inRing) \cup ToSet(Pushing) \cup Queued

FrontOrdered ==
  /\ Rising(handed) /\ Rising(line) /\ Rising(inRing) /\ Rising(Pushing)
  /\ Below(ToSet(handed), ToSet(line))
  /\ Below(ToSet(handed), ToSet(inRing))
  /\ Below(ToSet(handed), ToSet(Pushing))
  /\ Below(ToSet(line), ToSet(inRing))
  /\ Below(ToSet(line), ToSet(Pushing))
  /\ Below(ToSet(inRing), ToSet(Pushing))

QueueOrdered ==
  /\ \A e \in ToSet(events) :
       /\ Rising(Received(e))
       /\ Below(ToSet(handed), ToSet(Received(e)))
       /\ Below(ToSet(line), ToSet(Received(e)))
       /\ Below(ToSet(inRing), ToSet(Received(e)))
       /\ Below(ToSet(Pushing), ToSet(Received(e)))
  /\ \A i, j \in DOMAIN events :
       i < j => Below(ToSet(Received(events[i])), ToSet(Received(events[j])))

InKept ==
  /\ ToSet(handed) \cup Waiting \subseteq 1..arrived
  /\ {"dropped", "cut"} \cap mishaps = {}
       => ToSet(handed) \cup Waiting = 1..arrived

InBytes == FrontOrdered /\ QueueOrdered /\ InKept

-----------------------------------------------------------------------------
(* The bytes on the way in.                                                *)

(* Every place holds bytes that have arrived.                              *)
LEMMA InPlaces ==
  ASSUME InInv, QueueInv
  PROVE  /\ handed \in Seq(Int) /\ line \in Seq(Int) /\ inRing \in Seq(Int)
         /\ Pushing \in Seq(Int) /\ arrived \in Nat
         /\ \A e \in ToSet(events) :
              e \in Events /\ Received(e) \in Seq(Int)
         /\ ToSet(handed) \subseteq Int /\ ToSet(line) \subseteq Int
         /\ ToSet(inRing) \subseteq Int /\ ToSet(Pushing) \subseteq Int
         /\ \A e \in ToSet(events) : ToSet(Received(e)) \subseteq Int
<1>1. \A s \in Seq(1..MaxIn) : s \in Seq(Int)
  BY Numbered, Bounds
<1>2. /\ handed \in Seq(Int) /\ line \in Seq(Int) /\ inRing \in Seq(Int)
      /\ held \in Seq(Int) /\ <<>> \in Seq(Int)
  BY <1>1 DEF InInv, InTyped
<1>3. Pushing \in Seq(Int) /\ arrived \in Nat
  BY <1>2, Bounds DEF Pushing, InInv, InTyped
<1>4. ASSUME NEW e \in ToSet(events)
      PROVE  e \in Events /\ Received(e) \in Seq(Int)
  <2>1. e \in Events
    BY <1>4, HeldTyped DEF QueueInv
  <2>2. e \in InEvents => e.bytes \in Seq(1..MaxIn)
    BY DEF InEvents
  <2>3. e.pipe = "in" => e \in InEvents
    BY <2>1, EventKinds
  <2> QED
    BY <1>1, <1>2, <2>1, <2>2, <2>3 DEF Received
<1> QED
  BY <1>2, <1>3, <1>4, HeldTyped

(* The events behind the first.                                            *)
LEMMA EventTaken ==
  ASSUME QueueInv, events # <<>>, events' = Tail(events)
  PROVE  /\ ToSet(events) = {Head(events)} \cup ToSet(events')
         /\ Head(events) = events[1] /\ 1 \in DOMAIN events
         /\ \A i \in DOMAIN events' :
              i \in Nat /\ i >= 1 /\ i + 1 \in DOMAIN events
                /\ events'[i] = events[i + 1]
<1>1. events \in Seq(Events)
  BY DEF QueueInv
<1>2. Head(events) = events[1] /\ 1 \in DOMAIN events
  BY <1>1
<1> QED
  BY <1>1, <1>2, HeldTail

(* One event more.                                                         *)
LEMMA EventPut ==
  ASSUME QueueInv, NEW e \in Events,
         events' = Append(events, e)
  PROVE  /\ ToSet(events') = ToSet(events) \cup {e}
         /\ \A i, j \in DOMAIN events' : i < j =>
              /\ i \in DOMAIN events /\ events'[i] = events[i]
              /\ \/ j \in DOMAIN events /\ events'[j] = events[j]
                 \/ events'[j] = e
         /\ \A i \in DOMAIN events : events[i] \in ToSet(events)
<1>1. events \in Seq(Events)
  BY DEF QueueInv
<1>2. ToSet(events') = ToSet(events) \cup {e}
  BY <1>1, HeldAppended
<1>3. /\ DOMAIN events' = 1..(Len(events) + 1)
      /\ DOMAIN events = 1..Len(events) /\ Len(events) \in Nat
      /\ \A i \in 1..Len(events) : events'[i] = events[i]
      /\ events'[Len(events) + 1] = e
  BY <1>1
<1>4. \A i \in DOMAIN events : events[i] \in ToSet(events)
  BY DEF ToSet
<1> QED
  BY <1>2, <1>3, <1>4

(* The queue without its first event is in order, behind that event.       *)
LEMMA QueueTaken ==
  ASSUME QueueInv, QueueOrdered, events # <<>>, events' = Tail(events)
  PROVE  /\ ToSet(events) = {Head(events)} \cup ToSet(events')
         /\ Queued = ToSet(Received(Head(events))) \cup Queued'
         /\ \A e \in ToSet(events') :
              Below(ToSet(Received(Head(events))), ToSet(Received(e)))
         /\ \A i, j \in DOMAIN events' :
              i < j => Below(ToSet(Received(events'[i])),
                             ToSet(Received(events'[j])))
<1>1. /\ ToSet(events) = {Head(events)} \cup ToSet(events')
      /\ Head(events) = events[1] /\ 1 \in DOMAIN events
      /\ \A i \in DOMAIN events' :
           i \in Nat /\ i >= 1 /\ i + 1 \in DOMAIN events
             /\ events'[i] = events[i + 1]
  BY EventTaken
<1>2. Queued = ToSet(Received(Head(events))) \cup Queued'
  BY <1>1 DEF Queued
<1>3. ASSUME NEW e \in ToSet(events')
      PROVE  Below(ToSet(Received(Head(events))), ToSet(Received(e)))
  <2>1. PICK i \in DOMAIN events' : e = events'[i]
    BY DEF ToSet
  <2>2. i + 1 \in DOMAIN events /\ 1 < i + 1 /\ e = events[i + 1]
    BY <1>1, <2>1
  <2> QED
    BY <1>1, <2>2 DEF QueueOrdered
<1>4. ASSUME NEW i \in DOMAIN events', NEW j \in DOMAIN events', i < j
      PROVE  Below(ToSet(Received(events'[i])), ToSet(Received(events'[j])))
  <2>1. /\ i + 1 \in DOMAIN events /\ j + 1 \in DOMAIN events /\ i + 1 < j + 1
        /\ events'[i] = events[i + 1] /\ events'[j] = events[j + 1]
    BY <1>1, <1>4
  <2> QED
    BY <2>1 DEF QueueOrdered
<1> QED
  BY <1>1, <1>2, <1>3, <1>4

(* An event without bytes comes or goes.                                   *)
LEMMA InBytesFrame ==
  ASSUME InBytes, InInv, QueueInv,
         UNCHANGED <<handed, line, inRing, Pushing, arrived>>,
         mishaps \subseteq mishaps',
         \/ UNCHANGED events
         \/ /\ events # <<>> /\ events' = Tail(events)
            /\ Received(Head(events)) = <<>>
         \/ \E e \in Events :
              events' = Append(events, e) /\ Received(e) = <<>>
  PROVE  InBytes'
<1>1. FrontOrdered'
  BY DEF InBytes, FrontOrdered
<1>2. CASE UNCHANGED events
  <2>1. QueueOrdered'
    BY <1>2 DEF InBytes, QueueOrdered
  <2>2. InKept'
    BY <1>2 DEF InBytes, InKept, Waiting, Queued
  <2> QED
    BY <1>1, <2>1, <2>2 DEF InBytes
<1>3. CASE events # <<>> /\ events' = Tail(events)
             /\ Received(Head(events)) = <<>>
  <2>1. QueueOrdered /\ InKept
    BY DEF InBytes
  <2>2. /\ ToSet(events) = {Head(events)} \cup ToSet(events')
        /\ Queued = ToSet(Received(Head(events))) \cup Queued'
        /\ \A i, j \in DOMAIN events' :
             i < j => Below(ToSet(Received(events'[i])),
                            ToSet(Received(events'[j])))
    BY <1>3, <2>1, QueueTaken
  <2>3. ToSet(Received(Head(events))) = {}
    BY <1>3 DEF ToSet
  <2>4. QueueOrdered'
    BY <2>1, <2>2 DEF QueueOrdered
  <2>5. Waiting' = Waiting
    BY <2>2, <2>3 DEF Waiting
  <2>6. InKept'
    BY <2>1, <2>5 DEF InKept
  <2> QED
    BY <1>1, <2>4, <2>6 DEF InBytes
<1>4. ASSUME NEW e \in Events, events' = Append(events, e),
             Received(e) = <<>>
      PROVE  InBytes'
  <2>1. /\ ToSet(events') = ToSet(events) \cup {e}
        /\ \A i, j \in DOMAIN events' : i < j =>
             /\ i \in DOMAIN events /\ events'[i] = events[i]
             /\ \/ j \in DOMAIN events /\ events'[j] = events[j]
                \/ events'[j] = e
    BY <1>4, EventPut
  <2>2. ToSet(Received(e)) = {} /\ Rising(Received(e))
    BY <1>4 DEF ToSet, Rising
  <2>3. \A S : Below(S, ToSet(Received(e)))
    BY <2>2 DEF Below
  <2>4. QueueOrdered'
    BY <2>1, <2>2, <2>3 DEF InBytes, QueueOrdered
  <2>5. Waiting' = Waiting
    BY <2>1, <2>2 DEF Waiting, Queued
  <2>6. InKept'
    BY <2>5 DEF InBytes, InKept
  <2> QED
    BY <1>1, <2>4, <2>6 DEF InBytes
<1> QED
  BY <1>2, <1>3, <1>4

(* The first event's bytes are taken to be pushed.                         *)
LEMMA InUrbDoneBytes ==
  ASSUME InBytes, InInv, QueueInv, InUrbDone
  PROVE  InBytes'
<1>1. /\ events # <<>> /\ Head(events).pipe = "in" /\ events' = Tail(events)
      /\ dataPc = "wait" /\ dataPc' = "push" /\ held' = Head(events).bytes
      /\ UNCHANGED <<handed, line, inRing, arrived, mishaps>>
  BY DEF InUrbDone, NextEvent, inRead
<1>2. Pushing = <<>> /\ Pushing' = Received(Head(events))
  BY <1>1 DEF Pushing, Received
<1>3. FrontOrdered /\ QueueOrdered /\ InKept
  BY DEF InBytes
<1>4. /\ ToSet(events) = {Head(events)} \cup ToSet(events')
      /\ Queued = ToSet(Received(Head(events))) \cup Queued'
      /\ \A e \in ToSet(events') :
           Below(ToSet(Received(Head(events))), ToSet(Received(e)))
      /\ \A i, j \in DOMAIN events' :
           i < j => Below(ToSet(Received(events'[i])),
                          ToSet(Received(events'[j])))
  BY <1>1, <1>3, QueueTaken
<1>5. ToSet(Pushing) = {}
  BY <1>2 DEF ToSet
<1>6. Head(events) \in ToSet(events)
  BY <1>4
<1>7. FrontOrdered'
  BY <1>1, <1>2, <1>3, <1>6 DEF FrontOrdered, QueueOrdered
<1>8. QueueOrdered'
  BY <1>1, <1>2, <1>3, <1>4 DEF QueueOrdered
<1>9. Waiting' = Waiting
  BY <1>1, <1>2, <1>4, <1>5 DEF Waiting
<1>10. InKept'
  BY <1>1, <1>3, <1>9 DEF InKept
<1> QED
  BY <1>7, <1>8, <1>10 DEF InBytes

(* The payload is appended to the ring, or skipped.                        *)
LEMMA PushBytes ==
  ASSUME InBytes, InInv, QueueInv, Push
  PROVE  InBytes'
<1>1. /\ dataPc = "push" /\ dataPc' = "count" /\ inRing' = inRing \o held
      /\ UNCHANGED <<handed, line, events, arrived, mishaps>>
  BY DEF Push
<1>2. Pushing = held /\ Pushing' = <<>>
  BY <1>1 DEF Pushing
<1>3. FrontOrdered /\ QueueOrdered /\ InKept
  BY DEF InBytes
<1>4. inRing \in Seq(Int) /\ Pushing \in Seq(Int)
  BY InPlaces
<1>5. ToSet(inRing') = ToSet(inRing) \cup ToSet(Pushing) /\ Rising(inRing')
  BY <1>1, <1>2, <1>3, <1>4, HeldJoined, RisingJoined DEF FrontOrdered
<1>6. ToSet(Pushing') = {} /\ Rising(Pushing')
  BY <1>2 DEF ToSet, Rising
<1>7. FrontOrdered'
  BY <1>1, <1>3, <1>5, <1>6 DEF FrontOrdered, Below
<1>8. QueueOrdered'
  BY <1>1, <1>3, <1>5, <1>6 DEF QueueOrdered, Below
<1>9. Waiting' = Waiting
  BY <1>1, <1>5, <1>6 DEF Waiting, Queued
<1>10. InKept'
  BY <1>1, <1>3, <1>9 DEF InKept
<1> QED
  BY <1>7, <1>8, <1>10 DEF InBytes

LEMMA SkipBytes ==
  ASSUME InBytes, InInv, QueueInv, SkipPayload
  PROVE  InBytes' /\ Waiting' \subseteq Waiting
<1>1. /\ dataPc = "push" /\ dataPc' = "wait"
      /\ mishaps' = mishaps \cup {"dropped"}
      /\ UNCHANGED <<handed, line, inRing, events, arrived>>
  BY DEF SkipPayload, Note, inRead
<1>2. ToSet(Pushing') = {} /\ Rising(Pushing')
  BY <1>1 DEF Pushing, ToSet, Rising
<1>3. FrontOrdered /\ QueueOrdered /\ InKept
  BY DEF InBytes
<1>4. FrontOrdered'
  BY <1>1, <1>2, <1>3 DEF FrontOrdered, Below
<1>5. QueueOrdered'
  BY <1>1, <1>2, <1>3 DEF QueueOrdered, Below
<1>6. Waiting' \subseteq Waiting
  BY <1>1, <1>2 DEF Waiting, Queued
<1>7. InKept'
  BY <1>1, <1>3, <1>6 DEF InKept
<1> QED
  BY <1>4, <1>5, <1>6, <1>7 DEF InBytes

(* The reader takes k bytes behind those of its line.                      *)
LEMMA TakeBytes ==
  ASSUME InBytes, InInv, QueueInv, NEW k \in 1..Len(inRing),
         inRing' = Rest(inRing, k), line' = line \o First(inRing, k),
         UNCHANGED <<handed, Pushing, events, arrived>>,
         mishaps \subseteq mishaps'
  PROVE  InBytes' /\ Waiting' = Waiting
<1>1. FrontOrdered /\ QueueOrdered /\ InKept
  BY DEF InBytes
<1>2. inRing \in Seq(Int) /\ line \in Seq(Int) /\ k \in 0..Len(inRing)
  BY InPlaces
<1>3. /\ First(inRing, k) \in Seq(Int)
      /\ ToSet(inRing) = ToSet(First(inRing, k)) \cup ToSet(inRing')
      /\ Rising(First(inRing, k)) /\ Rising(inRing')
      /\ Below(ToSet(First(inRing, k)), ToSet(inRing'))
  BY <1>1, <1>2, HeldSplit, RisingSplit DEF FrontOrdered
<1>4. Below(ToSet(line), ToSet(First(inRing, k)))
  BY <1>1, <1>3 DEF FrontOrdered, Below
<1>5. /\ ToSet(line') = ToSet(line) \cup ToSet(First(inRing, k))
      /\ Rising(line')
  BY <1>1, <1>2, <1>3, <1>4, HeldJoined, RisingJoined DEF FrontOrdered
<1>6. FrontOrdered'
  BY <1>1, <1>3, <1>5 DEF FrontOrdered, Below
<1>7. QueueOrdered'
  BY <1>1, <1>3, <1>5 DEF QueueOrdered, Below
<1>8. Waiting' = Waiting
  BY <1>3, <1>5 DEF Waiting, Queued
<1>9. InKept'
  BY <1>1, <1>8 DEF InKept
<1> QED
  BY <1>6, <1>7, <1>8, <1>9 DEF InBytes

(* The line loses its last byte.                                           *)
LEMMA CutBytes ==
  ASSUME InBytes, InInv, QueueInv, line # <<>>,
         line' = First(line, Len(line) - 1), Note("cut"),
         UNCHANGED <<handed, inRing, Pushing, events, arrived>>
  PROVE  InBytes' /\ Waiting' \subseteq Waiting
<1>1. FrontOrdered /\ QueueOrdered /\ InKept
  BY DEF InBytes
<1>2. line \in Seq(Int)
  BY InPlaces
<1>3. Len(line) - 1 \in 0..Len(line)
  BY <1>2
<1>4. ToSet(line') \subseteq ToSet(line) /\ Rising(line')
  BY <1>1, <1>2, <1>3, HeldSplit, RisingSplit DEF FrontOrdered
<1>5. FrontOrdered'
  BY <1>1, <1>4 DEF FrontOrdered, Below
<1>6. QueueOrdered'
  BY <1>1, <1>4 DEF QueueOrdered, Below
<1>7. Waiting' \subseteq Waiting
  BY <1>4 DEF Waiting, Queued
<1>8. InKept'
  BY <1>1, <1>7 DEF InKept, Note
<1> QED
  BY <1>5, <1>6, <1>7, <1>8 DEF InBytes

(* The line is handed over.                                                *)
LEMMA HandOverBytes ==
  ASSUME InBytes, InInv, QueueInv, HandOver
  PROVE  /\ InBytes'
         /\ Rising(line) /\ line \in Seq(Int)
         /\ ToSet(line) \subseteq Waiting /\ Waiting' = Waiting \ ToSet(line)
         /\ Below(ToSet(line), Waiting')
<1>1. /\ handed' = handed \o line /\ line' = <<>>
      /\ UNCHANGED <<inRing, dataPc, held, events, arrived, mishaps>>
  BY DEF HandOver, inTask
<1>2. FrontOrdered /\ QueueOrdered /\ InKept
  BY DEF InBytes
<1>3. handed \in Seq(Int) /\ line \in Seq(Int) /\ ToSet(line) \subseteq Int
  BY InPlaces
<1>4. ToSet(handed') = ToSet(handed) \cup ToSet(line) /\ Rising(handed')
  BY <1>1, <1>2, <1>3, HeldJoined, RisingJoined DEF FrontOrdered
<1>5. ToSet(line') = {} /\ Rising(line') /\ Pushing' = Pushing
  BY <1>1 DEF ToSet, Rising, Pushing
<1>6. FrontOrdered'
  BY <1>1, <1>2, <1>4, <1>5 DEF FrontOrdered, Below
<1>7. QueueOrdered'
  BY <1>1, <1>2, <1>4, <1>5 DEF QueueOrdered, Below
<1>8. Waiting = ToSet(line) \cup Waiting'
  BY <1>1, <1>5 DEF Waiting, Queued
<1>9. Below(ToSet(line), Waiting')
  <2>1. Below(ToSet(line), Queued)
    BY <1>2 DEF QueueOrdered, Queued, Below
  <2>2. Waiting' = ToSet(inRing) \cup ToSet(Pushing) \cup Queued
    BY <1>1, <1>5 DEF Waiting, Queued
  <2> QED
    BY <1>2, <2>1, <2>2 DEF FrontOrdered, Below
<1>10. Waiting' = Waiting \ ToSet(line)
  BY <1>3, <1>8, <1>9 DEF Below
<1>11. InKept'
  BY <1>1, <1>2, <1>4, <1>8 DEF InKept
<1> QED
  BY <1>2, <1>3, <1>6, <1>7, <1>8, <1>9, <1>10, <1>11 DEF InBytes, FrontOrdered

(* Bytes arrive behind all others.                                         *)
LEMMA CompleteInBytes ==
  ASSUME InBytes, InInv, QueueInv, QueueInv', CompleteIn
  PROVE  /\ InBytes'
         /\ arrived' > arrived
         /\ Waiting' = Waiting \cup (arrived + 1)..arrived'
<1>1. PICK n \in 1..Min({UrbSize, MaxIn - arrived}) :
        /\ events' = Append(events,
                            [pipe |-> "in", bytes |-> Numbers(arrived, n)])
        /\ arrived' = arrived + n
  BY DEF CompleteIn
<1>2. n \in Nat /\ n >= 1 /\ arrived \in Nat /\ arrived + n <= MaxIn
  <2>1. MaxIn - arrived \in Int /\ UrbSize \in Int /\ arrived \in Nat
    BY Bounds DEF InInv, InTyped
  <2> DEFINE m == Min({UrbSize, MaxIn - arrived})
  <2>2. m \in {UrbSize, MaxIn - arrived} /\ m <= MaxIn - arrived
    BY <2>1, MinOfTwo, Zenon
  <2>3. n \in 1..m
    BY <1>1
  <2> HIDE DEF m
  <2> QED
    BY <2>1, <2>2, <2>3, Bounds
<1>3. /\ UNCHANGED <<handed, line, inRing, dataPc, held, mishaps>>
      /\ Pushing' = Pushing
  BY DEF CompleteIn, inRead, Pushing
<1> DEFINE new == Numbers(arrived, n)
           e == [pipe |-> "in", bytes |-> new]
<1>4. Received(e) = new
  BY DEF Received
<1>5. ToSet(new) = (arrived + 1)..arrived' /\ Rising(new)
  BY <1>1, <1>2, NumbersHeld
<1>6. new \in Seq(1..MaxIn)
  BY <1>2, NumbersTyped, Bounds
<1>7. e \in Events
  BY <1>6 DEF InEvents, Events
<1> HIDE DEF new
<1>8. events' = Append(events, e)
  BY <1>1 DEF new
<1> HIDE DEF e
<1>9. /\ ToSet(events') = ToSet(events) \cup {e}
      /\ \A i, j \in DOMAIN events' : i < j =>
           /\ i \in DOMAIN events /\ events'[i] = events[i]
           /\ \/ j \in DOMAIN events /\ events'[j] = events[j]
              \/ events'[j] = e
      /\ \A i \in DOMAIN events : events[i] \in ToSet(events)
  BY <1>7, <1>8, EventPut
<1>10. FrontOrdered /\ QueueOrdered /\ InKept
  BY DEF InBytes
<1>11. Below(1..arrived, ToSet(new))
  BY <1>2, <1>5 DEF Below
<1>12. /\ ToSet(handed) \subseteq 1..arrived
       /\ ToSet(line) \subseteq 1..arrived
       /\ ToSet(inRing) \subseteq 1..arrived
       /\ ToSet(Pushing) \subseteq 1..arrived
       /\ \A f \in ToSet(events) : ToSet(Received(f)) \subseteq 1..arrived
  BY <1>10 DEF InKept, Waiting, Queued
<1>13. FrontOrdered'
  BY <1>3, <1>10 DEF FrontOrdered
<1>14. QueueOrdered'
  <2>1. ASSUME NEW f \in ToSet(events')
        PROVE  /\ Rising(Received(f))
               /\ Below(ToSet(handed), ToSet(Received(f)))
               /\ Below(ToSet(line), ToSet(Received(f)))
               /\ Below(ToSet(inRing), ToSet(Received(f)))
               /\ Below(ToSet(Pushing), ToSet(Received(f)))
    <3>1. CASE f \in ToSet(events)
      BY <1>10, <3>1 DEF QueueOrdered
    <3>2. CASE f = e
      BY <1>4, <1>5, <1>11, <1>12, <3>2 DEF Below
    <3> QED
      BY <1>9, <3>1, <3>2
  <2>2. ASSUME NEW i \in DOMAIN events', NEW j \in DOMAIN events', i < j
        PROVE  Below(ToSet(Received(events'[i])), ToSet(Received(events'[j])))
    <3>1. i \in DOMAIN events /\ events'[i] = events[i]
      BY <1>9, <2>2
    <3>2. CASE j \in DOMAIN events /\ events'[j] = events[j]
      BY <1>10, <2>2, <3>1, <3>2 DEF QueueOrdered
    <3>3. CASE events'[j] = e
      <4>1. ToSet(Received(events[i])) \subseteq 1..arrived
        BY <1>9, <1>12, <3>1
      <4> QED
        BY <1>4, <1>11, <3>1, <3>3, <4>1 DEF Below
    <3> QED
      BY <1>9, <2>2, <3>2, <3>3
  <2> QED
    BY <1>3, <2>1, <2>2 DEF QueueOrdered
<1>15. Waiting' = Waiting \cup ToSet(new)
  BY <1>3, <1>4, <1>9 DEF Waiting, Queued
<1>16. /\ 1..arrived' = 1..arrived \cup (arrived + 1)..arrived'
       /\ arrived' > arrived
  BY <1>1, <1>2
<1>17. InKept'
  BY <1>3, <1>5, <1>10, <1>15, <1>16 DEF InKept
<1> QED
  BY <1>5, <1>13, <1>14, <1>15, <1>16, <1>17 DEF InBytes

(* Bytes may be missing.                                                   *)
Lossy == {"dropped", "cut"} \cap mishaps # {}

(* What a step of the driver and the reader does to the inward channel.    *)
InRests ==
  UNCHANGED <<arrived, handed>> /\ Waiting' = Waiting /\ (Lossy' <=> Lossy)

InAccepts ==
  /\ arrived' > arrived /\ Waiting' = Waiting \cup (arrived + 1)..arrived'
  /\ UNCHANGED handed /\ (Lossy' <=> Lossy)

InDelivers ==
  /\ handed' = handed \o line /\ line \in Seq(Int) /\ Rising(line)
  /\ ToSet(line) \subseteq Waiting /\ Waiting' = Waiting \ ToSet(line)
  /\ Below(ToSet(line), Waiting')
  /\ UNCHANGED arrived /\ (Lossy' <=> Lossy)

InLoses ==
  /\ UNCHANGED <<arrived, handed>> /\ Waiting' \subseteq Waiting /\ Lossy'

(* Every step is one of these four.                                        *)
LEMMA InFlow ==
  ASSUME IInv, InBytes, [Next]_vars
  PROVE  InBytes' /\ (InRests \/ InAccepts \/ InDelivers \/ InLoses)
<1>1. InInv /\ QueueInv /\ OutInv /\ QueueInv'
  BY Inductive DEF IInv
<1>2. ASSUME UNCHANGED <<handed, line, inRing, arrived, events>>,
             Pushing' = Pushing, mishaps \subseteq mishaps',
             Lossy' <=> Lossy
      PROVE  InBytes' /\ InRests
  <2>1. InBytes'
    BY <1>1, <1>2, InBytesFrame
  <2>2. Waiting' = Waiting
    BY <1>2 DEF Waiting, Queued
  <2> QED
    BY <1>2, <2>1, <2>2 DEF InRests
<1>3. CASE \E w \in Writers : Writing(w)
  <2>1. /\ UNCHANGED <<handed, line, inRing, arrived, events, dataPc, held>>
        /\ UNCHANGED mishaps
    BY <1>3 DEF Writing, Lock, Send, Count, inSide, inTask, inRead
  <2> QED
    BY <1>2, <2>1 DEF Pushing, Lossy
<1>4. CASE Poll
  <2>1. /\ UNCHANGED <<handed, line, inRing, arrived, events, dataPc, held>>
        /\ UNCHANGED mishaps
    BY <1>4 DEF Poll, inSide, inTask, inRead
  <2> QED
    BY <1>2, <2>1 DEF Pushing, Lossy
<1>5. CASE OutUrbDone \/ PipeError
  <2>1. /\ UNCHANGED <<handed, line, inRing, arrived, dataPc, held, mishaps>>
        /\ events # <<>> /\ events' = Tail(events)
        /\ Received(Head(events)) = <<>>
    BY <1>5 DEF OutUrbDone, PipeError, NextEvent, inSide, inTask, inRead,
                Received
  <2>2. Pushing' = Pushing
    BY <2>1 DEF Pushing
  <2>3. InBytes'
    BY <1>1, <2>1, <2>2, InBytesFrame
  <2>4. Queued' = Queued
    <3>1. Queued = ToSet(Received(Head(events))) \cup Queued'
      BY <1>1, <2>1, QueueTaken DEF InBytes
    <3> QED
      BY <2>1, <3>1 DEF ToSet
  <2>5. Waiting' = Waiting
    BY <2>1, <2>2, <2>4 DEF Waiting
  <2> QED
    BY <2>1, <2>3, <2>5 DEF InRests, Lossy
<1>6. CASE InUrbDone
  <2>1. InBytes'
    BY <1>1, <1>6, InUrbDoneBytes
  <2>2. /\ events # <<>> /\ Head(events).pipe = "in" /\ events' = Tail(events)
        /\ dataPc = "wait" /\ dataPc' = "push" /\ held' = Head(events).bytes
        /\ UNCHANGED <<handed, line, inRing, arrived, mishaps>>
    BY <1>6 DEF InUrbDone, NextEvent, inRead
  <2>3. ToSet(Pushing) = {} /\ Pushing' = Received(Head(events))
    BY <2>2 DEF Pushing, Received, ToSet
  <2>4. Queued = ToSet(Received(Head(events))) \cup Queued'
    BY <1>1, <2>2, QueueTaken DEF InBytes
  <2>5. Waiting' = Waiting
    BY <2>2, <2>3, <2>4 DEF Waiting
  <2> QED
    BY <2>1, <2>2, <2>5 DEF InRests, Lossy
<1>7. CASE Push
  <2>1. InBytes'
    BY <1>1, <1>7, PushBytes
  <2>2. /\ dataPc = "push" /\ dataPc' = "count" /\ inRing' = inRing \o held
        /\ UNCHANGED <<handed, line, events, arrived, mishaps>>
    BY <1>7 DEF Push
  <2>3. Pushing = held /\ Pushing' = <<>>
    BY <2>2 DEF Pushing
  <2>4. ToSet(inRing') = ToSet(inRing) \cup ToSet(Pushing)
    BY <1>1, <2>2, <2>3, InPlaces, HeldJoined
  <2>5. ToSet(Pushing') = {}
    BY <2>3 DEF ToSet
  <2>6. Waiting' = Waiting
    BY <2>2, <2>4, <2>5 DEF Waiting, Queued
  <2> QED
    BY <2>1, <2>2, <2>6 DEF InRests, Lossy
<1>8. CASE CountPushed
  <2>1. /\ UNCHANGED <<handed, line, inRing, arrived, events, mishaps>>
        /\ Pushing' = Pushing
    BY <1>8 DEF CountPushed, Pushing
  <2> QED
    BY <1>2, <2>1 DEF Lossy
<1>9. CASE SkipPayload
  <2>1. InBytes' /\ Waiting' \subseteq Waiting
    BY <1>1, <1>9, SkipBytes
  <2>2. UNCHANGED <<arrived, handed>> /\ "dropped" \in mishaps'
    BY <1>9 DEF SkipPayload, Note, inRead
  <2> QED
    BY <2>1, <2>2 DEF InLoses, Lossy
<1>10. CASE Look \/ Handle \/ ReadNothing
  <2>1. /\ UNCHANGED <<handed, line, inRing, arrived, events, dataPc, held>>
        /\ mishaps \subseteq mishaps'
        /\ mishaps' \subseteq mishaps \cup {"oversized"}
    BY <1>10 DEF Look, Handle, ReadNothing, Note, inTask
  <2> QED
    BY <1>2, <2>1 DEF Pushing, Lossy
<1>11. ASSUME NEW k \in 1..Len(inRing), Pop(k),
              line' = line \o First(inRing, k),
              UNCHANGED <<handed, events, arrived, dataPc, held>>
       PROVE  InBytes' /\ InRests
  <2>1. /\ inRing' = Rest(inRing, k) /\ mishaps \subseteq mishaps'
        /\ mishaps' \subseteq mishaps \cup {"overtaken"}
    BY <1>11 DEF Pop
  <2>2. Pushing' = Pushing
    BY <1>11 DEF Pushing
  <2>3. InBytes' /\ Waiting' = Waiting
    BY <1>1, <1>11, <2>1, <2>2, TakeBytes
  <2> QED
    BY <1>11, <2>1, <2>3 DEF InRests, Lossy
<1>12. /\ inRing \in Seq(1..MaxIn) /\ line \in Seq(1..MaxIn)
       /\ reader.want \in Int
  BY <1>1 DEF InInv, InTyped
<1>13. CASE Read
  <2>1. PICK k \in Takes(inRing, reader.want) :
          Pop(k) /\ line' = First(inRing, k)
    BY <1>13 DEF Read
  <2>2. /\ UNCHANGED <<handed, events, arrived, dataPc, held>>
        /\ reader.pc = "read"
    BY <1>13 DEF Read, inTask
  <2>3. k \in 1..Len(inRing)
    BY <1>12, TakesBounds
  <2>4. line = <<>>
    BY <1>1, <2>2 DEF InInv, LineFits
  <2>5. First(inRing, k) \in Seq(1..MaxIn)
    BY <1>12, <2>3, SplitRing
  <2>6. line' = line \o First(inRing, k)
    BY <2>1, <2>4, <2>5
  <2> QED
    BY <1>11, <2>1, <2>2, <2>3, <2>6
<1>14. CASE ReadRest
  <2>1. UNCHANGED <<handed, events, arrived, dataPc, held>>
    BY <1>14 DEF ReadRest, inTask
  <2>2. CASE UNCHANGED <<inRing, inLen, line, mishaps>>
    BY <1>2, <2>1, <2>2 DEF Pushing, Lossy
  <2>3. ASSUME NEW k \in Takes(inRing, reader.want), Pop(k),
               line' = line \o First(inRing, k)
        PROVE  InBytes' /\ InRests
    <3>1. k \in 1..Len(inRing)
      BY <1>12, TakesBounds
    <3> QED
      BY <1>11, <2>1, <2>3, <3>1
  <2> QED
    BY <1>14, <2>2, <2>3 DEF ReadRest
<1>15. CASE ReadOn
  <2>1. /\ Pop(1) /\ line' = Append(line, Head(inRing)) /\ inRing # <<>>
        /\ UNCHANGED <<handed, events, arrived, dataPc, held>>
    BY <1>15 DEF ReadOn, inTask
  <2>2. 1 \in 1..Len(inRing)
    BY <1>12, <2>1
  <2>3. line' = line \o First(inRing, 1)
    BY <1>12, <2>1, FirstAppended
  <2> QED
    BY <1>11, <2>1, <2>2, <2>3
<1>16. CASE ReadOnTimeout
  <2>1. UNCHANGED <<handed, inRing, events, arrived, dataPc, held>>
    BY <1>16 DEF ReadOnTimeout, inTask
  <2>2. Pushing' = Pushing
    BY <2>1 DEF Pushing
  <2>3. CASE line # <<>> /\ line' = First(line, Len(line) - 1) /\ Note("cut")
    <3>1. InBytes' /\ Waiting' \subseteq Waiting
      BY <1>1, <2>1, <2>2, <2>3, CutBytes
    <3> QED
      BY <2>1, <2>3, <3>1 DEF InLoses, Lossy, Note
  <2>4. CASE line = <<>> /\ Note("wrapped") /\ UNCHANGED line
    <3>1. mishaps \subseteq mishaps' /\ (Lossy' <=> Lossy)
      BY <2>4 DEF Note, Lossy
    <3> QED
      BY <1>2, <2>1, <2>2, <2>4, <3>1
  <2> QED
    BY <1>16, <2>3, <2>4 DEF ReadOnTimeout
<1>17. CASE HandOver
  <2>1. /\ InBytes'
        /\ Rising(line) /\ line \in Seq(Int)
        /\ ToSet(line) \subseteq Waiting /\ Waiting' = Waiting \ ToSet(line)
        /\ Below(ToSet(line), Waiting')
    BY <1>1, <1>17, HandOverBytes
  <2>2. handed' = handed \o line /\ UNCHANGED <<arrived, mishaps>>
    BY <1>17 DEF HandOver, inTask
  <2> QED
    BY <2>1, <2>2 DEF InDelivers, Lossy
<1>18. CASE CompleteIn
  <2>1. /\ InBytes' /\ arrived' > arrived
        /\ Waiting' = Waiting \cup (arrived + 1)..arrived'
    BY <1>1, <1>18, CompleteInBytes
  <2>2. UNCHANGED <<handed, mishaps>>
    BY <1>18 DEF CompleteIn, inRead
  <2> QED
    BY <2>1, <2>2 DEF InAccepts, Lossy
<1>19. ASSUME NEW e \in Events, Received(e) = <<>>,
              events' = Append(events, e),
              UNCHANGED <<handed, line, inRing, arrived, dataPc, held>>,
              mishaps \subseteq mishaps',
              mishaps' \subseteq mishaps \cup {"failed"}
       PROVE  InBytes' /\ InRests
  <2>1. Pushing' = Pushing
    BY <1>19 DEF Pushing
  <2>2. InBytes'
    BY <1>1, <1>19, <2>1, InBytesFrame
  <2>3. ToSet(events') = ToSet(events) \cup {e}
    BY <1>1, <1>19, EventPut
  <2>4. ToSet(Received(e)) = {}
    BY <1>19 DEF ToSet
  <2>5. Waiting' = Waiting
    BY <1>19, <2>1, <2>3, <2>4 DEF Waiting, Queued
  <2> QED
    BY <1>19, <2>2, <2>5 DEF InRests, Lossy
<1>20. ASSUME NEW ok \in BOOLEAN, CompleteOut(ok)  PROVE InBytes' /\ InRests
  <2>1. Head(outPipe) \in OutUrbs
    BY <1>1, <1>20 DEF CompleteOut, OutInv, OutTyped
  <2> DEFINE e == [pipe |-> "out", urb |-> Head(outPipe), ok |-> ok]
  <2>2. e \in Events /\ Received(e) = <<>>
    BY <2>1 DEF OutEvents, Events, Received
  <2>3. /\ UNCHANGED <<handed, line, inRing, arrived, dataPc, held>>
        /\ mishaps \subseteq mishaps'
        /\ mishaps' \subseteq mishaps \cup {"failed"}
        /\ events' = Append(events, e)
    BY <1>20 DEF CompleteOut, Note, inSide, inTask, inRead
  <2> HIDE DEF e
  <2> QED
    BY <1>19, <2>2, <2>3
<1>21. CASE HaltOut \/ HaltIn
  <2> DEFINE e == [pipe |-> "error"]
  <2>1. e \in Events /\ Received(e) = <<>>
    BY DEF Errors, Events, Received
  <2>2. /\ UNCHANGED <<handed, line, inRing, arrived, dataPc, held, mishaps>>
        /\ events' = Append(events, e)
    BY <1>21 DEF HaltOut, HaltIn, inSide, inTask, inRead
  <2> HIDE DEF e
  <2> QED
    BY <1>19, <2>1, <2>2
<1>22. CASE UNCHANGED vars
  <2>1. /\ UNCHANGED <<handed, line, inRing, arrived, events, dataPc, held>>
        /\ UNCHANGED mishaps
    BY <1>22 DEF vars, inSide, inTask, inRead
  <2> QED
    BY <1>2, <2>1 DEF Pushing, Lossy
<1> QED
  BY <1>3, <1>4, <1>5, <1>6, <1>7, <1>8, <1>9, <1>10, <1>13, <1>14, <1>15,
     <1>16, <1>17, <1>18, <1>20, <1>21, <1>22
  DEF Next, DataTask, Reader, Modem

-----------------------------------------------------------------------------
(* The bytes on the way out.                                               *)

(* A sequence with at most one entry of S has it at one place only.        *)
LEMMA OneEntry ==
  ASSUME NEW T, NEW q \in Seq(T), NEW S, Entries(q, S) <= 1,
         NEW i \in DOMAIN q, NEW j \in DOMAIN q, q[i] \in S, q[j] \in S
  PROVE  i = j
<1> SUFFICES ASSUME i # j PROVE FALSE
  OBVIOUS
<1> DEFINE D == {m \in DOMAIN q : q[m] \in S}
           E == {i} \cup {j}
<1>1. IsFiniteSet(D) /\ Cardinality(D) \in Nat /\ Cardinality(D) <= 1
  BY EntriesTyped DEF Entries
<1>2. E \in SUBSET D
  OBVIOUS
<1>3. IsFiniteSet({i}) /\ Cardinality({i}) = 1
  BY FS_Singleton
<1>4. Cardinality(E) = 2
  <2>1. Cardinality(E)
          = IF j \in {i} THEN Cardinality({i}) ELSE Cardinality({i}) + 1
    BY <1>3, FS_AddElement
  <2>2. j \notin {i}
    OBVIOUS
  <2> HIDE DEF E
  <2> QED
    BY <1>3, <2>1, <2>2
<1> HIDE DEF D, E
<1>5. Cardinality(E) <= Cardinality(D)
  BY <1>1, <1>2, FS_Subset
<1> DEFINE n == Cardinality(D)
<1>6. n \in Nat /\ n <= 1
  BY <1>1
<1>7. 2 <= n
  BY <1>4, <1>5
<1> HIDE DEF n
<1> QED
  BY <1>6, <1>7

(* A sequence without an entry of S holds none.                            *)
LEMMA NoEntry ==
  ASSUME NEW T, NEW q \in Seq(T), NEW S, Entries(q, S) = 0,
         NEW i \in DOMAIN q
  PROVE  q[i] \notin S
<1>1. IsFiniteSet({m \in DOMAIN q : q[m] \in S})
  BY EntriesTyped
<1>2. {m \in DOMAIN q : q[m] \in S} = {}
  BY <1>1, FS_EmptySet DEF Entries
<1> QED
  BY <1>2

(* No two places have the same bulk-out URB.                               *)
UrbPlaces ==
  /\ \A i, j \in DOMAIN outPipe : outPipe[i] = outPipe[j] => i = j
  /\ \A i, j \in DOMAIN events :
       /\ events[i].pipe = "out" /\ events[j].pipe = "out"
       /\ events[i].urb = events[j].urb
       => i = j
  /\ \A i \in DOMAIN events :
       events[i].pipe = "out"
         => events[i].urb \notin ToSet(outPipe) \cup pending
  /\ \A u \in pending : u \notin ToSet(outPipe)

(* It follows from the count of the URBs.                                  *)
LEMMA UrbsInPlace ==
  ASSUME IInv, UrbsAccounted
  PROVE  UrbPlaces
<1>1. /\ outPipe \in Seq(OutUrbs) /\ pending \subseteq OutUrbs
      /\ events \in Seq(Events)
  BY DEF IInv, OutInv, OutTyped, QueueInv
<1>2. \A u \in OutUrbs :
        /\ Entries(outPipe, {u}) \in Nat
        /\ Entries(events, DoneWith(u)) \in Nat
        /\ Entries(outPipe, {u}) + Entries(events, DoneWith(u))
             + (IF u \in pending THEN 1 ELSE 0) <= 1
  BY <1>1, EntriesTyped DEF UrbsAccounted, PlacesOf
<1>3. ASSUME NEW u \in OutUrbs
      PROVE  /\ Entries(outPipe, {u}) <= 1
             /\ Entries(events, DoneWith(u)) <= 1
             /\ u \in pending => /\ Entries(outPipe, {u}) = 0
                                 /\ Entries(events, DoneWith(u)) = 0
             /\ Entries(events, DoneWith(u)) = 0 \/ Entries(outPipe, {u}) = 0
  BY <1>2
<1>4. ASSUME NEW i \in DOMAIN events, events[i].pipe = "out"
      PROVE  events[i].urb \in OutUrbs /\ events[i] \in DoneWith(events[i].urb)
  <2>1. events[i] \in Events
    BY <1>1
  <2> QED
    BY <1>4, <2>1, EventKinds
<1>5. \A i, j \in DOMAIN outPipe : outPipe[i] = outPipe[j] => i = j
  <2> TAKE i, j \in DOMAIN outPipe
  <2> HAVE outPipe[i] = outPipe[j]
  <2>1. outPipe[i] \in OutUrbs
    BY <1>1
  <2>2. Entries(outPipe, {outPipe[i]}) <= 1
    BY <1>3, <2>1
  <2> QED
    BY <1>1, <2>2, OneEntry
<1>6. ASSUME NEW i \in DOMAIN events, NEW j \in DOMAIN events,
             events[i].pipe = "out", events[j].pipe = "out",
             events[i].urb = events[j].urb
      PROVE  i = j
  <2>1. /\ Entries(events, DoneWith(events[i].urb)) <= 1
        /\ events[i] \in DoneWith(events[i].urb)
        /\ events[j] \in DoneWith(events[i].urb)
    BY <1>3, <1>4, <1>6
  <2> QED
    BY <1>1, <2>1, OneEntry
<1>7. ASSUME NEW i \in DOMAIN events, events[i].pipe = "out"
      PROVE  events[i].urb \notin ToSet(outPipe) \cup pending
  <2>1. events[i].urb \in OutUrbs /\ events[i] \in DoneWith(events[i].urb)
    BY <1>4, <1>7
  <2>2. Entries(events, DoneWith(events[i].urb)) # 0
    BY <1>1, <2>1, NoEntry
  <2>3. events[i].urb \notin pending
        /\ Entries(outPipe, {events[i].urb}) = 0
    BY <1>3, <2>1, <2>2
  <2>4. \A j \in DOMAIN outPipe : outPipe[j] \notin {events[i].urb}
    BY <1>1, <2>3, NoEntry
  <2> QED
    BY <2>3, <2>4 DEF ToSet
<1>8. ASSUME NEW u \in pending  PROVE u \notin ToSet(outPipe)
  <2>1. Entries(outPipe, {u}) = 0
    BY <1>1, <1>3
  <2>2. \A j \in DOMAIN outPipe : outPipe[j] \notin {u}
    BY <1>1, <2>1, NoEntry
  <2> QED
    BY <2>2 DEF ToSet
<1> QED
  BY <1>5, <1>6, <1>7, <1>8 DEF UrbPlaces

(* The first event's URB is nowhere else.                                  *)
LEMMA DoneApart ==
  ASSUME QueueInv, UrbPlaces, events # <<>>, events' = Tail(events),
         Head(events).pipe = "out"
  PROVE  /\ Head(events).urb \notin ToSet(outPipe) \cup pending
         /\ \A e \in ToSet(events') :
              e.pipe = "out" => e.urb # Head(events).urb
         /\ Head(events).urb \in OutUrbs
         /\ ToSet(events) = {Head(events)} \cup ToSet(events')
<1>1. /\ ToSet(events) = {Head(events)} \cup ToSet(events')
      /\ Head(events) = events[1] /\ 1 \in DOMAIN events
      /\ \A i \in DOMAIN events' :
           i \in Nat /\ i >= 1 /\ i + 1 \in DOMAIN events
             /\ events'[i] = events[i + 1]
  BY EventTaken
<1>2. ASSUME NEW e \in ToSet(events'), e.pipe = "out"
      PROVE  e.urb # Head(events).urb
  <2>1. PICK i \in DOMAIN events' : e = events'[i]
    BY DEF ToSet
  <2>2. i + 1 \in DOMAIN events /\ 1 # i + 1 /\ e = events[i + 1]
    BY <1>1, <2>1
  <2> QED
    BY <1>1, <1>2, <2>2 DEF UrbPlaces
<1>3. Head(events).urb \in OutUrbs
  <2>1. Head(events) \in Events
    BY HeadTyped DEF QueueInv
  <2> QED
    BY <2>1, EventKinds
<1> QED
  BY <1>1, <1>2, <1>3 DEF UrbPlaces

(* Every place holds numbers.                                              *)
LEMMA OutPlaces ==
  ASSUME OutTyped, QueueInv
  PROVE  /\ sent \in Seq(Int) /\ outRing \in Seq(Int) /\ written \in Nat
         /\ \A u \in OutUrbs : payload[u] \in Seq(Int)
         /\ Loaded \subseteq OutUrbs /\ DOMAIN payload = OutUrbs
         /\ ToSet(sent) \subseteq Int /\ ToSet(outRing) \subseteq Int
         /\ \A u \in OutUrbs : ToSet(payload[u]) \subseteq Int
<1>1. \A s \in Seq(1..MaxOut) : s \in Seq(Int)
  BY Numbered, Bounds
<1>2. /\ sent \in Seq(Int) /\ outRing \in Seq(Int)
      /\ \A u \in OutUrbs : payload[u] \in Seq(Int)
  BY <1>1 DEF OutTyped
<1>3. written \in Nat /\ DOMAIN payload = OutUrbs
  BY Bounds DEF OutTyped
<1>4. ToSet(outPipe) \subseteq OutUrbs
  BY HeldTyped DEF OutTyped
<1>5. ToSet(events) \subseteq Events
  BY HeldTyped DEF QueueInv
<1>6. FailedUrbs \subseteq OutUrbs
  BY <1>5, EventKinds DEF FailedUrbs, Failed
<1>7. /\ ToSet(sent) \subseteq Int /\ ToSet(outRing) \subseteq Int
      /\ \A u \in OutUrbs : ToSet(payload[u]) \subseteq Int
  BY <1>2, HeldTyped
<1> QED
  BY <1>2, <1>3, <1>4, <1>6, <1>7 DEF Loaded

(* Nothing moves but an URB between the places of Loaded, or out of them   *)
(* when the pipe is halted.                                                *)
LEMMA OutBytesFrame ==
  ASSUME OutBytes, OutTyped, QueueInv, Loaded' \subseteq Loaded,
         outHalted' \/ (Loaded' = Loaded /\ UNCHANGED outHalted),
         UNCHANGED <<sent, outRing, written, payload>>,
         \/ "failed" \in mishaps'
         \/ /\ "failed" \notin mishaps /\ UNCHANGED outPipe
            /\ \A e \in ToSet(events') : ~Failed(e)
  PROVE  /\ OutBytes' /\ Afloat' \subseteq Afloat
         /\ Loaded' = Loaded => Afloat' = Afloat
<1>1. OutApart'
  BY DEF OutBytes, OutApart
<1>2. Afloat' \subseteq Afloat /\ (Loaded' = Loaded => Afloat' = Afloat)
  BY DEF Afloat, Load
<1>3. OutComplete'
  BY <1>2 DEF OutBytes, OutComplete
<1>4. ASSUME "failed" \notin mishaps'  PROVE OutOrdered'
  BY <1>4 DEF OutBytes, OutOrdered
<1> QED
  BY <1>1, <1>2, <1>3, <1>4 DEF OutBytes

(* The first bytes of the ring and the others.                             *)
LEMMA FirstTaken ==
  ASSUME outRing \in Seq(Int), NEW k \in Takes(outRing, UrbSize),
         outRing' = Rest(outRing, k), NEW first, first = First(outRing, k)
  PROVE  /\ first \in Seq(Int)
         /\ ToSet(outRing) = ToSet(first) \cup ToSet(outRing')
         /\ IsInjective(outRing) => /\ IsInjective(first)
                                    /\ IsInjective(outRing')
                                    /\ ToSet(first) \cap ToSet(outRing') = {}
         /\ Rising(outRing) => /\ Rising(first) /\ Rising(outRing')
                               /\ Below(ToSet(first), ToSet(outRing'))
<1>1. k \in 0..Len(outRing)
  <2>1. k \in 1..Len(outRing)
    BY Bounds, TakesBounds
  <2> QED
    BY <2>1
<1>2. /\ ToSet(outRing) = ToSet(first) \cup ToSet(outRing')
      /\ first \in Seq(Int)
  BY <1>1, HeldSplit
<1>3. IsInjective(outRing) => /\ IsInjective(first) /\ IsInjective(outRing')
                              /\ ToSet(first) \cap ToSet(outRing') = {}
  BY <1>1, InjectiveSplit
<1>4. Rising(outRing) => /\ Rising(first) /\ Rising(outRing')
                         /\ Below(ToSet(first), ToSet(outRing'))
  BY <1>1, RisingSplit
<1> QED
  BY <1>2, <1>3, <1>4

(* An URB that holds none takes the first bytes of the ring; they are lost *)
(* with it if the pipe is halted.                                          *)
LEMMA SendNextBytes ==
  ASSUME OutBytes, OutTyped, QueueInv, NEW idle \in SUBSET OutUrbs,
         SendNext(idle), idle \cap Loaded = {},
         FailedUrbs' = FailedUrbs, ToSet(events') \subseteq ToSet(events),
         UNCHANGED <<sent, written, mishaps, outHalted>>
  PROVE  /\ OutBytes' /\ Afloat' \subseteq Afloat
         /\ outHalted \/ Afloat' = Afloat
<1>1. /\ sent \in Seq(Int) /\ outRing \in Seq(Int)
      /\ \A u \in OutUrbs : payload[u] \in Seq(Int)
      /\ Loaded \subseteq OutUrbs /\ DOMAIN payload = OutUrbs
  BY OutPlaces
<1>2. CASE UNCHANGED <<outPipe, outRing, payload>>
  <2>1. Loaded' = Loaded
    BY <1>2 DEF Loaded
  <2>2. "failed" \notin mishaps => \A e \in ToSet(events') : ~Failed(e)
    BY DEF OutBytes, OutOrdered
  <2> QED
    BY <1>2, <2>1, <2>2, OutBytesFrame
<1>3. ASSUME NEW u \in idle, NEW k \in Takes(outRing, UrbSize), ~outHalted,
             payload' = [payload EXCEPT ![u] = First(outRing, k)],
             outRing' = Rest(outRing, k), outPipe' = Enqueued(u)
      PROVE  OutBytes' /\ Afloat' = Afloat
  <2>1. outPipe' = Append(outPipe, u)
    BY <1>3 DEF Enqueued
  <2> DEFINE first == First(outRing, k)
  <2>2. /\ ToSet(outRing) = ToSet(first) \cup ToSet(outRing')
        /\ first \in Seq(Int)
    BY <1>1, <1>3, FirstTaken
  <2>3. IsInjective(outRing) => /\ IsInjective(first) /\ IsInjective(outRing')
                                /\ ToSet(first) \cap ToSet(outRing') = {}
    BY <1>1, <1>3, FirstTaken
  <2>4. Rising(outRing) => /\ Rising(first) /\ Rising(outRing')
                           /\ Below(ToSet(first), ToSet(outRing'))
    BY <1>1, <1>3, FirstTaken
  <2>5. outPipe \in Seq(OutUrbs) /\ u \in OutUrbs
    BY DEF OutTyped
  <2>6. ToSet(outPipe') = ToSet(outPipe) \cup {u}
    BY <2>1, <2>5, HeldAppended
  <2>7. Loaded' = Loaded \cup {u} /\ u \notin Loaded
    BY <2>6 DEF Loaded
  <2>8. /\ payload'[u] = first
        /\ \A v \in Loaded : payload'[v] = payload[v]
    BY <1>1, <1>3, <2>5, <2>7
  <2> HIDE DEF first
  <2>9. OutApart'
    <3>1. OutApart
      BY DEF OutBytes
    <3>2. ASSUME NEW v \in Loaded'
          PROVE  /\ IsInjective(payload'[v])
                 /\ ToSet(payload'[v]) \cap ToSet(sent) = {}
                 /\ ToSet(payload'[v]) \cap ToSet(outRing') = {}
      BY <2>2, <2>3, <2>7, <2>8, <3>1 DEF OutApart
    <3>3. ASSUME NEW v \in Loaded', NEW w \in Loaded', v # w
          PROVE  ToSet(payload'[v]) \cap ToSet(payload'[w]) = {}
      BY <2>2, <2>7, <2>8, <3>1, <3>3 DEF OutApart
    <3> QED
      BY <2>2, <2>3, <3>1, <3>2, <3>3 DEF OutApart
  <2>10. Load' = Load \cup ToSet(first)
    BY <2>7, <2>8 DEF Load
  <2>11. Afloat' = Afloat
    BY <2>2, <2>10 DEF Afloat
  <2>12. OutComplete'
    BY <2>11 DEF OutBytes, OutComplete
  <2>13. ASSUME "failed" \notin mishaps'  PROVE OutOrdered'
    <3>1. OutOrdered
      BY <2>13 DEF OutBytes
    <3>2. ToSet(outPipe) \subseteq Loaded
      BY DEF Loaded
    <3>3. ASSUME NEW v \in ToSet(outPipe')
          PROVE  /\ Rising(payload'[v])
                 /\ Below(ToSet(sent), ToSet(payload'[v]))
                 /\ Below(ToSet(payload'[v]), ToSet(outRing'))
      BY <2>2, <2>4, <2>6, <2>8, <3>1, <3>2 DEF OutOrdered, Below
    <3>4. ASSUME NEW i \in DOMAIN outPipe', NEW j \in DOMAIN outPipe', i < j
          PROVE  Below(ToSet(payload'[outPipe'[i]]),
                       ToSet(payload'[outPipe'[j]]))
      <4>1. /\ i \in DOMAIN outPipe /\ outPipe'[i] = outPipe[i]
            /\ \/ j \in DOMAIN outPipe /\ outPipe'[j] = outPipe[j]
               \/ outPipe'[j] = u
        BY <2>1, <2>5, <3>4
      <4>2. outPipe[i] \in ToSet(outPipe)
        BY <4>1 DEF ToSet
      <4>3. payload'[outPipe'[i]] = payload[outPipe[i]]
        BY <2>8, <3>2, <4>1, <4>2
      <4>4. CASE j \in DOMAIN outPipe /\ outPipe'[j] = outPipe[j]
        <5>1. outPipe[j] \in ToSet(outPipe)
          BY <4>4 DEF ToSet
        <5>2. payload'[outPipe'[j]] = payload[outPipe[j]]
          BY <2>8, <3>2, <4>4, <5>1
        <5> QED
          BY <3>1, <3>4, <4>1, <4>3, <4>4, <5>2 DEF OutOrdered
      <4>5. CASE outPipe'[j] = u
        BY <2>2, <2>8, <3>1, <4>2, <4>3, <4>5 DEF OutOrdered, Below
      <4> QED
        BY <4>1, <4>4, <4>5
    <3> QED
      BY <2>2, <2>4, <3>1, <3>3, <3>4 DEF OutOrdered, Below
  <2> QED
    BY <2>9, <2>11, <2>12, <2>13 DEF OutBytes
<1>4. ASSUME NEW u \in idle, NEW k \in Takes(outRing, UrbSize), outHalted,
             payload' = [payload EXCEPT ![u] = First(outRing, k)],
             outRing' = Rest(outRing, k), outPipe' = Enqueued(u)
      PROVE  OutBytes' /\ Afloat' \subseteq Afloat
  <2>1. outPipe' = outPipe /\ Loaded' = Loaded /\ u \notin Loaded
    BY <1>4 DEF Enqueued, Loaded
  <2>2. /\ ToSet(outRing') \subseteq ToSet(outRing)
        /\ IsInjective(outRing) => IsInjective(outRing')
        /\ Rising(outRing) => Rising(outRing')
    <3> DEFINE first == First(outRing, k)
    <3>1. first = First(outRing, k)
      OBVIOUS
    <3> HIDE DEF first
    <3> QED
      BY <1>1, <1>4, <3>1, FirstTaken
  <2>3. \A v \in Loaded : payload'[v] = payload[v]
    BY <1>1, <1>4, <2>1
  <2>4. OutApart'
    BY <2>1, <2>2, <2>3 DEF OutBytes, OutApart
  <2>5. Afloat' \subseteq Afloat
    BY <2>1, <2>2, <2>3 DEF Afloat, Load
  <2>6. OutComplete'
    BY <1>4, <2>5 DEF OutBytes, OutComplete
  <2>7. ASSUME "failed" \notin mishaps'  PROVE OutOrdered'
    <3>1. OutOrdered
      BY <2>7 DEF OutBytes
    <3>2. ToSet(outPipe) \subseteq Loaded
          /\ \A i \in DOMAIN outPipe : outPipe[i] \in ToSet(outPipe)
      BY DEF Loaded, ToSet
    <3>3. \A i \in DOMAIN outPipe : payload'[outPipe[i]] = payload[outPipe[i]]
      BY <2>3, <3>2
    <3> QED
      BY <2>1, <2>2, <2>3, <3>1, <3>2, <3>3 DEF OutOrdered, Below
  <2> QED
    BY <2>4, <2>5, <2>6, <2>7 DEF OutBytes
<1> QED
  BY <1>2, <1>3, <1>4 DEF SendNext

(* An URB that failed goes back to the pipe, one that did not takes new    *)
(* bytes; on a halted pipe either is lost.                                 *)
LEMMA OutUrbDoneBytes ==
  ASSUME OutBytes, OutTyped, QueueInv, UrbPlaces, OutUrbDone
  PROVE  /\ OutBytes' /\ Afloat' \subseteq Afloat
         /\ outHalted \/ Afloat' = Afloat
<1> DEFINE e == Head(events)
<1>1. /\ events # <<>> /\ events' = Tail(events) /\ e.pipe = "out"
      /\ UNCHANGED <<sent, written, mishaps, outHalted>>
  BY DEF OutUrbDone, NextEvent
<1>2. /\ e.urb \notin ToSet(outPipe) \cup pending
      /\ \A f \in ToSet(events') : f.pipe = "out" => f.urb # e.urb
      /\ e.urb \in OutUrbs
      /\ ToSet(events) = {e} \cup ToSet(events')
  BY <1>1, DoneApart
<1>3. outPipe \in Seq(OutUrbs) /\ pending \subseteq OutUrbs
  BY DEF OutTyped
<1> HIDE DEF e
<1>4. CASE e.ok
  <2>1. SendNext(pending \cup {e.urb})
    BY <1>4 DEF OutUrbDone, e
  <2>2. FailedUrbs' = FailedUrbs
    BY <1>2, <1>4 DEF FailedUrbs, Failed
  <2>3. e.urb \notin FailedUrbs
    BY <1>2, <1>4 DEF FailedUrbs, Failed
  <2>4. pending \cap FailedUrbs = {}
    <3>1. ASSUME NEW f \in ToSet(events), f.pipe = "out"
          PROVE  f.urb \notin pending
      BY <3>1 DEF UrbPlaces, ToSet
    <3> QED
      BY <3>1 DEF FailedUrbs, Failed
  <2>5. (pending \cup {e.urb}) \cap Loaded = {}
    BY <1>2, <2>3, <2>4 DEF UrbPlaces, Loaded
  <2>6. pending \cup {e.urb} \in SUBSET OutUrbs
        /\ ToSet(events') \subseteq ToSet(events)
    BY <1>2, <1>3
  <2> QED
    BY <1>1, <2>1, <2>2, <2>5, <2>6, SendNextBytes
<1>5. CASE ~e.ok
  <2>1. /\ outPipe' = Enqueued(e.urb)
        /\ UNCHANGED <<outRing, payload>>
    BY <1>5 DEF OutUrbDone, e
  <2>2. FailedUrbs = FailedUrbs' \cup {e.urb}
    BY <1>1, <1>2, <1>5 DEF FailedUrbs, Failed
  <2>3. ASSUME ~outHalted  PROVE Loaded' = Loaded
    <3>1. ToSet(outPipe') = ToSet(outPipe) \cup {e.urb}
      BY <1>2, <1>3, <2>1, <2>3, HeldAppended DEF Enqueued
    <3> QED
      BY <2>2, <3>1 DEF Loaded
  <2>4. ASSUME outHalted  PROVE Loaded' \subseteq Loaded
    BY <2>1, <2>2, <2>4 DEF Enqueued, Loaded
  <2>5. "failed" \in mishaps'
    BY <1>1, <1>2, <1>5 DEF OutBytes, OutOrdered, Failed
  <2> QED
    BY <1>1, <2>1, <2>3, <2>4, <2>5, OutBytesFrame
<1> QED
  BY <1>4, <1>5

(* A poll of the data task moves no byte, or loses some on a halted pipe.  *)
LEMMA PollBytes ==
  ASSUME OutBytes, OutTyped, QueueInv, UrbPlaces, Poll
  PROVE  /\ OutBytes' /\ Afloat' \subseteq Afloat
         /\ outHalted \/ Afloat' = Afloat
<1>1. /\ SendNext(pending)
      /\ UNCHANGED <<sent, written, mishaps, events, outHalted>>
  BY DEF Poll
<1>2. ASSUME NEW f \in ToSet(events), f.pipe = "out"
      PROVE  f.urb \notin pending
  BY <1>2 DEF UrbPlaces, ToSet
<1>3. pending \cap Loaded = {}
  BY <1>2 DEF UrbPlaces, Loaded, FailedUrbs, Failed
<1>4. pending \in SUBSET OutUrbs
  BY DEF OutTyped
<1>5. FailedUrbs' = FailedUrbs /\ ToSet(events') \subseteq ToSet(events)
  BY <1>1 DEF FailedUrbs
<1> QED
  BY <1>1, <1>3, <1>4, <1>5, SendNextBytes

(* A write puts its bytes behind all others.                               *)
LEMMA SendBytes ==
  ASSUME OutBytes, OutTyped, QueueInv, NEW n \in 0..MaxOut,
         outRing' = outRing \o Numbers(written, n), written' = written + n,
         UNCHANGED <<sent, payload, outPipe, events, mishaps, outHalted>>
  PROVE  /\ OutBytes'
         /\ Afloat' = Afloat \cup (written + 1)..written'
<1>1. /\ sent \in Seq(Int) /\ outRing \in Seq(Int) /\ written \in Nat
      /\ n \in Nat
  BY OutPlaces, Bounds
<1> DEFINE new == Numbers(written, n)
<1>2. /\ new \in Seq(Nat) /\ ToSet(new) = (written + 1)..written'
      /\ Rising(new) /\ IsInjective(new)
  BY <1>1, NumbersHeld
<1>3. new \in Seq(Int)
  BY <1>2, Numbered, Nat \in SUBSET Int
<1> HIDE DEF new
<1>4. outRing' = outRing \o new
  BY DEF new
<1>5. Loaded' = Loaded /\ Load' = Load
  BY DEF Loaded, FailedUrbs, Load
<1>6. /\ OutApart /\ OutComplete
      /\ "failed" \notin mishaps => OutOrdered
  BY DEF OutBytes
<1>7. Below(1..written, ToSet(new)) /\ 1..written \cap ToSet(new) = {}
  BY <1>1, <1>2 DEF Below
<1>8. /\ ToSet(sent) \subseteq 1..written
      /\ ToSet(outRing) \subseteq 1..written
      /\ \A u \in Loaded : ToSet(payload[u]) \subseteq 1..written
  BY <1>6 DEF OutComplete, Afloat, Load
<1>9. /\ ToSet(outRing') = ToSet(outRing) \cup ToSet(new)
      /\ Below(ToSet(outRing), ToSet(new))
      /\ ToSet(outRing) \cap ToSet(new) = {}
  BY <1>1, <1>3, <1>4, <1>7, <1>8, HeldJoined DEF Below
<1>10. IsInjective(outRing')
  BY <1>1, <1>2, <1>3, <1>4, <1>6, <1>9, InjectiveJoined DEF OutApart
<1>11. OutApart'
  BY <1>5, <1>6, <1>7, <1>8, <1>9, <1>10 DEF OutApart
<1>12. Afloat' = Afloat \cup ToSet(new)
  BY <1>5, <1>9 DEF Afloat
<1>13. 1..written' = 1..written \cup (written + 1)..written'
  BY <1>1
<1>14. OutComplete'
  BY <1>2, <1>6, <1>12, <1>13 DEF OutComplete
<1>15. ASSUME "failed" \notin mishaps'  PROVE OutOrdered'
  <2>1. OutOrdered
    BY <1>6, <1>15
  <2>2. Rising(outRing')
    BY <1>1, <1>2, <1>3, <1>4, <1>9, <2>1, RisingJoined DEF OutOrdered
  <2>3. ToSet(outPipe) \subseteq Loaded
    BY DEF Loaded
  <2>4. Below(ToSet(sent), ToSet(outRing'))
    BY <1>7, <1>8, <1>9, <2>1 DEF OutOrdered, Below
  <2>5. \A u \in ToSet(outPipe) : Below(ToSet(payload[u]), ToSet(outRing'))
    BY <1>7, <1>8, <1>9, <2>1, <2>3 DEF OutOrdered, Below
  <2> QED
    BY <2>1, <2>2, <2>4, <2>5 DEF OutOrdered
<1> QED
  BY <1>2, <1>11, <1>12, <1>13, <1>14, <1>15 DEF OutBytes

(* The first URB of the pipe reaches the modem.                            *)
OutDelivers ==
  /\ \E piece \in Seq(Int) :
       /\ sent' = sent \o piece /\ IsInjective(piece)
       /\ ToSet(piece) \subseteq Afloat /\ Afloat' = Afloat \ ToSet(piece)
       /\ \/ "failed" \in mishaps
          \/ Rising(piece) /\ Below(ToSet(piece), Afloat')
  /\ UNCHANGED <<written, mishaps, outHalted>>

(* The pipe without its first URB.                                         *)
LEMMA PipeTaken ==
  ASSUME OutTyped, UrbPlaces, outPipe # <<>>, outPipe' = Tail(outPipe)
  PROVE  /\ Head(outPipe) \in OutUrbs
         /\ ToSet(outPipe) = {Head(outPipe)} \cup ToSet(outPipe')
         /\ Head(outPipe) \notin ToSet(outPipe')
         /\ Head(outPipe) = outPipe[1] /\ 1 \in DOMAIN outPipe
         /\ \A i \in DOMAIN outPipe' :
              i \in Nat /\ i >= 1 /\ i + 1 \in DOMAIN outPipe
                /\ outPipe'[i] = outPipe[i + 1]
<1>1. outPipe \in Seq(OutUrbs)
  BY DEF OutTyped
<1>2. Head(outPipe) = outPipe[1] /\ 1 \in DOMAIN outPipe
  BY <1>1
<1>3. /\ Head(outPipe) \in OutUrbs
      /\ ToSet(outPipe) = {Head(outPipe)} \cup ToSet(outPipe')
      /\ \A i \in DOMAIN outPipe' :
           i \in Nat /\ i >= 1 /\ i + 1 \in DOMAIN outPipe
             /\ outPipe'[i] = outPipe[i + 1]
  BY <1>1, HeldTail
<1>4. ASSUME Head(outPipe) \in ToSet(outPipe')  PROVE FALSE
  <2>1. PICK i \in DOMAIN outPipe' : Head(outPipe) = outPipe'[i]
    BY <1>4 DEF ToSet
  <2>2. i + 1 \in DOMAIN outPipe /\ i + 1 # 1 /\ outPipe[i + 1] = outPipe[1]
    BY <1>2, <1>3, <2>1
  <2> QED
    BY <1>2, <2>2 DEF UrbPlaces
<1> QED
  BY <1>2, <1>3, <1>4

(* The first URB of the pipe is sent.                                      *)
LEMMA CompleteOutBytes ==
  ASSUME OutBytes, OutTyped, QueueInv, UrbPlaces, CompleteOut(TRUE)
  PROVE  OutBytes' /\ OutDelivers
<1> DEFINE u == Head(outPipe)
           e == [pipe |-> "out", urb |-> u, ok |-> TRUE]
           piece == payload[u]
<1>1. /\ outPipe # <<>> /\ outPipe' = Tail(outPipe)
      /\ events' = Append(events, e)
      /\ sent' = sent \o piece
      /\ UNCHANGED <<outRing, payload, written, mishaps, outHalted>>
  BY DEF CompleteOut
<1>2. /\ u \in OutUrbs
      /\ ToSet(outPipe) = {u} \cup ToSet(outPipe')
      /\ u \notin ToSet(outPipe')
      /\ u = outPipe[1] /\ 1 \in DOMAIN outPipe
      /\ \A i \in DOMAIN outPipe' :
           i \in Nat /\ i >= 1 /\ i + 1 \in DOMAIN outPipe
             /\ outPipe'[i] = outPipe[i + 1]
  BY <1>1, PipeTaken
<1>3. e \in Events /\ ~Failed(e)
  BY <1>2 DEF OutEvents, Events, Failed
<1> HIDE DEF u, e
<1>4. ToSet(events') = ToSet(events) \cup {e}
  BY <1>1, <1>3, EventPut
<1>5. FailedUrbs' = FailedUrbs
  BY <1>3, <1>4 DEF FailedUrbs
<1>6. u \notin FailedUrbs
  <2>1. ASSUME NEW f \in ToSet(events), f.pipe = "out"
        PROVE  f.urb \notin ToSet(outPipe)
    BY <2>1 DEF UrbPlaces, ToSet
  <2> QED
    BY <1>2, <2>1 DEF FailedUrbs, Failed
<1>7. Loaded = Loaded' \cup {u} /\ u \notin Loaded'
  BY <1>2, <1>5, <1>6 DEF Loaded
<1>8. /\ sent \in Seq(Int) /\ piece \in Seq(Int)
      /\ Loaded \subseteq OutUrbs
  BY <1>2, OutPlaces
<1>9. OutApart /\ OutComplete
  BY DEF OutBytes
<1>10. /\ ToSet(sent') = ToSet(sent) \cup ToSet(piece)
       /\ ToSet(sent) \cap ToSet(piece) = {} /\ IsInjective(piece)
  BY <1>1, <1>7, <1>8, <1>9, HeldJoined DEF OutApart
<1>11. IsInjective(sent')
  BY <1>1, <1>8, <1>9, <1>10, InjectiveJoined DEF OutApart
<1>12. /\ ToSet(piece) \cap ToSet(outRing) = {}
       /\ \A v \in Loaded' : ToSet(payload[v]) \cap ToSet(piece) = {}
  BY <1>7, <1>9 DEF OutApart
<1>13. OutApart'
  BY <1>1, <1>7, <1>9, <1>10, <1>11, <1>12 DEF OutApart
<1>14. Load = Load' \cup ToSet(piece) /\ Load' \cap ToSet(piece) = {}
  BY <1>1, <1>7, <1>12 DEF Load
<1>15. Afloat = Afloat' \cup ToSet(piece) /\ Afloat' \cap ToSet(piece) = {}
  BY <1>1, <1>12, <1>14 DEF Afloat
<1>16. OutComplete'
  BY <1>1, <1>9, <1>10, <1>15 DEF OutComplete
<1>17. ASSUME "failed" \notin mishaps
       PROVE  OutOrdered' /\ Rising(piece) /\ Below(ToSet(piece), Afloat')
  <2>1. OutOrdered
    BY <1>17 DEF OutBytes
  <2>2. Rising(piece) /\ Below(ToSet(sent), ToSet(piece))
        /\ Below(ToSet(piece), ToSet(outRing))
    BY <1>2, <2>1 DEF OutOrdered
  <2>3. Rising(sent')
    BY <1>1, <1>8, <2>1, <2>2, RisingJoined DEF OutOrdered
  <2>4. ASSUME NEW v \in ToSet(outPipe')
        PROVE  Below(ToSet(piece), ToSet(payload[v]))
    <3>1. PICK i \in DOMAIN outPipe' : v = outPipe'[i]
      BY DEF ToSet
    <3>2. i + 1 \in DOMAIN outPipe /\ 1 < i + 1 /\ v = outPipe[i + 1]
      BY <1>2, <3>1
    <3> QED
      BY <1>2, <2>1, <3>2 DEF OutOrdered
  <2>5. ASSUME NEW v \in ToSet(outPipe')
        PROVE  /\ Rising(payload'[v])
               /\ Below(ToSet(sent'), ToSet(payload'[v]))
               /\ Below(ToSet(payload'[v]), ToSet(outRing'))
    BY <1>1, <1>2, <1>10, <2>1, <2>4 DEF OutOrdered, Below
  <2>6. ASSUME NEW i \in DOMAIN outPipe', NEW j \in DOMAIN outPipe', i < j
        PROVE  Below(ToSet(payload'[outPipe'[i]]),
                     ToSet(payload'[outPipe'[j]]))
    <3>1. /\ i + 1 \in DOMAIN outPipe /\ j + 1 \in DOMAIN outPipe
          /\ i + 1 < j + 1
          /\ outPipe'[i] = outPipe[i + 1] /\ outPipe'[j] = outPipe[j + 1]
      BY <1>2, <2>6
    <3> QED
      BY <1>1, <2>1, <3>1 DEF OutOrdered
  <2>7. \A f \in ToSet(events') : ~Failed(f)
    BY <1>3, <1>4, <2>1 DEF OutOrdered
  <2>8. Below(ToSet(sent'), ToSet(outRing'))
    BY <1>1, <1>10, <2>1, <2>2 DEF OutOrdered, Below
  <2>9. OutOrdered'
    BY <1>1, <2>1, <2>3, <2>5, <2>6, <2>7, <2>8 DEF OutOrdered
  <2>10. Loaded' = ToSet(outPipe')
    BY <2>7 DEF Loaded, FailedUrbs
  <2>11. Below(ToSet(piece), Load')
    <3>1. Load' = UNION {ToSet(payload[v]) : v \in ToSet(outPipe')}
      BY <1>1, <2>10 DEF Load
    <3> QED
      BY <2>4, <3>1 DEF Below
  <2>12. Below(ToSet(piece), Afloat')
    BY <1>1, <2>2, <2>11 DEF Afloat, Below
  <2> QED
    BY <2>2, <2>9, <2>12
<1>18. OutBytes'
  BY <1>1, <1>13, <1>16, <1>17 DEF OutBytes
<1>19. OutDelivers
  BY <1>1, <1>8, <1>10, <1>15, <1>17 DEF OutDelivers
<1> QED
  BY <1>18, <1>19

(* Its transfer fails: it still has its bytes.                             *)
LEMMA FailOutBytes ==
  ASSUME OutBytes, OutTyped, QueueInv, UrbPlaces, CompleteOut(FALSE)
  PROVE  OutBytes' /\ Afloat' = Afloat
<1> DEFINE u == Head(outPipe)
           e == [pipe |-> "out", urb |-> u, ok |-> FALSE]
<1>1. /\ outPipe # <<>> /\ outPipe' = Tail(outPipe)
      /\ events' = Append(events, e)
      /\ "failed" \in mishaps'
      /\ UNCHANGED <<sent, outRing, payload, written, outHalted>>
  BY DEF CompleteOut, Note
<1>2. u \in OutUrbs /\ ToSet(outPipe) = {u} \cup ToSet(outPipe')
  BY <1>1, PipeTaken
<1>3. e \in Events /\ Failed(e) /\ e.urb = u
  BY <1>2 DEF OutEvents, Events, Failed
<1> HIDE DEF u, e
<1>4. ToSet(events') = ToSet(events) \cup {e}
  BY <1>1, <1>3, EventPut
<1>5. FailedUrbs' = FailedUrbs \cup {u}
  BY <1>3, <1>4 DEF FailedUrbs
<1>6. Loaded' = Loaded
  BY <1>2, <1>5 DEF Loaded
<1> QED
  BY <1>1, <1>6, OutBytesFrame

OutRests == UNCHANGED <<written, sent, outHalted>> /\ Afloat' = Afloat

OutAccepts ==
  /\ written' > written /\ Afloat' = Afloat \cup (written + 1)..written'
  /\ UNCHANGED <<sent, outHalted>>

(* The pipe is or gets halted.                                             *)
OutLoses ==
  UNCHANGED <<written, sent>> /\ Afloat' \subseteq Afloat /\ outHalted'

SameFailed == "failed" \in mishaps' <=> "failed" \in mishaps

(* Every step is one of these four.                                        *)
LEMMA OutFlow ==
  ASSUME IInv, UrbsAccounted, OutBytes, [Next]_vars
  PROVE  /\ OutBytes'
         /\ \/ OutRests /\ "failed" \in mishaps'
            \/ SameFailed /\ (OutRests \/ OutAccepts \/ OutLoses)
            \/ OutDelivers
<1>1. /\ OutTyped /\ QueueInv /\ InInv /\ UrbPlaces
      /\ WriteMux
  BY UrbsInPlace DEF IInv, OutInv
<1>2. ASSUME UNCHANGED <<sent, outRing, written, payload, outPipe, outHalted>>,
             FailedUrbs' = FailedUrbs,
             ToSet(events') \subseteq ToSet(events), SameFailed
      PROVE  OutBytes' /\ OutRests
  <2>1. Loaded' = Loaded
    BY <1>2 DEF Loaded
  <2>2. "failed" \in mishaps'
        \/ /\ "failed" \notin mishaps /\ UNCHANGED outPipe
           /\ \A e \in ToSet(events') : ~Failed(e)
    BY <1>2 DEF OutBytes, OutOrdered, SameFailed
  <2> QED
    BY <1>1, <1>2, <2>1, <2>2, OutBytesFrame DEF OutRests
<1>3. ASSUME UNCHANGED <<outSide, events>>, SameFailed
      PROVE  OutBytes' /\ OutRests
  BY <1>2, <1>3 DEF outSide, FailedUrbs
<1>4. ASSUME NEW w \in Writers, Lock(w) \/ Count(w)
      PROVE  OutBytes' /\ OutRests /\ SameFailed
  BY <1>2, <1>4 DEF Lock, Count, FailedUrbs, SameFailed
<1>5. ASSUME NEW w \in Writers, Send(w)
      PROVE  OutBytes' /\ (OutRests \/ OutAccepts) /\ SameFailed
  <2>1. UNCHANGED <<payload, outPipe, sent, events, mishaps, outHalted>>
    BY <1>5 DEF Send
  <2>2. CASE UNCHANGED <<outRing, written>>
    BY <1>2, <2>1, <2>2 DEF FailedUrbs, SameFailed
  <2> DEFINE n == writer[w].bytes
  <2>3. CASE /\ outRing' = outRing \o Numbers(written, n)
             /\ written' = written + n
    <3>1. n \in 0..MaxOut /\ written \in Nat
      BY <1>1, Bounds DEF OutTyped, WriterStates
    <3> HIDE DEF n
    <3>2. /\ OutBytes'
          /\ Afloat' = Afloat \cup (written + 1)..written'
      BY <1>1, <2>1, <2>3, <3>1, SendBytes
    <3>3. CASE n = 0
      <4>1. written' = written /\ (written + 1)..written' = {}
        BY <2>3, <3>1, <3>3
      <4> QED
        BY <2>1, <3>2, <4>1 DEF OutRests, SameFailed
    <3>4. CASE n # 0
      <4>1. written' > written
        BY <2>3, <3>1, <3>4, Bounds
      <4> QED
        BY <2>1, <3>2, <4>1 DEF OutAccepts, SameFailed
    <3> QED
      BY <3>3, <3>4
  <2> QED
    BY <1>5, <2>1, <2>2, <2>3 DEF Send
<1>6. CASE OutUrbDone \/ Poll
  <2>1. /\ OutBytes' /\ Afloat' \subseteq Afloat
        /\ outHalted \/ Afloat' = Afloat
    BY <1>1, <1>6, OutUrbDoneBytes, PollBytes
  <2>2. UNCHANGED <<written, sent, mishaps, outHalted>>
    BY <1>6 DEF OutUrbDone, Poll
  <2> QED
    BY <2>1, <2>2 DEF OutRests, OutLoses, SameFailed
<1>7. CASE InUrbDone \/ PipeError
  <2>1. /\ events # <<>> /\ Head(events).pipe # "out" /\ events' = Tail(events)
        /\ UNCHANGED <<outSide, mishaps>>
    BY <1>7 DEF InUrbDone, PipeError, NextEvent
  <2>2. ToSet(events) = {Head(events)} \cup ToSet(events')
    BY <1>1, <2>1, EventTaken
  <2>3. FailedUrbs' = FailedUrbs
    BY <2>1, <2>2 DEF FailedUrbs, Failed
  <2>4. SameFailed
    BY <2>1 DEF SameFailed
  <2>5. UNCHANGED <<sent, outRing, written, payload, outPipe, outHalted>>
    BY <2>1 DEF outSide
  <2> QED
    BY <1>2, <2>2, <2>3, <2>4, <2>5, Zenon
<1>8. CASE Push \/ CountPushed \/ SkipPayload
  <2>1. /\ UNCHANGED <<outSide, events>>
        /\ mishaps' \subseteq mishaps \cup {"dropped"}
        /\ mishaps \subseteq mishaps'
    BY <1>8 DEF Push, CountPushed, SkipPayload, Note
  <2> QED
    BY <1>3, <2>1 DEF SameFailed
<1>9. CASE Reader
  <2>1. /\ UNCHANGED <<outSide, events>> /\ mishaps \subseteq mishaps'
        /\ mishaps' \subseteq
             mishaps \cup {"overtaken", "oversized", "cut", "wrapped"}
    BY <1>9 DEF Reader, Look, Handle, Read, ReadNothing, ReadRest, HandOver,
                ReadOn, ReadOnTimeout, Pop, Note
  <2> QED
    BY <1>3, <2>1 DEF SameFailed
<1>10. ASSUME NEW e, events' = Append(events, e), e.pipe # "out",
              UNCHANGED <<sent, outRing, written, payload, outPipe, mishaps>>,
              outHalted' \/ UNCHANGED outHalted
       PROVE  OutBytes' /\ Afloat' = Afloat
  <2>1. ToSet(events') = ToSet(events) \cup {e}
    <3> DEFINE T == Events \cup {e}
    <3>1. events \in Seq(T)
      BY <1>1 DEF QueueInv
    <3> QED
      BY <1>10, <3>1, HeldAppended
  <2>2. FailedUrbs' = FailedUrbs
    BY <1>10, <2>1 DEF FailedUrbs, Failed
  <2>3. Loaded' = Loaded
    BY <1>10, <2>2 DEF Loaded
  <2>4. "failed" \in mishaps'
        \/ /\ "failed" \notin mishaps /\ UNCHANGED outPipe
           /\ \A f \in ToSet(events') : ~Failed(f)
    BY <1>10, <2>1 DEF OutBytes, OutOrdered, Failed
  <2> QED
    BY <1>1, <1>10, <2>3, <2>4, OutBytesFrame
<1>11. CASE CompleteIn
  <2>1. PICK e : events' = Append(events, e) /\ e.pipe # "out"
    <3>1. PICK n : events' = Append(events,
                             [pipe |-> "in", bytes |-> Numbers(arrived, n)])
      BY <1>11 DEF CompleteIn
    <3>2. [pipe |-> "in", bytes |-> Numbers(arrived, n)].pipe # "out"
      OBVIOUS
    <3> QED
      BY <3>1, <3>2
  <2>2. UNCHANGED <<outSide, mishaps>>
    BY <1>11 DEF CompleteIn
  <2> QED
    BY <1>10, <2>1, <2>2 DEF outSide, OutRests, SameFailed
<1>12. CASE HaltOut \/ HaltIn
  <2> DEFINE e == [pipe |-> "error"]
  <2>1. /\ events' = Append(events, e) /\ e.pipe # "out"
        /\ UNCHANGED <<sent, outRing, written, payload, outPipe, mishaps>>
        /\ outHalted' \/ UNCHANGED outHalted
    BY <1>12 DEF HaltOut, HaltIn, outSide
  <2> HIDE DEF e
  <2>2. OutBytes' /\ Afloat' = Afloat
    BY <1>10, <2>1
  <2> QED
    BY <2>1, <2>2 DEF OutRests, OutLoses, SameFailed
<1>13. CASE CompleteOut(TRUE)
  BY <1>1, <1>13, CompleteOutBytes
<1>14. CASE CompleteOut(FALSE)
  <2>1. OutBytes' /\ Afloat' = Afloat
    BY <1>1, <1>14, FailOutBytes
  <2>2. UNCHANGED <<written, sent, outHalted>> /\ "failed" \in mishaps'
    BY <1>14 DEF CompleteOut, Note
  <2> QED
    BY <2>1, <2>2 DEF OutRests
<1>15. CASE UNCHANGED vars
  BY <1>3, <1>15 DEF vars, SameFailed
<1>16. CASE \E w \in Writers : Writing(w)
  BY <1>4, <1>5, <1>16 DEF Writing
<1> QED
  BY <1>6, <1>7, <1>8, <1>9, <1>11, <1>12, <1>13, <1>14, <1>15, <1>16
  DEF Next, DataTask, Modem

-----------------------------------------------------------------------------
(* The pieces of the two directions.                                       *)

LEMMA ThreePieces ==
  ASSUME NEW a \in Seq(Int), NEW b \in Seq(Int), NEW c \in Seq(Int)
  PROVE  /\ <<a, b, c>> \in Seq(Seq(Int))
         /\ Bytes(<<a, b, c>>) = ToSet(a) \cup ToSet(b) \cup ToSet(c)
         /\ /\ Rising(a) /\ Rising(b) /\ Rising(c)
            /\ Below(ToSet(a), ToSet(b)) /\ Below(ToSet(a), ToSet(c))
            /\ Below(ToSet(b), ToSet(c))
            => InOrder(<<a, b, c>>)
<1> DEFINE p == <<a, b, c>>
<1>1. /\ p \in Seq(Seq(Int)) /\ DOMAIN p = {1, 2, 3}
      /\ p[1] = a /\ p[2] = b /\ p[3] = c
  OBVIOUS
<1> HIDE DEF p
<1>2. Bytes(p) = ToSet(a) \cup ToSet(b) \cup ToSet(c)
  BY <1>1 DEF Bytes
<1>3. ASSUME /\ Rising(a) /\ Rising(b) /\ Rising(c)
             /\ Below(ToSet(a), ToSet(b)) /\ Below(ToSet(a), ToSet(c))
             /\ Below(ToSet(b), ToSet(c))
      PROVE  InOrder(p)
  BY <1>1, <1>3 DEF InOrder
<1> QED
  BY <1>1, <1>2, <1>3 DEF p

(* The joined pieces on the way in are the places they are in.             *)
LEMMA UnreadPieces ==
  ASSUME InInv, QueueInv
  PROVE  /\ Bytes(Unread) = Waiting
         /\ Bytes(Incoming) = ToSet(handed) \cup Waiting
         /\ FrontOrdered /\ QueueOrdered => InOrder(Incoming)
<1> DEFINE front == <<line, inRing, Pushing>>
           queue == [i \in DOMAIN events |-> Received(events[i])]
<1>1. /\ handed \in Seq(Int) /\ line \in Seq(Int) /\ inRing \in Seq(Int)
      /\ Pushing \in Seq(Int)
      /\ \A e \in ToSet(events) : Received(e) \in Seq(Int)
  BY InPlaces
<1>2. \A i \in DOMAIN events : events[i] \in ToSet(events)
  BY DEF ToSet
<1>3. queue \in Seq(Seq(Int))
  <2>1. DOMAIN events = 1..Len(events) /\ Len(events) \in Nat
    BY DEF QueueInv
  <2>2. queue \in [1..Len(events) -> Seq(Int)]
    BY <1>1, <1>2, <2>1
  <2> QED
    BY <2>1, <2>2
<1>4. Bytes(queue) = Queued
  BY DEF Bytes, Queued, ToSet
<1>5. QueueOrdered => InOrder(queue)
  BY <1>2 DEF QueueOrdered, InOrder
<1>6. /\ front \in Seq(Seq(Int))
      /\ Bytes(front) = ToSet(line) \cup ToSet(inRing) \cup ToSet(Pushing)
      /\ FrontOrdered => InOrder(front)
  BY <1>1, ThreePieces DEF FrontOrdered
<1>7. Unread = front \o queue
  BY DEF Unread, Pushing
<1> HIDE DEF front, queue
<1>8. /\ Unread \in Seq(Seq(Int)) /\ Bytes(Unread) = Waiting
      /\ InOrder(front) /\ InOrder(queue) /\ Below(Bytes(front), Bytes(queue))
           => InOrder(Unread)
  BY <1>3, <1>4, <1>6, <1>7, PiecesJoined DEF Waiting
<1>9. /\ <<handed>> \in Seq(Seq(Int)) /\ Bytes(<<handed>>) = ToSet(handed)
      /\ Rising(handed) => InOrder(<<handed>>)
  BY <1>1, OnePiece
<1>10. /\ Bytes(Incoming) = ToSet(handed) \cup Waiting
       /\ /\ InOrder(<<handed>>) /\ InOrder(Unread)
          /\ Below(Bytes(<<handed>>), Bytes(Unread))
          => InOrder(Incoming)
  BY <1>8, <1>9, PiecesJoined DEF Incoming
<1>11. ASSUME FrontOrdered, QueueOrdered  PROVE InOrder(Incoming)
  <2>1. Below(Bytes(front), Bytes(queue))
    BY <1>4, <1>6, <1>11 DEF QueueOrdered, Queued, Below
  <2>2. Below(Bytes(<<handed>>), Bytes(Unread))
    BY <1>8, <1>9, <1>11
       DEF FrontOrdered, QueueOrdered, Waiting, Queued, Below
  <2> QED
    BY <1>5, <1>6, <1>8, <1>9, <1>10, <1>11, <2>1, <2>2 DEF FrontOrdered
<1> QED
  BY <1>8, <1>10, <1>11

(* The joined pieces on the way out are the places they are in.            *)
LEMMA UnderwayPieces ==
  ASSUME OutTyped, QueueInv, UrbPlaces
  PROVE  /\ Bytes(Underway) = Afloat
         /\ Bytes(Outgoing) = ToSet(sent) \cup Afloat
         /\ OutApart => NoneTwice(Outgoing)
         /\ OutOrdered => InOrder(Outgoing)
<1> DEFINE failed == [i \in DOMAIN events |-> Unsent(events[i])]
           pipe == [i \in DOMAIN outPipe |-> payload[outPipe[i]]]
<1>1. /\ sent \in Seq(Int) /\ outRing \in Seq(Int)
      /\ \A u \in OutUrbs : payload[u] \in Seq(Int)
      /\ Loaded \subseteq OutUrbs
  BY OutPlaces
<1>2. /\ events \in Seq(Events) /\ outPipe \in Seq(OutUrbs)
  BY DEF QueueInv, OutTyped
<1>3. /\ \A i \in DOMAIN events :
           /\ events[i] \in ToSet(events)
           /\ Failed(events[i]) =>
                /\ Unsent(events[i]) = payload[events[i].urb]
                /\ events[i].urb \in FailedUrbs
           /\ ~Failed(events[i]) => Unsent(events[i]) = <<>>
      /\ \A u \in FailedUrbs :
           \E i \in DOMAIN events : Failed(events[i]) /\ u = events[i].urb
      /\ <<>> \in Seq(Int)
  BY DEF ToSet, FailedUrbs, Failed, Unsent
<1>4. failed \in Seq(Seq(Int))
  <2>1. DOMAIN events = 1..Len(events) /\ Len(events) \in Nat
    BY <1>2
  <2>2. \A i \in DOMAIN events : Unsent(events[i]) \in Seq(Int)
    BY <1>1, <1>3 DEF Loaded
  <2>3. failed \in [1..Len(events) -> Seq(Int)]
    BY <2>1, <2>2
  <2> QED
    BY <2>1, <2>3
<1>5. pipe \in Seq(Seq(Int))
  <2>1. DOMAIN outPipe = 1..Len(outPipe) /\ Len(outPipe) \in Nat
    BY <1>2
  <2>2. \A i \in DOMAIN outPipe : payload[outPipe[i]] \in Seq(Int)
    BY <1>1, <1>2
  <2>3. pipe \in [1..Len(outPipe) -> Seq(Int)]
    BY <2>1, <2>2
  <2> QED
    BY <2>1, <2>3
<1>6. Bytes(failed) = UNION {ToSet(payload[u]) : u \in FailedUrbs}
  <2>1. ToSet(<<>>) = {}
    BY DEF ToSet
  <2>2. \A i \in DOMAIN events :
          ToSet(Unsent(events[i])) # {}
            => /\ events[i].urb \in FailedUrbs
               /\ Unsent(events[i]) = payload[events[i].urb]
    BY <1>3, <2>1
  <2>3. \A u \in FailedUrbs :
          \E i \in DOMAIN events : Unsent(events[i]) = payload[u]
    BY <1>3
  <2> QED
    BY <2>2, <2>3 DEF Bytes
<1>7. Bytes(pipe) = UNION {ToSet(payload[u]) : u \in ToSet(outPipe)}
  BY DEF Bytes, ToSet
<1>8. /\ <<outRing>> \in Seq(Seq(Int)) /\ Bytes(<<outRing>>) = ToSet(outRing)
      /\ Rising(outRing) => InOrder(<<outRing>>)
      /\ IsInjective(outRing) => NoneTwice(<<outRing>>)
      /\ <<sent>> \in Seq(Seq(Int)) /\ Bytes(<<sent>>) = ToSet(sent)
      /\ Rising(sent) => InOrder(<<sent>>)
      /\ IsInjective(sent) => NoneTwice(<<sent>>)
  BY <1>1, OnePiece
<1>9. Underway = (failed \o pipe) \o <<outRing>>
  BY DEF Underway
<1>10. /\ \A i \in DOMAIN failed : failed[i] = Unsent(events[i])
       /\ DOMAIN failed = DOMAIN events
       /\ \A i \in DOMAIN pipe : /\ pipe[i] = payload[outPipe[i]]
                                 /\ outPipe[i] \in ToSet(outPipe)
       /\ DOMAIN pipe = DOMAIN outPipe
  BY DEF ToSet
<1> HIDE DEF failed, pipe
<1> DEFINE both == failed \o pipe
<1>11. /\ both \in Seq(Seq(Int))
       /\ Bytes(both) = Load
       /\ /\ NoneTwice(failed) /\ NoneTwice(pipe)
          /\ Bytes(failed) \cap Bytes(pipe) = {}
          => NoneTwice(both)
       /\ /\ InOrder(failed) /\ InOrder(pipe)
          /\ Below(Bytes(failed), Bytes(pipe))
          => InOrder(both)
  <2>1. Load = Bytes(failed) \cup Bytes(pipe)
    BY <1>6, <1>7 DEF Load, Loaded
  <2> QED
    BY <1>4, <1>5, <2>1, PiecesJoined
<1> HIDE DEF both
<1>12. /\ Underway \in Seq(Seq(Int)) /\ Bytes(Underway) = Afloat
       /\ /\ NoneTwice(both) /\ NoneTwice(<<outRing>>)
          /\ Load \cap ToSet(outRing) = {}
          => NoneTwice(Underway)
       /\ /\ InOrder(both) /\ InOrder(<<outRing>>)
          /\ Below(Load, ToSet(outRing))
          => InOrder(Underway)
  <2>1. Underway = both \o <<outRing>>
    BY <1>9 DEF both
  <2> DEFINE ring == <<outRing>>
  <2>2. ring \in Seq(Seq(Int)) /\ Bytes(ring) = ToSet(outRing)
    BY <1>8
  <2> HIDE DEF ring
  <2>3. both \o ring \in Seq(Seq(Int))
    BY <1>11, <2>2
  <2>4. Bytes(both \o ring) = Load \cup ToSet(outRing)
    BY <1>11, <2>2, PiecesJoined
  <2>5. /\ NoneTwice(both) /\ NoneTwice(ring)
        /\ Load \cap ToSet(outRing) = {}
        => NoneTwice(both \o ring)
    BY <1>11, <2>2, PiecesJoined
  <2>6. /\ InOrder(both) /\ InOrder(ring)
        /\ Below(Load, ToSet(outRing))
        => InOrder(both \o ring)
    BY <1>11, <2>2, PiecesJoined
  <2> QED
    BY <2>1, <2>3, <2>4, <2>5, <2>6 DEF Afloat, ring
<1>13. /\ Bytes(Outgoing) = ToSet(sent) \cup Afloat
       /\ /\ NoneTwice(<<sent>>) /\ NoneTwice(Underway)
          /\ ToSet(sent) \cap Afloat = {}
          => NoneTwice(Outgoing)
       /\ /\ InOrder(<<sent>>) /\ InOrder(Underway)
          /\ Below(ToSet(sent), Afloat)
          => InOrder(Outgoing)
  BY <1>8, <1>12, PiecesJoined DEF Outgoing
<1>14. ASSUME OutApart  PROVE NoneTwice(Outgoing)
  <2>1. NoneTwice(failed)
    <3>1. \A i \in DOMAIN failed : IsInjective(failed[i])
      <4>1. IsInjective(<<>>)
        BY DEF IsInjective
      <4> QED
        BY <1>3, <1>10, <1>14, <4>1 DEF OutApart, Loaded
    <3>2. ASSUME NEW i \in DOMAIN failed, NEW j \in DOMAIN failed, i # j
          PROVE  ToSet(failed[i]) \cap ToSet(failed[j]) = {}
      <4>1. CASE Failed(events[i]) /\ Failed(events[j])
        <5>1. events[i].urb # events[j].urb
          BY <1>10, <3>2, <4>1 DEF UrbPlaces, Failed
        <5>2. /\ failed[i] = payload[events[i].urb]
              /\ failed[j] = payload[events[j].urb]
              /\ events[i].urb \in Loaded /\ events[j].urb \in Loaded
          BY <1>3, <1>10, <4>1 DEF Loaded
        <5> QED
          BY <1>14, <5>1, <5>2 DEF OutApart
      <4>2. CASE ~Failed(events[i]) \/ ~Failed(events[j])
        <5>1. ToSet(<<>>) = {}
          BY DEF ToSet
        <5> QED
          BY <1>3, <1>10, <4>2, <5>1
      <4> QED
        BY <4>1, <4>2
    <3> QED
      BY <3>1, <3>2 DEF NoneTwice
  <2>2. NoneTwice(pipe)
    <3>1. \A i \in DOMAIN pipe : IsInjective(pipe[i])
      BY <1>10, <1>14 DEF OutApart, Loaded
    <3>2. ASSUME NEW i \in DOMAIN pipe, NEW j \in DOMAIN pipe, i # j
          PROVE  ToSet(pipe[i]) \cap ToSet(pipe[j]) = {}
      <4>1. outPipe[i] # outPipe[j]
        BY <1>10, <3>2 DEF UrbPlaces
      <4> QED
        BY <1>10, <1>14, <4>1 DEF OutApart, Loaded
    <3> QED
      BY <3>1, <3>2 DEF NoneTwice
  <2>3. \A u \in FailedUrbs : u \notin ToSet(outPipe)
    BY <1>3 DEF UrbPlaces, Failed
  <2>4. Bytes(failed) \cap Bytes(pipe) = {}
    <3>1. \A u \in FailedUrbs, v \in ToSet(outPipe) :
            ToSet(payload[u]) \cap ToSet(payload[v]) = {}
      BY <1>14, <2>3 DEF OutApart, Loaded
    <3> QED
      BY <1>6, <1>7, <3>1
  <2>5. /\ Load \cap ToSet(outRing) = {} /\ ToSet(sent) \cap Load = {}
        /\ ToSet(sent) \cap ToSet(outRing) = {}
    BY <1>14 DEF OutApart, Load
  <2>6. ToSet(sent) \cap Afloat = {}
    BY <2>5 DEF Afloat
  <2>7. IsInjective(sent) /\ IsInjective(outRing)
    BY <1>14 DEF OutApart
  <2> QED
    BY <1>8, <1>11, <1>12, <1>13, <2>1, <2>2, <2>4, <2>5, <2>6, <2>7
<1>15. ASSUME OutOrdered  PROVE InOrder(Outgoing)
  <2>1. \A i \in DOMAIN failed : failed[i] = <<>>
    BY <1>3, <1>10, <1>15 DEF OutOrdered
  <2>2. ToSet(<<>>) = {} /\ Rising(<<>>)
    BY DEF ToSet, Rising
  <2>3. InOrder(failed) /\ Bytes(failed) = {}
    BY <2>1, <2>2 DEF InOrder, Below, Bytes
  <2>4. InOrder(pipe)
    BY <1>10, <1>15 DEF OutOrdered, InOrder
  <2>5. Load = Bytes(pipe)
    <3>1. FailedUrbs = {}
      BY <1>15 DEF OutOrdered, FailedUrbs
    <3> QED
      BY <1>7, <3>1 DEF Load, Loaded
  <2>6. /\ Below(Load, ToSet(outRing)) /\ Below(ToSet(sent), Load)
        /\ Below(ToSet(sent), ToSet(outRing))
    BY <1>7, <1>15, <2>5 DEF OutOrdered, Below
  <2>7. Below(Bytes(failed), Bytes(pipe)) /\ Below(ToSet(sent), Afloat)
    BY <2>3, <2>6 DEF Below, Afloat
  <2>8. Rising(sent) /\ Rising(outRing)
    BY <1>15 DEF OutOrdered
  <2> QED
    BY <1>8, <1>11, <1>12, <1>13, <2>3, <2>4, <2>6, <2>7, <2>8
<1> QED
  BY <1>12, <1>13, <1>14, <1>15

-----------------------------------------------------------------------------
(* Every step, and the theorems.                                           *)

(* Nothing is on its way yet.                                              *)
LEMMA InitBytes == Init => OutBytes /\ InBytes
<1> SUFFICES ASSUME Init PROVE OutBytes /\ InBytes
  OBVIOUS
<1>1. /\ sent = <<>> /\ outRing = <<>> /\ written = 0 /\ events = <<>>
      /\ handed = <<>> /\ line = <<>> /\ inRing = <<>> /\ arrived = 0
      /\ dataPc = "wait"
      /\ \A u \in OutUrbs : payload[u] = <<>>
      /\ outPipe \in Seq(OutUrbs)
  BY UrbsInAnOrder DEF Init
<1>2. ToSet(<<>>) = {} /\ Rising(<<>>) /\ IsInjective(<<>>)
  BY DEF ToSet, Rising, IsInjective
<1>3. \A S : Below({}, S) /\ Below(S, {})
  BY DEF Below
<1>4. /\ 1..0 = {} /\ ToSet(events) = {} /\ DOMAIN events = {}
      /\ Pushing = <<>>
  BY <1>1, <1>2 DEF Pushing
<1>5. Loaded \subseteq OutUrbs /\ ToSet(outPipe) \subseteq OutUrbs
  BY <1>1, <1>4, HeldTyped DEF Loaded, FailedUrbs
<1>6. \A u \in Loaded : payload[u] = <<>>
  BY <1>1, <1>5
<1>7. OutApart
  BY <1>1, <1>2, <1>6 DEF OutApart
<1>8. Load = {}
  BY <1>2, <1>6 DEF Load
<1>9. OutComplete
  BY <1>1, <1>2, <1>4, <1>8 DEF OutComplete, Afloat
<1>10. OutOrdered
  <2>1. \A i \in DOMAIN outPipe : payload[outPipe[i]] = <<>>
    BY <1>1
  <2>2. \A u \in ToSet(outPipe) : payload[u] = <<>>
    BY <1>1, <1>5
  <2> QED
    BY <1>1, <1>2, <1>3, <1>4, <2>1, <2>2 DEF OutOrdered
<1>11. FrontOrdered
  BY <1>1, <1>2, <1>3, <1>4 DEF FrontOrdered
<1>12. QueueOrdered
  BY <1>4 DEF QueueOrdered
<1>13. InKept
  BY <1>1, <1>2, <1>4 DEF InKept, Waiting, Queued
<1> QED
  BY <1>7, <1>9, <1>10, <1>11, <1>12, <1>13 DEF OutBytes, InBytes

(* What the theorems need of a state: what has been shown of it, and the   *)
(* pieces as places.                                                       *)
ByteInv == IInv /\ UrbsAccounted /\ OutBytes /\ InBytes

LEMMA ByteInvariance == Spec => []ByteInv
<1>1. Init => OutBytes /\ InBytes
  BY InitBytes
<1>2. IInv /\ UrbsAccounted /\ OutBytes /\ InBytes /\ [Next]_vars
        => OutBytes' /\ InBytes'
  BY InFlow, OutFlow
<1> QED
  BY <1>1, <1>2, Invariance, UrbsAccountedCorrect, PTL DEF ByteInv, Spec

Places == Bytes(Unread) = Waiting /\ Bytes(Underway) = Afloat

LEMMA PlacesHeld ==
  ASSUME ByteInv  PROVE Places /\ BytesInOrder
<1>1. /\ InInv /\ QueueInv /\ OutTyped /\ UrbPlaces
  BY UrbsInPlace DEF ByteInv, IInv, OutInv
<1>2. /\ Bytes(Unread) = Waiting
      /\ Bytes(Incoming) = ToSet(handed) \cup Waiting
      /\ FrontOrdered /\ QueueOrdered => InOrder(Incoming)
  BY <1>1, UnreadPieces
<1>3. /\ Bytes(Underway) = Afloat
      /\ Bytes(Outgoing) = ToSet(sent) \cup Afloat
      /\ OutApart => NoneTwice(Outgoing)
      /\ OutOrdered => InOrder(Outgoing)
  BY <1>1, UnderwayPieces
<1>4. ReceiveOrder
  BY <1>2 DEF ByteInv, InBytes, InKept, ReceiveOrder
<1>5. TransmitOrder
  BY <1>3 DEF ByteInv, OutBytes, OutComplete, TransmitOrder
<1> QED
  BY <1>2, <1>3, <1>4, <1>5 DEF Places, BytesInOrder

(* Whatever is written while other tasks read, and although transfers fail *)
(* and are retried or an error halts a pipe: no byte written is sent twice,*)
(* none is lost before the bulk-out pipe is halted, they are sent in order *)
(* until a transfer fails, and what the modem sends is handed over in      *)
(* order, complete but for what a full ring and the read-on loop are noted *)
(* to have lost.                                                           *)
THEOREM BytesInOrderCorrect == Spec => []BytesInOrder
<1>1. ByteInv => BytesInOrder
  BY PlacesHeld
<1> QED
  BY <1>1, ByteInvariance, PTL

-----------------------------------------------------------------------------
(* Both directions implement ByteChannel.                                  *)

(* What follows another sequence is taken from behind it.                  *)
LEMMA PieceOf ==
  ASSUME NEW s \in Seq(Int), NEW t \in Seq(Int)
  PROVE  SubSeq(s \o t, Len(s) + 1, Len(s \o t)) = t
<1>1. PICK n \in Nat : n = Len(t)
  OBVIOUS
<1>2. PICK k \in Nat : k = Len(s)
  OBVIOUS
<1>3. PICK r \in Seq(Int) : r = s \o t /\ Len(r) = k + n
  BY <1>1, <1>2, Joined
<1>4. k \in 0..Len(r)
  BY <1>1, <1>2, <1>3
<1>5. PICK p \in Seq(Int) : p = Rest(r, k) /\ Len(p) = n
  <2>1. Rest(r, k) \in Seq(Int) /\ Len(Rest(r, k)) = Len(r) - k
    BY <1>4, SplitRing
  <2>2. Len(r) - k = n
    BY <1>1, <1>2, <1>3
  <2> QED
    BY <2>1, <2>2
<1>6. ASSUME NEW i \in 1..n  PROVE p[i] = t[i]
  <2>1. i \in 1..(Len(r) - k)
    BY <1>1, <1>2, <1>3
  <2>2. p[i] = r[i + k]
    BY <1>4, <1>5, <2>1, SplitAt
  <2>3. r[i + k] = t[i]
    BY <1>1, <1>2, <1>3
  <2> QED
    BY <2>2, <2>3
<1>7. p \in [1..n -> Int] /\ t \in [1..n -> Int]
  BY <1>1, <1>5
<1>8. p = t
  BY <1>6, <1>7, SameFunction
<1> QED
  BY <1>2, <1>3, <1>5, <1>8 DEF Rest

LEMMA OutwardInit ==
  ASSUME Init, ByteInv, Places
  PROVE  Outward!Init
<1>1. written = 0 /\ sent = <<>> /\ mishaps = {} /\ outHalted = FALSE
  BY DEF Init
<1>2. Afloat = {}
  BY <1>1 DEF ByteInv, OutBytes, OutComplete
<1> QED
  BY <1>1, <1>2 DEF Places, Outward!Init

LEMMA InwardInit ==
  ASSUME Init, ByteInv, Places
  PROVE  Inward!Init
<1>1. arrived = 0 /\ handed = <<>> /\ mishaps = {}
  BY DEF Init
<1>2. Waiting = {}
  BY <1>1 DEF ByteInv, InBytes, InKept
<1> QED
  BY <1>1, <1>2 DEF Places, Inward!Init

LEMMA OutwardStep ==
  ASSUME ByteInv, Places, Places', [Next]_vars
  PROVE  [Outward!Next]_(Outward!vars)
<1>1. \/ OutRests /\ "failed" \in mishaps'
      \/ SameFailed /\ (OutRests \/ OutAccepts \/ OutLoses)
      \/ OutDelivers
  BY OutFlow DEF ByteInv
<1>2. Bytes(Underway) = Afloat /\ Bytes(Underway)' = Afloat'
  BY DEF Places
<1>3. sent \in Seq(Int)
  BY OutPlaces DEF ByteInv, IInv, OutInv
<1> DEFINE fs == {f \in {"late"} : "failed" \in mishaps}
                   \cup {f \in {"lost"} : outHalted}
<1>4. /\ "late" \in fs <=> "failed" \in mishaps
      /\ SameFailed /\ UNCHANGED outHalted => fs' = fs
      /\ "failed" \in mishaps' /\ UNCHANGED outHalted
           => fs' = fs \cup {"late"}
      /\ SameFailed /\ outHalted' => fs' = fs \cup {"lost"}
  BY DEF SameFailed
<1>5. CASE OutRests /\ SameFailed
  BY <1>2, <1>4, <1>5 DEF OutRests, Outward!vars
<1>6. CASE /\ OutRests /\ "failed" \in mishaps'
           /\ "failed" \notin mishaps
  <2>1. Outward!Fail
    BY <1>2, <1>4, <1>6 DEF OutRests, Outward!Fail
  <2> QED
    BY <2>1 DEF Outward!Next
<1>7. CASE OutAccepts /\ SameFailed
  <2>1. Outward!Accept
    BY <1>2, <1>4, <1>7 DEF OutAccepts, Outward!Accept
  <2> QED
    BY <2>1 DEF Outward!Next
<1>8. CASE OutLoses /\ SameFailed
  <2>1. Outward!Lose
    BY <1>2, <1>4, <1>8 DEF OutLoses, Outward!Lose
  <2> QED
    BY <2>1 DEF Outward!Next
<1>9. CASE OutDelivers
  <2>1. PICK piece \in Seq(Int) :
          /\ sent' = sent \o piece /\ IsInjective(piece)
          /\ ToSet(piece) \subseteq Afloat /\ Afloat' = Afloat \ ToSet(piece)
          /\ \/ "failed" \in mishaps
             \/ Rising(piece) /\ Below(ToSet(piece), Afloat')
    BY <1>9 DEF OutDelivers
  <2>2. UNCHANGED <<written, mishaps, outHalted>>
    BY <1>9 DEF OutDelivers
  <2>3. CASE piece = <<>>
    <3>1. sent' = sent
      BY <1>3, <2>1, <2>3
    <3>2. ToSet(piece) = {}
      BY <2>3 DEF ToSet
    <3>3. Afloat' = Afloat
      BY <2>1, <3>2
    <3> QED
      BY <1>2, <2>2, <3>1, <3>3 DEF Outward!vars
  <2>4. CASE piece # <<>>
    <3>1. Outward!Piece = piece
      BY <1>3, <2>1, PieceOf DEF Outward!Piece
    <3>2. "failed" \in mishaps \/ Outward!InTurn
      <4>1. ASSUME Rising(piece), Below(ToSet(piece), Afloat')
            PROVE  Outward!InTurn
        <5>1. \A i \in DOMAIN piece : piece[i] \in ToSet(piece)
          BY DEF ToSet
        <5> QED
          BY <1>2, <3>1, <4>1, <5>1 DEF Outward!InTurn, Rising, Below
      <4> QED
        BY <2>1, <4>1
    <3>3. Outward!Deliver
      BY <1>2, <1>4, <2>1, <2>2, <2>4, <3>1, <3>2
         DEF Outward!Deliver, Outward!ToSet, Outward!IsInjective, ToSet,
             IsInjective
    <3> QED
      BY <3>3 DEF Outward!Next
  <2> QED
    BY <2>3, <2>4
<1> QED
  BY <1>1, <1>5, <1>6, <1>7, <1>8, <1>9 DEF SameFailed

LEMMA InwardStep ==
  ASSUME ByteInv, Places, Places', [Next]_vars
  PROVE  [Inward!Next]_(Inward!vars)
<1>1. InRests \/ InAccepts \/ InDelivers \/ InLoses
  BY InFlow DEF ByteInv
<1>2. Bytes(Unread) = Waiting /\ Bytes(Unread)' = Waiting'
  BY DEF Places
<1>3. handed \in Seq(Int)
  BY InPlaces DEF ByteInv, IInv
<1> DEFINE lost == {f \in {"lost"} : {"dropped", "cut"} \cap mishaps # {}}
<1>4. /\ (Lossy' <=> Lossy) => lost' = lost
      /\ Lossy' => lost' = lost \cup {"lost"}
  BY DEF Lossy
<1>5. CASE InRests
  BY <1>2, <1>4, <1>5 DEF InRests, Inward!vars
<1>6. CASE InLoses
  <2>1. Inward!Lose
    BY <1>2, <1>4, <1>6 DEF InLoses, Inward!Lose
  <2> QED
    BY <2>1 DEF Inward!Next
<1>7. CASE InAccepts
  <2>1. Inward!Accept
    BY <1>2, <1>4, <1>7 DEF InAccepts, Inward!Accept
  <2> QED
    BY <2>1 DEF Inward!Next
<1>8. CASE InDelivers
  <2>1. /\ handed' = handed \o line /\ line \in Seq(Int) /\ Rising(line)
        /\ ToSet(line) \subseteq Waiting /\ Waiting' = Waiting \ ToSet(line)
        /\ Below(ToSet(line), Waiting')
        /\ UNCHANGED arrived /\ lost' = lost
    BY <1>4, <1>8 DEF InDelivers
  <2>2. CASE line = <<>>
    <3>1. handed' = handed
      BY <1>3, <2>1, <2>2
    <3>2. ToSet(line) = {}
      BY <2>2 DEF ToSet
    <3>3. Waiting' = Waiting
      BY <2>1, <3>2
    <3> QED
      BY <1>2, <2>1, <3>1, <3>3 DEF Inward!vars
  <2>3. CASE line # <<>>
    <3>1. Inward!Piece = line
      BY <1>3, <2>1, PieceOf DEF Inward!Piece
    <3>2. \A i \in DOMAIN line : line[i] \in ToSet(line)
      BY DEF ToSet
    <3>3. Inward!InTurn
      BY <1>2, <2>1, <3>1, <3>2 DEF Inward!InTurn, Rising, Below
    <3>4. \A i \in DOMAIN line : i \in Int /\ line[i] \in Int
      BY <2>1
    <3>5. IsInjective(line)
      <4>1. ASSUME NEW i \in DOMAIN line, NEW j \in DOMAIN line, i # j
            PROVE  line[i] # line[j]
        <5>1. i < j \/ j < i
          BY <3>4, <4>1
        <5>2. line[i] < line[j] \/ line[j] < line[i]
          BY <2>1, <5>1 DEF Rising
        <5> QED
          BY <3>4, <5>2
      <4> QED
        BY <4>1 DEF IsInjective
    <3>6. Inward!Deliver
      BY <1>2, <2>1, <2>3, <3>1, <3>3, <3>5
         DEF Inward!Deliver, Inward!ToSet, Inward!IsInjective, ToSet,
             IsInjective
    <3> QED
      BY <3>6 DEF Inward!Next
  <2> QED
    BY <2>2, <2>3
<1> QED
  BY <1>1, <1>5, <1>6, <1>7, <1>8

(* The driver and the DTE's reader implement a channel in either direction:*)
(* whatever a byte does between the ring, the URBs, the queue and the line *)
(* buffer, at either end it looks as if it had been accepted, delivered    *)
(* once and in its turn or, where the mishap is noted, put late or lost.   *)
THEOREM ImplementsChannelsCorrect == Spec => ImplementsChannels
<1>1. ByteInv => Places
  BY PlacesHeld
<1>2. Init /\ ByteInv /\ Places => Outward!Init /\ Inward!Init
  BY OutwardInit, InwardInit
<1>3. ByteInv /\ Places /\ Places' /\ [Next]_vars
        => [Outward!Next]_(Outward!vars) /\ [Inward!Next]_(Inward!vars)
  BY OutwardStep, InwardStep
<1> QED
  BY <1>1, <1>2, <1>3, ByteInvariance, PTL
  DEF Spec, ImplementsChannels, Outward!Spec, Inward!Spec
=============================================================================
