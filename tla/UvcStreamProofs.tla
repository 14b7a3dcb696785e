-------------------------- MODULE UvcStreamProofs ---------------------------
(***************************************************************************)
(* Proofs about the camera driver, for every queue length and any number   *)
(* of transfers, cameras and calls.                                        *)
(***************************************************************************)
EXTENDS UvcStream, TLAPS

-----------------------------------------------------------------------------
(* What a stop releases.  The task tells its end after the port is off,    *)
(* and comes there only with its pipes and stream gone; the event group    *)
(* goes when the end was told.                                             *)
Quiet == ~dflt /\ ~pipe /\ ~stream

ReleaseInv ==
  /\ proc \in {"none", "created", "init", "free", "ended"}
       => Quiet /\ port = "off"
  /\ proc \in {"power", "recover", "user", "deinit"} => Quiet
  /\ "stopDone" \in bits => proc = "ended"
  /\ ~group => proc \in {"none", "ended"}
  /\ api \in {"new", "idle"} => ~group
  /\ goal \in {"setUp", "suspend", "resume"}

LEMMA ReleaseInit == ASSUME Init PROVE ReleaseInv
BY DEF Init, ReleaseInv, Quiet

LEMMA ReleaseStep == ASSUME ReleaseInv, [Next]_vars PROVE ReleaseInv'
<1> USE DEF ReleaseInv, Quiet
<1>1. CASE Start
  BY <1>1 DEF Start, device, pipes
<1>2. CASE Notify
  BY <1>2 DEF Notify, device, task, pipes
<1>3. CASE Stopped
  BY <1>3 DEF Stopped, Waits, device, task, pipes
<1>4. CASE Allocate
  BY <1>4 DEF Allocate, device, pipes, caller
<1>5. CASE PortInit
  BY <1>5 DEF PortInit, device, pipes, caller
<1>6. CASE PowerOn
  BY <1>6 DEF PowerOn, Signal, pipes, caller
<1>7. CASE TakeOther
  BY <1>7 DEF TakeOther, Pending, Handle, Take, task,
     pipes, caller
<1>8. CASE TakeConnection
  BY <1>8 DEF TakeConnection, Connection, SetUp, Pending, Take,
     caller
<1>9. CASE TakeDisconnection
  BY <1>9 DEF TakeDisconnection, Pending,
     Handle, Take, pipes, caller
<1>10. CASE TakeSuspend
  BY <1>10 DEF TakeSuspend, Take, device, pipes,
     caller
<1>11. CASE Halted
  BY <1>11 DEF Halted, GiveUp, Failed, device, caller
<1>12. CASE TakeResume
  BY <1>12 DEF TakeResume, Take, device, pipes, caller
<1>13. CASE TakeStop
  BY <1>13 DEF TakeStop, Take, device, pipes, caller
<1>14. CASE Enqueue
  BY <1>14 DEF Enqueue, GiveUp, Failed, device, pipes,
     caller
<1>15. CASE Swallow
  BY <1>15 DEF Swallow, Handle, Pending, Disconnect,
     device, pipes, task, caller
<1>16. CASE Transfer
  BY <1>16 DEF Transfer, GiveUp, Failed, device, pipes,
     caller
<1>17. CASE Open
  BY <1>17 DEF Open, GiveUp, Failed, device, caller
<1>18. CASE EnqueueStream
  BY <1>18 DEF EnqueueStream, Failed, device,
     pipes, caller
<1>19. CASE StopStream
  BY <1>19 DEF StopStream, device, pipes, caller
<1>20. CASE Reset
  BY <1>20 DEF Reset, Handle, Pending, pipes, caller
<1>21. CASE ClosePipe
  BY <1>21 DEF ClosePipe, device, pipes, caller
<1>22. CASE Recover
  BY <1>22 DEF Recover, pipes, caller
<1>23. CASE Drop
  BY <1>23 DEF Drop, device, pipes, caller
<1>24. CASE GoOn
  BY <1>24 DEF GoOn, device, pipes, caller
<1>25. CASE PortDeinit
  BY <1>25 DEF PortDeinit, WaitRefused, pipes, caller
<1>26. CASE EndProc
  BY <1>26 DEF EndProc, device, pipes, caller
<1>27. CASE Plug
  BY <1>27 DEF Plug, Signal, task, pipes, caller
<1>28. CASE Unplug
  BY <1>28 DEF Unplug, Lost, Signal, task, pipes, caller
<1>29. CASE PortError
  BY <1>29 DEF PortError, Lost, Signal, task, pipes,
     caller
<1>30. CASE \E c \in Commands : Call(c)
  BY <1>30 DEF Call, device, task, pipes
<1>31. CASE \E c \in Commands : Send(c)
  BY <1>31 DEF Send, device, task,
     pipes
<1>32. CASE \E c \in Commands : Answered(c)
  BY <1>32 DEF Answered, Waits,
     Answers, device, task, pipes
<1>33. CASE \E c \in Commands : TimedOut(c)
  BY <1>33 DEF TimedOut, Waits,
     Answers, device, task, pipes
<1>34. CASE UNCHANGED vars BY <1>34 DEF vars, caller, task, pipes, device
<1>35. CASE Configure
  BY <1>35 DEF Configure, device, task, pipes
<1>36. CASE StartFails
  BY <1>36 DEF StartFails, device, task, pipes
<1>37. CASE ResetFails
  BY <1>37 DEF ResetFails, Connection, Pending, Take, pipes, caller
<1>38. CASE PipeFails
  BY <1>38 DEF PipeFails, Connection, Pending, Take, caller
<1>39. CASE AllocFails
  BY <1>39 DEF AllocFails, GiveUp, Failed, device, pipes, caller
<1>40. CASE TransferFails
  BY <1>40 DEF TransferFails, GiveUp, Failed, device, pipes, caller
<1>41. CASE CloseDefault
  BY <1>41 DEF CloseDefault, device, pipes, caller
<1>42. CASE CloseStream
  BY <1>42 DEF CloseStream, device, pipes, caller
<1> QED
  BY <1>1, <1>2, <1>3, <1>4, <1>5, <1>6, <1>7, <1>8, <1>9, <1>10, <1>11,
     <1>12, <1>13, <1>14, <1>15, <1>16, <1>17, <1>18, <1>19, <1>20, <1>21,
     <1>22, <1>23, <1>24, <1>25, <1>26, <1>27, <1>28, <1>29, <1>30, <1>31,
     <1>32, <1>33, <1>34, <1>35, <1>36, <1>37, <1>38, <1>39, <1>40, <1>41,
     <1>42
     DEF Next, Caller, Processing, Camera

LEMMA ReleaseHolds == ASSUME ReleaseInv PROVE StopReleasesAll
BY DEF ReleaseInv, Quiet, StopReleasesAll

-----------------------------------------------------------------------------
(* Whose an answer is.  As long as no call timed out, a suspend or resume  *)
(* is in one place: in the queue, with the task or in the answer's bits.   *)
Changes == {"suspend", "resume"}

Busy(c) ==
  goal = c /\ proc \in {"halt", "enqueue", "transfer", "open", "delay"}

Queued(c) == \E i \in 1..Len(queue) : queue[i] = c

TaskInv ==
  /\ queue \in Seq(Commands \cup {"port"})
  /\ goal \in {"setUp", "suspend", "resume"}
  /\ proc \in {"open", "delay"} => goal # "suspend"

Single(c) == \A i, j \in 1..Len(queue) : queue[i] = c /\ queue[j] = c => i = j

OneOf(c) ==
  /\ Queued(c) \/ Busy(c) \/ Answers(c) \cap bits # {} => Waits(c)
  /\ Single(c)
  /\ Queued(c) => ~Busy(c) /\ Answers(c) \cap bits = {}
  /\ Busy(c) => Answers(c) \cap bits = {}

AnswerInv == TaskInv /\ (~late => \A c \in Changes : OneOf(c))

LEMMA TailFacts ==
  ASSUME NEW S, NEW q \in Seq(S), q # <<>>
  PROVE  /\ Tail(q) \in Seq(S)
         /\ Len(Tail(q)) = Len(q) - 1 /\ Len(q) \in Nat \ {0}
         /\ \A i \in 1..Len(q) - 1 : Tail(q)[i] = q[i + 1]
         /\ Head(q) = q[1]
OBVIOUS

LEMMA AppendFacts ==
  ASSUME NEW S, NEW q \in Seq(S), NEW m \in S
  PROVE  /\ Append(q, m) \in Seq(S)
         /\ Len(Append(q, m)) = Len(q) + 1 /\ Len(q) \in Nat
         /\ \A i \in 1..Len(q) : Append(q, m)[i] = q[i]
         /\ Append(q, m)[Len(q) + 1] = m
OBVIOUS

LEMMA Taken ==
  ASSUME queue \in Seq(Commands \cup {"port"}), NEW m, Take(m),
         NEW c \in Changes
  PROVE  /\ queue' \in Seq(Commands \cup {"port"})
         /\ Queued(c)' => Queued(c)
         /\ Single(c) => Single(c)'
         /\ m = c => Queued(c) /\ (Single(c) => ~Queued(c)')
<1> USE DEF Take
<1>1. /\ queue' \in Seq(Commands \cup {"port"})
      /\ Len(queue') = Len(queue) - 1 /\ Len(queue) \in Nat \ {0}
      /\ \A i \in 1..Len(queue) - 1 : queue'[i] = queue[i + 1]
      /\ queue[1] = m
  BY TailFacts
<1>2. Queued(c)' => Queued(c)
  <2> SUFFICES ASSUME NEW i \in 1..Len(queue'), queue'[i] = c
               PROVE  Queued(c)
    BY DEF Queued
  <2>1. i + 1 \in 1..Len(queue) /\ queue[i + 1] = c BY <1>1
  <2> QED BY <2>1 DEF Queued
<1>3. Single(c) => Single(c)' BY <1>1 DEF Single
<1>4. m = c => Queued(c) BY <1>1 DEF Queued
<1>5. m = c /\ Single(c) => ~Queued(c)'
  <2> SUFFICES ASSUME m = c, Single(c), NEW i \in 1..Len(queue'),
                      queue'[i] = c
               PROVE  FALSE
    BY DEF Queued
  <2>1. i + 1 \in 1..Len(queue) /\ queue[i + 1] = c BY <1>1
  <2> QED BY <1>1, <2>1 DEF Single
<1> QED BY <1>1, <1>2, <1>3, <1>4, <1>5

LEMMA Added ==
  ASSUME queue \in Seq(Commands \cup {"port"}),
         NEW m \in Commands \cup {"port"}, queue' = Append(queue, m),
         NEW c \in Changes
  PROVE  /\ queue' \in Seq(Commands \cup {"port"})
         /\ m # c => (Queued(c)' => Queued(c))
         /\ m # c \/ ~Queued(c) => (Single(c) => Single(c)')
<1>1. /\ queue' \in Seq(Commands \cup {"port"})
      /\ Len(queue') = Len(queue) + 1 /\ Len(queue) \in Nat
      /\ \A i \in 1..Len(queue) : queue'[i] = queue[i]
      /\ queue'[Len(queue) + 1] = m
  BY AppendFacts
<1>2. m # c => (Queued(c)' => Queued(c)) BY <1>1 DEF Queued
<1>3. m # c \/ ~Queued(c) => (Single(c) => Single(c)')
  BY <1>1 DEF Queued, Single
<1> QED BY <1>1, <1>2, <1>3

LEMMA Kept ==
  ASSUME NEW c \in Changes, UNCHANGED queue
  PROVE  (Queued(c)' <=> Queued(c)) /\ (Single(c)' <=> Single(c))
BY DEF Queued, Single

LEMMA Emptied ==
  ASSUME NEW c \in Changes, queue' = <<>>
  PROVE  ~Queued(c)' /\ Single(c)' /\ queue' \in Seq(Commands \cup {"port"})
BY DEF Queued, Single

LEMMA AnswerInit == ASSUME Init PROVE AnswerInv
BY DEF Init, AnswerInv, TaskInv, OneOf, Queued, Single, Busy, Answers,
   Changes

LEMMA AnswerStep ==
  ASSUME AnswerInv, [Next]_vars, NEW c \in Changes
  PROVE  TaskInv' /\ (~late' => OneOf(c)')
<1>c. c \in {"suspend", "resume"} BY DEF Changes
<1>q. TaskInv /\ (~late => OneOf(c)) BY DEF AnswerInv
<1> USE <1>c, <1>q DEF TaskInv, OneOf, Busy, Waits, Answers
<1>1. CASE Start
  BY <1>1, Emptied, Kept DEF Start, device, pipes
<1>2. CASE Notify
  BY <1>2, Kept DEF Notify, device, task, pipes
<1>3. CASE Stopped
  BY <1>3, Emptied, Kept DEF Stopped, device, task, pipes
<1>4. CASE Allocate
  BY <1>4, Kept DEF Allocate, device, pipes, caller
<1>5. CASE PortInit
  BY <1>5, Kept DEF PortInit, device, pipes, caller
<1>6. CASE PowerOn
  <2>1. queue' = Append(queue, "port") \/ UNCHANGED queue
    BY <1>6 DEF
        PowerOn, Signal
  <2> QED BY <1>6, <2>1, Added, Kept DEF PowerOn, pipes, caller
<1>7. CASE TakeOther
  <2>1. Take("port") BY <1>7 DEF TakeOther, Take
  <2> QED BY <1>7, <2>1, Taken DEF TakeOther, Pending, Handle, task, pipes,
         caller
<1>8. CASE TakeConnection
  <2>1. Take("port") BY <1>8 DEF TakeConnection, Connection, Take
  <2> QED BY <1>8, <2>1, Taken DEF TakeConnection, Connection, SetUp,
         Pending, caller
<1>9. CASE TakeDisconnection
  <2>1. Take("port") BY <1>9 DEF TakeDisconnection, Take
  <2> QED BY <1>9, <2>1, Taken DEF TakeDisconnection, Pending, Handle, pipes,
         caller
<1>10. CASE TakeSuspend
  <2>1. Take("suspend") BY <1>10 DEF TakeSuspend, Take
  <2> QED BY <1>10, <2>1, Taken DEF TakeSuspend, device, pipes, caller
<1>11. CASE Halted
  BY <1>11, Kept DEF Halted, GiveUp, Failed, device, caller
<1>12. CASE TakeResume
  <2>1. Take("resume") BY <1>12 DEF TakeResume, Take
  <2> QED BY <1>12, <2>1, Taken DEF TakeResume, device, pipes, caller
<1>13. CASE TakeStop
  <2>1. Take("stop") BY <1>13 DEF TakeStop, Take
  <2> QED BY <1>13, <2>1, Taken DEF TakeStop, device, pipes, caller
<1>14. CASE Enqueue
  BY <1>14, Kept DEF Enqueue, GiveUp, Failed, device, pipes, caller
<1>15. CASE Swallow
  <2>1. Take(Head(queue)) BY <1>15 DEF Swallow, Take
  <2> QED BY <1>15, <2>1, Taken DEF Swallow, Handle, Pending, Disconnect,
         device, pipes, task, caller
<1>16. CASE Transfer
  BY <1>16, Kept DEF Transfer, GiveUp, Failed, device, pipes, caller
<1>17. CASE Open
  BY <1>17, Kept DEF Open, GiveUp, Failed, device, caller
<1>18. CASE EnqueueStream
  BY <1>18, Kept DEF EnqueueStream, Failed, device, pipes, caller
<1>19. CASE StopStream
  BY <1>19, Kept DEF StopStream, device, pipes, caller
<1>20. CASE Reset
  BY <1>20, Kept DEF Reset, Handle, Pending, pipes, caller
<1>21. CASE ClosePipe
  BY <1>21, Kept DEF ClosePipe, device, pipes, caller
<1>22. CASE Recover
  BY <1>22, Kept DEF Recover, pipes, caller
<1>23. CASE Drop
  <2>1. Take(Head(queue)) BY <1>23 DEF Drop, Take
  <2> QED BY <1>23, <2>1, Taken DEF Drop, device, pipes, caller
<1>24. CASE GoOn
  BY <1>24, Kept DEF GoOn, device, pipes, caller
<1>25. CASE PortDeinit
  BY <1>25, Kept DEF PortDeinit, pipes, caller
<1>26. CASE EndProc
  BY <1>26, Kept DEF EndProc, device, pipes, caller
<1>27. CASE Plug
  <2>1. queue' = Append(queue, "port") \/ UNCHANGED queue
    BY <1>27 DEF
        Plug, Signal
  <2> QED BY <1>27, <2>1, Added, Kept DEF Plug, task, pipes, caller
<1>28. CASE Unplug
  <2>1. queue' = Append(queue, "port") \/ UNCHANGED queue
    BY <1>28 DEF
        Unplug, Lost, Signal
  <2> QED BY <1>28, <2>1, Added, Kept DEF Unplug, task, pipes, caller
<1>29. CASE PortError
  <2>1. queue' = Append(queue, "port") \/ UNCHANGED queue
    BY <1>29 DEF
        PortError, Lost, Signal
  <2> QED BY <1>29, <2>1, Added, Kept DEF PortError, task, pipes, caller
<1>30. CASE \E d \in Commands : Call(d)
  BY <1>30, Kept DEF Call, device, task, pipes, Commands
<1>31. CASE \E d \in Commands : Send(d)
  BY <1>31, Added DEF Send, device, task, pipes, Commands
<1>32. CASE \E d \in Commands : Answered(d)
  BY <1>32, Kept DEF Answered, device, task, pipes, Commands
<1>33. CASE \E d \in Commands : TimedOut(d)
  BY <1>33, Kept DEF TimedOut, device, task, pipes, Commands
<1>34. CASE UNCHANGED vars
  BY <1>34, Kept DEF vars, caller, task, pipes, device
<1>35. CASE Configure
  BY <1>35, Kept DEF Configure, device, task, pipes
<1>36. CASE StartFails
  BY <1>36, Kept DEF StartFails, device, task, pipes
<1>37. CASE ResetFails
  <2>1. Take("port") BY <1>37 DEF ResetFails, Connection, Take
  <2> QED BY <1>37, <2>1, Taken DEF ResetFails, Connection, Pending, pipes,
         caller
<1>38. CASE PipeFails
  <2>1. Take("port") BY <1>38 DEF PipeFails, Connection, Take
  <2> QED BY <1>38, <2>1, Taken DEF PipeFails, Connection, Pending, caller
<1>39. CASE AllocFails
  BY <1>39, Kept DEF AllocFails, GiveUp, Failed, device, pipes, caller
<1>40. CASE TransferFails
  BY <1>40, Kept DEF TransferFails, GiveUp, Failed, device, pipes, caller
<1>41. CASE CloseDefault
  BY <1>41, Kept DEF CloseDefault, device, pipes, caller
<1>42. CASE CloseStream
  BY <1>42, Kept DEF CloseStream, device, pipes, caller
<1> QED
  BY <1>1, <1>2, <1>3, <1>4, <1>5, <1>6, <1>7, <1>8, <1>9, <1>10, <1>11,
     <1>12, <1>13, <1>14, <1>15, <1>16, <1>17, <1>18, <1>19, <1>20, <1>21,
     <1>22, <1>23, <1>24, <1>25, <1>26, <1>27, <1>28, <1>29, <1>30, <1>31,
     <1>32, <1>33, <1>34, <1>35, <1>36, <1>37, <1>38, <1>39, <1>40, <1>41,
     <1>42
     DEF Next, Caller, Processing, Camera

LEMMA AnswerStays == ASSUME AnswerInv, [Next]_vars PROVE AnswerInv'
<1>1. TaskInv' /\ \A c \in Changes : ~late' => OneOf(c)'
  BY AnswerStep DEF Changes
<1> QED BY <1>1 DEF AnswerInv, Changes

LEMMA AnswerHolds == ASSUME AnswerInv PROVE AnswerAwaited
BY DEF AnswerInv, OneOf, Changes, AnswerAwaited, Waits

-----------------------------------------------------------------------------
(* Types.  A control transfer that is to be made is one of those left.     *)
DataInv ==
  /\ api \in {"new", "idle", "starting", "up", "failed", "send", "wait"}
  /\ call \in Commands /\ calls \in 0..MaxCalls
  /\ bits \subseteq Bits /\ queue \in Seq(Commands \cup {"port"})
  /\ Len(queue) <= QueueSize
  /\ proc \in {"none", "created", "init", "power", "loop", "enqueue",
               "transfer", "open", "delay", "halt", "stop", "reset", "pipes",
               "recover", "user", "deinit", "free", "ended"}
  /\ goal \in {"setUp", "suspend", "resume"}
  /\ left \in 0..SetUpTransfers + ResumeTransfers
  /\ proc \in {"halt", "enqueue", "transfer"} => left > 0
  /\ port \in {"off", "powered", "disabled", "enabled", "recovery"}
  /\ event \in {"none", "connection", "disconnection", "error"}
  /\ plugs \in 0..MaxPlugs

Flags ==
  /\ late \in BOOLEAN /\ group \in BOOLEAN /\ keepRunning \in BOOLEAN
  /\ dflt \in BOOLEAN /\ pipe \in BOOLEAN /\ stream \in BOOLEAN
  /\ attached \in BOOLEAN /\ alive \in BOOLEAN

TypeInv == DataInv /\ Flags

LEMMA Positive ==
  ASSUME UvcStreamAssumption
  PROVE  /\ SetUpTransfers \in Nat \ {0} /\ ResumeTransfers \in Nat \ {0}
         /\ QueueSize \in Nat \ {0} /\ MaxPlugs \in Nat /\ MaxCalls \in Nat
BY DEF UvcStreamAssumption

LEMMA NoneType == ASSUME UvcStreamAssumption
                  PROVE  /\ <<>> \in Seq(Commands \cup {"port"})
                         /\ Len(<<>>) <= QueueSize
BY Positive DEF Commands

LEMMA TypeInit == ASSUME UvcStreamAssumption, Init PROVE TypeInv
<1>1. Flags BY DEF Init, Flags
<1>2. DataInv BY Positive, NoneType DEF Init, DataInv, Commands, Bits
<1> QED BY <1>1, <1>2 DEF TypeInv

LEMMA TakenType ==
  ASSUME UvcStreamAssumption, DataInv, NEW m, Take(m)
  PROVE  queue' \in Seq(Commands \cup {"port"}) /\ Len(queue') <= QueueSize
BY TailFacts, Positive DEF DataInv, Take

LEMMA AddedType ==
  ASSUME UvcStreamAssumption, DataInv, NEW m \in Commands \cup {"port"},
         Len(queue) < QueueSize, queue' = Append(queue, m)
  PROVE  queue' \in Seq(Commands \cup {"port"}) /\ Len(queue') <= QueueSize
BY AppendFacts, Positive DEF DataInv

LEMMA SignalType ==
  ASSUME UvcStreamAssumption, DataInv,
         NEW e \in {"connection", "disconnection", "error"}, Signal(e)
  PROVE  /\ queue' \in Seq(Commands \cup {"port"}) /\ Len(queue') <= QueueSize
         /\ event' = e
<1>1. CASE Len(queue) < QueueSize
  <2>1. queue' = Append(queue, "port") BY <1>1 DEF Signal
  <2> QED BY <1>1, <2>1, AddedType DEF Signal
<1>2. CASE ~(Len(queue) < QueueSize)
  BY <1>2 DEF Signal, DataInv
<1> QED BY <1>1, <1>2

LEMMA DataStep ==
  ASSUME UvcStreamAssumption, DataInv, [Next]_vars
  PROVE  DataInv'
<1> USE Positive DEF DataInv, Commands, Bits
<1>1. CASE Start
  BY <1>1, NoneType DEF Start, device, pipes
<1>2. CASE Notify
  BY <1>2 DEF Notify, device, task, pipes
<1>3. CASE Stopped
  BY <1>3, NoneType DEF Stopped, Waits, device, task, pipes
<1>4. CASE Allocate
  BY <1>4 DEF Allocate, device, pipes, caller
<1>5. CASE PortInit
  <2>1. bits' \subseteq Bits /\ proc' \in {"power", "free"}
    BY <1>5 DEF PortInit
  <2> QED BY <1>5, <2>1 DEF PortInit, device, pipes, caller
<1>6. CASE PowerOn
  BY <1>6, SignalType DEF PowerOn, pipes, caller
<1>7. CASE TakeOther
  <2>1. Take("port") BY <1>7 DEF TakeOther, Take
  <2> QED BY <1>7, <2>1, TakenType DEF TakeOther, Pending, Handle, task,
     pipes, caller
<1>8. CASE TakeConnection
  <2>1. Take("port") BY <1>8 DEF TakeConnection, Connection, Take
  <2> QED BY <1>8, <2>1, TakenType DEF TakeConnection, Connection, SetUp,
         Pending, caller
<1>9. CASE TakeDisconnection
  <2>1. Take("port") BY <1>9 DEF TakeDisconnection, Take
  <2> QED BY <1>9, <2>1, TakenType DEF TakeDisconnection, Pending,
     Handle, pipes, caller
<1>10. CASE TakeSuspend
  <2>1. Take("suspend") BY <1>10 DEF TakeSuspend, Take
  <2> QED BY <1>10, <2>1, TakenType DEF TakeSuspend, device, pipes,
     caller
<1>11. CASE Halted
  BY <1>11 DEF Halted, GiveUp, Failed, device, caller
<1>12. CASE TakeResume
  <2>1. Take("resume") BY <1>12 DEF TakeResume, Take
  <2> QED BY <1>12, <2>1, TakenType DEF TakeResume, device, pipes, caller
<1>13. CASE TakeStop
  <2>1. Take("stop") BY <1>13 DEF TakeStop, Take
  <2> QED BY <1>13, <2>1, TakenType DEF TakeStop, device, pipes, caller
<1>14. CASE Enqueue
  BY <1>14 DEF Enqueue, GiveUp, Failed, device, pipes,
     caller
<1>15. CASE Swallow
  <2>1. Take(Head(queue)) BY <1>15 DEF Swallow, Take
  <2>2. bits' \subseteq Bits /\ event' \in {event, "none"}
        /\ port' \in {port, "disabled"} /\ UNCHANGED <<task, caller, plugs>>
    BY <1>15 DEF Swallow, Handle, Disconnect, device
  <2> QED BY <2>1, <2>2, TakenType DEF task, caller
<1>16. CASE Transfer
  <2>1. left' = left - 1 /\ left > 0 BY <1>16 DEF Transfer
  <2>2. bits' \subseteq Bits /\ proc' \in {"enqueue", "open", "loop"}
        /\ (proc' = "enqueue" => left > 1)
    BY <1>16 DEF Transfer
  <2>3. UNCHANGED <<caller, queue, goal, device>> BY <1>16 DEF Transfer
  <2> QED BY <2>1, <2>2, <2>3 DEF device, caller
<1>17. CASE Open
  BY <1>17 DEF Open, GiveUp, Failed, device, caller
<1>18. CASE EnqueueStream
  BY <1>18 DEF EnqueueStream, Failed, device,
     pipes, caller
<1>19. CASE StopStream
  BY <1>19 DEF StopStream, device, pipes, caller
<1>20. CASE Reset
  BY <1>20 DEF Reset, Handle, Pending, pipes, caller
<1>21. CASE ClosePipe
  BY <1>21 DEF ClosePipe, device, pipes, caller
<1>22. CASE Recover
  BY <1>22 DEF Recover, pipes, caller
<1>23. CASE Drop
  <2>1. Take(Head(queue)) BY <1>23 DEF Drop, Take
  <2> QED BY <1>23, <2>1, TakenType DEF Drop, device, pipes, caller
<1>24. CASE GoOn
  BY <1>24 DEF GoOn, device, pipes, caller
<1>25. CASE PortDeinit
  <2>1. bits' \subseteq Bits /\ proc' \in {"deinit", "free"}
        /\ port' \in {port, "off"} /\ event' \in {event, "none"}
    BY <1>25 DEF PortDeinit
  <2> QED BY <1>25, <2>1 DEF PortDeinit, pipes, caller
<1>26. CASE EndProc
  BY <1>26 DEF EndProc, device, pipes, caller
<1>27. CASE Plug
  BY <1>27, SignalType DEF Plug, task, pipes, caller
<1>28. CASE Unplug
  BY <1>28, SignalType DEF Unplug, Lost, task, pipes, caller
<1>29. CASE PortError
  BY <1>29, SignalType DEF PortError, Lost, task, pipes,
     caller
<1>30. CASE \E c \in Commands : Call(c)
  BY <1>30 DEF Call, device, task, pipes
<1>31. CASE \E c \in Commands : Send(c)
  BY <1>31, AddedType DEF Send, device, task,
     pipes
<1>32. CASE \E c \in Commands : Answered(c)
  BY <1>32 DEF Answered, Waits,
     Answers, device, task, pipes
<1>33. CASE \E c \in Commands : TimedOut(c)
  BY <1>33 DEF TimedOut, Waits,
     Answers, device, task, pipes
<1>34. CASE UNCHANGED vars BY <1>34 DEF vars, caller, task, pipes, device
<1>35. CASE Configure
  BY <1>35 DEF Configure, device, task, pipes
<1>36. CASE StartFails
  BY <1>36 DEF StartFails, device, task, pipes
<1>37. CASE ResetFails
  <2>1. Take("port") BY <1>37 DEF ResetFails, Connection, Take
  <2> QED BY <1>37, <2>1, TakenType DEF ResetFails, Connection, Pending,
         pipes, caller
<1>38. CASE PipeFails
  <2>1. Take("port") BY <1>38 DEF PipeFails, Connection, Take
  <2> QED BY <1>38, <2>1, TakenType DEF PipeFails, Connection, Pending, caller
<1>39. CASE AllocFails
  BY <1>39 DEF AllocFails, GiveUp, Failed, device, pipes, caller
<1>40. CASE TransferFails
  BY <1>40 DEF TransferFails, GiveUp, Failed, device, pipes, caller
<1>41. CASE CloseDefault
  BY <1>41 DEF CloseDefault, device, pipes, caller
<1>42. CASE CloseStream
  BY <1>42 DEF CloseStream, device, pipes, caller
<1> QED
  BY <1>1, <1>2, <1>3, <1>4, <1>5, <1>6, <1>7, <1>8, <1>9, <1>10, <1>11,
     <1>12, <1>13, <1>14, <1>15, <1>16, <1>17, <1>18, <1>19, <1>20, <1>21,
     <1>22, <1>23, <1>24, <1>25, <1>26, <1>27, <1>28, <1>29, <1>30, <1>31,
     <1>32, <1>33, <1>34, <1>35, <1>36, <1>37, <1>38, <1>39, <1>40, <1>41,
     <1>42
     DEF Next, Caller, Processing, Camera

LEMMA FlagStep == ASSUME Flags, [Next]_vars PROVE Flags'
<1> USE DEF Flags
<1>1. CASE Start
  BY <1>1 DEF Start, device, pipes
<1>2. CASE Notify
  BY <1>2 DEF Notify, device, task, pipes
<1>3. CASE Stopped
  BY <1>3 DEF Stopped, Waits, device, task, pipes
<1>4. CASE Allocate
  BY <1>4 DEF Allocate, device, pipes, caller
<1>5. CASE PortInit
  BY <1>5 DEF PortInit, device, pipes, caller
<1>6. CASE PowerOn
  BY <1>6 DEF PowerOn, Signal, pipes, caller
<1>7. CASE TakeOther
  BY <1>7 DEF TakeOther, Pending, Handle, Take, task,
     pipes, caller
<1>8. CASE TakeConnection
  BY <1>8 DEF TakeConnection, Connection, SetUp, Pending, Take,
     caller
<1>9. CASE TakeDisconnection
  BY <1>9 DEF TakeDisconnection, Pending,
     Handle, Take, pipes, caller
<1>10. CASE TakeSuspend
  BY <1>10 DEF TakeSuspend, Take, device, pipes,
     caller
<1>11. CASE Halted
  BY <1>11 DEF Halted, GiveUp, Failed, device, caller
<1>12. CASE TakeResume
  BY <1>12 DEF TakeResume, Take, device, pipes, caller
<1>13. CASE TakeStop
  BY <1>13 DEF TakeStop, Take, device, pipes, caller
<1>14. CASE Enqueue
  BY <1>14 DEF Enqueue, GiveUp, Failed, device, pipes,
     caller
<1>15. CASE Swallow
  BY <1>15 DEF Swallow, Handle, Pending, Disconnect,
     device, pipes, task, caller
<1>16. CASE Transfer
  BY <1>16 DEF Transfer, GiveUp, Failed, device, pipes,
     caller
<1>17. CASE Open
  BY <1>17 DEF Open, GiveUp, Failed, device, caller
<1>18. CASE EnqueueStream
  BY <1>18 DEF EnqueueStream, Failed, device,
     pipes, caller
<1>19. CASE StopStream
  BY <1>19 DEF StopStream, device, pipes, caller
<1>20. CASE Reset
  BY <1>20 DEF Reset, Handle, Pending, pipes, caller
<1>21. CASE ClosePipe
  BY <1>21 DEF ClosePipe, device, pipes, caller
<1>22. CASE Recover
  BY <1>22 DEF Recover, pipes, caller
<1>23. CASE Drop
  BY <1>23 DEF Drop, device, pipes, caller
<1>24. CASE GoOn
  BY <1>24 DEF GoOn, device, pipes, caller
<1>25. CASE PortDeinit
  BY <1>25 DEF PortDeinit, WaitRefused, pipes, caller
<1>26. CASE EndProc
  BY <1>26 DEF EndProc, device, pipes, caller
<1>27. CASE Plug
  BY <1>27 DEF Plug, Signal, task, pipes, caller
<1>28. CASE Unplug
  BY <1>28 DEF Unplug, Lost, Signal, task, pipes, caller
<1>29. CASE PortError
  BY <1>29 DEF PortError, Lost, Signal, task, pipes,
     caller
<1>30. CASE \E c \in Commands : Call(c)
  BY <1>30 DEF Call, device, task, pipes
<1>31. CASE \E c \in Commands : Send(c)
  BY <1>31 DEF Send, device, task,
     pipes
<1>32. CASE \E c \in Commands : Answered(c)
  BY <1>32 DEF Answered, Waits,
     Answers, device, task, pipes
<1>33. CASE \E c \in Commands : TimedOut(c)
  BY <1>33 DEF TimedOut, Waits,
     Answers, device, task, pipes
<1>34. CASE UNCHANGED vars BY <1>34 DEF vars, caller, task, pipes, device
<1>35. CASE Configure
  BY <1>35 DEF Configure, device, task, pipes
<1>36. CASE StartFails
  BY <1>36 DEF StartFails, device, task, pipes
<1>37. CASE ResetFails
  BY <1>37 DEF ResetFails, Connection, Pending, Take, pipes, caller
<1>38. CASE PipeFails
  BY <1>38 DEF PipeFails, Connection, Pending, Take, caller
<1>39. CASE AllocFails
  BY <1>39 DEF AllocFails, GiveUp, Failed, device, pipes, caller
<1>40. CASE TransferFails
  BY <1>40 DEF TransferFails, GiveUp, Failed, device, pipes, caller
<1>41. CASE CloseDefault
  BY <1>41 DEF CloseDefault, device, pipes, caller
<1>42. CASE CloseStream
  BY <1>42 DEF CloseStream, device, pipes, caller
<1> QED
  BY <1>1, <1>2, <1>3, <1>4, <1>5, <1>6, <1>7, <1>8, <1>9, <1>10, <1>11,
     <1>12, <1>13, <1>14, <1>15, <1>16, <1>17, <1>18, <1>19, <1>20, <1>21,
     <1>22, <1>23, <1>24, <1>25, <1>26, <1>27, <1>28, <1>29, <1>30, <1>31,
     <1>32, <1>33, <1>34, <1>35, <1>36, <1>37, <1>38, <1>39, <1>40, <1>41,
     <1>42
     DEF Next, Caller, Processing, Camera

LEMMA TypeStep ==
  ASSUME UvcStreamAssumption, TypeInv, [Next]_vars PROVE TypeInv'
BY DataStep, FlagStep DEF TypeInv

LEMMA TypeHolds == ASSUME TypeInv PROVE TypeOK
BY DEF TypeInv, DataInv, Flags, TypeOK

-----------------------------------------------------------------------------
(* "USB resource will be completely released": when uvc_streaming_stop     *)
(* deletes the event group and the queue, the processing task is at its    *)
(* end, pipes and stream are gone and the port is off.                     *)
THEOREM StopReleasesAllCorrect == Spec => []StopReleasesAll
<1>1. Init => ReleaseInv BY ReleaseInit
<1>2. ReleaseInv /\ [Next]_vars => ReleaseInv' BY ReleaseStep
<1>3. ReleaseInv => StopReleasesAll BY ReleaseHolds
<1> QED BY <1>1, <1>2, <1>3, PTL DEF Spec

(* As long as no suspend or resume timed out, the bit of an answer is set  *)
(* only while the call waits that asked for it.                            *)
THEOREM AnswerAwaitedCorrect == Spec => []AnswerAwaited
<1>1. Init => AnswerInv BY AnswerInit
<1>2. AnswerInv /\ [Next]_vars => AnswerInv' BY AnswerStays
<1>3. AnswerInv => AnswerAwaited BY AnswerHolds
<1> QED BY <1>1, <1>2, <1>3, PTL DEF Spec

(* The driver keeps its types: its queue is never longer than it is, and   *)
(* no more control transfers are made than a set-up or a resume has.       *)
THEOREM TypeCorrect == ASSUME UvcStreamAssumption PROVE Spec => []TypeOK
<1>1. Init => TypeInv BY TypeInit
<1>2. TypeInv /\ [Next]_vars => TypeInv' BY TypeStep
<1>3. TypeInv => TypeOK BY TypeHolds
<1> QED BY <1>1, <1>2, <1>3, PTL DEF Spec
=============================================================================
