--------------------------- MODULE ServicesProofs ---------------------------
(***************************************************************************)
(* What is proved of the parts on the gateway's side, as theorems of the   *)
(* whole: first of those that have proofs of their own, the USB driver and *)
(* the camera driver, then of the others, each with its invariant.  An     *)
(* invariant speaks of one part only, so that a step of another part       *)
(* leaves it alone.                                                        *)
(***************************************************************************)
EXTENDS Services, FiniteSetTheorems, TLAPS

(* The driver's part, with what is proved of it.  Both instances of the    *)
(* part say the same; the provers see it when the names are expanded.      *)
UP == INSTANCE UsbLifeProofs

LEMMA SameNext == ASSUME UsbLife!Next PROVE UP!Next
BY DEF
     UsbLife!Install, UP!Install, UsbLife!Connected, UP!Connected,
     UsbLife!ConnectTimeout, UP!ConnectTimeout, UsbLife!Deleted,
     UP!Deleted, UsbLife!PortInit, UP!PortInit, UsbLife!Signal,
     UP!Signal, UsbLife!PowerOn, UP!PowerOn, UsbLife!Pending,
     UP!Pending, UsbLife!Handle, UP!Handle, UsbLife!ListenNothing,
     UP!ListenNothing, UsbLife!ListenConnection, UP!ListenConnection,
     UsbLife!ListenLoss, UP!ListenLoss, UsbLife!ForceReset,
     UP!ForceReset, UsbLife!Enqueue, UP!Enqueue, UsbLife!Swallow,
     UP!Swallow, UsbLife!Transfer, UP!Transfer, UsbLife!CreateDataTask,
     UP!CreateDataTask, UsbLife!KillSeen, UP!KillSeen, UsbLife!KillData,
     UP!KillData, UsbLife!AwaitData, UP!AwaitData, UsbLife!Recover,
     UP!Recover, UsbLife!GoOn, UP!GoOn, UsbLife!EndProc, UP!EndProc,
     UsbLife!SetUp, UP!SetUp, UsbLife!OutDone, UP!OutDone,
     UsbLife!SendNext, UP!SendNext, UsbLife!DataKilled, UP!DataKilled,
     UsbLife!EndData, UP!EndData, UsbLife!Plug, UP!Plug, UsbLife!Lost,
     UP!Lost, UsbLife!Unplug, UP!Unplug, UsbLife!PortError,
     UP!PortError, UsbLife!Owner, UP!Owner, UsbLife!Processing,
     UP!Processing, UsbLife!DataTask, UP!DataTask, UsbLife!Device,
     UP!Device, UsbLife!tasks, UP!tasks, UsbLife!portSide, UP!portSide,
     UsbLife!Connection, UP!Connection,
     UsbLife!ResetFails, UP!ResetFails,
     UsbLife!PipeFails, UP!PipeFails,
     UsbLife!AllocFails, UP!AllocFails,
     UsbLife!TransferFails, UP!TransferFails,
     UsbLife!ClosePipe, UP!ClosePipe,
     UsbLife!Drained, UP!Drained,
     UsbLife!PortDeinit, UP!PortDeinit,
     UsbLife!Next, UP!Next

LEMMA Assumed == UP!UsbLifeAssumption
BY ServicesAssumption DEF UsbLife!UsbLifeAssumption, UP!UsbLifeAssumption

LEMMA UsbLifeInit == ASSUME Init PROVE UP!IInv
<1>1. UP!Init BY DEF Init, UsbLife!Init, UP!Init
<1> QED BY <1>1, Assumed, UP!InitIInv

LEMMA Frame == ASSUME UNCHANGED usbLife PROVE UNCHANGED UP!vars
BY DEF usbLife, UP!vars, UP!tasks, UP!portSide

LEMMA UsbLifeMoves == ASSUME [Next]_vars PROVE [UP!Next]_UP!vars
<1>1. CASE UsbLifeStep BY <1>1, SameNext DEF UsbLifeStep
<1>2. CASE UNCHANGED usbLife BY <1>2, Frame
<1> QED
  BY <1>1, <1>2 DEF Next, LedStep, UpdateStep, HistoryStep, LogStep,
     StartUpStep, GatewayStep, FramesStep, CameraStep, UsbDevStep, DfuStep,
     NetStep, AcmStep, Rest, DeviceRest, gatewaySide, vars

LEMMA UsbLifeStays == ASSUME UP!IInv, [Next]_vars PROVE UP!IInv'
BY UsbLifeMoves, Assumed, UP!StepIInv

(* The data task never finds an URB of an earlier connection in its list   *)
(* of idle ones, whichever parts there are and whatever their bounds.      *)
THEOREM IdleUrbsOwnedCorrect == Spec => []IdleUrbsOwned
<1>1. Init => UP!IInv BY UsbLifeInit
<1>2. UP!IInv /\ [Next]_vars => UP!IInv' BY UsbLifeStays
<1>3. UP!IInv => IdleUrbsOwned
  BY UP!UrbsOwned DEF IdleUrbsOwned, UsbLife!IdleUrbsOwned,
     UP!IdleUrbsOwned
<1> QED BY <1>1, <1>2, <1>3, PTL DEF Spec

LEMMA SameResource ==
  /\ UP!R!Init <=> UsbLife!R!Init
  /\ [UP!R!Next]_UP!R!vars <=> [UsbLife!R!Next]_UsbLife!R!vars
BY DEF
     UsbLife!R!Init, UP!R!Init, UsbLife!R!Acquire, UP!R!Acquire,
     UsbLife!R!Join, UP!R!Join, UsbLife!R!Leave, UP!R!Leave,
     UsbLife!R!Free, UP!R!Free, UsbLife!R!Next, UP!R!Next,
     UsbLife!R!vars, UP!R!vars, UsbLife!State, UP!State, UsbLife!Users,
     UP!Users

(* Every step of the gateway is one of the driver's resource, or none: the *)
(* event group, the rings and the DTE are freed by usbh_cdc_driver_delete  *)
(* only when no task of the driver is left to use them.                    *)
THEOREM FreedUnusedCorrect == Spec => FreedUnused
<1>1. Init => UsbLife!R!Init
  <2>1. Init => UP!Init BY DEF Init, UsbLife!Init, UP!Init
  <2> QED BY <2>1, UP!ResourceInit, SameResource
<1>2. Init => UP!IInv BY UsbLifeInit
<1>3. UP!IInv /\ [Next]_vars => UP!IInv' BY UsbLifeStays
<1>4. UP!IInv /\ [Next]_vars => [UsbLife!R!Next]_UsbLife!R!vars
  BY UsbLifeMoves, UP!ResourceStep, SameResource
<1> QED
  BY <1>1, <1>2, <1>3, <1>4, PTL DEF Spec, FreedUnused,
     UsbLife!FreedUnused, UsbLife!R!Spec

-----------------------------------------------------------------------------
(* The camera's part, in the same way.                                     *)
CP == INSTANCE UvcStreamProofs WITH
        QueueSize <- UvcQueueSize, MaxPlugs <- MaxCameras,
        group <- uvcGroup, bits <- uvcBits, queue <- uvcQueue,
        proc <- usbProc, left <- todo, pipe <- streamPipe,
        attached <- camera, port <- uvcPort, event <- uvcEvent,
        plugs <- cameras, alive <- uvcAlive

LEMMA SameCameraNext == ASSUME Camera!Next PROVE CP!Next
BY DEF
     Camera!device, CP!device, Camera!pipes, CP!pipes, Camera!task, CP!task,
     Camera!caller, CP!caller, Camera!Commands, CP!Commands, Camera!Waits,
     CP!Waits, Camera!Answers, CP!Answers, Camera!Start, CP!Start,
     Camera!Notify, CP!Notify, Camera!Call, CP!Call, Camera!Send, CP!Send,
     Camera!Answered, CP!Answered, Camera!TimedOut, CP!TimedOut,
     Camera!Stopped, CP!Stopped, Camera!Allocate, CP!Allocate,
     Camera!PortInit, CP!PortInit, Camera!Signal, CP!Signal, Camera!PowerOn,
     CP!PowerOn, Camera!Pending, CP!Pending, Camera!Handle, CP!Handle,
     Camera!Disconnect, CP!Disconnect, Camera!Take, CP!Take,
     Camera!TakeOther, CP!TakeOther, Camera!TakeConnection,
     CP!TakeConnection, Camera!TakeDisconnection, CP!TakeDisconnection,
     Camera!TakeSuspend, CP!TakeSuspend, Camera!Failed, CP!Failed,
     Camera!GiveUp, CP!GiveUp, Camera!Halted, CP!Halted, Camera!TakeResume,
     CP!TakeResume, Camera!TakeStop, CP!TakeStop, Camera!Enqueue, CP!Enqueue,
     Camera!Swallow, CP!Swallow, Camera!Transfer, CP!Transfer, Camera!Open,
     CP!Open, Camera!EnqueueStream, CP!EnqueueStream, Camera!StopStream,
     CP!StopStream, Camera!Reset, CP!Reset, Camera!ClosePipe, CP!ClosePipe,
     Camera!Recover, CP!Recover, Camera!Drop, CP!Drop, Camera!GoOn, CP!GoOn,
     Camera!PortDeinit, CP!PortDeinit, Camera!EndProc, CP!EndProc,
     Camera!Plug, CP!Plug, Camera!Lost, CP!Lost, Camera!Unplug, CP!Unplug,
     Camera!PortError, CP!PortError, Camera!Caller, CP!Caller,
     Camera!Configure, CP!Configure,
     Camera!StartFails, CP!StartFails,
     Camera!Connection, CP!Connection,
     Camera!SetUp, CP!SetUp,
     Camera!ResetFails, CP!ResetFails,
     Camera!PipeFails, CP!PipeFails,
     Camera!AllocFails, CP!AllocFails,
     Camera!TransferFails, CP!TransferFails,
     Camera!CloseDefault, CP!CloseDefault,
     Camera!CloseStream, CP!CloseStream,
     Camera!MaySuspend, CP!MaySuspend,
     Camera!MayResume, CP!MayResume,
     Camera!MayStop, CP!MayStop,
     Camera!WaitRefused, CP!WaitRefused,
     Camera!Processing, CP!Processing, Camera!Camera, CP!Camera, Camera!Next,
     CP!Next

LEMMA CameraInit == ASSUME Init PROVE CP!ReleaseInv /\ CP!AnswerInv
<1>1. CP!Init BY DEF Init, Camera!Init, CP!Init
<1> QED BY <1>1, CP!ReleaseInit, CP!AnswerInit

LEMMA CameraFrame == ASSUME UNCHANGED uvc PROVE UNCHANGED CP!vars
BY DEF uvc, CP!vars, CP!caller, CP!task, CP!pipes, CP!device

LEMMA CameraMoves == ASSUME [Next]_vars PROVE [CP!Next]_CP!vars
<1>1. CASE CameraStep BY <1>1, SameCameraNext DEF CameraStep
<1>2. CASE UNCHANGED uvc BY <1>2, CameraFrame
<1> QED
  BY <1>1, <1>2 DEF Next, LedStep, UpdateStep, HistoryStep, LogStep,
     StartUpStep, GatewayStep, UsbLifeStep, FramesStep, UsbDevStep, DfuStep,
     NetStep, AcmStep, Rest, DeviceRest, gatewaySide, vars

(* uvc_streaming_stop deletes the event group and the queue only when the  *)
(* processing task is at its end, its pipes and stream are gone and the    *)
(* port, whose interrupt sends to the queue, is off.                       *)
THEOREM StopReleasesAllCorrect == Spec => []StopReleasesAll
<1>1. Init => CP!ReleaseInv BY CameraInit
<1>2. CP!ReleaseInv /\ [Next]_vars => CP!ReleaseInv'
  BY CameraMoves, CP!ReleaseStep
<1>3. CP!ReleaseInv => StopReleasesAll
  BY CP!ReleaseHolds DEF StopReleasesAll, Camera!StopReleasesAll,
     CP!StopReleasesAll
<1> QED BY <1>1, <1>2, <1>3, PTL DEF Spec

(* As long as no suspend or resume of the camera timed out, an answer's    *)
(* bit is set only while the call waits that asked for it.                 *)
THEOREM AnswerAwaitedCorrect == Spec => []AnswerAwaited
<1>1. Init => CP!AnswerInv BY CameraInit
<1>2. CP!AnswerInv /\ [Next]_vars => CP!AnswerInv'
  BY CameraMoves, CP!AnswerStays
<1>3. CP!AnswerInv => AnswerAwaited
  BY CP!AnswerHolds DEF AnswerAwaited, Camera!AnswerAwaited,
     CP!AnswerAwaited, Camera!Waits, CP!Waits, Camera!Answers, CP!Answers
<1> QED BY <1>1, <1>2, <1>3, PTL DEF Spec

-----------------------------------------------------------------------------
(* The start-up.  Two timeouts lead to the pulse, so that later cures come *)
(* after it.                                                               *)
SuGentle ==
  /\ timeouts \in Nat
  /\ timeouts >= 3 => "pulse" \in tried
  /\ timeouts = 2 => place \in {"pulse", "failed"} \/ "pulse" \in tried
  /\ StartUp!GentleFirst

(* A wrong PIN leaves the SIM locked, and the local that says ready unset, *)
(* until the start has failed.                                             *)
SuSim ==
  /\ sim \in [locked : BOOLEAN, known : BOOLEAN, left : Nat, fresh : Nat]
  /\ sim.left = sim.fresh \/ sim.left = sim.fresh - 1
  /\ sim.left # sim.fresh => sim.locked /\ ~sim.known
                             /\ place \in {"check", "failed"}
  /\ place = "enter" \/ (place = "check" /\ sim.left # sim.fresh)
       => ready = FALSE

-----------------------------------------------------------------------------
LEMMA SuBounds ==
  Timeouts \in Nat /\ Errors \in Nat /\ Attempts \in Nat
BY ServicesAssumption DEF StartUp!StartUpAssumption

(* The steps before the first AT leave the counters, the cures and the SIM *)
(* alone.                                                                  *)
LEMMA SuCreateLeaves ==
  ASSUME StartUp!Create
  PROVE  /\ UNCHANGED <<timeouts, tried, ready, sim>>
         /\ place \notin {"pulse", "failed", "enter", "check", "cycle"}
         /\ place' \notin {"enter", "check", "cycle"}
BY DEF StartUp!Create

LEMMA SuAttachLeaves ==
  ASSUME StartUp!Attach
  PROVE  /\ UNCHANGED <<timeouts, tried, ready, sim>>
         /\ place \notin {"pulse", "failed", "enter", "check", "cycle"}
         /\ place' \notin {"enter", "check", "cycle"}
BY DEF StartUp!Attach, StartUp!NewNetif, StartUp!SetHandlers,
     StartUp!PostAttach, StartUp!Tie, StartUp!Initialized

LEMMA SuGentleInit == ASSUME StartUp!Init PROVE SuGentle
BY DEF StartUp!Init, SuGentle, StartUp!GentleFirst

LEMMA SuGentleStep ==
  ASSUME SuGentle, [StartUp!Next]_(StartUp!vars)
  PROVE  SuGentle'
<1> USE DEF SuGentle, StartUp!GentleFirst
<1>1. CASE StartUp!NewDte BY <1>1 DEF StartUp!NewDte
<1>2. CASE StartUp!Sync
  <2>1. PICK o \in StartUp!Outcomes :
          /\ timeouts' = IF o = "timeout" THEN timeouts + 1 ELSE timeouts
          /\ place' = IF o = "ok" THEN "echo"
                   ELSE StartUp!Retry(o, timeouts',
                              IF o = "fail" THEN errors + 1 ELSE errors)
    BY <1>2 DEF StartUp!Sync
  <2>2. place = "sync" /\ tried' = tried BY <1>2 DEF StartUp!Sync
  <2>3. o = "timeout" /\ timeouts' = 2 => place' \in {"pulse", "failed"}
    BY <2>1 DEF StartUp!Retry, StartUp!Cure
  <2>4. place' # "cycle" BY <2>1 DEF StartUp!Retry, StartUp!Cure,
       StartUp!Outcomes
  <2> QED BY <2>1, <2>2, <2>3, <2>4
<1>3. CASE StartUp!Escape BY <1>3 DEF StartUp!Escape
<1>4. CASE StartUp!Reset
  <2>1. timeouts' = timeouts /\ place \in {"reset", "reset2"}
    BY <1>4 DEF StartUp!Reset
  <2>2. CASE place' = "reset2"
    BY <1>4, <2>1, <2>2 DEF StartUp!Reset
  <2>3. CASE place' = StartUp!AfterReset /\ tried' = tried \cup {"command"}
    BY <2>1, <2>3 DEF StartUp!AfterReset
  <2> QED BY <1>4, <2>2, <2>3 DEF StartUp!Reset, StartUp!AfterReset
<1>5. CASE StartUp!Pulse BY <1>5 DEF StartUp!Pulse
<1>6. CASE StartUp!PowerCycle BY <1>6 DEF StartUp!PowerCycle
<1>7. CASE StartUp!SyncAgain BY <1>7 DEF StartUp!SyncAgain
<1>8. CASE StartUp!ReadPin BY <1>8 DEF StartUp!ReadPin
<1>9. CASE StartUp!EnterPin BY <1>9 DEF StartUp!EnterPin
<1>10. CASE StartUp!CheckPin BY <1>10 DEF StartUp!CheckPin
<1>11. CASE StartUp!SetEcho BY <1>11 DEF StartUp!SetEcho
<1>12. CASE StartUp!Restart BY <1>12 DEF StartUp!Restart
<1>13. CASE StartUp!Boot BY <1>13 DEF StartUp!Boot
<1>14. CASE StartUp!Stop BY <1>14 DEF StartUp!Stop, StartUp!vars
<1>15. CASE UNCHANGED StartUp!vars BY <1>15 DEF StartUp!vars
<1>16. CASE StartUp!Create BY <1>16, SuCreateLeaves
<1>17. CASE StartUp!Attach BY <1>17, SuAttachLeaves
<1>18. CASE StartUp!PrintInfo BY <1>18 DEF StartUp!PrintInfo
<1> QED
  BY <1>1, <1>2, <1>3, <1>4, <1>5, <1>6, <1>7, <1>8, <1>9, <1>10, <1>11,
     <1>12, <1>13, <1>14, <1>15, <1>16, <1>17, <1>18
     DEF StartUp!Next, StartUp!Task

-----------------------------------------------------------------------------
LEMMA SuSimInit == ASSUME StartUp!Init PROVE SuSim
BY SuBounds DEF StartUp!Init, SuSim

(* A locked SIM does not read as ready, and a lost answer changes nothing. *)
LEMMA SuLockedReads ==
  ASSUME sim.locked, ready = FALSE, NEW r, StartUp!Reads(r)
  PROVE  r = FALSE
BY DEF StartUp!Reads, StartUp!Outcomes

LEMMA SuSimStep ==
  ASSUME SuSim, [StartUp!Next]_(StartUp!vars)
  PROVE  SuSim'
<1> USE DEF SuSim
<1> DEFINE Rec == [locked : BOOLEAN, known : BOOLEAN, left : Nat, fresh : Nat]
<1>1. /\ StartUp!Locked \in Rec
      /\ StartUp!Locked.left = sim.left /\ StartUp!Locked.fresh = sim.fresh
      /\ StartUp!Locked.known = sim.known
      /\ sim.locked => StartUp!Locked.locked
  BY DEF StartUp!Locked
<1>2. CASE StartUp!NewDte BY <1>2 DEF StartUp!NewDte
<1>3. CASE StartUp!Sync
  <2>1. place = "sync" /\ sim' = sim BY <1>3 DEF StartUp!Sync
  <2>2. place' # "enter" BY <1>3 DEF StartUp!Sync, StartUp!Retry,
       StartUp!Cure, StartUp!Outcomes
  <2> QED BY <2>1, <2>2
<1>4. CASE StartUp!Escape BY <1>4 DEF StartUp!Escape
<1>5. CASE StartUp!Reset
  <2>1. place \in {"reset", "reset2"} /\ place' \notin {"enter", "check"}
    BY <1>5 DEF StartUp!Reset, StartUp!AfterReset
  <2>2. sim' = sim \/ sim' = StartUp!Locked BY <1>5 DEF StartUp!Reset
  <2> QED BY <1>1, <2>1, <2>2
<1>6. CASE StartUp!Pulse BY <1>6 DEF StartUp!Pulse
<1>7. CASE StartUp!PowerCycle BY <1>7 DEF StartUp!PowerCycle
<1>8. CASE StartUp!SyncAgain BY <1>8 DEF StartUp!SyncAgain
<1>9. CASE StartUp!ReadPin
  <2>1. StartUp!Reads(ready') /\ place = "read" /\ sim' = sim
    BY <1>9 DEF StartUp!ReadPin
  <2>2. place' = "enter" => ready' = FALSE
    <3>1. ready' \in {~sim.locked, ready}
      BY <2>1 DEF StartUp!Reads, StartUp!Outcomes
    <3>2. place' = IF ready' THEN "check" ELSE "enter"
      BY <1>9 DEF StartUp!ReadPin
    <3> QED BY <3>1, <3>2
  <2> QED BY <1>9, <2>1, <2>2 DEF StartUp!ReadPin
<1>10. CASE StartUp!EnterPin
  <2>1. place = "enter" /\ place' = "check" /\ ready' = ready
    BY <1>10 DEF StartUp!EnterPin
  <2>2. CASE sim' = sim BY <2>1, <2>2
  <2>3. CASE sim.locked /\ sim.left > 0
             /\ sim' = IF sim.known
                       THEN [sim EXCEPT !.locked = FALSE, !.left = Attempts,
                                        !.fresh = Attempts]
                       ELSE [sim EXCEPT !.left = @ - 1]
    <3>1. CASE sim.known BY <2>1, <2>3, <3>1, SuBounds
    <3>2. CASE ~sim.known
      <4>1. sim' = [sim EXCEPT !.left = @ - 1] BY <2>3, <3>2
      <4> QED BY <2>1, <2>3, <3>2, <4>1
    <3> QED BY <3>1, <3>2
  <2> QED BY <1>10, <2>2, <2>3 DEF StartUp!EnterPin
<1>11. CASE StartUp!CheckPin
  <2>1. place = "check" /\ StartUp!Reads(ready') /\ sim' = sim
    BY <1>11 DEF StartUp!CheckPin
  <2>2. sim.left # sim.fresh => ready' = FALSE BY <2>1, SuLockedReads
  <2> QED BY <1>11, <2>1, <2>2 DEF StartUp!CheckPin
<1>12. CASE StartUp!SetEcho BY <1>12 DEF StartUp!SetEcho
<1>13. CASE StartUp!Restart
  <2>1. sim' = [sim EXCEPT !.fresh = sim.left] /\ place' = "new"
    BY <1>13 DEF StartUp!Restart
  <2>2. sim' \in Rec /\ sim'.fresh = sim'.left BY <2>1
  <2> QED BY <2>1, <2>2
<1>14. CASE StartUp!Boot
  <2>1. sim' = StartUp!Locked /\ place' = place /\ ready' = ready
    BY <1>14 DEF StartUp!Boot
  <2> QED BY <1>1, <2>1
<1>15. CASE StartUp!Stop BY <1>15 DEF StartUp!Stop, StartUp!vars
<1>16. CASE UNCHANGED StartUp!vars BY <1>16 DEF StartUp!vars
<1>17. CASE StartUp!Create BY <1>17, SuCreateLeaves
<1>18. CASE StartUp!Attach BY <1>18, SuAttachLeaves
<1>19. CASE StartUp!PrintInfo BY <1>19 DEF StartUp!PrintInfo
<1> QED
  BY <1>2, <1>3, <1>4, <1>5, <1>6, <1>7, <1>8, <1>9, <1>10, <1>11, <1>12,
     <1>13, <1>14, <1>15, <1>16, <1>17, <1>18, <1>19
     DEF StartUp!Next, StartUp!Task

LEMMA SuSimHolds == ASSUME SuSim PROVE StartUp!SimSparedPerBoot
BY DEF SuSim, StartUp!SimSparedPerBoot

-----------------------------------------------------------------------------
(* Types: first of the counters and the modem.  The loop goes on only as   *)
(* long as neither kind of failure is more than it endures.                *)
SuCounts ==
  /\ place \in StartUp!Places /\ ready \in BOOLEAN
  /\ tried \subseteq StartUp!Cures
  /\ timeouts \in 0..Timeouts + 1 /\ errors \in 0..Errors + 1
  /\ place \notin {"echo", "info", "up", "failed"}
       => timeouts <= Timeouts /\ errors <= Errors
  /\ boots \in 1..MaxBoots /\ modem \in StartUp!Modes /\ echo \in BOOLEAN

(* The DCE from one step of its making to the next.                        *)
SuDceType ==
  [list : SUBSET StartUp!Table,
   refs : [StartUp!Refs ->
             StartUp!Refs \cup {StartUp!Null, "re_store_profile"}],
   pins : SUBSET StartUp!Pins, resync : StartUp!Refs \cup {StartUp!Null},
   ties : SUBSET StartUp!Ties]

SuTied ==
  CASE place = "handlers" -> {"receive"}
    [] place = "attach"   -> {"receive", "start", "stop", "connected",
                           "disconnected"}
    [] place = "notify"   -> StartUp!Ties \ {"initialized"}
    [] place \in StartUp!Syncing \cup {"info", "up"} -> StartUp!Ties
    [] OTHER -> {}

SuDce ==
  /\ place \in StartUp!Places
  /\ dce \in SuDceType
  /\ SuTied \subseteq dce.ties
  /\ place \notin {"new", "none", "create", "failed"}
       => \A r \in StartUp!Refs : dce.refs[r] # StartUp!Null
  /\ place \in StartUp!Syncing \cup {"info", "up"} => dce.resync # StartUp!Null

SuSimType ==
  sim \in [locked : BOOLEAN, known : BOOLEAN, left : 0..Attempts,
           fresh : 0..Attempts]

LEMMA SuCountInit == ASSUME StartUp!Init PROVE SuCounts
<1>1. boots \in 1..MaxBoots /\ timeouts = 0 /\ errors = 0
  BY ServicesAssumption DEF StartUp!StartUpAssumption, StartUp!Init
<1>2. 0 \in 0..Timeouts + 1 /\ 0 \in 0..Errors + 1
      /\ 0 <= Timeouts /\ 0 <= Errors
  BY SuBounds
<1>3. /\ place \in StartUp!Places /\ ready \in BOOLEAN
      /\ tried \subseteq StartUp!Cures
      /\ modem \in StartUp!Modes /\ echo \in BOOLEAN
  BY DEF StartUp!Init, StartUp!Places, StartUp!Modes
<1> QED BY <1>1, <1>2, <1>3 DEF SuCounts

LEMMA SuRetryPlaces ==
  ASSUME NEW o \in {"fail", "timeout"}, NEW t \in Nat, NEW e \in Nat
  PROVE  /\ StartUp!Retry(o, t, e) \in {"escape", "pulse", "read", "failed"}
         /\ StartUp!Retry(o, t, e) # "failed" => t <= Timeouts /\ e <= Errors
BY DEF StartUp!Retry, StartUp!Cure

LEMMA SuCountStep ==
  ASSUME SuCounts, [StartUp!Next]_(StartUp!vars)
  PROVE  SuCounts'
<1> USE SuBounds DEF SuCounts, StartUp!Places, StartUp!Binding, StartUp!Syncing
<1>0. MaxBoots \in Nat \ {0}
  BY ServicesAssumption DEF StartUp!StartUpAssumption
<1>1. CASE StartUp!NewDte BY <1>1 DEF StartUp!NewDte
<1>2. CASE StartUp!Sync
  <2>1. PICK o \in StartUp!Outcomes :
          /\ timeouts' = IF o = "timeout" THEN timeouts + 1 ELSE timeouts
          /\ errors' = IF o = "fail" THEN errors + 1 ELSE errors
          /\ place' = IF o = "ok" THEN "echo"
                      ELSE StartUp!Retry(o, timeouts', errors')
    BY <1>2 DEF StartUp!Sync
  <2>2. o \in {"ok", "fail", "timeout"} BY DEF StartUp!Outcomes
  <2>3. timeouts' \in 0..Timeouts + 1 /\ errors' \in 0..Errors + 1
    BY <1>2, <2>1 DEF StartUp!Sync
  <2>4. /\ place' \in {"echo", "escape", "pulse", "read", "failed"}
        /\ place' \notin {"echo", "failed"}
             => timeouts' <= Timeouts /\ errors' <= Errors
    BY <2>1, <2>2, <2>3, SuRetryPlaces
  <2>5. ready' \in BOOLEAN /\ UNCHANGED <<tried, boots, modem, echo>>
    BY <1>2 DEF StartUp!Sync
  <2> QED BY <2>3, <2>4, <2>5
<1>3. CASE StartUp!Escape BY <1>3 DEF StartUp!Escape, StartUp!Modes
<1>4. CASE StartUp!Reset
  <2>1. place' \in {"reset2", "sync", "cycle"}
    BY <1>4 DEF StartUp!Reset, StartUp!AfterReset
  <2>2. tried' \subseteq StartUp!Cures BY <1>4 DEF StartUp!Reset, StartUp!Cures
  <2>3. modem' \in StartUp!Modes /\ echo' \in BOOLEAN
    BY <1>4 DEF StartUp!Reset, StartUp!Modes
  <2> QED BY <1>4, <2>1, <2>2, <2>3 DEF StartUp!Reset
<1>5. CASE StartUp!Pulse BY <1>5 DEF StartUp!Pulse, StartUp!Modes,
     StartUp!Cures
<1>6. CASE StartUp!PowerCycle BY <1>6 DEF StartUp!PowerCycle, StartUp!Modes,
     StartUp!Cures
<1>7. CASE StartUp!SyncAgain BY <1>7 DEF StartUp!SyncAgain
<1>8. CASE StartUp!ReadPin
  <2>1. ready' \in BOOLEAN BY <1>8 DEF StartUp!ReadPin, StartUp!Reads,
       StartUp!Outcomes
  <2> QED BY <1>8, <2>1 DEF StartUp!ReadPin
<1>9. CASE StartUp!EnterPin BY <1>9 DEF StartUp!EnterPin, StartUp!Cures
<1>10. CASE StartUp!CheckPin
  <2>1. ready' \in BOOLEAN BY <1>10 DEF StartUp!CheckPin, StartUp!Reads,
       StartUp!Outcomes
  <2> QED BY <1>10, <2>1 DEF StartUp!CheckPin
<1>11. CASE StartUp!SetEcho
  <2>1. echo' \in BOOLEAN BY <1>11 DEF StartUp!SetEcho, StartUp!Outcomes
  <2> QED BY <1>11, <2>1 DEF StartUp!SetEcho
<1>12. CASE StartUp!Restart
  <2>1. boots' \in 1..MaxBoots
    <3>1. boots' = boots + 1 /\ boots < MaxBoots BY <1>12 DEF StartUp!Restart
    <3> QED BY <1>0, <3>1
  <2>2. place' = "new" /\ ready' = FALSE /\ tried' = {}
        /\ modem' \in StartUp!Modes /\ echo' = echo
    BY <1>12 DEF StartUp!Restart, StartUp!Modes
  <2>3. timeouts' = 0 /\ errors' = 0 BY <1>12 DEF StartUp!Restart
  <2>4. timeouts' \in 0..Timeouts + 1 /\ errors' \in 0..Errors + 1
        /\ timeouts' <= Timeouts /\ errors' <= Errors
    BY <2>3
  <2>5. /\ ready' \in BOOLEAN /\ echo' \in BOOLEAN
        /\ tried' \subseteq StartUp!Cures
    BY <2>2
  <2> QED BY <2>1, <2>2, <2>4, <2>5
<1>13. CASE StartUp!Boot BY <1>13 DEF StartUp!Boot, StartUp!Modes
<1>14. CASE StartUp!Stop BY <1>14 DEF StartUp!Stop, StartUp!vars
<1>15. CASE UNCHANGED StartUp!vars BY <1>15 DEF StartUp!vars
<1>16. CASE StartUp!Create BY <1>16 DEF StartUp!Create
<1>17. CASE StartUp!Attach
  BY <1>17 DEF StartUp!Attach, StartUp!NewNetif, StartUp!SetHandlers,
       StartUp!PostAttach, StartUp!Tie, StartUp!Initialized
<1>18. CASE StartUp!PrintInfo BY <1>18 DEF StartUp!PrintInfo
<1> QED
  BY <1>1, <1>2, <1>3, <1>4, <1>5, <1>6, <1>7, <1>8, <1>9, <1>10, <1>11,
     <1>12, <1>13, <1>14, <1>15, <1>16, <1>17, <1>18
     DEF StartUp!Next, StartUp!Task

LEMMA SuNoDceType == StartUp!NoDce \in SuDceType
BY DEF StartUp!NoDce, SuDceType

LEMMA SuDceStart == ASSUME StartUp!Init PROVE SuDce
BY SuNoDceType DEF StartUp!Init, SuDce, StartUp!Places, SuTied,
     StartUp!Syncing, StartUp!NoDce

(* The commands of the list are all there are names for, so that no        *)
(* pointer is NULL.                                                        *)
LEMMA SuBoard ==
  /\ StartUp!DceInit(TRUE)
       = [StartUp!NoDce EXCEPT !.refs = [r \in StartUp!Refs |-> r],
                               !.list = StartUp!Table]
  /\ StartUp!DceInit(TRUE) \in SuDceType
  /\ \A r \in StartUp!Refs : StartUp!DceInit(TRUE).refs[r] = r
<1> DEFINE d == [StartUp!NoDce EXCEPT !.refs = [r \in StartUp!Refs |-> r],
                                     !.list = StartUp!Table]
<1>1. StartUp!InitList(StartUp!DefaultInit) = d
  BY DEF StartUp!InitList, StartUp!DefaultInit, StartUp!NoDce
<1>2. d.list = StartUp!Table /\ d.refs = [r \in StartUp!Refs |-> r]
  BY DEF StartUp!NoDce
<1>3. [r \in StartUp!Refs |-> StartUp!FindCommand(d, r)]
        = [r \in StartUp!Refs |-> r]
  BY <1>2 DEF StartUp!FindCommand, StartUp!Table
<1>4. StartUp!UpdateRefs(d) = d BY <1>2, <1>3 DEF StartUp!UpdateRefs,
     StartUp!NoDce
<1>5. StartUp!DceInit(TRUE) = d BY <1>1, <1>4 DEF StartUp!DceInit,
     StartUp!SetDefaultList
<1>6. d \in SuDceType BY DEF StartUp!NoDce, SuDceType
<1> QED BY <1>2, <1>5, <1>6

LEMMA SuCreated ==
  ASSUME SuDce, StartUp!Create
  PROVE  /\ dce' \in SuDceType
         /\ place' = "netif"
              => \A r \in StartUp!Refs : dce'.refs[r] # StartUp!Null
<1>1. CASE UNCHANGED dce /\ place' = "failed" BY <1>1 DEF SuDce
<1>2. CASE ~(UNCHANGED dce /\ place' = "failed")
  <2>1. PICK power, reset, resend \in BOOLEAN :
          dce' = [StartUp!DceInit(TRUE) EXCEPT
                    !.pins = StartUp!GpioNew("power", power)
                             \cup StartUp!GpioNew("reset", reset),
                    !.resync = StartUp!ResendNew(
                      StartUp!DceInit(TRUE).refs["sync"], resend),
                    !.refs["store_profile"] = "re_store_profile"]
    BY <1>2 DEF StartUp!Create
  <2> DEFINE pins   == StartUp!GpioNew("power", power)
                       \cup StartUp!GpioNew("reset", reset)
             resync == StartUp!ResendNew(
                         StartUp!DceInit(TRUE).refs["sync"], resend)
             refs   == [StartUp!DceInit(TRUE).refs EXCEPT ![
                          "store_profile"] = "re_store_profile"]
  <2>2. pins \in SUBSET StartUp!Pins BY DEF StartUp!GpioNew, StartUp!Pins
  <2>3. resync \in StartUp!Refs \cup {StartUp!Null}
    BY SuBoard DEF StartUp!ResendNew, StartUp!Refs
  <2>4. /\ refs \in [StartUp!Refs ->
                      StartUp!Refs \cup {StartUp!Null, "re_store_profile"}]
        /\ \A r \in StartUp!Refs : refs[r] # StartUp!Null
    BY SuBoard DEF SuDceType, StartUp!Refs, StartUp!Null
  <2>5. /\ dce'.pins = pins /\ dce'.resync = resync /\ dce'.refs = refs
        /\ dce' = [StartUp!DceInit(TRUE) EXCEPT
                      !.pins = pins, !.resync = resync, !.refs = refs]
    BY <2>1, SuBoard DEF SuDceType
  <2> HIDE DEF pins, resync, refs
  <2>6. dce' \in SuDceType BY <2>2, <2>3, <2>4, <2>5, SuBoard DEF SuDceType
  <2> QED BY <2>4, <2>5, <2>6
<1> QED BY <1>1, <1>2

(* A step of the attachment.                                               *)
LEMMA SuMoreTies ==
  ASSUME SuDce, NEW more \in SUBSET StartUp!Ties,
         dce' = [dce EXCEPT !.ties = @ \cup more]
  PROVE  /\ dce' \in SuDceType /\ dce'.ties = dce.ties \cup more
         /\ dce'.refs = dce.refs /\ dce'.resync = dce.resync
BY DEF SuDce, SuDceType

LEMMA SuDceStep == ASSUME SuDce, [StartUp!Next]_(StartUp!vars) PROVE SuDce'
<1> USE DEF StartUp!Places, StartUp!Binding, StartUp!Syncing
<1>1. CASE StartUp!Create
  <2>1. place' \in {"netif", "failed"} BY <1>1 DEF StartUp!Create
  <2>2. SuTied' = {} BY <2>1 DEF SuTied
  <2> QED BY <1>1, <2>1, <2>2, SuCreated DEF SuDce
<1>2. CASE StartUp!NewNetif
  <2>1. CASE place' = "failed" /\ UNCHANGED dce
    BY <2>1 DEF SuDce, SuTied
  <2>2. CASE /\ place' = "handlers"
             /\ dce' = [dce EXCEPT !.ties = @ \cup {"receive"}]
    <3>1. place = "netif" BY <1>2 DEF StartUp!NewNetif, StartUp!Tie
    <3>2. SuTied' = {"receive"} BY <2>2 DEF SuTied
    <3> QED BY <2>2, <3>1, <3>2, SuMoreTies DEF SuDce, StartUp!Ties
  <2> QED BY <1>2, <2>1, <2>2 DEF StartUp!NewNetif, StartUp!Tie
<1>3. CASE StartUp!SetHandlers
  <2> DEFINE more == {"start", "stop", "connected", "disconnected"}
  <2>1. CASE place' = "failed" /\ UNCHANGED dce
    BY <2>1 DEF SuDce, SuTied
  <2>2. CASE place' = "attach" /\ dce' = [dce EXCEPT !.ties = @ \cup more]
    <3>1. place = "handlers" BY <1>3 DEF StartUp!SetHandlers, StartUp!Tie
    <3>2. SuTied = {"receive"} /\ SuTied' = {"receive"} \cup more
      BY <2>2, <3>1 DEF SuTied
    <3> QED BY <2>2, <3>1, <3>2, SuMoreTies DEF SuDce, StartUp!Ties
  <2> QED BY <1>3, <2>1, <2>2 DEF StartUp!SetHandlers, StartUp!Tie
<1>4. CASE StartUp!PostAttach
  <2> DEFINE more == {"transmit", "closed"}
  <2>1. CASE place' = "failed" /\ UNCHANGED dce
    BY <2>1 DEF SuDce, SuTied
  <2>2. CASE place' = "notify" /\ dce' = [dce EXCEPT !.ties = @ \cup more]
    <3>1. place = "attach" BY <1>4 DEF StartUp!PostAttach, StartUp!Tie
    <3>2. SuTied' = SuTied \cup more
      BY <2>2, <3>1 DEF SuTied, StartUp!Ties
    <3> QED BY <2>2, <3>1, <3>2, SuMoreTies DEF SuDce, StartUp!Ties
  <2> QED BY <1>4, <2>1, <2>2 DEF StartUp!PostAttach, StartUp!Tie
<1>5. CASE StartUp!Initialized
  <2>1. /\ place = "notify" /\ place' \in {"failed", "sync"}
        /\ dce' = [dce EXCEPT !.ties = @ \cup {"initialized"}]
        /\ place' = "sync" => dce.resync # StartUp!Null
    BY <1>5 DEF StartUp!Initialized
  <2>2. /\ SuTied = StartUp!Ties \ {"initialized"}
        /\ SuTied' \in {{}, StartUp!Ties}
    BY <2>1 DEF SuTied
  <2>3. SuTied' \subseteq dce'.ties
    BY <2>1, <2>2, SuMoreTies DEF SuDce, StartUp!Ties
  <2> QED BY <2>1, <2>3, SuMoreTies DEF SuDce, StartUp!Ties
<1>6. CASE StartUp!NewDte
  BY <1>6 DEF StartUp!NewDte, SuDce, SuTied
<1>7. CASE StartUp!Restart
  <2>1. place' = "new" /\ dce' = StartUp!NoDce BY <1>7 DEF StartUp!Restart
  <2> QED BY <2>1, SuNoDceType DEF SuDce, SuTied
<1>8. CASE UNCHANGED <<place, dce>> BY <1>8 DEF SuDce, SuTied
<1>9. CASE /\ UNCHANGED dce /\ place \in StartUp!Syncing \cup {"info"}
           /\ place' \in StartUp!Syncing \cup {"info", "up", "failed"}
  <2>1. SuTied = StartUp!Ties /\ SuTied' \in {{}, StartUp!Ties}
    BY <1>9 DEF SuTied
  <2> QED BY <1>9, <2>1 DEF SuDce
<1>10. CASE StartUp!Sync
  BY <1>10, <1>9 DEF StartUp!Sync, StartUp!Retry, StartUp!Cure
<1>11. CASE \/ StartUp!Escape \/ StartUp!Reset \/ StartUp!Pulse
            \/ StartUp!PowerCycle \/ StartUp!SyncAgain \/ StartUp!ReadPin
            \/ StartUp!EnterPin \/ StartUp!CheckPin \/ StartUp!SetEcho
            \/ StartUp!PrintInfo
  BY <1>11, <1>9 DEF StartUp!Escape, StartUp!Reset, StartUp!AfterReset,
       StartUp!Pulse, StartUp!PowerCycle, StartUp!SyncAgain,
       StartUp!ReadPin, StartUp!EnterPin, StartUp!CheckPin, StartUp!SetEcho,
       StartUp!PrintInfo
<1>12. CASE StartUp!Boot \/ StartUp!Stop \/ UNCHANGED StartUp!vars
  BY <1>12, <1>8 DEF StartUp!Boot, StartUp!Stop, StartUp!vars
<1> QED
  BY <1>1, <1>2, <1>3, <1>4, <1>5, <1>6, <1>7, <1>10, <1>11, <1>12 DEF
       StartUp!Next, StartUp!Task, StartUp!Attach

LEMMA SuSimTypeInit == ASSUME StartUp!Init PROVE SuSimType
BY SuBounds DEF StartUp!Init, SuSimType

LEMMA SuSimTypeStep ==
  ASSUME SuSimType, [StartUp!Next]_(StartUp!vars)
  PROVE  SuSimType'
<1> USE SuBounds
<1> DEFINE Rec == [locked : BOOLEAN, known : BOOLEAN, left : 0..Attempts,
                   fresh : 0..Attempts]
<1>0. sim \in Rec BY DEF SuSimType
<1>1. StartUp!Locked \in Rec BY <1>0 DEF StartUp!Locked
<1>2. CASE UNCHANGED sim BY <1>2 DEF SuSimType
<1>3. CASE sim' = StartUp!Locked BY <1>1, <1>3 DEF SuSimType
<1>4. CASE StartUp!Restart
  <2>1. sim' = [sim EXCEPT !.fresh = sim.left] BY <1>4 DEF StartUp!Restart
  <2>2. sim' \in Rec BY <1>0, <2>1
  <2> QED BY <2>2 DEF SuSimType
<1>5. CASE StartUp!EnterPin
  <2>1. CASE sim.locked /\ sim.left > 0
             /\ sim' = IF sim.known
                       THEN [sim EXCEPT !.locked = FALSE, !.left = Attempts,
                                        !.fresh = Attempts]
                       ELSE [sim EXCEPT !.left = @ - 1]
    <3>1. CASE sim.known
      <4>1. sim' = [sim EXCEPT !.locked = FALSE, !.left = Attempts,
                               !.fresh = Attempts]
        BY <2>1, <3>1
      <4>2. Attempts \in 0..Attempts OBVIOUS
      <4> HIDE DEF Rec
      <4>3. \A s \in Rec, a \in 0..Attempts :
              [s EXCEPT !.locked = FALSE, !.left = a, !.fresh = a] \in Rec
        BY DEF Rec
      <4>4. sim' \in Rec BY <1>0, <4>1, <4>2, <4>3
      <4> QED BY <4>4 DEF SuSimType, Rec
    <3>2. CASE ~sim.known
      <4>1. sim' = [sim EXCEPT !.left = sim.left - 1] BY <2>1, <3>2
      <4>2. sim.left - 1 \in 0..Attempts BY <1>0, <2>1
      <4>3. sim' \in Rec BY <1>0, <4>1, <4>2
      <4> QED BY <4>3 DEF SuSimType
    <3> QED BY <3>1, <3>2
  <2> QED BY <1>2, <1>5, <2>1 DEF StartUp!EnterPin
<1>6. CASE StartUp!Reset BY <1>2, <1>3, <1>6 DEF StartUp!Reset
<1>7. CASE StartUp!Boot BY <1>3, <1>7 DEF StartUp!Boot
<1>8. CASE StartUp!Create \/ StartUp!Attach
  BY <1>8, <1>2, SuCreateLeaves, SuAttachLeaves
<1>9. CASE \/ StartUp!NewDte \/ StartUp!Sync \/ StartUp!Escape
           \/ StartUp!Pulse \/ StartUp!PowerCycle \/ StartUp!SyncAgain
           \/ StartUp!ReadPin \/ StartUp!CheckPin \/ StartUp!SetEcho
           \/ StartUp!PrintInfo
  BY <1>9, <1>2 DEF StartUp!NewDte, StartUp!Sync, StartUp!Escape,
       StartUp!Pulse, StartUp!PowerCycle, StartUp!SyncAgain,
       StartUp!ReadPin, StartUp!CheckPin, StartUp!SetEcho, StartUp!PrintInfo
<1>10. CASE StartUp!Stop \/ UNCHANGED StartUp!vars
  BY <1>10, <1>2 DEF StartUp!Stop, StartUp!vars
<1> QED
  BY <1>4, <1>5, <1>6, <1>7, <1>8, <1>9, <1>10 DEF StartUp!Next, StartUp!Task

SuTyped == SuCounts /\ SuDce /\ SuSimType

LEMMA SuTypeHolds == ASSUME SuTyped PROVE StartUp!TypeOK
<1>1. dce.pins \subseteq StartUp!Pins /\ dce.ties \subseteq StartUp!Ties
  BY DEF SuTyped, SuDce, SuDceType
<1>2. place \in StartUp!Syncing \cup {"info", "up"}
      => /\ dce.resync # StartUp!Null /\ dce.ties = StartUp!Ties
         /\ \A r \in StartUp!Refs : dce.refs[r] # StartUp!Null
  <2> SUFFICES ASSUME place \in StartUp!Syncing \cup {"info", "up"}
               PROVE  /\ dce.resync # StartUp!Null /\ dce.ties = StartUp!Ties
                      /\ \A r \in StartUp!Refs : dce.refs[r] # StartUp!Null
    OBVIOUS
  <2>1. SuTied = StartUp!Ties BY DEF SuTied, StartUp!Syncing
  <2> QED BY <1>1, <2>1 DEF SuTyped, SuDce, StartUp!Syncing
<1> QED BY <1>1, <1>2 DEF SuTyped, SuCounts, SuSimType, StartUp!TypeOK

LEMMA SuTypeInit == ASSUME StartUp!Init PROVE SuTyped
BY SuCountInit, SuDceStart, SuSimTypeInit DEF SuTyped

LEMMA SuTypeStep ==
  ASSUME SuTyped, [StartUp!Next]_(StartUp!vars) PROVE SuTyped'
BY SuCountStep, SuDceStep, SuSimTypeStep DEF SuTyped

LEMMA StartUpMoves ==
  ASSUME [Next]_vars PROVE [StartUp!Next]_(StartUp!vars)
<1>1. StartUp!Next \/ UNCHANGED startUp
  BY DEF Next, LedStep, UpdateStep, HistoryStep, LogStep, StartUpStep,
     GatewayStep, UsbLifeStep, FramesStep, CameraStep, UsbDevStep, DfuStep,
     NetStep, AcmStep, Rest, DeviceRest, gatewaySide, vars
<1> QED BY <1>1 DEF startUp, StartUp!vars

LEMMA StartUpInvariant == Spec => [](SuGentle /\ SuSim /\ SuTyped)
<1>1. Init => SuGentle /\ SuSim /\ SuTyped
  <2>1. Init => StartUp!Init BY DEF Init
  <2> QED BY <2>1, SuGentleInit, SuSimInit, SuTypeInit
<1>2. SuGentle /\ SuSim /\ SuTyped /\ [Next]_vars
        => (SuGentle /\ SuSim /\ SuTyped)'
  BY StartUpMoves, SuGentleStep, SuSimStep, SuTypeStep
<1> QED BY <1>1, <1>2, PTL DEF Spec

(* However timeouts and errors mix, a start-up power-cycles the board only *)
(* after a reset by command and one by pin.                                *)
THEOREM GentleFirstCorrect == Spec => []GentleFirst
<1>1. SuGentle => GentleFirst BY DEF SuGentle, GentleFirst
<1> QED BY <1>1, StartUpInvariant, PTL

(* Whatever is lost, a start costs the SIM at most one wrong PIN.          *)
THEOREM SimSparedPerBootCorrect == Spec => []SimSparedPerBoot
<1>1. SuSim => SimSparedPerBoot BY SuSimHolds DEF SimSparedPerBoot
<1> QED BY <1>1, StartUpInvariant, PTL

-----------------------------------------------------------------------------
(* A set of natural numbers has a least element.                           *)
Less == {p \in Nat \X Nat : p[1] < p[2]}

LEMMA LessDescends == IsWellFoundedOn(Less, Nat)
BY NatLessThanWellFounded DEF OpToRel, Less

LEMMA LeastNatural ==
  ASSUME NEW T, T \subseteq Nat, T # {}
  PROVE  \E x \in T : \A y \in T : x <= y
<1>1. PICK x \in T : \A y \in T : ~(<<y, x>> \in Less)
  BY LessDescends, WFMin
<1>2. ASSUME NEW y \in T PROVE x <= y
  <2>1. SUFFICES ASSUME y < x PROVE FALSE BY <1>2
  <2>2. PICK p : p = <<y, x>> OBVIOUS
  <2>3. p \in Nat \X Nat /\ p[1] < p[2] BY <1>2, <2>1, <2>2
  <2>4. p \in Less BY <2>3 DEF Less
  <2> QED BY <1>1, <2>2, <2>4
<1> QED BY <1>2

-----------------------------------------------------------------------------
(* LED.  active_blink is clear inside a switch.                            *)
LedClears == Led!Switching => active = Led!None

(* Someone is about to run the list of the highest priority, or will look  *)
(* for one.                                                                *)
LedWorks(c) ==
  \/ at[c] \in {"run", "pick", "store", "body", "stopping", "ending", "wild"}
  \/ at[c] \in {"starting", "check"} /\ on[c] = Led!First(Led!Incomplete)

LedGoesOn ==
  races = {} /\ Led!First(Led!Incomplete) # Led!None =>
    armed \/ \E c \in Led!Contexts : LedWorks(c)

LedDark == "late" \notin races /\ active = Led!None => (lit => direct)

LedTyped == /\ Led!TypeOK
            /\ step \in [Blinks -> Nat] /\ seen \in [Led!Contexts -> Nat]
            /\ \A c, d \in Led!Contexts : at[c] = "wild" => at[d] = "wild"

LedInv == /\ LedTyped /\ LedClears /\ Led!HighestPriority
          /\ LedGoesOn /\ LedDark

LEMMA LedMoves == ASSUME [Next]_vars PROVE Led!Next \/ UNCHANGED led
BY DEF Next, LedStep, UpdateStep, HistoryStep, LogStep, StartUpStep,
   GatewayStep, UsbLifeStep, FramesStep, CameraStep, UsbDevStep, DfuStep,
   NetStep, AcmStep, Rest, DeviceRest, gatewaySide, vars

LEMMA LedAssumed ==
  /\ Timer \notin LedTasks /\ Nobody \notin Led!Contexts
  /\ Blinks \subseteq Nat /\ Led!None \notin Blinks
  /\ \A b \in Blinks : Len(Steps[b]) \in Nat
                       /\ DOMAIN Steps[b] = 1..Len(Steps[b])
<1>1. /\ Timer \notin LedTasks /\ Nobody \notin Led!Contexts
      /\ Blinks \subseteq Nat
      /\ Steps \in [Blinks -> Seq({"on", "off", "loop", "stop"})]
  BY ServicesAssumption DEF Led!LedAssumption, Led!Contexts
<1>2. Led!None \notin Blinks BY <1>1 DEF Led!None
<1>3. ASSUME NEW b \in Blinks
      PROVE  Len(Steps[b]) \in Nat /\ DOMAIN Steps[b] = 1..Len(Steps[b])
  <2>1. Steps[b] \in Seq({"on", "off", "loop", "stop"}) BY <1>1
  <2> HIDE DEF Steps
  <2> QED BY <2>1
<1> QED BY <1>1, <1>2, <1>3

(* What _blink_list_switch finds.                                          *)
LEMMA LedFirst ==
  ASSUME NEW S, S \subseteq Blinks
  PROVE  /\ S = {} => Led!First(S) = Led!None
         /\ S # {} => /\ Led!First(S) \in S
                      /\ \A b \in S : Led!First(S) <= b
<1>1. CASE S = {} BY <1>1 DEF Led!First
<1>2. CASE S # {}
  <2>1. Led!First(S) = CHOOSE b \in S : \A other \in S : b <= other
    BY <1>2 DEF Led!First
  <2>2. \E b \in S : \A other \in S : b <= other
    BY <1>2, LeastNatural, LedAssumed
  <2> QED BY <1>2, <2>1, <2>2
<1> QED BY <1>1, <1>2

LEMMA LedFirstAdds ==
  ASSUME NEW S, S \subseteq Blinks, NEW b \in Blinks,
         Led!First(S \cup {b}) # b
  PROVE  S # {} /\ Led!First(S \cup {b}) = Led!First(S)
<1>1. /\ Led!First(S \cup {b}) \in S
      /\ \A o \in S : Led!First(S \cup {b}) <= o
  BY LedFirst
<1>2. S # {} BY <1>1
<1>3. Led!First(S) \in S /\ \A o \in S : Led!First(S) <= o
  <2>1. /\ S = {} => Led!First(S) = Led!None
        /\ S # {} => /\ Led!First(S) \in S
                     /\ \A o \in S : Led!First(S) <= o
    BY LedFirst
  <2> QED BY <1>2, <2>1
<1>4. Led!First(S) <= Led!First(S \cup {b})
      /\ Led!First(S \cup {b}) <= Led!First(S)
  BY <1>1, <1>3
<1>5. Led!First(S) \in Nat /\ Led!First(S \cup {b}) \in Nat
  BY <1>1, <1>3, LedAssumed
<1> QED BY <1>2, <1>4, <1>5

LEMMA LedStart == ASSUME Init PROVE LedInv
<1> USE LedAssumed
<1>1. Led!Init BY DEF Init
<1>2. Led!Incomplete = {} BY <1>1 DEF Led!Init, Led!Incomplete
<1>3. Led!First(Led!Incomplete) = Led!None BY <1>2 DEF Led!First
<1>4. \A c \in Led!Contexts : at[c] = "idle" /\ mutex # c
  BY <1>1 DEF Led!Init
<1>5. LedTyped
  <2>1. \A b \in Blinks : step[b] \in 0..Len(Steps[b]) + 1
    BY <1>1 DEF Led!Init, Led!Stop
  <2>2. step \in [Blinks -> Nat] /\ seen \in [Led!Contexts -> Nat]
    BY <1>1 DEF Led!Init, Led!Stop
  <2>3. /\ at \in [Led!Contexts -> Led!Places]
        /\ on \in [Led!Contexts -> Blinks \cup {Led!None}]
    BY <1>1 DEF Led!Init, Led!Places
  <2>4. /\ \A c \in Led!Contexts : at[c] \notin Led!Switches
        /\ \A c \in Led!Contexts : at[c] \notin {"store", "body", "wild"}
    BY <1>4 DEF Led!Switches
  <2>5. /\ active = Led!None /\ lit = FALSE /\ armed = FALSE
        /\ direct = FALSE /\ mutex = Nobody /\ races = {}
    BY <1>1 DEF Led!Init
  <2> QED BY <1>4, <2>1, <2>2, <2>3, <2>4, <2>5
    DEF LedTyped, Led!TypeOK, Led!Stop
<1>6. LedClears BY <1>1 DEF Led!Init, LedClears
<1>7. Led!HighestPriority
  BY <1>1, <1>3 DEF Led!Init, Led!HighestPriority
<1>8. LedGoesOn BY <1>3 DEF LedGoesOn
<1>9. LedDark BY <1>1 DEF Led!Init, LedDark
<1> QED BY <1>5, <1>6, <1>7, <1>8, <1>9 DEF LedInv

-----------------------------------------------------------------------------
(* One context moves.                                                      *)
LedOthers(c) == \A d \in Led!Contexts : d # c =>
                  /\ at'[d] = at[d] /\ on'[d] = on[d] /\ seen'[d] = seen[d]

LEMMA LedGoes ==
  ASSUME LedTyped, NEW c \in Led!Contexts, NEW p \in Led!Places,
         Led!Goto(c, p)
  PROVE  /\ at' \in [Led!Contexts -> Led!Places] /\ at'[c] = p
         /\ \A d \in Led!Contexts : d # c => at'[d] = at[d]
BY DEF LedTyped, Led!TypeOK, Led!Goto

LEMMA LedLeaves ==
  ASSUME LedTyped, NEW c \in Led!Contexts, NEW p \in {"idle", "run"},
         Led!Leave(c, p)
  PROVE  /\ at' \in [Led!Contexts -> Led!Places] /\ at'[c] = p
         /\ on' \in [Led!Contexts -> Blinks \cup {Led!None}]
         /\ seen' \in [Led!Contexts -> Nat]
         /\ LedOthers(c)
<1>1. p \in Led!Places BY DEF Led!Places
<1>2. Led!Goto(c, p) /\ on' = [on EXCEPT ![c] = Led!None]
      /\ seen' = [seen EXCEPT ![c] = 0]
  BY DEF Led!Leave, Led!Stop
<1> QED BY <1>1, <1>2, LedGoes DEF LedTyped, Led!TypeOK, LedOthers

(* Types, when at most one context moved and it is not at work on a list.  *)
LEMMA LedTypes ==
  ASSUME LedTyped, NEW c \in Led!Contexts,
         at' \in [Led!Contexts -> Led!Places],
         on' \in [Led!Contexts -> Blinks \cup {Led!None}],
         seen' \in [Led!Contexts -> Nat],
         LedOthers(c),
         at'[c] \in {"store", "body"} =>
           on'[c] \in Blinks /\ seen'[c] \in DOMAIN Steps[on'[c]],
         at'[c] # "wild", at[c] # "wild",
         \/ /\ at[c] \notin Led!Switches /\ at'[c] \notin Led!Switches
            /\ mutex' = mutex
         \/ /\ mutex = Nobody /\ mutex' = c /\ at'[c] \in Led!Switches
         \/ /\ at[c] \in Led!Switches /\ mutex' = Nobody
            /\ at'[c] \notin Led!Switches,
         step' \in [Blinks -> Nat],
         \A b \in Blinks : step'[b] \in 0..Len(Steps[b]) + 1,
         active' \in Blinks \cup {Led!None},
         lit' \in BOOLEAN, armed' \in BOOLEAN, direct' \in BOOLEAN,
         races' \subseteq Led!Races
  PROVE  LedTyped'
<1>1. mutex' \in Led!Contexts \cup {Nobody}
  BY DEF LedTyped, Led!TypeOK
<1>2. ASSUME NEW d \in Led!Contexts, at'[d] # "wild"
      PROVE  (mutex' = d) <=> at'[d] \in Led!Switches
  <2>1. (mutex = d /\ at[d] # "wild" => at[d] \in Led!Switches)
        /\ (at[d] \in Led!Switches => mutex = d)
    BY DEF LedTyped, Led!TypeOK, Led!Switches
  <2>2. at[c] \in Led!Switches => mutex = c
    BY DEF LedTyped, Led!TypeOK
  <2>3. CASE d = c BY <1>2, <2>1, <2>3, LedAssumed
  <2>4. CASE d # c
    <3>1. at'[d] = at[d] BY <2>4 DEF LedOthers
    <3> QED BY <1>2, <2>1, <2>2, <2>4, <3>1, LedAssumed
  <2> QED BY <2>3, <2>4
<1>3. ASSUME NEW d \in Led!Contexts, at'[d] \in {"store", "body"}
      PROVE  on'[d] \in Blinks /\ seen'[d] \in DOMAIN Steps[on'[d]]
  <2>1. CASE d = c BY <1>3, <2>1
  <2>2. CASE d # c
    <3>1. at'[d] = at[d] /\ on'[d] = on[d] /\ seen'[d] = seen[d]
      BY <2>2 DEF LedOthers
    <3> QED BY <1>3, <3>1 DEF LedTyped, Led!TypeOK
  <2> QED BY <2>1, <2>2
<1>4. \A d, e \in Led!Contexts : at'[d] = "wild" => at'[e] = "wild"
  <2>1. \A d \in Led!Contexts : at'[d] # "wild"
    BY DEF LedTyped, LedOthers
  <2> QED BY <2>1
<1> QED BY <1>1, <1>2, <1>3, <1>4 DEF LedTyped, Led!TypeOK, Led!Stop

LEMMA LedNotes ==
  ASSUME LedTyped, NEW race \in Led!Races, NEW befell,
         Led!Note(race, befell)
  PROVE  /\ races' \subseteq Led!Races /\ races \subseteq races'
         /\ race \notin races' => ~befell
BY DEF Led!Note, LedTyped, Led!TypeOK

(* Start and stop of a list.                                               *)
LEMMA LedStartStop ==
  ASSUME LedInv, NEW c \in Led!Contexts, NEW b \in Blinks,
         Led!Start(c, b) \/ Led!StopBlink(c, b)
  PROVE  LedInv'
<1> USE DEF LedInv
<1>1. /\ at[c] = "idle" /\ mutex = Nobody /\ mutex' = c
      /\ on' = [on EXCEPT ![c] = b] /\ active' = Led!None
      /\ lit' = FALSE /\ direct' = FALSE
      /\ UNCHANGED <<armed, seen, races>>
  BY DEF Led!Start, Led!StopBlink, Led!Clear
<1>2. \/ step' = [step EXCEPT ![b] = 1] /\ Led!Goto(c, "starting")
      \/ step' = [step EXCEPT ![b] = 0] /\ Led!Goto(c, "stopping")
  BY DEF Led!Start, Led!StopBlink, Led!Clear, Led!Stop
<1>3. /\ step \in [Blinks -> Nat] /\ seen \in [Led!Contexts -> Nat]
      /\ on \in [Led!Contexts -> Blinks \cup {Led!None}]
      /\ \A o \in Blinks : step[o] \in 0..Len(Steps[o]) + 1
  BY DEF LedTyped, Led!TypeOK, Led!Stop
<1>4. \/ step'[b] = 1 /\ Led!Goto(c, "starting")
      \/ step'[b] = 0 /\ Led!Goto(c, "stopping")
  BY <1>2, <1>3
<1>5. /\ step' \in [Blinks -> Nat]
      /\ \A o \in Blinks : step'[o] \in 0..Len(Steps[o]) + 1
      /\ \A o \in Blinks : o # b => step'[o] = step[o]
  BY SMTT(30), <1>2, <1>3, LedAssumed
<1>6. /\ at' \in [Led!Contexts -> Led!Places]
      /\ at'[c] \in {"starting", "stopping"}
      /\ at'[c] = "starting" => step'[b] = 1
      /\ at'[c] = "stopping" => step'[b] = 0
      /\ \A d \in Led!Contexts : d # c => at'[d] = at[d]
  <2>1. {"starting", "stopping"} \subseteq Led!Places BY DEF Led!Places
  <2> QED BY <1>4, <2>1, LedGoes
<1>7. LedOthers(c) BY <1>1, <1>3, <1>6 DEF LedOthers
<1>8. LedTyped'
  <2>1. at'[c] \in Led!Switches BY <1>6 DEF Led!Switches
  <2>2. on' \in [Led!Contexts -> Blinks \cup {Led!None}] BY <1>1, <1>3
  <2>3. armed' \in BOOLEAN /\ races' \subseteq Led!Races
    BY <1>1 DEF LedTyped, Led!TypeOK
  <2> QED BY <1>1, <1>3, <1>5, <1>6, <1>7, <2>1, <2>2, <2>3, LedTypes
<1>9. LedClears' BY <1>1 DEF LedClears
<1>10. Led!HighestPriority'
  <2>1. mutex' # Nobody BY <1>1, LedAssumed
  <2> QED BY <2>1 DEF Led!HighestPriority
<1>11. LedDark' BY <1>1 DEF LedDark
<1>12. LedGoesOn'
  <2>1. CASE at'[c] = "stopping" BY <2>1 DEF LedGoesOn, LedWorks
  <2>2. CASE at'[c] = "starting"
    <3>1. Led!Incomplete' = Led!Incomplete \cup {b}
      BY <1>3, <1>5, <1>6, <2>2 DEF Led!Incomplete, Led!Stop
    <3>2. Led!Incomplete \subseteq Blinks BY DEF Led!Incomplete
    <3>3. on'[c] = b BY <1>1, <1>3
    <3>4. CASE Led!First(Led!Incomplete') = b
      <4>1. LedWorks(c)' BY <2>2, <3>3, <3>4 DEF LedWorks
      <4> QED BY <4>1 DEF LedGoesOn
    <3>5. CASE Led!First(Led!Incomplete') # b
      <4>1. /\ Led!Incomplete # {}
            /\ Led!First(Led!Incomplete') = Led!First(Led!Incomplete)
        BY <3>1, <3>2, <3>5, LedFirstAdds
      <4>2. Led!First(Led!Incomplete) # Led!None
        BY <3>2, <4>1, LedFirst, LedAssumed
      <4>3. races = {} => armed \/ \E d \in Led!Contexts : LedWorks(d)
        BY <4>2 DEF LedGoesOn
      <4>4. ASSUME NEW d \in Led!Contexts, LedWorks(d)
            PROVE  LedWorks(d)'
        <5>1. d # c BY <1>1, <4>4 DEF LedWorks
        <5> QED BY <1>7, <4>1, <4>4, <5>1 DEF LedOthers, LedWorks
      <4> QED BY <1>1, <4>3, <4>4 DEF LedGoesOn
    <3> QED BY <3>4, <3>5
  <2> QED BY <1>6, <2>1, <2>2
<1> QED BY <1>8, <1>9, <1>10, <1>11, <1>12

(* Outside a switch the active list is the first incomplete one.           *)
LEMMA LedNoSwitch ==
  ASSUME LedInv, mutex = Nobody, "late" \notin races
  PROVE  active = Led!First(Led!Incomplete)
BY DEF LedInv, Led!HighestPriority

LEMMA LedSwitching ==
  ASSUME LedInv, ~Led!Switching, NEW c \in Led!Contexts, at[c] # "wild"
  PROVE  mutex = Nobody
<1>1. SUFFICES ASSUME mutex \in Led!Contexts PROVE FALSE
  BY DEF LedInv, LedTyped, Led!TypeOK
<1>2. at[mutex] # "wild" BY <1>1 DEF LedInv, LedTyped
<1>3. at[mutex] \in Led!Switches
  BY <1>1, <1>2 DEF LedInv, LedTyped, Led!TypeOK
<1> QED BY <1>1, <1>3 DEF Led!Switching

LEMMA LedSwitch ==
  ASSUME LedInv, NEW c \in Led!Contexts, Led!Switch(c) PROVE LedInv'
<1> USE DEF LedInv
<1>1. /\ at[c] \in Led!Switches /\ active' = Led!First(Led!Incomplete)
      /\ mutex' = Nobody /\ UNCHANGED <<step, lit, armed, direct, races>>
      /\ \/ /\ at[c] = "starting" /\ Led!Goto(c, "check")
            /\ UNCHANGED <<on, seen>>
         \/ at[c] # "starting" /\ Led!Leave(c, "run")
  BY DEF Led!Switch
<1>2. /\ at' \in [Led!Contexts -> Led!Places]
      /\ on' \in [Led!Contexts -> Blinks \cup {Led!None}]
      /\ seen' \in [Led!Contexts -> Nat] /\ LedOthers(c)
      /\ \/ at[c] = "starting" /\ at'[c] = "check" /\ on'[c] = on[c]
         \/ at'[c] = "run"
  <2>1. "check" \in Led!Places BY DEF Led!Places
  <2>2. CASE at[c] = "starting" /\ Led!Goto(c, "check")
             /\ UNCHANGED <<on, seen>>
    BY <2>1, <2>2, LedGoes DEF LedTyped, Led!TypeOK, LedOthers
  <2>3. CASE Led!Leave(c, "run") BY <2>3, LedLeaves
  <2> QED BY <1>1, <2>2, <2>3
<1>3. mutex = c
  BY <1>1 DEF LedTyped, Led!TypeOK, Led!Switches
<1>4. Led!First(Led!Incomplete) \in Blinks \cup {Led!None}
  <2>1. Led!Incomplete \subseteq Blinks BY DEF Led!Incomplete
  <2> QED BY <2>1, LedFirst
<1>5. LedTyped'
  <2>1. at'[c] \notin Led!Switches /\ at'[c] # "wild" /\ at[c] # "wild"
        /\ at'[c] \notin {"store", "body"}
    BY <1>1, <1>2 DEF Led!Switches
  <2>2. /\ step' \in [Blinks -> Nat] /\ races' \subseteq Led!Races
        /\ \A b \in Blinks : step'[b] \in 0..Len(Steps[b]) + 1
        /\ lit' \in BOOLEAN /\ armed' \in BOOLEAN /\ direct' \in BOOLEAN
    BY <1>1 DEF LedTyped, Led!TypeOK, Led!Stop
  <2> QED BY <1>1, <1>2, <1>4, <2>1, <2>2, LedTypes
<1>6. Led!Incomplete' = Led!Incomplete BY <1>1 DEF Led!Incomplete
<1>7. ~Led!Switching'
  <2>1. SUFFICES ASSUME NEW d \in Led!Contexts, at'[d] \in Led!Switches
                 PROVE  FALSE
    BY DEF Led!Switching
  <2>2. at'[d] # "wild" BY <2>1 DEF Led!Switches
  <2>3. mutex' = d BY <1>5, <2>1, <2>2 DEF LedTyped, Led!TypeOK
  <2> QED BY <1>1, <2>3, LedAssumed
<1>8. LedClears' BY <1>7 DEF LedClears
<1>9. Led!HighestPriority' BY <1>1, <1>6 DEF Led!HighestPriority
<1>10. active = Led!None BY <1>1 DEF LedClears, Led!Switching
<1>11. LedDark' BY <1>1, <1>10 DEF LedDark
<1>12. LedGoesOn'
  <2>1. ASSUME NEW d \in Led!Contexts, LedWorks(d) PROVE LedWorks(d)'
    BY <1>2, <1>6, <2>1 DEF LedWorks, LedOthers
  <2> QED BY <1>1, <1>6, <2>1 DEF LedGoesOn
<1> QED BY <1>5, <1>8, <1>9, <1>11, <1>12

(* The steps that change neither list nor mutex: what is to be shown of    *)
(* them.                                                                   *)
LEMMA LedKeeps ==
  ASSUME LedInv, LedTyped', UNCHANGED <<active, mutex>>,
         races \subseteq races',
         "late" \notin races' => Led!Incomplete' = Led!Incomplete,
         Led!Switching' => Led!Switching,
         "late" \notin races' /\ active = Led!None =>
           (lit' => direct') \/ ((lit' => lit) /\ (direct => direct')),
         races' = {} /\ Led!First(Led!Incomplete) # Led!None
           /\ (armed \/ \E d \in Led!Contexts : LedWorks(d))
           => armed' \/ \E d \in Led!Contexts : LedWorks(d)'
  PROVE  LedInv'
<1> USE DEF LedInv
<1>1. LedClears' BY DEF LedClears
<1>2. Led!HighestPriority' BY DEF Led!HighestPriority
<1>3. LedDark' BY DEF LedDark
<1>4. LedGoesOn' BY DEF LedGoesOn
<1> QED BY <1>1, <1>2, <1>3, <1>4

LEMMA LedStay ==
  ASSUME LedTyped
  PROVE  /\ step \in [Blinks -> Nat] /\ races \subseteq Led!Races
         /\ \A b \in Blinks : step[b] \in 0..Len(Steps[b]) + 1
         /\ active \in Blinks \cup {Led!None}
         /\ lit \in BOOLEAN /\ armed \in BOOLEAN /\ direct \in BOOLEAN
         /\ at \in [Led!Contexts -> Led!Places]
         /\ on \in [Led!Contexts -> Blinks \cup {Led!None}]
         /\ seen \in [Led!Contexts -> Nat]
         /\ mutex \in Led!Contexts \cup {Nobody}
BY DEF LedTyped, Led!TypeOK, Led!Stop

(* Whoever is outside a switch and stays so.                               *)
LEMMA LedOutside ==
  ASSUME LedTyped', NEW c \in Led!Contexts, LedOthers(c),
         at'[c] \notin Led!Switches, Led!Switching'
  PROVE  Led!Switching
<1>1. PICK d \in Led!Contexts : at'[d] \in Led!Switches
  BY DEF Led!Switching
<1> QED BY <1>1 DEF LedOthers, Led!Switching

LEMMA LedCheck ==
  ASSUME LedInv, NEW c \in Led!Contexts, Led!Check(c) \/ Led!Test(c)
  PROVE  LedInv'
<1> USE DEF LedInv
<1>1. /\ at[c] \in {"check", "run"}
      /\ Led!Note("blind", active = Led!None /\ Led!Switching)
      /\ UNCHANGED <<step, active, mutex, lit, armed, direct>>
      /\ \/ /\ at[c] = "check"
            /\ Led!Leave(c, IF active = on[c] THEN "run" ELSE "idle")
         \/ /\ at[c] = "run"
            /\ Led!Goto(c, IF active = Led!None THEN "idle" ELSE "pick")
            /\ UNCHANGED <<on, seen>>
  BY DEF Led!Check, Led!Test
<1>2. /\ at' \in [Led!Contexts -> Led!Places]
      /\ on' \in [Led!Contexts -> Blinks \cup {Led!None}]
      /\ seen' \in [Led!Contexts -> Nat] /\ LedOthers(c)
      /\ at'[c] \in {"idle", "run", "pick"}
      /\ at'[c] = "idle" => \/ at[c] = "check" /\ active # on[c]
                            \/ at[c] = "run" /\ active = Led!None
  <2>1. {"idle", "pick"} \subseteq Led!Places BY DEF Led!Places
  <2>2. CASE at[c] = "check"
    <3> DEFINE p == IF active = on[c] THEN "run" ELSE "idle"
    <3>1. Led!Leave(c, p) BY <1>1, <2>2
    <3>2. p \in {"idle", "run"} /\ (p = "idle" => active # on[c]) OBVIOUS
    <3> HIDE DEF p
    <3> QED BY <2>2, <3>1, <3>2, LedLeaves
  <2>3. CASE at[c] = "run"
    <3> DEFINE p == IF active = Led!None THEN "idle" ELSE "pick"
    <3>1. Led!Goto(c, p) /\ UNCHANGED <<on, seen>> BY <1>1, <2>3
    <3>2. p \in {"idle", "pick"} /\ (p = "idle" => active = Led!None)
      OBVIOUS
    <3> HIDE DEF p
    <3> QED BY <2>1, <2>3, <3>1, <3>2, LedGoes, LedStay DEF LedOthers
  <2> QED BY <1>1, <2>2, <2>3
<1>3. /\ races' \subseteq Led!Races /\ races \subseteq races'
      /\ "blind" \notin races' => ~(active = Led!None /\ Led!Switching)
  <2>1. "blind" \in Led!Races BY DEF Led!Races
  <2> QED BY <1>1, <2>1, LedNotes
<1>4. LedTyped'
  <2>1. at'[c] \notin Led!Switches /\ at'[c] # "wild" /\ at[c] # "wild"
        /\ at'[c] \notin {"store", "body"} /\ at[c] \notin Led!Switches
    BY <1>1, <1>2 DEF Led!Switches
  <2> QED BY <1>1, <1>2, <1>3, <2>1, LedTypes, LedStay
<1>5. Led!Incomplete' = Led!Incomplete BY <1>1 DEF Led!Incomplete
<1>6. Led!Switching' => Led!Switching
  <2>1. at'[c] \notin Led!Switches BY <1>2 DEF Led!Switches
  <2> QED BY <1>2, <1>4, <2>1, LedOutside
<1>7. ASSUME races' = {}, Led!First(Led!Incomplete) # Led!None,
             NEW d \in Led!Contexts, LedWorks(d)
      PROVE  LedWorks(d)'
  <2>1. CASE d # c BY <1>2, <1>5, <1>7, <2>1 DEF LedOthers, LedWorks
  <2>2. CASE d = c
    <3>1. CASE at'[c] # "idle" BY <1>2, <2>2, <3>1 DEF LedWorks
    <3>2. CASE at'[c] = "idle"
      <4>1. ~(active = Led!None /\ Led!Switching) BY <1>3, <1>7
      <4>2. ~Led!Switching BY <4>1 DEF LedClears
      <4>3. mutex = Nobody
        <5>1. at[c] # "wild" BY <1>1
        <5> QED BY <4>2, <5>1, LedSwitching
      <4>4. active = Led!First(Led!Incomplete)
        BY <1>3, <1>7, <4>3, LedNoSwitch
      <4> QED BY <1>2, <1>7, <2>2, <3>2, <4>4 DEF LedWorks
    <3> QED BY <3>1, <3>2
  <2> QED BY <2>1, <2>2
<1> QED BY <1>1, <1>3, <1>4, <1>5, <1>6, <1>7, LedKeeps

LEMMA LedSetLevel ==
  ASSUME LedInv, NEW c \in LedTasks, NEW level \in BOOLEAN,
         Led!SetLevel(c, level)
  PROVE  LedInv'
<1> USE DEF LedInv
<1>1. /\ at[c] = "idle" /\ lit' = level /\ direct' = TRUE
      /\ UNCHANGED <<step, active, mutex, armed, at, on, seen, races>>
  BY DEF Led!SetLevel, Led!run
<1>2. LedTyped' BY <1>1 DEF LedTyped, Led!TypeOK
<1>3. Led!Incomplete' = Led!Incomplete BY <1>1 DEF Led!Incomplete
<1>4. Led!Switching' => Led!Switching BY <1>1 DEF Led!Switching
<1>5. \A d \in Led!Contexts : LedWorks(d) => LedWorks(d)'
  BY <1>1, <1>3 DEF LedWorks
<1> QED BY <1>1, <1>2, <1>3, <1>4, <1>5, LedKeeps

LEMMA LedExpire == ASSUME LedInv, Led!Expire PROVE LedInv'
<1> USE DEF LedInv
<1>1. /\ at[Timer] = "idle" /\ armed' = FALSE /\ Led!Goto(Timer, "run")
      /\ UNCHANGED <<step, active, mutex, lit, on, seen, direct, races>>
  BY DEF Led!Expire
<1>2. /\ Timer \in Led!Contexts /\ "run" \in Led!Places
  BY DEF Led!Contexts, Led!Places
<1>3. /\ at' \in [Led!Contexts -> Led!Places] /\ at'[Timer] = "run"
      /\ LedOthers(Timer)
  BY <1>1, <1>2, LedGoes DEF LedOthers
<1>4. LedTyped'
  <2>1. at'[Timer] \notin Led!Switches /\ at'[Timer] # "wild"
        /\ at'[Timer] \notin {"store", "body"}
        /\ at[Timer] \notin Led!Switches /\ at[Timer] # "wild"
    BY <1>1, <1>3 DEF Led!Switches
  <2>2. /\ step' \in [Blinks -> Nat] /\ races' \subseteq Led!Races
        /\ \A b \in Blinks : step'[b] \in 0..Len(Steps[b]) + 1
        /\ lit' \in BOOLEAN /\ armed' \in BOOLEAN /\ direct' \in BOOLEAN
        /\ active' \in Blinks \cup {Led!None}
        /\ on' \in [Led!Contexts -> Blinks \cup {Led!None}]
        /\ seen' \in [Led!Contexts -> Nat]
    BY <1>1, LedStay
  <2> QED BY <1>1, <1>2, <1>3, <2>1, <2>2, LedTypes
<1>5. Led!Incomplete' = Led!Incomplete BY <1>1 DEF Led!Incomplete
<1>6. Led!Switching' => Led!Switching
  BY <1>2, <1>3, <1>4, LedOutside DEF Led!Switches
<1>7. LedWorks(Timer)' BY <1>3 DEF LedWorks
<1> QED BY <1>1, <1>2, <1>4, <1>5, <1>6, <1>7, LedKeeps

(* The runner loads a step that exists, or nobody is left.                 *)
LEMMA LedPick ==
  ASSUME LedInv, NEW c \in Led!Contexts, Led!Pick(c) PROVE LedInv'
<1> USE DEF LedInv
<1>1. /\ at[c] = "pick" /\ Led!Goto(c, "store")
      /\ active \in Blinks /\ step[active] \in DOMAIN Steps[active]
      /\ on' = [on EXCEPT ![c] = active]
      /\ seen' = [seen EXCEPT ![c] = step[active]]
      /\ UNCHANGED <<step, active, mutex, lit, armed, direct, races>>
  BY DEF Led!Pick, Led!Valid
<1>2. "store" \in Led!Places BY DEF Led!Places
<1>3. /\ at' \in [Led!Contexts -> Led!Places] /\ at'[c] = "store"
      /\ \A d \in Led!Contexts : d # c => at'[d] = at[d]
  BY <1>1, <1>2, LedGoes
<1>4. /\ on' \in [Led!Contexts -> Blinks \cup {Led!None}]
      /\ seen' \in [Led!Contexts -> Nat]
      /\ on'[c] = active /\ seen'[c] = step[active]
      /\ LedOthers(c)
  BY <1>1, <1>3, LedStay DEF LedOthers
<1>5. LedTyped'
  <2>1. at'[c] \notin Led!Switches /\ at'[c] # "wild" /\ at[c] # "wild"
        /\ at[c] \notin Led!Switches
    BY <1>1, <1>3 DEF Led!Switches
  <2>2. /\ step' \in [Blinks -> Nat] /\ races' \subseteq Led!Races
        /\ \A b \in Blinks : step'[b] \in 0..Len(Steps[b]) + 1
        /\ lit' \in BOOLEAN /\ armed' \in BOOLEAN /\ direct' \in BOOLEAN
        /\ active' \in Blinks \cup {Led!None}
    BY <1>1, LedStay
  <2>3. on'[c] \in Blinks /\ seen'[c] \in DOMAIN Steps[on'[c]]
    BY <1>1, <1>4
  <2> QED BY <1>1, <1>3, <1>4, <2>1, <2>2, <2>3, LedTypes
<1>6. Led!Incomplete' = Led!Incomplete BY <1>1 DEF Led!Incomplete
<1>7. Led!Switching' => Led!Switching
  BY <1>3, <1>4, <1>5, LedOutside DEF Led!Switches
<1>8. LedWorks(c)' BY <1>3 DEF LedWorks
<1> QED BY <1>1, <1>5, <1>6, <1>7, <1>8, LedKeeps

LEMMA LedPickWild ==
  ASSUME LedInv, NEW c \in Led!Contexts, Led!PickWild(c) PROVE LedInv'
<1> USE DEF LedInv
<1>1. /\ at' = [other \in Led!Contexts |-> "wild"]
      /\ UNCHANGED <<step, active, mutex, lit, armed, on, seen, direct,
                     races>>
  BY DEF Led!PickWild
<1>2. LedTyped'
  <2>1. \A d \in Led!Contexts : at'[d] = "wild" BY <1>1
  <2>2. at' \in [Led!Contexts -> Led!Places] BY <1>1 DEF Led!Places
  <2> QED BY <1>1, <2>1, <2>2 DEF LedTyped, Led!TypeOK
<1>3. Led!Incomplete' = Led!Incomplete BY <1>1 DEF Led!Incomplete
<1>4. Led!Switching' => Led!Switching
  BY <1>1 DEF Led!Switching, Led!Switches
<1>5. LedWorks(c)' BY <1>1 DEF LedWorks
<1> QED BY <1>1, <1>2, <1>3, <1>4, <1>5, LedKeeps

(* The step after it is stored: the list stays incomplete.                 *)
LEMMA LedStore ==
  ASSUME LedInv, NEW c \in Led!Contexts, Led!Store(c) PROVE LedInv'
<1> USE DEF LedInv
<1>1. /\ at[c] = "store" /\ Led!Goto(c, "body")
      /\ step' = [step EXCEPT ![on[c]] = seen[c] + 1]
      /\ Led!Note("late", active # on[c] \/ step[on[c]] # seen[c])
      /\ UNCHANGED <<active, mutex, lit, armed, on, seen, direct>>
  BY DEF Led!Store
<1>2. "body" \in Led!Places /\ "late" \in Led!Races
  BY DEF Led!Places, Led!Races
<1>3. /\ at' \in [Led!Contexts -> Led!Places] /\ at'[c] = "body"
      /\ LedOthers(c)
  BY <1>1, <1>2, LedGoes DEF LedOthers
<1>4. on[c] \in Blinks /\ seen[c] \in DOMAIN Steps[on[c]]
  BY <1>1 DEF LedTyped, Led!TypeOK
<1>5. PICK b \in Blinks : b = on[c] BY <1>4
<1>6. seen[c] \in 1..Len(Steps[b]) BY <1>4, <1>5, LedAssumed
<1>7. PICK n \in Nat : n = seen[c] + 1 /\ n > 0 /\ n <= Len(Steps[b]) + 1
  BY <1>6, LedAssumed
<1>8. step' = [step EXCEPT ![b] = n] BY <1>1, <1>5, <1>7
<1>9. /\ step' \in [Blinks -> Nat] /\ step'[b] = n
      /\ \A o \in Blinks : o # b => step'[o] = step[o]
  BY <1>8, LedStay
<1>10. \A o \in Blinks : step'[o] \in 0..Len(Steps[o]) + 1
  BY SMTT(30), <1>7, <1>9, LedStay, LedAssumed
<1>11. /\ races' \subseteq Led!Races /\ races \subseteq races'
       /\ "late" \notin races' => ~(active # b \/ step[b] # seen[c])
  BY <1>1, <1>2, <1>5, LedNotes
<1>12. LedTyped'
  <2>1. at'[c] \notin Led!Switches /\ at'[c] # "wild" /\ at[c] # "wild"
        /\ at[c] \notin Led!Switches
    BY <1>1, <1>3 DEF Led!Switches
  <2>2. /\ on' \in [Led!Contexts -> Blinks \cup {Led!None}]
        /\ seen' \in [Led!Contexts -> Nat]
        /\ lit' \in BOOLEAN /\ armed' \in BOOLEAN /\ direct' \in BOOLEAN
        /\ active' \in Blinks \cup {Led!None}
    BY <1>1, LedStay
  <2>3. on'[c] \in Blinks /\ seen'[c] \in DOMAIN Steps[on'[c]]
    BY <1>1, <1>4
  <2>4. mutex' = mutex BY <1>1
  <2> QED BY <1>3, <1>9, <1>10, <1>11, <2>1, <2>2, <2>3, <2>4, LedTypes
<1>13. ASSUME "late" \notin races' PROVE Led!Incomplete' = Led!Incomplete
  <2>1. step[b] # 0 BY <1>11, <1>13, <1>6, LedAssumed
  <2>2. step'[b] # 0 BY <1>7, <1>9
  <2> QED BY <1>9, <2>1, <2>2 DEF Led!Incomplete, Led!Stop
<1>14. Led!Switching' => Led!Switching
  BY <1>3, <1>12, LedOutside DEF Led!Switches
<1>15. LedWorks(c)' BY <1>3 DEF LedWorks
<1> QED BY <1>1, <1>11, <1>12, <1>13, <1>14, <1>15, LedKeeps

(* With the mutex: the list and the step that were loaded.                 *)
LEMMA LedReady ==
  ASSUME LedInv, NEW c \in Led!Contexts, Led!Ready(c)
  PROVE  /\ at[c] = "body" /\ mutex = Nobody /\ on[c] \in Blinks
         /\ races' \subseteq Led!Races /\ races \subseteq races'
         /\ "late" \notin races' =>
              /\ active = on[c] /\ step[on[c]] = seen[c] + 1
              /\ step[on[c]] # 0
<1> USE DEF LedInv
<1>1. /\ at[c] = "body" /\ mutex = Nobody /\ "late" \in Led!Races
      /\ Led!Note("late", active # on[c] \/ step[on[c]] # seen[c] + 1)
  BY DEF Led!Ready, Led!Races
<1>2. on[c] \in Blinks BY <1>1 DEF LedTyped, Led!TypeOK
<1>3. seen[c] \in Nat BY LedStay
<1>4. ~(active # on[c] \/ step[on[c]] # seen[c] + 1) =>
        active = on[c] /\ step[on[c]] = seen[c] + 1 /\ step[on[c]] # 0
  BY <1>3
<1>5. /\ races' \subseteq Led!Races /\ races \subseteq races'
      /\ "late" \notin races' =>
           ~(active # on[c] \/ step[on[c]] # seen[c] + 1)
  BY <1>1, LedNotes
<1> QED BY <1>1, <1>2, <1>4, <1>5

LEMMA LedHold ==
  ASSUME LedInv, NEW c \in Led!Contexts, Led!Hold(c) PROVE LedInv'
<1> USE DEF LedInv
<1>1. /\ Led!Ready(c) /\ armed' = TRUE /\ Led!Leave(c, "idle")
      /\ lit' = (Led!Type(c) = "on") /\ direct' = FALSE
      /\ UNCHANGED <<step, active, mutex>>
  BY DEF Led!Hold
<1>2. lit' \in BOOLEAN BY <1>1
<1>3. /\ at[c] = "body" /\ mutex = Nobody /\ on[c] \in Blinks
      /\ races' \subseteq Led!Races /\ races \subseteq races'
      /\ "late" \notin races' => active = on[c]
  BY <1>1, LedReady
<1>4. /\ at' \in [Led!Contexts -> Led!Places] /\ at'[c] = "idle"
      /\ on' \in [Led!Contexts -> Blinks \cup {Led!None}]
      /\ seen' \in [Led!Contexts -> Nat] /\ LedOthers(c)
  BY <1>1, LedLeaves
<1>5. LedTyped'
  <2>1. at'[c] \notin Led!Switches /\ at'[c] # "wild" /\ at[c] # "wild"
        /\ at'[c] \notin {"store", "body"} /\ at[c] \notin Led!Switches
    BY <1>3, <1>4 DEF Led!Switches
  <2>2. /\ step' \in [Blinks -> Nat] /\ mutex' = mutex
        /\ \A b \in Blinks : step'[b] \in 0..Len(Steps[b]) + 1
        /\ armed' \in BOOLEAN /\ direct' \in BOOLEAN
        /\ active' \in Blinks \cup {Led!None}
    BY <1>1, LedStay
  <2> QED BY <1>2, <1>3, <1>4, <2>1, <2>2, LedTypes
<1>6. Led!Incomplete' = Led!Incomplete BY <1>1 DEF Led!Incomplete
<1>7. Led!Switching' => Led!Switching
  BY <1>4, <1>5, LedOutside DEF Led!Switches
<1>8. "late" \notin races' => active # Led!None BY <1>3, LedAssumed
<1> QED BY <1>1, <1>3, <1>5, <1>6, <1>7, <1>8, LedKeeps

LEMMA LedLoop ==
  ASSUME LedInv, NEW c \in Led!Contexts, Led!Loop(c) PROVE LedInv'
<1> USE DEF LedInv
<1>1. /\ Led!Ready(c) /\ Led!Leave(c, "run")
      /\ step' = [step EXCEPT ![on[c]] = 1]
      /\ UNCHANGED <<active, mutex, lit, armed, direct>>
  BY DEF Led!Loop
<1>2. /\ at[c] = "body" /\ mutex = Nobody /\ on[c] \in Blinks
      /\ races' \subseteq Led!Races /\ races \subseteq races'
      /\ "late" \notin races' => step[on[c]] # 0
  BY <1>1, LedReady
<1>3. /\ at' \in [Led!Contexts -> Led!Places] /\ at'[c] = "run"
      /\ on' \in [Led!Contexts -> Blinks \cup {Led!None}]
      /\ seen' \in [Led!Contexts -> Nat] /\ LedOthers(c)
  BY <1>1, LedLeaves
<1>4. PICK b \in Blinks : b = on[c] BY <1>2
<1>5. /\ step' \in [Blinks -> Nat] /\ step'[b] = 1
      /\ \A o \in Blinks : o # b => step'[o] = step[o]
  BY <1>1, <1>4, LedStay
<1>6. ASSUME NEW o \in Blinks PROVE step'[o] \in 0..Len(Steps[o]) + 1
  <2>1. Len(Steps[o]) \in Nat BY LedAssumed
  <2>2. step[o] \in 0..Len(Steps[o]) + 1 BY LedStay
  <2>3. CASE o = b BY <1>5, <2>1, <2>3
  <2>4. CASE o # b BY <1>5, <2>2, <2>4
  <2> QED BY <2>3, <2>4
<1>7. LedTyped'
  <2>1. at'[c] \notin Led!Switches /\ at'[c] # "wild" /\ at[c] # "wild"
        /\ at'[c] \notin {"store", "body"} /\ at[c] \notin Led!Switches
    BY <1>2, <1>3 DEF Led!Switches
  <2>2. /\ lit' \in BOOLEAN /\ mutex' = mutex
        /\ armed' \in BOOLEAN /\ direct' \in BOOLEAN
        /\ active' \in Blinks \cup {Led!None}
    BY <1>1, LedStay
  <2> QED BY <1>2, <1>3, <1>5, <1>6, <2>1, <2>2, LedTypes
<1>8. "late" \notin races' => Led!Incomplete' = Led!Incomplete
  BY <1>2, <1>4, <1>5 DEF Led!Incomplete, Led!Stop
<1>9. Led!Switching' => Led!Switching
  BY <1>3, <1>7, LedOutside DEF Led!Switches
<1>10. LedWorks(c)' BY <1>3 DEF LedWorks
<1> QED BY <1>1, <1>2, <1>7, <1>8, <1>9, <1>10, LedKeeps

LEMMA LedEnd ==
  ASSUME LedInv, NEW c \in Led!Contexts, Led!End(c) PROVE LedInv'
<1> USE DEF LedInv
<1>1. /\ Led!Ready(c) /\ step' = [step EXCEPT ![on[c]] = 0]
      /\ mutex' = c /\ active' = Led!None /\ lit' = FALSE
      /\ direct' = FALSE /\ Led!Goto(c, "ending")
      /\ UNCHANGED <<armed, on, seen>>
  BY DEF Led!End, Led!Clear, Led!Stop
<1>2. /\ at[c] = "body" /\ mutex = Nobody /\ on[c] \in Blinks
      /\ races' \subseteq Led!Races
  BY <1>1, LedReady
<1>3. /\ at' \in [Led!Contexts -> Led!Places] /\ at'[c] = "ending"
      /\ LedOthers(c)
  <2>1. "ending" \in Led!Places BY DEF Led!Places
  <2> QED BY <1>1, <2>1, LedGoes DEF LedOthers
<1>4. /\ step' \in [Blinks -> Nat]
      /\ \A o \in Blinks : step'[o] \in 0..Len(Steps[o]) + 1
  <2>1. PICK b \in Blinks : b = on[c] BY <1>2
  <2>2. /\ step' \in [Blinks -> Nat] /\ step'[b] = 0
        /\ \A o \in Blinks : o # b => step'[o] = step[o]
    BY <1>1, <2>1, LedStay
  <2> QED BY <2>2, LedStay, LedAssumed
<1>5. LedTyped'
  <2>1. at'[c] \in Led!Switches /\ at'[c] # "wild" /\ at[c] # "wild"
        /\ at'[c] \notin {"store", "body"}
    BY <1>2, <1>3 DEF Led!Switches
  <2>2. /\ lit' \in BOOLEAN /\ armed' \in BOOLEAN /\ direct' \in BOOLEAN
        /\ active' \in Blinks \cup {Led!None}
        /\ on' \in [Led!Contexts -> Blinks \cup {Led!None}]
        /\ seen' \in [Led!Contexts -> Nat]
    BY <1>1, LedStay
  <2> QED BY <1>1, <1>2, <1>3, <1>4, <2>1, <2>2, LedTypes
<1>6. LedClears' BY <1>1 DEF LedClears
<1>7. Led!HighestPriority'
  <2>1. mutex' # Nobody BY <1>1, LedAssumed
  <2> QED BY <2>1 DEF Led!HighestPriority
<1>8. LedDark' BY <1>1 DEF LedDark
<1>9. LedWorks(c)' BY <1>3 DEF LedWorks
<1>10. LedGoesOn' BY <1>9 DEF LedGoesOn
<1> QED BY <1>5, <1>6, <1>7, <1>8, <1>10

LEMMA LedGiveUp ==
  ASSUME LedInv, NEW c \in Led!Contexts, Led!GiveUp(c) PROVE LedInv'
<1> USE DEF LedInv
<1>1. /\ at[c] = "body" /\ armed' = TRUE /\ Led!Leave(c, "idle")
      /\ UNCHANGED <<step, active, mutex, lit, direct, races>>
  BY DEF Led!GiveUp
<1>2. /\ at' \in [Led!Contexts -> Led!Places] /\ at'[c] = "idle"
      /\ on' \in [Led!Contexts -> Blinks \cup {Led!None}]
      /\ seen' \in [Led!Contexts -> Nat] /\ LedOthers(c)
  BY <1>1, LedLeaves
<1>3. LedTyped'
  <2>1. at'[c] \notin Led!Switches /\ at'[c] # "wild" /\ at[c] # "wild"
        /\ at'[c] \notin {"store", "body"} /\ at[c] \notin Led!Switches
    BY <1>1, <1>2 DEF Led!Switches
  <2>2. /\ step' \in [Blinks -> Nat] /\ races' \subseteq Led!Races
        /\ \A b \in Blinks : step'[b] \in 0..Len(Steps[b]) + 1
        /\ lit' \in BOOLEAN /\ armed' \in BOOLEAN /\ direct' \in BOOLEAN
        /\ active' \in Blinks \cup {Led!None} /\ mutex' = mutex
    BY <1>1, LedStay
  <2> QED BY <1>2, <2>1, <2>2, LedTypes
<1>4. Led!Incomplete' = Led!Incomplete BY <1>1 DEF Led!Incomplete
<1>5. Led!Switching' => Led!Switching
  BY <1>2, <1>3, LedOutside DEF Led!Switches
<1> QED BY <1>1, <1>3, <1>4, <1>5, LedKeeps

LEMMA LedIdle == ASSUME LedInv, UNCHANGED led PROVE LedInv'
<1>1. UNCHANGED <<step, active, mutex, lit, armed, at, on, seen, direct,
                  races>>
  BY DEF led
<1>2. LedTyped' BY <1>1 DEF LedInv, LedTyped, Led!TypeOK
<1>3. Led!Incomplete' = Led!Incomplete BY <1>1 DEF Led!Incomplete
<1>4. LedClears' BY <1>1 DEF LedInv, LedClears, Led!Switching
<1>5. Led!HighestPriority' BY <1>1, <1>3 DEF LedInv, Led!HighestPriority
<1>6. LedGoesOn' BY <1>1, <1>3 DEF LedInv, LedGoesOn, LedWorks
<1>7. LedDark' BY <1>1 DEF LedInv, LedDark
<1> QED BY <1>2, <1>4, <1>5, <1>6, <1>7 DEF LedInv

LEMMA LedNext == ASSUME LedInv, Led!Next PROVE LedInv'
<1>1. CASE Led!Expire BY <1>1, LedExpire
<1>2. ASSUME NEW c \in LedTasks, Led!Caller(c) PROVE LedInv'
  <2>1. c \in Led!Contexts BY DEF Led!Contexts
  <2>2. CASE \E b \in Blinks : Led!Start(c, b) \/ Led!StopBlink(c, b)
    BY <2>1, <2>2, LedStartStop
  <2>3. CASE \E level \in BOOLEAN : Led!SetLevel(c, level)
    BY <2>3, LedSetLevel
  <2>4. CASE Led!Check(c) BY <2>1, <2>4, LedCheck
  <2> QED BY <1>2, <2>2, <2>3, <2>4 DEF Led!Caller
<1>3. ASSUME NEW c \in Led!Contexts, Led!Switch(c) PROVE LedInv'
  BY <1>3, LedSwitch
<1>4. ASSUME NEW c \in Led!Contexts, Led!Runner(c) PROVE LedInv'
  <2>1. CASE Led!Test(c) BY <2>1, LedCheck
  <2>2. CASE Led!Pick(c) BY <2>2, LedPick
  <2>3. CASE Led!PickWild(c) BY <2>3, LedPickWild
  <2>4. CASE Led!Store(c) BY <2>4, LedStore
  <2>5. CASE Led!Hold(c) BY <2>5, LedHold
  <2>6. CASE Led!Loop(c) BY <2>6, LedLoop
  <2>7. CASE Led!End(c) BY <2>7, LedEnd
  <2>8. CASE Led!GiveUp(c) BY <2>8, LedGiveUp
  <2> QED BY <1>4, <2>1, <2>2, <2>3, <2>4, <2>5, <2>6, <2>7, <2>8
    DEF Led!Runner
<1> QED BY <1>1, <1>2, <1>3, <1>4 DEF Led!Next

LEMMA LedInvariant == Spec => []LedInv
<1>1. LedInv /\ [Next]_vars => LedInv'
  BY LedMoves, LedNext, LedIdle
<1> QED BY LedStart, <1>1, PTL DEF Spec

(* When nobody is at work nobody holds the mutex, so the active list is    *)
(* the first incomplete one; nobody is about to run it, so the timer is.   *)
LEMMA LedShows == LedInv => LedShowsActive
<1> SUFFICES ASSUME LedInv PROVE LedShowsActive OBVIOUS
<1>1. ASSUME Led!Quiet PROVE mutex = Nobody
  <2>1. Timer \in Led!Contexts BY DEF Led!Contexts
  <2>2. at[Timer] # "wild" BY <1>1, <2>1 DEF Led!Quiet
  <2>3. ~Led!Switching
    BY <1>1 DEF Led!Quiet, Led!Switching, Led!Switches
  <2> QED BY <2>1, <2>2, <2>3, LedSwitching
<1>2. Led!BlinkGoesOn
  <2>1. SUFFICES ASSUME Led!Quiet, races = {}, active # Led!None
                 PROVE  armed
    BY DEF Led!BlinkGoesOn
  <2>2. active = Led!First(Led!Incomplete)
    BY <1>1, <2>1, LedNoSwitch
  <2>3. \A c \in Led!Contexts : ~LedWorks(c)
    BY <2>1 DEF Led!Quiet, LedWorks
  <2> QED BY <2>1, <2>2, <2>3 DEF LedInv, LedGoesOn
<1>3. Led!HighestPriority BY DEF LedInv
<1>4. Led!StoppedIsDark BY DEF LedInv, LedDark, Led!StoppedIsDark
<1> QED BY <1>2, <1>3, <1>4 DEF LedShowsActive, Led!LedShowsActive

(* The active list is the first incomplete one, it goes on, and a stopped  *)
(* LED is dark, unless an unlocked read met a switch in progress:          *)
(* led_indicator.c's runner and _blink_list_switch.                        *)
THEOREM LedShowsActiveCorrect == Spec => []LedShowsActive
BY LedInvariant, LedShows, PTL

-----------------------------------------------------------------------------
(* The firmware update.  Every task that has begun writes to the slot      *)
(* after the running one; one that is at its end has written all blocks;   *)
(* and while no two contend, what a task has written is there.             *)
OtaBusy(t) == phase[t] \in {"begun", "reading", "ended", "verified", "booted"}

OtaTargets ==
  \A t \in OtaTasks :
    /\ phase[t] # "none" => t \in created
    /\ OtaBusy(t) => /\ handle[t].slot = Update!NextSlot(running)
                     /\ handle[t].image \in Urls

OtaProgress ==
  /\ request \in Requests
  /\ \A t \in OtaTasks :
       /\ handle[t].read <= handle[t].written
       /\ phase[t] = "begun" => handle[t].written = 0
       /\ phase[t] \in {"ended", "verified", "booted"} =>
            handle[t].written = Blocks

OtaWhole == Update!Whole(0, Factory) /\ Update!Valid(running)

OtaAlone ==
  "contended" \notin spoilt =>
    \A t \in OtaTasks : Update!Writing(t) =>
      /\ \A s \in OtaTasks : Update!Writing(s) => s = t
      /\ \A b \in 1..handle[t].written :
           flash[handle[t].slot][b] = handle[t].image

OtaChosen ==
  spoilt = {} =>
    \A t \in OtaTasks : phase[t] = "booted" => boot = handle[t].slot

OtaInv == /\ Update!TypeOK /\ OtaTargets /\ OtaProgress /\ OtaWhole
          /\ OtaAlone /\ OtaChosen /\ UpdateTakesEffect

LEMMA OtaMoves == ASSUME [Next]_vars PROVE Update!Next \/ UNCHANGED update
BY DEF Next, LedStep, UpdateStep, HistoryStep, LogStep, StartUpStep,
   GatewayStep, UsbLifeStep, FramesStep, CameraStep, UsbDevStep, DfuStep,
   NetStep, AcmStep, Rest, DeviceRest, gatewaySide, vars

LEMMA OtaAssumed ==
  /\ Blocks \in Nat \ {0} /\ Requests \subseteq Nat
  /\ Factory \notin Urls /\ Nothing \notin Urls \cup {Factory}
BY ServicesAssumption DEF Update!OtaAssumption

LEMMA OtaStart == ASSUME Init PROVE OtaInv
<1> USE OtaAssumed DEF Update!Slots, Update!Images, Update!NoHandle
<1>1. Update!Init BY DEF Init
<1>2. Update!TypeOK
  <2>1. Update!NoHandle \in [image : Update!Images, slot : Update!Slots,
                             read : 0..Blocks, written : 0..Blocks]
    OBVIOUS
  <2> HIDE DEF Update!NoHandle
  <2>2. handle \in [OtaTasks ->
                      [image : Update!Images, slot : Update!Slots,
                       read : 0..Blocks, written : 0..Blocks]]
    BY <1>1, <2>1 DEF Update!Init
  <2>3. flash \in [Update!Slots ->
                     [1..Blocks -> Update!Images \cup {Nothing}]]
    BY <1>1 DEF Update!Init
  <2> QED BY <1>1, <2>2, <2>3
    DEF Update!Init, Update!TypeOK, Update!Phases, Update!Mishaps
<1>3. OtaTargets BY <1>1 DEF Update!Init, OtaTargets, OtaBusy
<1>4. OtaProgress BY <1>1 DEF Update!Init, OtaProgress
<1>5. OtaWhole
  BY <1>1 DEF Update!Init, OtaWhole, Update!Whole, Update!Valid
<1>6. OtaAlone BY <1>1 DEF Update!Init, OtaAlone, Update!Writing
<1>7. OtaChosen BY <1>1 DEF Update!Init, OtaChosen
<1>8. UpdateTakesEffect
  BY <1>1 DEF Update!Init, UpdateTakesEffect, Update!UpdateTakesEffect
<1> QED BY <1>2, <1>3, <1>4, <1>5, <1>6, <1>7, <1>8 DEF OtaInv

(* The bootloader finds an image, and it finds the one that was chosen     *)
(* when that is whole.                                                     *)
LEMMA OtaBoots ==
  ASSUME Update!TypeOK, Update!Whole(0, Factory), Update!Reboot
  PROVE  /\ running' \in 0..boot /\ Update!Valid(running')
         /\ Update!Valid(boot) => running' = boot
<1> DEFINE Found(s) == /\ Update!Valid(s)
                       /\ \A above \in s + 1..boot : ~Update!Valid(above)
<1>1. boot \in 0..2 BY DEF Update!TypeOK, Update!Slots
<1>2. Update!Valid(0) BY DEF Update!Valid, Update!Images
<1>3. running' = CHOOSE s \in 0..boot : Found(s) BY DEF Update!Reboot
<1> HIDE DEF Update!Valid
<1>4. \E s \in 0..boot : Found(s)
  <2>1. CASE Update!Valid(boot) BY <1>1, <2>1
  <2>2. CASE ~Update!Valid(boot) /\ boot = 1 BY <1>2, <2>2
  <2>3. CASE ~Update!Valid(2) /\ boot = 2 /\ Update!Valid(1) BY <2>3
  <2>4. CASE ~Update!Valid(2) /\ boot = 2 /\ ~Update!Valid(1)
    BY <1>2, <2>4
  <2> QED BY <1>1, <1>2, <2>1, <2>2, <2>3, <2>4
<1>5. running' \in 0..boot /\ Found(running') BY <1>3, <1>4
<1>6. Update!Valid(boot) => running' = boot
  <2> SUFFICES ASSUME Update!Valid(boot), running' # boot PROVE FALSE
    OBVIOUS
  <2> DEFINE s == running'
  <2>1. s \in 0..boot /\ s # boot BY <1>5
  <2>2. Found(s) BY <1>5
  <2> HIDE DEF s, Found
  <2>3. boot \in s + 1..boot BY <1>1, <2>1
  <2> QED BY <2>2, <2>3 DEF Found
<1> QED BY <1>5, <1>6

LEMMA OtaReboot ==
  ASSUME OtaInv, Update!Reboot,
         \/ last' = Factory /\ spoilt' = {}
         \/ \E t \in OtaTasks : Update!Restart(t)
  PROVE  OtaInv'
<1> USE OtaAssumed
<1>1. /\ running' \in 0..boot /\ Update!Valid(running')
      /\ Update!Valid(boot) => running' = boot
  BY OtaBoots DEF OtaInv, OtaWhole
<1>2. /\ UNCHANGED <<request, flash, boot>> /\ created' = {}
      /\ phase' = [t \in OtaTasks |-> "none"]
      /\ handle' = [t \in OtaTasks |-> Update!NoHandle]
      /\ url' = Nothing
  BY DEF Update!Reboot
<1>3. Update!TypeOK'
  <2>1. Update!NoHandle \in [image : Update!Images, slot : Update!Slots,
                             read : 0..Blocks, written : 0..Blocks]
    BY DEF Update!NoHandle, Update!Images, Update!Slots
  <2>2. running' \in Update!Slots BY <1>1 DEF OtaInv, Update!TypeOK,
      Update!Slots
  <2>3. last' \in Update!Images /\ spoilt' \subseteq Update!Mishaps
    BY DEF OtaInv, Update!TypeOK, Update!Restart, Update!Images
  <2> QED BY <1>2, <2>1, <2>2, <2>3
    DEF OtaInv, Update!TypeOK, Update!Phases
<1>4. OtaTargets' /\ OtaAlone' /\ OtaChosen'
  BY <1>2 DEF OtaTargets, OtaBusy, OtaAlone, OtaChosen, Update!Writing
<1>5. OtaProgress' BY <1>2 DEF OtaInv, OtaProgress, Update!NoHandle
<1>6. OtaWhole'
  <2>1. Update!Whole(0, Factory)' BY <1>2 DEF OtaInv, OtaWhole, Update!Whole
  <2>2. Update!Valid(running)'
    BY <1>1, <1>2 DEF Update!Valid, Update!Whole
  <2> QED BY <2>1, <2>2 DEF OtaWhole
<1>7. UpdateTakesEffect'
  <2>1. CASE last' = Factory
    BY <2>1 DEF UpdateTakesEffect, Update!UpdateTakesEffect
  <2>2. ASSUME NEW t \in OtaTasks, Update!Restart(t), spoilt' = {}
        PROVE  Update!Whole(running, last)'
    <3>1. phase[t] = "booted" /\ last' = handle[t].image /\ spoilt = {}
      BY <2>2 DEF Update!Restart
    <3>2. boot = handle[t].slot BY <3>1 DEF OtaInv, OtaChosen
    <3>3. \A b \in 1..Blocks : flash[boot][b] = handle[t].image
      BY <3>1, <3>2 DEF OtaInv, OtaAlone, OtaProgress, Update!Writing
    <3>4. handle[t].image \in Update!Images
      BY DEF OtaInv, Update!TypeOK
    <3>5. Update!Valid(boot) BY <3>3, <3>4 DEF Update!Valid, Update!Whole
    <3> QED BY <1>1, <1>2, <3>1, <3>3, <3>5 DEF Update!Whole
  <2> QED BY <2>1, <2>2 DEF UpdateTakesEffect, Update!UpdateTakesEffect
<1> QED BY <1>3, <1>4, <1>5, <1>6, <1>7 DEF OtaInv

LEMMA OtaCommand ==
  ASSUME OtaInv, NEW u \in Urls,
         Update!CopyUrl \/ Update!StartOta(u) \/ Update!StartOtaNoMemory(u)
  PROVE  OtaInv'
<1>1. CASE Update!CopyUrl \/ Update!StartOtaNoMemory(u)
  <2>1. /\ UNCHANGED <<created, phase, handle, request, flash, running, boot,
                       last, spoilt>>
        /\ url' \in Urls \cup {Nothing}
    BY <1>1 DEF Update!CopyUrl, Update!StartOtaNoMemory, Update!tasks
  <2> QED BY <2>1 DEF OtaInv, Update!TypeOK, OtaTargets, OtaBusy,
    OtaProgress, OtaWhole, Update!Whole, Update!Valid, OtaAlone,
    Update!Writing, OtaChosen, UpdateTakesEffect, Update!UpdateTakesEffect
<1>2. CASE Update!StartOta(u)
  <2>1. PICK t \in OtaTasks \ created :
          /\ created' = created \cup {t}
          /\ phase' = [phase EXCEPT ![t] = "new"]
    BY <1>2 DEF Update!StartOta, Update!Goto
  <2>2. /\ UNCHANGED <<handle, request, flash, running, boot>>
        /\ url' = u /\ last' = Factory
        /\ spoilt' = {m \in spoilt : created # {}}
    BY <1>2 DEF Update!StartOta
  <2>3. Update!TypeOK'
    <3>1. spoilt' \subseteq Update!Mishaps
      BY <2>2 DEF OtaInv, Update!TypeOK
    <3> QED BY <2>1, <2>2, <3>1 DEF OtaInv, Update!TypeOK, Update!Images,
          Update!Phases
  <2>4. OtaTargets'
    BY <2>1, <2>2 DEF OtaInv, Update!TypeOK, OtaTargets, OtaBusy
  <2>5. OtaProgress' BY <2>1, <2>2 DEF OtaInv, Update!TypeOK, OtaProgress
  <2>6. OtaWhole'
    BY <2>2 DEF OtaInv, OtaWhole, Update!Whole, Update!Valid
  <2>7. \A s \in OtaTasks : s # t => phase'[s] = phase[s]
    BY <2>1 DEF OtaInv, Update!TypeOK
  <2>8. phase'[t] = "new" BY <2>1 DEF OtaInv, Update!TypeOK
  <2>9. created = {} => \A s \in OtaTasks : phase[s] = "none"
    BY DEF OtaInv, OtaTargets
  <2>10. OtaAlone'
    BY <2>2, <2>7, <2>8, <2>9 DEF OtaInv, OtaAlone, Update!Writing
  <2>11. OtaChosen'
    BY <2>2, <2>7, <2>8, <2>9 DEF OtaInv, OtaChosen
  <2>12. UpdateTakesEffect'
    BY <2>2 DEF UpdateTakesEffect, Update!UpdateTakesEffect
  <2> QED BY <2>3, <2>4, <2>5, <2>6, <2>10, <2>11, <2>12 DEF OtaInv
<1> QED BY <1>1, <1>2

OtaHandles == [image : Update!Images, slot : Update!Slots, read : 0..Blocks,
               written : 0..Blocks]

(* A task goes on, to p and with the handle h, and writes nothing.         *)
LEMMA OtaGoesOn ==
  ASSUME OtaInv, NEW t \in OtaTasks, phase[t] # "none",
         NEW p \in Update!Phases \ {"none"}, NEW h \in OtaHandles,
         phase' = [phase EXCEPT ![t] = p],
         handle' = [handle EXCEPT ![t] = h],
         UNCHANGED <<url, created, request, flash, running, last>>,
         p \in {"begun", "reading", "ended", "verified", "booted"} =>
           h.slot = Update!NextSlot(running) /\ h.image \in Urls,
         h.read <= h.written,
         p = "begun" => h.written = 0,
         p \in {"ended", "verified", "booted"} => h.written = Blocks,
         p \in {"reading", "ended", "verified", "booted"} =>
           /\ Update!Writing(t)
           /\ h.slot = handle[t].slot /\ h.image = handle[t].image
           /\ h.written = handle[t].written,
         boot' \in Update!Slots, spoilt' \subseteq Update!Mishaps,
         spoilt \subseteq spoilt',
         spoilt' = {} => /\ p = "booted" => boot' = h.slot
                         /\ boot' = boot \/ Update!Writing(t)
  PROVE  OtaInv'
<1>1. /\ \A s \in OtaTasks : s # t => /\ phase'[s] = phase[s]
                                      /\ handle'[s] = handle[s]
      /\ phase'[t] = p /\ handle'[t] = h
  BY DEF OtaInv, Update!TypeOK
<1>2. Update!TypeOK' BY DEF OtaInv, Update!TypeOK, OtaHandles
<1>3. OtaTargets' BY <1>1 DEF OtaInv, OtaTargets, OtaBusy
<1>4. OtaProgress' BY <1>1 DEF OtaInv, OtaProgress
<1>5. OtaWhole' BY DEF OtaInv, OtaWhole, Update!Whole, Update!Valid
<1>6. OtaAlone'
  <2>1. Update!Writing(t)' => Update!Writing(t) BY <1>1 DEF Update!Writing
  <2>2. \A s \in OtaTasks : Update!Writing(s)' => Update!Writing(s)
    BY <1>1, <2>1 DEF Update!Writing
  <2>3. Update!Writing(t)' => /\ h.slot = handle[t].slot
                              /\ h.image = handle[t].image
                              /\ h.written = handle[t].written
    BY <1>1 DEF Update!Writing
  <2> QED BY <1>1, <2>2, <2>3 DEF OtaInv, OtaAlone
<1>7. OtaChosen'
  <2> SUFFICES ASSUME spoilt' = {}, NEW s \in OtaTasks,
                      phase'[s] = "booted"
               PROVE  boot' = handle'[s].slot
    BY DEF OtaChosen
  <2>1. spoilt = {} OBVIOUS
  <2>2. CASE s = t BY <1>1, <2>2
  <2>3. CASE s # t
    <3>1. phase[s] = "booted" /\ handle'[s] = handle[s] BY <1>1, <2>3
    <3>2. boot = handle[s].slot BY <2>1, <3>1 DEF OtaInv, OtaChosen
    <3>3. Update!Writing(s) BY <3>1 DEF Update!Writing
    <3>4. ~Update!Writing(t)
      BY <2>1, <2>3, <3>3 DEF OtaInv, OtaAlone
    <3> QED BY <3>1, <3>2, <3>4
  <2> QED BY <2>2, <2>3
<1>8. UpdateTakesEffect'
  BY DEF OtaInv, UpdateTakesEffect, Update!UpdateTakesEffect, Update!Whole
<1> QED BY <1>2, <1>3, <1>4, <1>5, <1>6, <1>7, <1>8 DEF OtaInv

LEMMA OtaTask ==
  ASSUME OtaInv, NEW t \in OtaTasks,
         \/ Update!Begin(t) \/ Update!Fail(t) \/ Update!PerformComplete(t)
         \/ Update!PerformNextRequest(t) \/ Update!FinishEnd(t)
         \/ Update!FinishSetBoot(t)
  PROVE  OtaInv'
<1> USE OtaAssumed
<1> DEFINE h == handle[t]
<1>1. /\ h \in OtaHandles /\ running \in Update!Slots
      /\ boot \in Update!Slots /\ spoilt \subseteq Update!Mishaps
      /\ h.read <= h.written
      /\ phase \in [OtaTasks -> Update!Phases]
      /\ handle = [handle EXCEPT ![t] = h]
  BY DEF OtaInv, Update!TypeOK, OtaHandles, OtaProgress
<1>2. OtaBusy(t) => h.slot = Update!NextSlot(running) /\ h.image \in Urls
  BY DEF OtaInv, OtaTargets
<1>3. CASE Update!Begin(t)
  <2> DEFINE new == [image |-> url, slot |-> Update!NextSlot(running),
                     read |-> 0, written |-> 0]
  <2>1. /\ phase[t] = "new" /\ url \in Urls
        /\ phase' = [phase EXCEPT ![t] = "begun"]
        /\ handle' = [handle EXCEPT ![t] = new]
        /\ UNCHANGED <<url, created, request, flash, running, boot, last,
                       spoilt>>
    BY <1>3 DEF Update!Begin, Update!Goto
  <2>2. new \in OtaHandles /\ new.image \in Urls
    BY <1>1, <2>1 DEF OtaHandles, Update!Images, Update!Slots,
       Update!NextSlot
  <2>3. new.read <= new.written /\ new.written = 0
        /\ new.slot = Update!NextSlot(running)
    OBVIOUS
  <2> HIDE DEF new
  <2> QED BY <1>1, <2>1, <2>2, <2>3, OtaGoesOn DEF Update!Phases
<1>4. CASE Update!Fail(t)
  <2>1. /\ phase[t] # "none"
        /\ phase' = [phase EXCEPT ![t] = "failed"]
        /\ handle' = [handle EXCEPT ![t] = Update!NoHandle]
        /\ UNCHANGED <<url, created, request, flash, running, boot, last,
                       spoilt>>
    BY <1>4 DEF Update!Fail, Update!Goto
  <2>2. Update!NoHandle \in OtaHandles
        /\ Update!NoHandle.read <= Update!NoHandle.written
    BY DEF OtaHandles, Update!NoHandle, Update!Images, Update!Slots
  <2> QED BY <1>1, <2>1, <2>2, OtaGoesOn DEF Update!Phases
<1>5. CASE Update!PerformComplete(t)
  <2>1. /\ phase[t] = "reading" /\ h.read = Update!Response(t)
        /\ request = 0 \/ h.written = Blocks
        /\ phase' = [phase EXCEPT ![t] = "ended"]
        /\ UNCHANGED <<url, created, handle, request, flash, running, boot,
                       last, spoilt>>
    BY <1>5 DEF Update!PerformComplete, Update!Goto
  <2>2. h.written = Blocks
    BY <1>1, <2>1 DEF Update!Response, OtaHandles
  <2> QED BY <1>1, <1>2, <2>1, <2>2, OtaGoesOn
    DEF Update!Phases, OtaBusy, Update!Writing
<1>6. CASE Update!PerformNextRequest(t)
  <2> DEFINE new == [h EXCEPT !.read = 0]
  <2>1. /\ phase[t] = "reading"
        /\ phase' = [phase EXCEPT ![t] = "reading"]
        /\ handle' = [handle EXCEPT ![t] = new]
        /\ UNCHANGED <<url, created, request, flash, running, boot, last,
                       spoilt>>
    BY <1>1, <1>6 DEF Update!PerformNextRequest
  <2>2. /\ new \in OtaHandles /\ new.read <= new.written
        /\ new.image = h.image /\ new.slot = h.slot
        /\ new.written = h.written
    BY <1>1 DEF OtaHandles
  <2> HIDE DEF new
  <2> QED BY <1>1, <1>2, <2>1, <2>2, OtaGoesOn
    DEF Update!Phases, OtaBusy, Update!Writing
<1>7. CASE Update!FinishEnd(t)
  <2>1. /\ phase[t] = "ended"
        /\ phase' = [phase EXCEPT ![t] = "verified"]
        /\ UNCHANGED <<url, created, handle, request, flash, running, boot,
                       last, spoilt>>
    BY <1>7 DEF Update!FinishEnd, Update!Goto
  <2>2. h.written = Blocks BY <2>1 DEF OtaInv, OtaProgress
  <2> QED BY <1>1, <1>2, <2>1, <2>2, OtaGoesOn
    DEF Update!Phases, OtaBusy, Update!Writing
<1>8. CASE Update!FinishSetBoot(t)
  <2>1. /\ phase[t] = "verified"
        /\ phase' = [phase EXCEPT ![t] = "booted"]
        /\ UNCHANGED <<url, created, handle, request, flash, running, last>>
        /\ \/ boot' = h.slot /\ spoilt' = spoilt
           \/ spoilt' = spoilt \cup {"boot"} /\ boot' = boot
    BY <1>8 DEF Update!FinishSetBoot, Update!Goto
  <2>2. h.written = Blocks BY <2>1 DEF OtaInv, OtaProgress
  <2>3. /\ boot' \in Update!Slots /\ spoilt' \subseteq Update!Mishaps
        /\ spoilt \subseteq spoilt' /\ spoilt' = {} => boot' = h.slot
    BY <1>1, <2>1 DEF OtaHandles, Update!Mishaps
  <2> QED BY <1>1, <1>2, <2>1, <2>2, <2>3, OtaGoesOn
    DEF Update!Phases, OtaBusy, Update!Writing
<1> QED BY <1>3, <1>4, <1>5, <1>6, <1>7, <1>8

(* A block more, of a task that may go from one phase to another.  It is   *)
(* not in a slot that holds the running image or the factory's.            *)
LEMMA OtaBlock ==
  ASSUME OtaInv, NEW t \in OtaTasks,
         Update!PerformBegin(t) \/ Update!PerformRead(t)
  PROVE  OtaInv'
<1> USE OtaAssumed
<1> DEFINE h == handle[t]
           n == h.written + 1
           new == [h EXCEPT !.read = @ + 1, !.written = @ + 1]
           contended == \E other \in OtaTasks \ {t} : Update!Writing(other)
<1>1. /\ h \in OtaHandles /\ running \in Update!Slots
      /\ h.read <= h.written /\ h.read \in Nat /\ h.written \in Nat
      /\ phase \in [OtaTasks -> Update!Phases]
      /\ handle \in [OtaTasks -> OtaHandles]
  BY DEF OtaInv, Update!TypeOK, OtaHandles, OtaProgress
<1>2. /\ phase[t] \in {"begun", "reading"}
      /\ phase' = [phase EXCEPT ![t] = "reading"]
      /\ flash' = [flash EXCEPT ![h.slot][n] = h.image]
      /\ handle' = [handle EXCEPT ![t] = new]
      /\ UNCHANGED <<url, created, request, running, boot, last>>
  BY ZenonT(40), <1>1
  DEF Update!PerformBegin, Update!PerformRead, Update!WriteBlock,
      Update!Goto
<1>3. /\ spoilt \subseteq spoilt' /\ spoilt' \subseteq Update!Mishaps
      /\ phase[t] = "begun" /\ contended => "contended" \in spoilt'
  BY DEF Update!PerformBegin, Update!PerformRead, OtaInv, Update!TypeOK,
     Update!Mishaps
<1>4. /\ h.slot = Update!NextSlot(running) /\ h.image \in Urls
      /\ h.slot \in Update!Slots \ {0, running}
  <2>1. h.slot = Update!NextSlot(running) /\ h.image \in Urls
    BY <1>2 DEF OtaInv, OtaTargets, OtaBusy
  <2> QED BY <1>1, <2>1 DEF Update!NextSlot, Update!Slots
<1>5. n \in 1..Blocks
  <2>1. CASE phase[t] = "begun" BY <2>1 DEF OtaInv, OtaProgress
  <2>2. CASE phase[t] = "reading"
    <3>1. h.read < Update!Response(t)
      BY <2>2 DEF Update!PerformRead, Update!PerformBegin
    <3>2. request \in Nat BY DEF OtaInv, OtaProgress
    <3>3. Update!Response(t) <= Blocks - (h.written - h.read)
      BY <1>1, <3>2 DEF Update!Response
    <3>4. Update!Response(t) \in Int
      BY <1>1, <3>2 DEF Update!Response
    <3> QED BY <1>1, <3>1, <3>3, <3>4
  <2> QED BY <1>2, <2>1, <2>2
<1>6. /\ new \in OtaHandles /\ new.read <= new.written
      /\ new.written = n /\ new.slot = h.slot /\ new.image = h.image
  <2> HIDE DEF h
  <2>1. h = [image |-> h.image, slot |-> h.slot, read |-> h.read,
             written |-> h.written] BY <1>1 DEF OtaHandles
  <2>3. new = [image |-> h.image, slot |-> h.slot, read |-> h.read + 1,
               written |-> h.written + 1]
    <3> DEFINE read == h.read + 1
               written == h.written + 1
    <3>1. new = [h EXCEPT !.read = read, !.written = written] OBVIOUS
    <3> HIDE DEF read, written, new
    <3>2. new = [image |-> h.image, slot |-> h.slot, read |-> read,
                 written |-> written] BY <2>1, <3>1
    <3> QED BY <3>2 DEF read, written
  <2>2. h.read + 1 \in 0..Blocks BY <1>1, <1>5
  <2> HIDE DEF new
  <2> QED BY <1>1, <1>5, <2>2, <2>3 DEF OtaHandles
<1> HIDE DEF h, n, new
<1>7. /\ \A s \in OtaTasks : s # t => /\ phase'[s] = phase[s]
                                      /\ handle'[s] = handle[s]
      /\ phase'[t] = "reading" /\ handle'[t] = new
  BY <1>1, <1>2
<1>8. /\ flash \in [Update!Slots ->
                      [1..Blocks -> Update!Images \cup {Nothing}]]
      /\ \A s \in Update!Slots \ {h.slot} : flash'[s] = flash[s]
      /\ \A b \in 1..Blocks : b # n => flash'[h.slot][b] = flash[h.slot][b]
      /\ flash'[h.slot][n] = h.image
  BY <1>2, <1>4, <1>5 DEF OtaInv, Update!TypeOK
<1>9. Update!TypeOK'
  <2>1. h.image \in Update!Images BY <1>4 DEF Update!Images
  <2>2. flash' \in [Update!Slots ->
                      [1..Blocks -> Update!Images \cup {Nothing}]]
    BY <1>2, <1>4, <1>5, <1>8, <2>1
  <2>3. handle' \in [OtaTasks -> OtaHandles] BY <1>1, <1>2, <1>6
  <2> QED BY <1>2, <1>3, <2>2, <2>3
    DEF OtaInv, Update!TypeOK, OtaHandles, Update!Phases
<1>10. OtaTargets'
  BY <1>2, <1>4, <1>6, <1>7 DEF OtaInv, OtaTargets, OtaBusy
<1>11. OtaProgress' BY <1>2, <1>6, <1>7 DEF OtaInv, OtaProgress
<1>12. OtaWhole'
  <2>1. 0 \in Update!Slots \ {h.slot} /\ running \in Update!Slots \ {h.slot}
    BY <1>1, <1>4 DEF Update!Slots
  <2>2. flash'[0] = flash[0] /\ flash'[running] = flash[running]
    BY <1>8, <2>1
  <2> QED BY <1>2, <2>2
    DEF OtaInv, OtaWhole, Update!Whole, Update!Valid
<1>13. OtaAlone'
  <2> SUFFICES ASSUME "contended" \notin spoilt', NEW s \in OtaTasks,
                      Update!Writing(s)'
               PROVE  /\ \A r \in OtaTasks : Update!Writing(r)' => r = s
                      /\ \A b \in 1..handle'[s].written :
                           flash'[handle'[s].slot][b] = handle'[s].image
    BY DEF OtaAlone
  <2>1. "contended" \notin spoilt BY <1>3
  <2>2. ASSUME NEW r \in OtaTasks, r # t PROVE ~Update!Writing(r)'
    <3>1. ~Update!Writing(r)
      <4>1. CASE phase[t] = "begun" BY <1>3, <2>2, <4>1
      <4>2. CASE phase[t] = "reading"
        BY <2>1, <2>2, <4>2 DEF OtaInv, OtaAlone, Update!Writing
      <4> QED BY <1>2, <4>1, <4>2
    <3> QED BY <1>7, <2>2, <3>1 DEF Update!Writing
  <2>3. s = t BY <2>2
  <2>4. \A b \in 1..h.written : flash[h.slot][b] = h.image
    <3>1. CASE phase[t] = "begun"
      BY <3>1 DEF OtaInv, OtaProgress, h
    <3>2. CASE phase[t] = "reading"
      BY <2>1, <3>2 DEF OtaInv, OtaAlone, Update!Writing, h
    <3> QED BY <1>2, <3>1, <3>2
  <2>5. \A b \in 1..n : flash'[h.slot][b] = h.image
    BY <1>1, <1>5, <1>8, <2>4 DEF n
  <2> QED BY <1>6, <1>7, <2>2, <2>3, <2>5
<1>14. OtaChosen' BY <1>2, <1>3, <1>7 DEF OtaInv, OtaChosen
<1>15. UpdateTakesEffect'
  <2>1. created # {} BY <1>2 DEF OtaInv, OtaTargets
  <2> QED BY <1>2, <2>1 DEF UpdateTakesEffect, Update!UpdateTakesEffect
<1> QED BY <1>9, <1>10, <1>11, <1>12, <1>13, <1>14, <1>15 DEF OtaInv

LEMMA OtaStays == ASSUME OtaInv, [Next]_vars PROVE OtaInv'
<1>1. CASE UNCHANGED update
  BY <1>1 DEF update, OtaInv, Update!TypeOK, OtaTargets, OtaBusy,
    OtaProgress, OtaWhole, Update!Whole, Update!Valid, OtaAlone,
    Update!Writing, OtaChosen, UpdateTakesEffect, Update!UpdateTakesEffect
<1>2. CASE Update!Next
  <2>1. CASE Update!CopyUrl
    <3>1. url \in Urls
      BY <2>1 DEF Update!CopyUrl, OtaInv, Update!TypeOK
    <3> QED BY <2>1, <3>1, OtaCommand
  <2>2. CASE \E u \in Urls : Update!StartOta(u) \/ Update!StartOtaNoMemory(u)
    BY <2>2, OtaCommand
  <2>3. ASSUME NEW t \in OtaTasks, Update!Task(t) \/ Update!Fail(t)
        PROVE  OtaInv'
    <3>1. Update!Restart(t) => Update!Reboot BY DEF Update!Restart
    <3> QED BY <2>3, <3>1, OtaReboot, OtaTask, OtaBlock DEF Update!Task
  <2>4. CASE Update!PowerFailure
    BY <2>4, OtaReboot DEF Update!PowerFailure
  <2> QED BY <1>2, <2>1, <2>2, <2>3, <2>4 DEF Update!Next
<1> QED BY <1>1, <1>2, OtaMoves

(* However many updates are asked for, fail or are cut off by a restart,   *)
(* the slot the gateway runs from holds a whole image.                     *)
THEOREM RunningIntactCorrect == Spec => []RunningIntact
<1>1. Init => OtaInv BY OtaStart
<1>2. OtaInv /\ [Next]_vars => OtaInv' BY OtaStays
<1>3. OtaInv => RunningIntact
  BY DEF OtaInv, OtaWhole, RunningIntact, Update!RunningIntact
<1> QED BY <1>1, <1>2, <1>3, PTL DEF Spec

(* A restart for an update boots its image, whole, unless the boot slot    *)
(* could not be set or two tasks wrote to one slot.                        *)
THEOREM UpdateTakesEffectCorrect == Spec => []UpdateTakesEffect
<1>1. Init => OtaInv BY OtaStart
<1>2. OtaInv /\ [Next]_vars => OtaInv' BY OtaStays
<1>3. OtaInv => UpdateTakesEffect BY DEF OtaInv
<1> QED BY <1>1, <1>2, <1>3, PTL DEF Spec

-----------------------------------------------------------------------------
(* History.  The store is finite and keeps within the quota and the one    *)
(* entry for which a save makes room.                                      *)
HistStore ==
  /\ IsFiniteSet(store)
  /\ \A e \in store : e.id \in 1..saves
  /\ Cardinality(store) <= IF saving = <<>> THEN Quota + 1 ELSE Quota

HistTimes ==
  /\ clock \in 0..LastTime /\ oldTimestamp \in 0..LastTime
  /\ duplicates \in Nat
  /\ saving = <<>> => duplicates <= saves
  /\ saving # <<>> => duplicates <= saves + 1 /\ saves < MaxSaves

(* Where each packet went.                                                 *)
HistAccounted ==
  /\ published \subseteq 1..saves /\ gone \subseteq 1..saves
  /\ Quota < Capacity /\ "repeated" \notin losses =>
       1..saves \subseteq History!Ids \cup published \cup gone

HistInv == History!TypeOK /\ HistStore /\ HistTimes /\ HistAccounted

LEMMA HistMoves == ASSUME [Next]_vars PROVE History!Next \/ UNCHANGED history
BY DEF Next, LedStep, UpdateStep, HistoryStep, LogStep, StartUpStep,
   GatewayStep, UsbLifeStep, FramesStep, CameraStep, UsbDevStep, DfuStep,
   NetStep, AcmStep, Rest, DeviceRest, gatewaySide, vars

LEMMA HistAssumed ==
  /\ Quota \in Nat /\ Capacity \in Nat /\ LastTime \in Nat
  /\ MaxSaves \in Nat
BY ServicesAssumption DEF History!HistoryAssumption

(* The history's cardinality is that of the library.                       *)
LEMMA HistCardinality == \A S : History!Cardinality(S) = Cardinality(S)
BY DEF History!Cardinality, Cardinality

LEMMA HistStart == ASSUME Init PROVE HistInv
<1> USE HistAssumed
<1>1. History!Init BY DEF Init
<1>2. IsFiniteSet({}) /\ Cardinality({}) = 0 BY FS_EmptySet
<1>3. History!Ids = {} BY <1>1 DEF History!Init, History!Ids
<1>4. HistStore BY <1>1, <1>2 DEF History!Init, HistStore
<1>5. HistTimes BY <1>1 DEF History!Init, HistTimes
<1>6. HistAccounted BY <1>1, <1>3 DEF History!Init, HistAccounted
<1>7. History!TypeOK
  BY <1>1, <1>2, <1>3, HistCardinality
  DEF History!Init, History!TypeOK, History!NoEntry, History!Mishaps
<1> QED BY <1>4, <1>5, <1>6, <1>7 DEF HistInv

(* NVS hands out the entry written first, and at the end none.             *)
LEMMA HistAfter ==
  ASSUME HistInv, NEW entry, entry.id \in Nat
  PROVE  /\ \/ History!After(entry) = History!NoEntry
            \/ History!After(entry) \in store
         /\ entry.id = 0 /\ store # {} => History!After(entry) \in store
         /\ History!After(entry).id \in 0..saves
<1> DEFINE later == {e \in store : e.id > entry.id}
<1>1. saves \in Nat /\ \A e \in store : e.id \in 1..saves
  BY DEF HistInv, HistStore, History!TypeOK
<1>2. entry.id = 0 => later = store BY <1>1
<1>3. CASE later = {}
  <2>1. History!After(entry) = History!NoEntry
    BY <1>3 DEF History!After
  <2> QED BY <1>1, <1>2, <1>3, <2>1 DEF History!NoEntry
<1>4. CASE later # {}
  <2> DEFINE T == {e.id : e \in later}
  <2>1. T \subseteq Nat /\ T # {} BY <1>1, <1>4
  <2>2. PICK n \in T : \A m \in T : n <= m BY <2>1, LeastNatural
  <2>3. PICK f \in later : f.id = n BY <2>2
  <2>4. \A e \in later : f.id <= e.id BY <2>2, <2>3
  <2>5. History!After(entry)
          = CHOOSE e \in later : \A other \in later : e.id <= other.id
    BY <1>4 DEF History!After
  <2>6. History!After(entry) \in later BY <2>3, <2>4, <2>5
  <2> QED BY <1>1, <2>6
<1> QED BY <1>3, <1>4

LEMMA HistSave == ASSUME HistInv, History!Save PROVE HistInv'
<1> USE HistAssumed DEF HistInv
<1> DEFINE first == History!After(History!NoEntry)
           evicted == {e \in {first} : Cardinality(store) > Quota}
<1>1. /\ saving = <<>> /\ saves < MaxSaves
      /\ duplicates' = IF clock = oldTimestamp THEN duplicates + 1 ELSE 0
      /\ oldTimestamp' = clock /\ saving' = <<clock, duplicates'>>
      /\ store' = store \ evicted
      /\ gone' = gone \cup {e.id : e \in evicted}
      /\ UNCHANGED <<saves, clock, iterator, info, reporting, published,
                     losses>>
  BY HistCardinality DEF History!Save, History!report
<1>2. /\ IsFiniteSet(store) /\ Cardinality(store) \in Nat
      /\ Cardinality(store) <= Quota + 1
  BY <1>1, FS_CardinalityType DEF HistStore
<1>3. Cardinality(store) > Quota => first \in store /\ evicted = {first}
  <2>1. Cardinality(store) > Quota => store # {} BY <1>2, FS_EmptySet
  <2>2. History!NoEntry.id = 0 BY DEF History!NoEntry
  <2> QED BY <2>1, <2>2, HistAfter
<1>4. Cardinality(store) <= Quota => evicted = {} BY <1>2
<1>5. IsFiniteSet(store') /\ Cardinality(store') <= Quota
  <2>1. CASE Cardinality(store) > Quota
    <3>1. store' = store \ {first} /\ first \in store
      BY <1>1, <1>3, <2>1
    <3> HIDE DEF first
    <3>2. /\ IsFiniteSet(store \ {first})
          /\ Cardinality(store \ {first}) = Cardinality(store) - 1
      BY <1>2, <3>1, FS_RemoveElement
    <3> QED BY <1>2, <3>1, <3>2
  <2>2. CASE Cardinality(store) <= Quota BY <1>1, <1>2, <1>4, <2>2
  <2> QED BY <1>2, <2>1, <2>2
<1>6. evicted \subseteq store BY <1>2, <1>3, <1>4
<1> HIDE DEF evicted
<1>7. duplicates' \in 0..MaxSaves /\ duplicates' <= saves + 1
  BY <1>1 DEF HistTimes, History!TypeOK
<1>8. saving' \in (0..LastTime) \X (0..MaxSaves) /\ saving' # <<>>
  <2>1. clock \in 0..LastTime BY DEF HistTimes
  <2> QED BY <1>1, <1>7, <2>1
<1>9. HistStore'
  <2>1. \A e \in store' : e.id \in 1..saves' BY <1>1 DEF HistStore
  <2> QED BY <1>1, <1>5, <1>8, <2>1 DEF HistStore
<1>10. HistTimes' BY <1>1, <1>7, <1>8 DEF HistTimes
<1>11. gone' \subseteq 1..saves'
  BY <1>1, <1>6 DEF HistAccounted, HistStore
<1>12. HistAccounted'
  <2>1. History!Ids \subseteq History!Ids' \cup gone'
    BY <1>1 DEF History!Ids
  <2>2. gone \subseteq gone' BY <1>1
  <2> QED BY <1>1, <1>11, <2>1, <2>2 DEF HistAccounted
<1>13. History!TypeOK'
  <2>1. History!Ids' \subseteq 1..saves' BY <1>9 DEF HistStore, History!Ids
  <2>2. Cardinality(store') <= Capacity
    <3>1. Cardinality(store') <= Cardinality(store)
      BY <1>1, <1>2, FS_Subset
    <3>2. Cardinality(store') \in Nat BY <1>5, FS_CardinalityType
    <3> QED BY <1>2, <3>1, <3>2, HistCardinality DEF History!TypeOK
  <2>3. \A e, f \in store' : e.key = f.key => e = f
    BY <1>1 DEF History!TypeOK
  <2>4. \A entry \in {iterator, info}' : entry.id \in 0..saves'
    BY <1>1 DEF History!TypeOK
  <2> QED BY <1>1, <1>8, <1>11, <2>1, <2>2, <2>3, <2>4, HistCardinality
    DEF History!TypeOK
<1> QED BY <1>9, <1>10, <1>12, <1>13

LEMMA HistSet == ASSUME HistInv, History!Set PROVE HistInv'
<1> USE HistAssumed DEF HistInv
<1> DEFINE others == {e \in store : e.key # saving}
           new    == [id |-> saves + 1, key |-> saving]
           fits   == Cardinality(store) < Capacity
<1>1. /\ saving # <<>> /\ saves' = saves + 1 /\ saving' = <<>>
      /\ store' = IF fits THEN others \cup {new} ELSE store
      /\ losses' = losses \cup {m \in {"repeated"} :
                                    fits /\ others # store}
      /\ UNCHANGED <<clock, oldTimestamp, duplicates, iterator, info,
                     reporting, published, gone>>
  BY HistCardinality DEF History!Set, History!stamp, History!report
<1>2. /\ IsFiniteSet(store) /\ Cardinality(store) \in Nat
      /\ Cardinality(store) <= Quota
  BY <1>1, FS_CardinalityType DEF HistStore
<1>3. saves \in Nat /\ saves < MaxSaves
  BY <1>1 DEF HistTimes, History!TypeOK
<1>4. /\ IsFiniteSet(others) /\ Cardinality(others) \in Nat
      /\ Cardinality(others) <= Cardinality(store)
  <2>1. others \in SUBSET store OBVIOUS
  <2> HIDE DEF others
  <2>2. IsFiniteSet(others) /\ Cardinality(others) <= Cardinality(store)
    BY <1>2, <2>1, FS_Subset
  <2> QED BY <2>2, FS_CardinalityType
<1>5. /\ IsFiniteSet(store') /\ Cardinality(store') <= Quota + 1
      /\ Cardinality(store') <= Capacity
  <2>1. CASE fits
    <3> DEFINE n == Cardinality(others \cup {new})
    <3>1. IsFiniteSet(others \cup {new}) /\ n <= Cardinality(others) + 1
      <4> HIDE DEF others, new
      <4>1. IsFiniteSet(others \cup {new}) BY <1>4, FS_AddElement
      <4>2. n = Cardinality(others) \/ n = Cardinality(others) + 1
        BY <1>4, FS_AddElement
      <4> QED BY <1>4, <4>1, <4>2
    <3>2. n \in Nat BY <3>1, FS_CardinalityType
    <3>3. store' = others \cup {new} BY <1>1, <2>1
    <3> HIDE DEF others, new
    <3> QED BY <1>2, <1>4, <2>1, <3>1, <3>2, <3>3
  <2>2. CASE ~fits
    <3>1. store' = store BY <1>1, <2>2
    <3> QED BY <1>2, <3>1, HistCardinality DEF History!TypeOK
  <2> QED BY <2>1, <2>2
<1>6. new.id = saves + 1 /\ new.key = saving OBVIOUS
<1>7. \A e \in store' : e = new \/ e \in store BY <1>1
<1> HIDE DEF new
<1>8. HistStore'
  <2>1. \A e \in store' : e.id \in 1..saves'
    BY <1>1, <1>3, <1>6, <1>7 DEF HistStore
  <2> QED BY <1>1, <1>5, <2>1 DEF HistStore
<1>9. HistTimes' BY <1>1, <1>3 DEF HistTimes
<1>10. HistAccounted'
  <2>1. published' \subseteq 1..saves' /\ gone' \subseteq 1..saves'
    BY <1>1, <1>3 DEF HistAccounted
  <2>2. SUFFICES ASSUME Quota < Capacity, "repeated" \notin losses'
                 PROVE  1..saves' \subseteq
                          (History!Ids \cup published \cup gone)'
    BY <2>1 DEF HistAccounted
  <2>3. fits /\ others = store /\ "repeated" \notin losses
    BY <1>1, <1>2, <2>2
  <2>4. store' = store \cup {new} BY <1>1, <2>3
  <2>5. History!Ids' = History!Ids \cup {saves + 1}
    BY <1>6, <2>4 DEF History!Ids
  <2>6. 1..saves \subseteq History!Ids \cup published \cup gone
    BY <2>2, <2>3 DEF HistAccounted
  <2>7. 1..saves' = (1..saves) \cup {saves + 1} BY <1>1, <1>3
  <2> QED BY <1>1, <2>5, <2>6, <2>7
<1>11. History!TypeOK'
  <2>1. History!Ids' \subseteq 1..saves' BY <1>8 DEF HistStore, History!Ids
  <2>2. \A e, f \in store' : e.key = f.key => e = f
    BY <1>1, <1>6 DEF History!TypeOK
  <2>3. \A entry \in {iterator, info}' : entry.id \in 0..saves'
    BY <1>1, <1>3 DEF History!TypeOK
  <2>4. losses' \subseteq History!Mishaps
    BY <1>1 DEF History!TypeOK, History!Mishaps
  <2> QED BY <1>1, <1>3, <1>5, <1>10, <2>1, <2>2, <2>3, <2>4, HistCardinality
    DEF History!TypeOK, HistAccounted
<1> QED BY <1>8, <1>9, <1>10, <1>11

(* A publish erases only what it published.                                *)
LEMMA HistPublish ==
  ASSUME HistInv, NEW entry, History!PublishEntry(entry),
         UNCHANGED <<saves, gone, losses>>,
         saving' \in {<<>>, saving}
  PROVE  HistStore' /\ HistAccounted' /\ Cardinality(store') <= Capacity
         /\ \A e, f \in store' : e.key = f.key => e = f
<1> USE HistAssumed DEF HistInv
<1>1. PICK accepted \in BOOLEAN :
        LET held == {e \in store : e.key = entry.key} IN
        /\ published' = published \cup {i \in {e.id : e \in held} : accepted}
        /\ store' = IF accepted THEN store \ held ELSE store
  BY DEF History!PublishEntry
<1>2. store' \in SUBSET store BY <1>1
<1>3. /\ IsFiniteSet(store) /\ Cardinality(store) \in Nat
      /\ Cardinality(store) <= Quota + 1
  BY FS_CardinalityType DEF HistStore
<1>4. IsFiniteSet(store') /\ Cardinality(store') <= Cardinality(store)
  BY <1>2, <1>3, FS_Subset
<1>5. Cardinality(store') \in Nat BY <1>4, FS_CardinalityType
<1>6. HistStore'
  <2>1. \A e \in store' : e.id \in 1..saves' BY <1>2 DEF HistStore
  <2>2. Cardinality(store)
          <= IF saving = <<>> THEN Quota + 1 ELSE Quota
    BY DEF HistStore
  <2>3. Cardinality(store')
          <= IF saving' = <<>> THEN Quota + 1 ELSE Quota
    BY <1>3, <1>4, <1>5, <2>2
  <2> QED BY <1>4, <2>1, <2>3 DEF HistStore
<1>7. Cardinality(store') <= Capacity
  BY <1>3, <1>4, <1>5, HistCardinality DEF History!TypeOK
<1>8. \A e, f \in store' : e.key = f.key => e = f
  BY <1>2 DEF History!TypeOK
<1>9. /\ published \subseteq published'
      /\ published' \subseteq published \cup History!Ids
      /\ History!Ids \subseteq History!Ids' \cup published'
  <2>1. CASE accepted BY <1>1, <2>1 DEF History!Ids
  <2>2. CASE ~accepted BY <1>1, <2>2 DEF History!Ids
  <2> QED BY <2>1, <2>2
<1>10. HistAccounted'
  <2>1. History!Ids \subseteq 1..saves BY DEF History!TypeOK
  <2>2. published' \subseteq 1..saves' BY <1>9, <2>1 DEF HistAccounted
  <2> QED BY <1>9, <2>2 DEF HistAccounted
<1> QED BY <1>6, <1>7, <1>8, <1>10

LEMMA HistReport ==
  ASSUME HistInv,
         \/ History!Report
         \/ \E both \in BOOLEAN : History!Publish(both)
         \/ History!PublishAgain
  PROVE  HistInv'
<1> USE HistAssumed DEF HistInv
<1>1. /\ UNCHANGED <<saves, clock, oldTimestamp, duplicates, saving, gone,
                     losses>>
      /\ reporting' \in {"idle", "next", "both"}
      /\ \/ UNCHANGED <<store, published>>
         \/ \E entry : History!PublishEntry(entry)
      /\ \E entry \in {History!NoEntry, iterator} :
           iterator' = History!After(entry)
      /\ info' \in {info, iterator, History!NoEntry}
  BY DEF History!Report, History!Publish, History!PublishAgain,
     History!stamp
<1>2. /\ HistStore' /\ HistAccounted' /\ Cardinality(store') <= Capacity
      /\ \A e, f \in store' : e.key = f.key => e = f
  <2>1. CASE UNCHANGED <<store, published>>
    BY <1>1, <2>1, HistCardinality
    DEF HistStore, HistAccounted, History!TypeOK, History!Ids
  <2>2. CASE \E entry : History!PublishEntry(entry)
    BY <1>1, <2>2, HistPublish
  <2> QED BY <1>1, <2>1, <2>2
<1>3. HistTimes' BY <1>1 DEF HistTimes
<1>4. \A entry \in {iterator, info}' : entry.id \in 0..saves'
  <2>1. PICK entry \in {History!NoEntry, iterator} :
          iterator' = History!After(entry)
    BY <1>1
  <2>2. History!NoEntry.id = 0 /\ saves \in Nat
    BY DEF History!NoEntry, History!TypeOK
  <2>3. iterator.id \in 0..saves /\ info.id \in 0..saves
    BY DEF History!TypeOK
  <2>4. entry.id \in Nat BY <2>1, <2>2, <2>3
  <2>5. iterator'.id \in 0..saves BY <2>1, <2>4, HistAfter
  <2>6. info'.id \in 0..saves BY <1>1, <2>2, <2>3
  <2> QED BY <1>1, <2>5, <2>6
<1>5. History!Ids' \subseteq 1..saves' BY <1>2 DEF HistStore, History!Ids
<1> QED BY <1>1, <1>2, <1>3, <1>4, <1>5, HistCardinality
  DEF History!TypeOK, HistAccounted

LEMMA HistReboot ==
  ASSUME HistInv, History!Restart \/ History!PublishPast PROVE HistInv'
<1> USE HistAssumed DEF HistInv
<1>1. /\ clock' \in {0, clock} /\ oldTimestamp' = 0 /\ duplicates' = 0
      /\ saving' = <<>> /\ iterator' = History!NoEntry
      /\ info' = History!NoEntry /\ reporting' = "idle"
      /\ UNCHANGED <<saves, gone, losses>>
      /\ \/ UNCHANGED <<store, published>>
         \/ History!PublishEntry(info)
  BY DEF History!Restart, History!PublishPast, History!Reboot
<1>2. /\ HistStore' /\ HistAccounted' /\ Cardinality(store') <= Capacity
      /\ \A e, f \in store' : e.key = f.key => e = f
  <2>1. CASE UNCHANGED <<store, published>>
    <3>1. HistAccounted' /\ Cardinality(store') <= Capacity
          /\ \A e, f \in store' : e.key = f.key => e = f
      BY <1>1, <2>1, HistCardinality
      DEF HistAccounted, History!TypeOK, History!Ids
    <3>2. Cardinality(store) \in Nat BY FS_CardinalityType DEF HistStore
    <3>3. Cardinality(store') <= Quota + 1
      BY <2>1, <3>2 DEF HistStore
    <3> QED BY <1>1, <2>1, <3>1, <3>3 DEF HistStore
  <2>2. CASE History!PublishEntry(info) BY <1>1, <2>2, HistPublish
  <2> QED BY <1>1, <2>1, <2>2
<1>3. saves \in 0..MaxSaves BY DEF History!TypeOK
<1>4. HistTimes' BY <1>1, <1>3 DEF HistTimes
<1>5. \A entry \in {iterator, info}' : entry.id \in 0..saves'
  BY <1>1, <1>3 DEF History!NoEntry
<1>6. History!Ids' \subseteq 1..saves' BY <1>2 DEF HistStore, History!Ids
<1> QED BY <1>1, <1>2, <1>4, <1>5, <1>6, HistCardinality
  DEF History!TypeOK, HistAccounted

LEMMA HistTick == ASSUME HistInv, History!Tick PROVE HistInv'
<1> USE HistAssumed DEF HistInv
<1>1. /\ clock < LastTime /\ clock' = clock + 1
      /\ UNCHANGED <<store, saves, oldTimestamp, duplicates, saving,
                     iterator, info, reporting, published, gone, losses>>
  BY DEF History!Tick, History!report
<1>2. History!TypeOK' /\ HistStore' /\ HistAccounted'
  BY <1>1
  DEF History!TypeOK, HistStore, HistAccounted, History!Ids
<1>3. HistTimes' BY <1>1 DEF HistTimes
<1> QED BY <1>2, <1>3

LEMMA HistInvariant == Spec => []HistInv
<1>1. ASSUME HistInv, [Next]_vars PROVE HistInv'
  <2>1. CASE UNCHANGED history
    BY <1>1, <2>1
    DEF history, HistInv, History!TypeOK, History!Ids, HistStore, HistTimes,
        HistAccounted
  <2>2. CASE History!Next
    BY <1>1, <2>2, HistTick, HistSave, HistSet, HistReport, HistReboot
    DEF History!Next, History!Reporter
  <2> QED BY <1>1, <2>1, <2>2, HistMoves
<1> QED BY <1>1, HistStart, PTL DEF Spec

(* NothingVanishes: each packet saved is in NVS, has been published or was *)
(* evicted at the quota, unless a key was repeated after a restart, for    *)
(* every quota that is smaller than the partition's room.                  *)
THEOREM NothingVanishesCorrect ==
  ASSUME Quota < Capacity PROVE Spec => []NothingVanishes
<1>1. ASSUME HistInv PROVE NothingVanishes
  <2>1. /\ published \subseteq 1..saves /\ gone \subseteq 1..saves
        /\ History!Ids \subseteq 1..saves
    BY <1>1 DEF HistInv, HistAccounted, History!TypeOK
  <2> QED BY <1>1, <2>1
    DEF HistInv, HistAccounted, NothingVanishes, History!NothingVanishes
<1> QED BY <1>1, HistInvariant, PTL

-----------------------------------------------------------------------------
(* Output log.  Whoever begins a message sets the pointer back, so that    *)
(* since then each task has advanced it at most once, and none that is     *)
(* still to advance it.                                                    *)
LogDone == {t \in Loggers : logging[t] \notin {"format", "advance"}}

LogInv(m) ==
  /\ logging \in [Loggers -> {"idle", "format", "advance", "test"}]
  /\ printed \in [Loggers -> 0..m]
  /\ pos \in Nat /\ pos <= Header + m * Cardinality(LogDone)

(* There is room for the longest message of every task.                    *)
LogRoom(m) ==
  /\ IsFiniteSet(Loggers) /\ m \in Nat
  /\ \A length \in Lengths : length <= m
  /\ Header + m * Cardinality(Loggers) + Reserve < Size

LEMMA LogMoves == ASSUME [Next]_vars PROVE Log!Next \/ UNCHANGED log
BY DEF Next, LedStep, UpdateStep, HistoryStep, LogStep, StartUpStep,
   GatewayStep, UsbLifeStep, FramesStep, CameraStep, UsbDevStep, DfuStep,
   NetStep, AcmStep, Rest, DeviceRest, gatewaySide, vars

LEMMA LogAssumed ==
  /\ Lengths \subseteq Nat /\ Header \in Nat /\ Reserve \in Nat
  /\ Size \in Nat
BY ServicesAssumption DEF Log!OutputLogAssumption

LEMMA TimesGrows ==
  ASSUME NEW m \in Nat, NEW j \in Nat, NEW k \in Nat, j <= k
  PROVE  /\ m * j \in Nat /\ m * k \in Nat /\ m * j <= m * k
         /\ m * (j + 1) = m * j + m
<1>1. m * j \in Nat /\ m * k \in Nat OBVIOUS
<1>2. m * (j + 1) = m * j + m BY Z3
<1>3. PICK d \in Nat : k = j + d
  <2>1. k - j \in Nat /\ k = j + (k - j) OBVIOUS
  <2> QED BY <2>1
<1>4. m * (j + d) = m * j + m * d /\ m * d \in Nat BY Z3
<1>5. m * j <= m * k BY <1>1, <1>3, <1>4
<1> QED BY <1>1, <1>2, <1>5

(* As many messages as there are tasks.                                    *)
LEMMA LogBound ==
  ASSUME NEW m, LogRoom(m), LogInv(m)
  PROVE  /\ IsFiniteSet(LogDone) /\ Cardinality(LogDone) \in Nat
         /\ m * Cardinality(LogDone) \in Nat
         /\ pos + Reserve < Size
<1>1. LogDone \in SUBSET Loggers BY DEF LogDone
<1>2. /\ IsFiniteSet(LogDone) /\ IsFiniteSet(Loggers)
      /\ Cardinality(LogDone) <= Cardinality(Loggers)
  BY <1>1, FS_Subset DEF LogRoom
<1>3. Cardinality(LogDone) \in Nat /\ Cardinality(Loggers) \in Nat
  BY <1>2, FS_CardinalityType
<1> DEFINE a == m * Cardinality(LogDone)
           b == m * Cardinality(Loggers)
<1>4. a \in Nat /\ b \in Nat /\ a <= b
  BY <1>2, <1>3, TimesGrows DEF LogRoom
<1>5. pos \in Nat /\ pos <= Header + a /\ Header + b + Reserve < Size
  BY DEF LogInv, LogRoom
<1> HIDE DEF a, b
<1>6. pos + Reserve < Size BY <1>4, <1>5, LogAssumed
<1> QED BY <1>2, <1>3, <1>4, <1>6 DEF a

LEMMA LogStart == ASSUME NEW m, LogRoom(m), Init PROVE LogInv(m)
<1>1. Log!Init BY DEF Init
<1>2. LogDone \in SUBSET Loggers BY DEF LogDone
<1>3. Cardinality(LogDone) \in Nat
  BY <1>2, FS_Subset, FS_CardinalityType DEF LogRoom
<1>4. m * Cardinality(LogDone) \in Nat /\ m \in Nat
  BY <1>3, TimesGrows DEF LogRoom
<1> QED BY <1>1, <1>4, LogAssumed DEF Log!Init, LogInv

LEMMA LogLogger ==
  ASSUME NEW m, LogRoom(m), LogInv(m), NEW t \in Loggers, Log!Logger(t)
  PROVE  LogInv(m)'
<1> USE LogAssumed
<1> DEFINE n == Cardinality(LogDone)
<1>1. /\ IsFiniteSet(LogDone) /\ n \in Nat /\ m * n \in Nat
      /\ pos + Reserve < Size /\ m \in Nat
  BY LogBound DEF LogRoom
<1>2. /\ logging \in [Loggers -> {"idle", "format", "advance", "test"}]
      /\ printed \in [Loggers -> 0..m]
      /\ pos \in Nat /\ pos <= Header + m * n
  BY DEF LogInv
<1> HIDE DEF n
<1>3. ASSUME logging' = [logging EXCEPT ![t] = "format"],
             printed' = printed, pos' = Header
      PROVE  LogInv(m)'
  <2>1. LogDone' \in SUBSET Loggers BY DEF LogDone
  <2>2. Cardinality(LogDone)' \in Nat
    BY <2>1, FS_Subset, FS_CardinalityType DEF LogRoom
  <2>3. m * Cardinality(LogDone)' \in Nat BY <1>1, <2>2, TimesGrows
  <2> QED BY <1>2, <1>3, <2>3 DEF LogInv
<1>4. CASE Log!Wrap(t)
  <2>1. pos' = Header BY <1>1, <1>4 DEF Log!Wrap
  <2> QED BY <1>3, <1>4, <2>1 DEF Log!Wrap
<1>5. CASE \E length \in Lengths : Log!Format(t, length)
  <2>1. PICK length \in Lengths : Log!Format(t, length) BY <1>5
  <2>2. /\ logging[t] = "format" /\ pos' = pos
        /\ logging' = [logging EXCEPT ![t] = "advance"]
        /\ printed' = [printed EXCEPT ![t] = length]
    BY <2>1 DEF Log!Format
  <2>3. length \in 0..m BY DEF LogRoom
  <2>4. LogDone' = LogDone BY <1>2, <2>2 DEF LogDone
  <2> QED BY <1>2, <2>2, <2>3, <2>4 DEF LogInv, n
<1>6. CASE Log!Advance(t)
  <2>1. /\ logging[t] = "advance" /\ pos' = pos + printed[t]
        /\ logging' = [logging EXCEPT ![t] = "test"]
        /\ printed' = [printed EXCEPT ![t] = 0]
    BY <1>6 DEF Log!Advance
  <2>2. LogDone' = LogDone \cup {t} /\ t \notin LogDone
    BY <1>2, <2>1 DEF LogDone
  <2>3. Cardinality(LogDone)' = n + 1
    BY <1>1, <2>2, FS_AddElement DEF n
  <2>4. m * Cardinality(LogDone)' = m * n + m
    BY <1>1, <2>3, TimesGrows
  <2>5. printed[t] \in 0..m BY <1>2
  <2>6. pos' \in Nat /\ pos' <= Header + (m * n + m)
    BY <1>1, <1>2, <2>1, <2>5
  <2>7. /\ logging' \in [Loggers -> {"idle", "format", "advance", "test"}]
        /\ printed' \in [Loggers -> 0..m]
    BY <1>1, <1>2, <2>1
  <2> QED BY <2>4, <2>6, <2>7 DEF LogInv
<1>7. CASE Log!Return(t)
  <2>1. /\ logging[t] = "test" /\ UNCHANGED <<pos, printed>>
        /\ logging' = [logging EXCEPT ![t] = "idle"]
    BY <1>1, <1>2, <1>7 DEF Log!Return
  <2>2. LogDone' = LogDone BY <1>2, <2>1 DEF LogDone
  <2> QED BY <1>2, <2>1, <2>2 DEF LogInv, n
<1> QED BY <1>4, <1>5, <1>6, <1>7 DEF Log!Logger

(* A restart finds the pointer where it was, and all tasks done.           *)
LEMMA LogRestart ==
  ASSUME NEW m, LogRoom(m), LogInv(m), Log!Restart PROVE LogInv(m)'
<1>1. /\ logging' = [t \in Loggers |-> "idle"]
      /\ printed' = [t \in Loggers |-> 0] /\ pos' = pos
  BY DEF Log!Restart
<1>2. LogDone' = Loggers BY <1>1 DEF LogDone
<1>3. LogDone \in SUBSET Loggers BY DEF LogDone
<1>4. Cardinality(LogDone) <= Cardinality(Loggers)
      /\ Cardinality(Loggers) \in Nat /\ Cardinality(LogDone) \in Nat
  BY <1>3, FS_Subset, FS_CardinalityType DEF LogRoom
<1> DEFINE a == m * Cardinality(LogDone)
           b == m * Cardinality(Loggers)
<1>5. a \in Nat /\ b \in Nat /\ a <= b
  BY <1>4, TimesGrows DEF LogRoom
<1>6. pos \in Nat /\ pos <= Header + a BY DEF LogInv
<1>7. (m * Cardinality(LogDone))' = b BY <1>2
<1> HIDE DEF a, b
<1>8. pos' \in Nat /\ pos' <= Header + b BY <1>1, <1>5, <1>6, LogAssumed
<1>9. m \in Nat BY DEF LogRoom
<1> QED BY <1>1, <1>7, <1>8, <1>9 DEF LogInv

(* LogStaysInside: whatever tasks log at once and however the gateway      *)
(* restarts, the log stays in its buffer, if that has room for the longest *)
(* message of every task at once.                                          *)
THEOREM LogStaysInsideCorrect ==
  ASSUME NEW CONSTANT m, LogRoom(m) PROVE Spec => []LogStaysInside
<1>1. ASSUME LogInv(m), [Next]_vars PROVE LogInv(m)'
  <2>1. CASE UNCHANGED log
    <3>1. LogDone' = LogDone BY <2>1 DEF log, LogDone
    <3> QED BY <1>1, <2>1, <3>1 DEF log, LogInv
  <2>2. CASE Log!Report BY <1>1, <2>2 DEF Log!Report, LogInv, LogDone
  <2> QED BY <1>1, <2>1, <2>2, LogMoves, LogLogger, LogRestart
    DEF Log!Next
<1>2. LogInv(m) => LogStaysInside
  <2>1. SUFFICES ASSUME LogInv(m) PROVE LogStaysInside OBVIOUS
  <2>2. pos + Reserve < Size /\ pos \in Nat BY <2>1, LogBound DEF LogInv
  <2> QED BY <2>2, LogAssumed DEF LogStaysInside, Log!LogStaysInside
<1>3. Init => LogInv(m) BY LogStart
<1> QED BY <1>1, <1>2, <1>3, PTL DEF Spec

-----------------------------------------------------------------------------
(* Gateway.  Where the main task is, and what has been started.            *)
GateProvisioning == where \in {"provision", "erase", "await", "ip"}

GatePlaces ==
  /\ link = "none" => where = "start"
  /\ where \in Gateway!Booting => back = "mqtt"
  /\ IF where \in Gateway!Booting \/ (GateProvisioning /\ back = "mqtt")
     THEN queue = Gateway!NoQueue
     ELSE queue \in 0..QueueSize
  /\ pending = IF queue = Gateway!NoQueue THEN 0 ELSE queue

(* A press that led to provisioning is forgotten before the button is      *)
(* looked at again.                                                        *)
GatePress ==
  hold.used => \/ button.time = 0
               \/ where = "reset"
               \/ GateProvisioning /\ back = "reset"

(* The time of a press is what the clock showed, unless it was set since.  *)
GateTimes ==
  /\ uptime \in [up : Nat, set : Nat]
  /\ button \in [pressed : BOOLEAN, time : Nat]
  /\ hold \in [since : Nat, set : BOOLEAN, used : BOOLEAN]
  /\ current \in Nat

GateTimed ==
  ~hold.set /\ button.time # 0 => button.time = hold.since + uptime.set

GateInv == /\ Gateway!TypeOK /\ GatePlaces /\ GatePress /\ GateTimes
           /\ GateTimed

LEMMA GateMoves == ASSUME [Next]_vars PROVE Gateway!Next \/ UNCHANGED gateway
BY DEF Next, LedStep, UpdateStep, HistoryStep, LogStep, StartUpStep,
   GatewayStep, UsbLifeStep, FramesStep, CameraStep, UsbDevStep, DfuStep,
   NetStep, AcmStep, Rest, DeviceRest, gatewaySide, vars

LEMMA GateAssumed ==
  /\ LongPress \in Nat /\ Jump \in Nat
  /\ LastUptime \in Nat /\ LastUptime > 0
  /\ QueueSize \in Nat /\ QueueSize > 0
  /\ MaxRetries \in Nat /\ MaxRetries > 0 /\ MaxEvents \in Nat
BY ServicesAssumption DEF Gateway!GatewayAssumption

(* What a start or a restart begins with.                                  *)
GateFresh ==
  /\ where = "start" /\ back = "mqtt" /\ link = "none"
  /\ ip = "none" /\ retries = 0 /\ uptime = Gateway!FreshClock
  /\ current = 0 /\ button = Gateway!FreshButton /\ hold = Gateway!FreshHold
  /\ client = FALSE /\ queue = Gateway!NoQueue /\ pending = 0
  /\ linked = FALSE /\ online = FALSE
  /\ station \in {"none", "old", "new"} /\ happened \in 0..MaxEvents

LEMMA GateAfresh == GateFresh => GateInv
<1> SUFFICES ASSUME GateFresh PROVE GateInv OBVIOUS
<1> USE GateAssumed DEF GateFresh
<1>1. /\ uptime = [up |-> 1, set |-> 0]
      /\ button = [pressed |-> FALSE, time |-> 0]
      /\ hold = [since |-> 0, set |-> FALSE, used |-> FALSE]
  BY DEF Gateway!FreshClock, Gateway!FreshButton, Gateway!FreshHold
<1>2. GateTimes BY <1>1 DEF GateTimes
<1>3. Gateway!TypeOK
  <2>1. current <= Gateway!Now /\ button.time <= Gateway!Now
    BY <1>1 DEF Gateway!Now
  <2>2. uptime.up \in 1..LastUptime /\ uptime.set \in {0, Jump} BY <1>1
  <2>3. retries \in 0..MaxRetries - 1 /\ pending \in 0..happened OBVIOUS
  <2> QED BY <2>1, <2>2, <2>3
    DEF Gateway!TypeOK, Gateway!Places, Gateway!Booting
<1>4. GatePlaces BY DEF GatePlaces, Gateway!Booting
<1>5. GatePress BY <1>1 DEF GatePress
<1>6. GateTimed BY <1>1 DEF GateTimed
<1> QED BY <1>2, <1>3, <1>4, <1>5, <1>6 DEF GateInv

LEMMA GateStart == ASSUME Init PROVE GateInv
<1>1. Gateway!Init BY DEF Init
<1>2. GateFresh BY <1>1, GateAssumed DEF Gateway!Init, GateFresh
<1> QED BY <1>2, GateAfresh

LEMMA GateReboot ==
  ASSUME GateInv, Gateway!Reboot, Gateway!Happens PROVE GateInv'
<1>1. station' \in {"none", "old", "new"}
  BY DEF Gateway!Reboot, GateInv, Gateway!TypeOK
<1>2. happened' \in 0..MaxEvents
  BY GateAssumed DEF Gateway!Happens, GateInv, Gateway!TypeOK
<1>3. /\ where' = "start" /\ back' = "mqtt" /\ link' = "none"
      /\ ip' = "none" /\ retries' = 0 /\ uptime' = Gateway!FreshClock
      /\ current' = 0 /\ button' = Gateway!FreshButton
      /\ hold' = Gateway!FreshHold
      /\ client' = FALSE /\ queue' = Gateway!NoQueue /\ pending' = 0
      /\ linked' = FALSE /\ online' = FALSE
  BY DEF Gateway!Reboot
<1>4. GateFresh' BY <1>1, <1>2, <1>3 DEF GateFresh
<1> QED BY <1>4, GateAfresh, PTL

(* The steps that leave the clock, the button and the press alone.         *)
GateStill == UNCHANGED <<uptime, button, hold>>

LEMMA GateStillTimes ==
  ASSUME GateInv, GateStill, current' = current
  PROVE  /\ GateTimes' /\ GateTimed' /\ UNCHANGED Gateway!Now
         /\ uptime'.up \in 1..LastUptime /\ uptime'.set \in {0, Jump}
         /\ current' <= Gateway!Now' /\ button'.time <= Gateway!Now'
BY DEF GateInv, GateStill, GateTimes, GateTimed, Gateway!TypeOK, Gateway!Now

LEMMA GateMain ==
  ASSUME GateInv, GateStill, current' = current,
         \/ Gateway!StartPpp \/ Gateway!StartWifi \/ Gateway!MqttStart
         \/ Gateway!InitQueue \/ Gateway!Serve \/ Gateway!Hold
         \/ Gateway!Reconnect \/ Gateway!Provision \/ Gateway!Erase
         \/ Gateway!AwaitIp
  PROVE  GateInv'
<1> USE GateAssumed DEF GateInv, Gateway!Looping, Gateway!Booting,
    Gateway!wifi, Gateway!net, Gateway!calls, Gateway!cloud
<1>1. Gateway!TypeOK'
  <2> USE GateStillTimes DEF Gateway!TypeOK
  <2>1. CASE Gateway!StartPpp
    BY <2>1 DEF Gateway!StartPpp, Gateway!Places
  <2>2. CASE Gateway!StartWifi
    BY <2>2 DEF Gateway!StartWifi, Gateway!Places
  <2>3. CASE Gateway!MqttStart
    BY <2>3 DEF Gateway!MqttStart, Gateway!Places
  <2>4. CASE Gateway!InitQueue
    BY <2>4 DEF Gateway!InitQueue, Gateway!Places
  <2>5. CASE Gateway!Serve
    <3>1. /\ where = "serve" /\ where' \in {"serve", "hold"}
          /\ UNCHANGED <<back, link, station, ip, retries, client, happened,
                         linked, online>>
          /\ \/ queue' = queue /\ pending' = pending
             \/ queue # 0 /\ queue' = queue - 1 /\ pending' = pending - 1
      BY <2>5 DEF Gateway!Serve
    <3>2. queue \in 0..QueueSize /\ pending = queue
      BY <3>1 DEF GatePlaces, GateProvisioning, Gateway!NoQueue
    <3>3. queue' \in 0..QueueSize /\ pending' \in 0..happened'
      BY <3>1, <3>2
    <3>4. where' \in Gateway!Places BY <3>1 DEF Gateway!Places
    <3> QED BY <3>1, <3>3, <3>4
  <2>6. CASE Gateway!Hold
    BY <2>6 DEF Gateway!Hold, Gateway!Places
  <2>7. CASE Gateway!Reconnect
    BY <2>7 DEF Gateway!Reconnect, Gateway!Places
  <2>8. CASE Gateway!Provision
    BY <2>8 DEF Gateway!Provision, Gateway!Places
  <2>9. CASE Gateway!Erase
    BY <2>9 DEF Gateway!Erase, Gateway!Places, Gateway!Waiting
  <2>10. CASE Gateway!AwaitIp
    BY <2>10 DEF Gateway!AwaitIp, Gateway!Places
  <2> QED BY <2>1, <2>2, <2>3, <2>4, <2>5, <2>6, <2>7, <2>8, <2>9, <2>10
<1>2. GatePlaces'
  <2> USE DEF GatePlaces, GateProvisioning, Gateway!NoQueue
  <2>1. CASE Gateway!StartPpp BY <2>1 DEF Gateway!StartPpp
  <2>2. CASE Gateway!StartWifi BY <2>2 DEF Gateway!StartWifi
  <2>3. CASE Gateway!MqttStart BY <2>3 DEF Gateway!MqttStart
  <2>4. CASE Gateway!InitQueue
    BY <2>4 DEF Gateway!InitQueue, Gateway!NoQueue, Gateway!TypeOK
  <2>5. CASE Gateway!Serve
    BY <2>5 DEF Gateway!Serve, Gateway!NoQueue, Gateway!TypeOK
  <2>6. CASE Gateway!Hold BY <2>6 DEF Gateway!Hold
  <2>7. CASE Gateway!Reconnect BY <2>7 DEF Gateway!Reconnect
  <2>8. CASE Gateway!Provision BY <2>8 DEF Gateway!Provision
  <2>9. CASE Gateway!Erase BY <2>9 DEF Gateway!Erase
  <2>10. CASE Gateway!AwaitIp
    BY <2>10 DEF Gateway!AwaitIp, Gateway!TypeOK
  <2> QED BY <2>1, <2>2, <2>3, <2>4, <2>5, <2>6, <2>7, <2>8, <2>9, <2>10
<1>3. GatePress'
  BY DEF GatePress, GateProvisioning, GateStill, Gateway!StartPpp,
     Gateway!StartWifi, Gateway!MqttStart, Gateway!InitQueue,
     Gateway!Serve, Gateway!Hold, Gateway!Reconnect, Gateway!Provision,
     Gateway!Erase, Gateway!AwaitIp
<1> QED BY <1>1, <1>2, <1>3, GateStillTimes

(* The steps that look at the clock, use a press and forget it.            *)
LEMMA GateSample == ASSUME GateInv, Gateway!Sample PROVE GateInv'
<1> USE DEF GateInv, Gateway!wifi, Gateway!net, Gateway!calls, Gateway!cloud
<1>1. /\ where = "loop" /\ where' = "serve" /\ current' = Gateway!Now
      /\ UNCHANGED <<back, link, station, ip, retries, uptime, button,
                     client, queue, pending, linked, online, happened, hold>>
  BY DEF Gateway!Sample
<1>2. Gateway!Now \in Nat /\ Gateway!Now' = Gateway!Now
  BY <1>1 DEF GateTimes, Gateway!Now
<1>3. Gateway!TypeOK'
  BY <1>1, <1>2 DEF Gateway!TypeOK, Gateway!Places, Gateway!Looping
<1>4. GatePlaces' BY <1>1 DEF GatePlaces, Gateway!Booting,
   GateProvisioning, Gateway!NoQueue
<1>5. GatePress' BY <1>1 DEF GatePress, GateProvisioning
<1>6. GateTimes' /\ GateTimed' BY <1>1, <1>2 DEF GateTimes, GateTimed
<1> QED BY <1>3, <1>4, <1>5, <1>6

LEMMA GateLong == ASSUME GateInv, Gateway!Long PROVE GateInv'
<1> USE DEF GateInv, Gateway!wifi, Gateway!net, Gateway!calls, Gateway!cloud
<1>1. /\ where = "long"
      /\ UNCHANGED <<link, station, ip, retries, uptime, current, button,
                     client, queue, pending, linked, online, happened>>
      /\ \/ /\ where' = "provision" /\ back' = "reset"
            /\ hold' = [hold EXCEPT !.used = TRUE]
         \/ where' = "end" /\ UNCHANGED <<back, hold>>
  BY DEF Gateway!Long
<1>2. /\ hold' \in [since : Nat, set : BOOLEAN, used : BOOLEAN]
      /\ hold'.since = hold.since /\ hold'.set = hold.set
      /\ hold'.used => \/ where' = "provision" /\ back' = "reset"
                       \/ hold.used
  BY <1>1 DEF GateTimes
<1>3. Gateway!Now' = Gateway!Now BY <1>1 DEF Gateway!Now
<1>4. Gateway!TypeOK'
  BY <1>1, <1>3 DEF Gateway!TypeOK, Gateway!Places, Gateway!Looping
<1>5. GatePlaces' BY <1>1 DEF GatePlaces, Gateway!Booting,
   GateProvisioning, Gateway!NoQueue
<1>6. GatePress' BY <1>1, <1>2 DEF GatePress, GateProvisioning
<1>7. GateTimes' BY <1>1, <1>2 DEF GateTimes
<1>8. GateTimed' BY <1>1, <1>2 DEF GateTimed
<1> QED BY <1>4, <1>5, <1>6, <1>7, <1>8

LEMMA GateReset == ASSUME GateInv, Gateway!Reset PROVE GateInv'
<1> USE DEF GateInv, Gateway!wifi, Gateway!net, Gateway!calls, Gateway!cloud
<1>1. /\ where = "reset" /\ where' = "end"
      /\ button' = [button EXCEPT !.time = 0]
      /\ UNCHANGED <<back, link, station, ip, retries, uptime, current,
                     client, queue, pending, linked, online, happened, hold>>
  BY DEF Gateway!Reset
<1>2. button' \in [pressed : BOOLEAN, time : Nat] /\ button'.time = 0
  BY <1>1 DEF GateTimes
<1>3. Gateway!Now \in Nat /\ Gateway!Now' = Gateway!Now
  BY <1>1 DEF GateTimes, Gateway!Now
<1>4. Gateway!TypeOK'
  BY <1>1, <1>2, <1>3 DEF Gateway!TypeOK, Gateway!Places, Gateway!Looping
<1>5. GatePlaces' BY <1>1 DEF GatePlaces, Gateway!Booting,
   GateProvisioning, Gateway!NoQueue
<1>6. GatePress' BY <1>2 DEF GatePress
<1>7. GateTimes' BY <1>1, <1>2 DEF GateTimes
<1>8. GateTimed' BY <1>2 DEF GateTimed
<1> QED BY <1>4, <1>5, <1>6, <1>7, <1>8

(* What happens to the gateway without its clock and its button.           *)
LEMMA GateHappens ==
  ASSUME GateInv, GateStill, current' = current,
         \/ Gateway!CredFail \/ Gateway!CredSuccess \/ Gateway!GotIp
         \/ Gateway!LinkLost \/ Gateway!Connected \/ Gateway!Disconnected
  PROVE  GateInv'
<1> USE GateAssumed DEF GateInv, Gateway!Looping, Gateway!Booting,
    Gateway!wifi, Gateway!net, Gateway!calls, Gateway!cloud
<1>1. /\ UNCHANGED <<back, link, queue, pending>>
      /\ where' = where \/ (where = "await" /\ where' = "ip")
  BY DEF Gateway!CredFail, Gateway!CredSuccess, Gateway!GotIp,
     Gateway!LinkLost, Gateway!Connected, Gateway!Disconnected
<1>2. Gateway!TypeOK'
  <2> USE GateStillTimes DEF Gateway!TypeOK
  <2>1. CASE Gateway!CredFail BY <2>1 DEF Gateway!CredFail
  <2>2. CASE Gateway!CredSuccess
    BY <2>2 DEF Gateway!CredSuccess, Gateway!Places, Gateway!Waiting
  <2>3. CASE Gateway!GotIp BY <2>3 DEF Gateway!GotIp
  <2>4. CASE Gateway!LinkLost
    <3>1. /\ happened < MaxEvents /\ happened' = happened + 1
          /\ linked' = FALSE
          /\ UNCHANGED <<where, back, link, station, ip, retries, client,
                         queue, pending, online, current>>
      BY <2>4 DEF Gateway!LinkLost, Gateway!Happens
    <3>2. happened' \in 0..MaxEvents /\ pending' \in 0..happened' BY <3>1
    <3> QED BY <3>1, <3>2
  <2>5. CASE Gateway!Connected BY <2>5 DEF Gateway!Connected
  <2>6. CASE Gateway!Disconnected BY <2>6 DEF Gateway!Disconnected
  <2> QED BY <2>1, <2>2, <2>3, <2>4, <2>5, <2>6
<1>3. GatePlaces' BY <1>1 DEF GatePlaces, GateProvisioning
<1>4. GatePress' BY <1>1 DEF GatePress, GateProvisioning, GateStill
<1> QED BY <1>2, <1>3, <1>4, GateStillTimes

LEMMA GateGetData == ASSUME GateInv, Gateway!GetData PROVE GateInv'
<1>1. CASE queue = Gateway!NoQueue
  BY <1>1, GateReboot DEF Gateway!GetData
<1>2. CASE queue # Gateway!NoQueue
  <2> USE DEF GateInv, Gateway!wifi, Gateway!net
  <2>1. /\ UNCHANGED <<where, back, link, station, ip, retries, uptime,
                       current, button, client, linked, online, hold>>
        /\ Gateway!Happens /\ Gateway!Push
    BY <1>2 DEF Gateway!GetData
  <2>2. queue \in 0..QueueSize /\ pending = queue
    BY <1>2 DEF GatePlaces, Gateway!TypeOK
  <2>3. /\ happened' = happened + 1 /\ happened' \in 0..MaxEvents
        /\ pending' \in 0..happened' /\ queue' \in 0..QueueSize
        /\ pending' = queue'
    <3>1. /\ happened < MaxEvents /\ happened' = happened + 1
      BY <2>1 DEF Gateway!Happens
    <3>2. \/ queue < QueueSize /\ queue' = queue + 1
             /\ pending' = pending + 1
          \/ queue' = queue /\ pending' = pending
      BY <2>1 DEF Gateway!Push
    <3>3. happened \in 0..MaxEvents /\ pending \in 0..happened
      BY DEF Gateway!TypeOK
    <3> QED BY <2>2, <3>1, <3>2, <3>3, GateAssumed
  <2>4. GateStill /\ current' = current BY <2>1 DEF GateStill
  <2>5. Gateway!TypeOK'
    BY <2>1, <2>3, <2>4, GateStillTimes DEF Gateway!TypeOK
  <2>6. GatePlaces'
    BY <1>2, <2>1, <2>3, GateAssumed
    DEF GatePlaces, GateProvisioning, Gateway!NoQueue
  <2>7. GatePress' BY <2>1 DEF GatePress, GateProvisioning
  <2> QED BY <2>4, <2>5, <2>6, <2>7, GateStillTimes
<1> QED BY <1>1, <1>2

LEMMA GateButton ==
  ASSUME GateInv, Gateway!Press \/ Gateway!Release PROVE GateInv'
<1> USE DEF GateInv, Gateway!wifi, Gateway!net, Gateway!calls, Gateway!cloud
<1>1. UNCHANGED <<where, back, link, station, ip, retries, uptime, current,
                  client, queue, pending, linked, online>>
  BY DEF Gateway!Press, Gateway!Release
<1>2. Gateway!Now \in Nat /\ Gateway!Now' = Gateway!Now
  BY <1>1 DEF GateTimes, Gateway!Now
<1>3. happened' \in 0..MaxEvents /\ pending' \in 0..happened'
  <2>1. \/ happened' = happened + 1 /\ happened < MaxEvents
        \/ happened' = happened
    BY DEF Gateway!Press, Gateway!Release, Gateway!Happens
  <2>2. happened \in 0..MaxEvents /\ pending \in 0..happened
    BY DEF Gateway!TypeOK
  <2> QED BY <1>1, <2>1, <2>2, GateAssumed
<1>4. GatePlaces' BY <1>1 DEF GatePlaces, GateProvisioning
<1>5. CASE Gateway!Press
  <2>1. /\ button' = [pressed |-> TRUE, time |-> Gateway!Now]
        /\ hold' = [since |-> uptime.up, set |-> FALSE, used |-> FALSE]
    BY <1>5 DEF Gateway!Press
  <2>2. button'.time = Gateway!Now BY <2>1
  <2>3. hold'.used = FALSE /\ hold'.since = uptime.up BY <2>1
  <2>4. uptime.up \in Nat /\ uptime.set \in Nat BY DEF GateTimes
  <2>5. GateTimes' BY <1>1, <1>2, <2>1, <2>4 DEF GateTimes
  <2>6. GateTimed'
    BY <1>1, <2>2, <2>3 DEF GateTimed, Gateway!Now
  <2>7. GatePress' BY <2>3 DEF GatePress
  <2>8. Gateway!TypeOK'
    BY <1>1, <1>2, <1>3, <2>2 DEF Gateway!TypeOK
  <2> QED BY <1>4, <2>5, <2>6, <2>7, <2>8
<1>6. CASE Gateway!Release
  <2>1. button' = [button EXCEPT !.pressed = FALSE] /\ hold' = hold
    BY <1>6 DEF Gateway!Release
  <2>2. button' \in [pressed : BOOLEAN, time : Nat]
        /\ button'.time = button.time
    BY <2>1 DEF GateTimes
  <2>3. GateTimes' BY <1>1, <2>1, <2>2 DEF GateTimes
  <2>4. GateTimed' BY <1>1, <2>1, <2>2 DEF GateTimed
  <2>5. GatePress' BY <1>1, <2>1, <2>2 DEF GatePress, GateProvisioning
  <2>6. Gateway!TypeOK'
    BY <1>1, <1>2, <1>3, <2>2 DEF Gateway!TypeOK
  <2> QED BY <1>4, <2>3, <2>4, <2>5, <2>6
<1> QED BY <1>5, <1>6

LEMMA GateClock ==
  ASSUME GateInv, Gateway!Tick \/ Gateway!SetClock PROVE GateInv'
<1> USE DEF GateInv, Gateway!wifi, Gateway!net, Gateway!calls, Gateway!cloud
<1>1. UNCHANGED <<where, back, link, station, ip, retries, current, button,
                  client, queue, pending, linked, online, happened>>
  BY DEF Gateway!Tick, Gateway!SetClock
<1>2. GatePlaces' BY <1>1 DEF GatePlaces, GateProvisioning
<1>3. uptime.up \in 1..LastUptime /\ uptime.set \in {0, Jump}
      /\ uptime.set \in Nat
  BY GateAssumed DEF Gateway!TypeOK
<1>4. ASSUME uptime'.up \in 1..LastUptime, uptime'.set \in {0, Jump},
             uptime'.up + uptime'.set >= uptime.up + uptime.set
      PROVE  Gateway!TypeOK'
  <2>1. current <= uptime.up + uptime.set
        /\ button.time <= uptime.up + uptime.set
    BY DEF Gateway!TypeOK, Gateway!Now
  <2>2. current \in Nat /\ button.time \in Nat BY DEF GateTimes
  <2>3. uptime'.set \in Nat BY <1>4, GateAssumed
  <2>4. current' <= uptime'.up + uptime'.set
        /\ button'.time <= uptime'.up + uptime'.set
    BY <1>1, <1>3, <1>4, <2>1, <2>2, <2>3
  <2> QED BY <1>1, <1>4, <2>4 DEF Gateway!TypeOK, Gateway!Now
<1>5. CASE Gateway!Tick
  <2>1. /\ uptime.up < LastUptime /\ hold' = hold
        /\ uptime' = [uptime EXCEPT !.up = uptime.up + 1]
    BY <1>5 DEF Gateway!Tick
  <2>2. uptime'.up = uptime.up + 1 /\ uptime'.set = uptime.set
        /\ uptime' \in [up : Nat, set : Nat]
    BY <2>1 DEF GateTimes
  <2>3. Gateway!TypeOK' BY <1>3, <1>4, <2>1, <2>2, GateAssumed
  <2>4. GateTimes' BY <1>1, <2>1, <2>2 DEF GateTimes
  <2>5. GateTimed' BY <1>1, <2>1, <2>2 DEF GateTimed
  <2>6. GatePress' BY <1>1, <2>1 DEF GatePress, GateProvisioning
  <2> QED BY <1>2, <2>3, <2>4, <2>5, <2>6
<1>6. CASE Gateway!SetClock
  <2>1. /\ uptime.set = 0 /\ uptime' = [uptime EXCEPT !.set = Jump]
        /\ hold' = [hold EXCEPT !.set = TRUE]
    BY <1>6 DEF Gateway!SetClock
  <2>2. uptime'.up = uptime.up /\ uptime'.set = Jump
        /\ uptime' \in [up : Nat, set : Nat]
    BY <2>1, GateAssumed DEF GateTimes
  <2>3. hold'.set = TRUE /\ hold'.used = hold.used
        /\ hold' \in [since : Nat, set : BOOLEAN, used : BOOLEAN]
    BY <2>1 DEF GateTimes
  <2>4. Gateway!TypeOK' BY <1>3, <1>4, <2>1, <2>2, GateAssumed
  <2>5. GateTimes' BY <1>1, <2>2, <2>3 DEF GateTimes
  <2>6. GateTimed' BY <2>3 DEF GateTimed
  <2>7. GatePress' BY <1>1, <2>3 DEF GatePress, GateProvisioning
  <2> QED BY <1>2, <2>4, <2>5, <2>6, <2>7
<1> QED BY <1>5, <1>6

LEMMA GateNext == ASSUME GateInv, Gateway!Next PROVE GateInv'
<1>1. CASE \/ Gateway!StartPpp \/ Gateway!StartWifi \/ Gateway!MqttStart
           \/ Gateway!InitQueue \/ Gateway!Serve \/ Gateway!Hold
           \/ Gateway!Reconnect \/ Gateway!Provision \/ Gateway!Erase
           \/ Gateway!AwaitIp
  <2>1. GateStill /\ current' = current
    BY <1>1 DEF Gateway!StartPpp,
       Gateway!StartWifi, Gateway!MqttStart, Gateway!InitQueue,
       Gateway!Serve, Gateway!Hold, Gateway!Reconnect, Gateway!Provision,
       Gateway!Erase, Gateway!AwaitIp, GateStill
  <2> QED BY <1>1, <2>1, GateMain
<1>2. CASE \/ Gateway!CredFail \/ Gateway!CredSuccess \/ Gateway!GotIp
           \/ Gateway!LinkLost \/ Gateway!Connected \/ Gateway!Disconnected
  <2>1. GateStill /\ current' = current
    BY <1>2 DEF Gateway!CredFail, Gateway!CredSuccess, Gateway!GotIp,
       Gateway!LinkLost, Gateway!Connected, Gateway!Disconnected, GateStill
  <2> QED BY <1>2, <2>1, GateHappens
<1>3. CASE Gateway!PowerFailure
  BY <1>3, GateReboot DEF Gateway!PowerFailure
<1> QED BY <1>1, <1>2, <1>3, GateSample, GateLong, GateReset, GateGetData,
        GateButton, GateClock
        DEF Gateway!Next, Gateway!Main, Gateway!Environment

LEMMA GateInvariant == Spec => []GateInv
<1>1. ASSUME GateInv, [Next]_vars PROVE GateInv'
  <2>1. CASE UNCHANGED gateway
    BY <1>1, <2>1
    DEF gateway, GateInv, Gateway!TypeOK, GatePlaces, GatePress, GateTimes,
        GateTimed, GateProvisioning, Gateway!Now
  <2> QED BY <1>1, <2>1, GateMoves, GateNext
<1> QED BY <1>1, GateStart, PTL DEF Spec

(* ProvisioningDeliberate: the WiFi credentials are given up only for a    *)
(* press that was longer than LongPress, or during which the clock was     *)
(* set, and once for one press.                                            *)
THEOREM ProvisioningDeliberateCorrect == Spec => ProvisioningDeliberate
<1>1. ASSUME GateInv, [Next]_vars
      PROVE  [where = "long" /\ where' = "provision" =>
                /\ link = "wifi" /\ ~hold.used
                /\ hold.set \/ uptime.up - hold.since > LongPress
             ]_(Gateway!vars)
  <2>1. CASE UNCHANGED gateway
    BY <2>1 DEF gateway, Gateway!vars, Gateway!wifi, Gateway!net,
       Gateway!calls, Gateway!cloud
  <2>2. CASE Gateway!Next
    <3>1. SUFFICES ASSUME where = "long", where' = "provision"
                   PROVE  /\ link = "wifi" /\ ~hold.used
                          /\ hold.set \/ uptime.up - hold.since > LongPress
      OBVIOUS
    <3>2. Gateway!Long
      BY <2>2, <3>1
      DEF Gateway!Next, Gateway!Main, Gateway!Environment, Gateway!StartPpp,
          Gateway!StartWifi, Gateway!MqttStart, Gateway!InitQueue,
          Gateway!Sample, Gateway!Serve, Gateway!Hold, Gateway!Reset,
          Gateway!Reconnect, Gateway!Provision, Gateway!Erase,
          Gateway!AwaitIp, Gateway!CredFail, Gateway!CredSuccess,
          Gateway!GotIp, Gateway!LinkLost, Gateway!Connected,
          Gateway!Disconnected, Gateway!GetData, Gateway!Press,
          Gateway!Release, Gateway!Tick, Gateway!SetClock,
          Gateway!PowerFailure, Gateway!Reboot
    <3>3. /\ button.time # 0 /\ current - button.time > LongPress
          /\ link # "ppp"
      BY <3>1, <3>2 DEF Gateway!Long
    <3>4. link = "wifi"
      BY <1>1, <3>1, <3>3 DEF GateInv, GatePlaces, Gateway!TypeOK
    <3>5. ~hold.used
      BY <1>1, <3>1, <3>3 DEF GateInv, GatePress, GateProvisioning
    <3>6. ASSUME ~hold.set PROVE uptime.up - hold.since > LongPress
      <4>1. button.time = hold.since + uptime.set
        BY <1>1, <3>3, <3>6 DEF GateInv, GateTimed
      <4>2. current <= uptime.up + uptime.set
        BY <1>1 DEF GateInv, Gateway!TypeOK, Gateway!Now
      <4>3. /\ uptime.up \in Nat /\ uptime.set \in Nat /\ hold.since \in Nat
            /\ current \in Nat
        BY <1>1 DEF GateInv, GateTimes
      <4> QED BY <3>3, <4>1, <4>2, <4>3, GateAssumed
    <3> QED BY <3>4, <3>5, <3>6
  <2> QED BY <1>1, <2>1, <2>2, GateMoves
<1> QED BY <1>1, GateInvariant, PTL
  DEF Spec, ProvisioningDeliberate, Gateway!ProvisioningDeliberate

-----------------------------------------------------------------------------
(* The camera's frames.  The handle is there as long as the sample task    *)
(* may use it; the other buffer holds the frame that was published, whole, *)
(* and the mutex keeps it while the task copies it.                        *)
FramesPlaces ==
  /\ strmh = (usb # "closed")
  /\ usb \in {"streaming", "swap"} =>
       streaming /\ ~sampleDone /\ sample \notin {"none", "finish"}
  /\ usb \in {"notify", "await"} =>
       ~streaming /\ (sampleDone <=> sample = "none")
  /\ usb \in {"closed", "stopped"} => ~sampleDone /\ sample = "none"
  /\ holder = IF sample \in {"test", "copy"} THEN "sample" ELSE "none"

FramesHeld ==
  /\ \A i \in 1..holdBytes : buffer[Frames!Other(out)][i] = holdSeq
  /\ holdSeq <= seq /\ (holdSeq # 0 => holdBytes > 0)
  /\ sample # "none" => lastSeq <= holdSeq

FramesGot ==
  /\ \A i \in 1..gotBytes : buffer[out][i] = seq
  /\ usb = "swap" => gotBytes > 0 /\ seq <= LastSeq

FramesCopied ==
  /\ sample = "copy" => /\ frame.seq = holdSeq /\ holdSeq # 0
                        /\ frame.bytes <= holdBytes
  /\ sample \in {"copy", "callback"} =>
       /\ frame.seq = lastSeq
       /\ \A i \in 1..frame.bytes : frame.data[i] = frame.seq
  /\ sample = "callback" => frame.bytes > 0

FramesInv == /\ Frames!TypeOK /\ FramesPlaces /\ FramesHeld /\ FramesGot
             /\ FramesCopied

LEMMA FramesMoves == ASSUME [Next]_vars PROVE Frames!Next \/ UNCHANGED frames
BY DEF Next, LedStep, UpdateStep, HistoryStep, LogStep, StartUpStep,
   GatewayStep, UsbLifeStep, FramesStep, CameraStep, UsbDevStep, DfuStep,
   NetStep, AcmStep, Rest, DeviceRest, gatewaySide, vars

LEMMA FramesAssumed ==
  XferSize \in Nat \ {0} /\ LastSeq \in Nat \ {0} /\ MaxStreams \in Nat \ {0}
BY ServicesAssumption DEF Frames!UvcFramesAssumption

LEMMA FramesStart == ASSUME Init PROVE FramesInv
<1> USE FramesAssumed
<1>1. Frames!Init BY DEF Init
<1>2. Frames!NoBytes \in Frames!Bytes BY DEF Frames!NoBytes, Frames!Bytes
<1>3. Frames!TypeOK
  <2>1. {strmh, streaming, notified, sampleDone} \subseteq BOOLEAN
    BY <1>1 DEF Frames!Init
  <2>2. {gotBytes, holdBytes} \subseteq 0..XferSize
        /\ {holdSeq, lastSeq} \subseteq 0..LastSeq
    BY <1>1 DEF Frames!Init
  <2>3. frame \in [seq : 0..LastSeq, bytes : 0..XferSize,
                   data : Frames!Bytes]
    BY <1>1, <1>2 DEF Frames!Init, Frames!NoFrame
  <2>4. fid \in 0..1 /\ seq \in 0..LastSeq + 1 /\ out \in 1..2
        /\ streams \in 0..MaxStreams
    BY <1>1 DEF Frames!Init
  <2> QED BY <1>1, <1>2, <2>1, <2>2, <2>3, <2>4
    DEF Frames!Init, Frames!TypeOK
<1>4. FramesPlaces BY <1>1 DEF Frames!Init, FramesPlaces
<1>5. FramesHeld /\ FramesGot /\ FramesCopied
  BY <1>1 DEF Frames!Init, FramesHeld, FramesGot, FramesCopied
<1> QED BY <1>3, <1>4, <1>5 DEF FramesInv

LEMMA FramesFrame ==
  ASSUME Frames!TypeOK, NEW n \in 0..LastSeq
  PROVE  LET f == [frame EXCEPT !.seq = n, !.bytes = 0] IN
         /\ f \in [seq : 0..LastSeq, bytes : 0..XferSize, data : Frames!Bytes]
         /\ f.seq = n /\ f.bytes = 0
<1>1. frame \in [seq : 0..LastSeq, bytes : 0..XferSize, data : Frames!Bytes]
  BY DEF Frames!TypeOK
<1>2. PICK g : g = [frame EXCEPT !.seq = n] OBVIOUS
<1>3. g = [seq |-> n, bytes |-> frame.bytes, data |-> frame.data]
  BY <1>1, <1>2
<1>4. [g EXCEPT !.bytes = 0]
        = [seq |-> n, bytes |-> 0, data |-> frame.data]
  BY <1>3
<1>5. [frame EXCEPT !.seq = n, !.bytes = 0] = [g EXCEPT !.bytes = 0]
  BY <1>2
<1>6. 0 \in 0..XferSize BY FramesAssumed
<1> QED BY <1>1, <1>4, <1>5, <1>6

(* The steps that pass control and leave the frames as they are.           *)
LEMMA FramesControl ==
  ASSUME FramesInv,
         \/ Frames!Stop \/ Frames!Notify \/ Frames!Await \/ Frames!Close
         \/ Frames!Start \/ Frames!Lock \/ Frames!Wake \/ Frames!Copied
         \/ Frames!Callback \/ Frames!Finish
  PROVE  FramesInv'
<1> USE FramesAssumed DEF Frames!assembly
<1>1. UNCHANGED <<seq, gotBytes, out, buffer, holdBytes, holdSeq, frame,
                  lastSeq, fid, streams>>
  BY DEF Frames!Stop, Frames!Notify, Frames!Await, Frames!Close,
     Frames!Start, Frames!Lock, Frames!Wake, Frames!Copied,
     Frames!Callback, Frames!Finish, Frames!task
<1> USE DEF FramesInv
<1>2. Frames!TypeOK' /\ FramesPlaces'
  <2> USE DEF Frames!TypeOK, FramesPlaces, Frames!task
  <2>1. CASE Frames!Stop BY <1>1, <2>1 DEF Frames!Stop
  <2>2. CASE Frames!Notify BY <1>1, <2>2 DEF Frames!Notify
  <2>3. CASE Frames!Await BY <1>1, <2>3 DEF Frames!Await
  <2>4. CASE Frames!Close BY <1>1, <2>4 DEF Frames!Close
  <2>5. CASE Frames!Start BY <1>1, <2>5 DEF Frames!Start
  <2>6. CASE Frames!Lock BY <1>1, <2>6 DEF Frames!Lock
  <2>7. CASE Frames!Wake BY <1>1, <2>7 DEF Frames!Wake
  <2>8. CASE Frames!Copied BY <1>1, <2>8 DEF Frames!Copied
  <2>9. CASE Frames!Callback BY <1>1, <2>9 DEF Frames!Callback
  <2>10. CASE Frames!Finish BY <1>1, <2>10 DEF Frames!Finish
  <2> QED BY <2>1, <2>2, <2>3, <2>4, <2>5, <2>6, <2>7, <2>8, <2>9, <2>10
<1>3. /\ usb' = "swap" => usb = "swap"
      /\ sample' # "none" => sample # "none"
      /\ sample' = "copy" => sample = "copy"
      /\ sample' = "callback" =>
           \/ sample = "callback"
           \/ sample = "copy" /\ frame.bytes = holdBytes
  BY DEF Frames!Stop, Frames!Notify, Frames!Await, Frames!Close,
     Frames!Start, Frames!Lock, Frames!Wake, Frames!Copied,
     Frames!Callback, Frames!Finish, Frames!task
<1>4. FramesHeld' BY <1>1, <1>3 DEF FramesHeld, Frames!Other
<1>5. FramesGot' BY <1>1, <1>3 DEF FramesGot
<1>6. FramesCopied' BY <1>1, <1>3 DEF FramesCopied, FramesHeld
<1> QED BY <1>2, <1>4, <1>5, <1>6

LEMMA FramesOpen == ASSUME FramesInv, Frames!Open PROVE FramesInv'
<1> USE FramesAssumed DEF FramesInv
<1>1. /\ usb = "closed" /\ sample = "none" /\ ~sampleDone
      /\ holder = "none"
      /\ streams' \in 0..MaxStreams
      /\ strmh' = TRUE /\ streaming' = TRUE
      /\ fid' = 0 /\ gotBytes' = 0 /\ seq' = 1 /\ out' = 1
      /\ holdBytes' = 0 /\ holdSeq' = 0
      /\ frame' = [frame EXCEPT !.seq = 0, !.bytes = 0]
      /\ \/ /\ usb' = "streaming" /\ sample' = "start" /\ lastSeq' = 0
            /\ notified' = FALSE
         \/ /\ usb' = "stopped" /\ sample' = "none"
            /\ UNCHANGED <<notified, lastSeq>>
      /\ UNCHANGED <<buffer, holder, sampleDone>>
  BY DEF Frames!Open, FramesPlaces, Frames!TypeOK
<1>2. frame' \in [seq : 0..LastSeq, bytes : 0..XferSize, data : Frames!Bytes]
  <2>1. 0 \in 0..LastSeq OBVIOUS
  <2> QED BY <1>1, <2>1, FramesFrame
<1>3. Frames!TypeOK'
  <2>1. {gotBytes', holdBytes'} \subseteq 0..XferSize
        /\ {holdSeq', lastSeq'} \subseteq 0..LastSeq
        /\ seq' \in 0..LastSeq + 1
    BY <1>1 DEF Frames!TypeOK
  <2>2. {strmh', streaming', notified', sampleDone'} \subseteq BOOLEAN
    BY <1>1 DEF Frames!TypeOK
  <2> QED BY <1>1, <1>2, <2>1, <2>2 DEF Frames!TypeOK
<1>4. FramesPlaces' BY <1>1 DEF FramesPlaces
<1>5. FramesHeld' /\ FramesGot' BY <1>1 DEF FramesHeld, FramesGot
<1>6. FramesCopied' BY <1>1 DEF FramesCopied
<1> QED BY <1>3, <1>4, <1>5, <1>6

LEMMA FramesPayload ==
  ASSUME FramesInv, NEW bit \in 0..1, NEW length \in 0..XferSize,
         NEW ends \in BOOLEAN, Frames!Payload(bit, length, ends)
  PROVE  FramesInv'
<1> USE FramesAssumed DEF FramesInv
<1> DEFINE got == Frames!Got(bit)
           mine == [i \in 1..XferSize |->
                      IF i \in got + 1..got + length THEN seq
                      ELSE buffer[out][i]]
<1>1. /\ usb = "streaming" /\ seq <= LastSeq /\ fid' = bit
      /\ UNCHANGED <<strmh, streaming, seq, out, holdBytes, holdSeq, holder,
                     sample, lastSeq, frame, notified, sampleDone, streams>>
      /\ IF got + length > XferSize
         THEN gotBytes' = 0 /\ UNCHANGED <<buffer, usb>>
         ELSE /\ gotBytes' = got + length
              /\ buffer' = [buffer EXCEPT ![out] = mine]
              /\ usb' = IF length > 0 /\ ends THEN "swap" ELSE usb
  BY DEF Frames!Payload, Frames!task
<1>2. /\ got \in 0..XferSize /\ got <= gotBytes
      /\ buffer \in [1..2 -> Frames!Bytes] /\ out \in 1..2
      /\ seq \in 0..LastSeq + 1
  BY DEF Frames!TypeOK, Frames!Got
<1>3. mine \in Frames!Bytes BY <1>2 DEF Frames!Bytes
<1>4. /\ \A i \in 1..XferSize \cap got + 1..got + length : mine[i] = seq
      /\ \A i \in 1..got : mine[i] = buffer[out][i]
  BY <1>2
<1> HIDE DEF mine, got
<1>5. Frames!TypeOK'
  <2>1. gotBytes' \in 0..XferSize BY <1>1, <1>2
  <2>2. buffer' \in [1..2 -> Frames!Bytes] BY <1>1, <1>2, <1>3
  <2>3. usb' \in {"streaming", "swap"} BY <1>1
  <2> QED BY <1>1, <2>1, <2>2, <2>3 DEF Frames!TypeOK
<1>6. FramesPlaces'
  <2>1. usb' \in {"streaming", "swap"} BY <1>1
  <2> QED BY <1>1, <2>1 DEF FramesPlaces
<1>7. FramesHeld'
  <2>1. Frames!Other(out) \in 1..2 \ {out} BY <1>2 DEF Frames!Other
  <2>2. buffer'[Frames!Other(out)] = buffer[Frames!Other(out)]
    BY <1>1, <1>2, <2>1
  <2> QED BY <1>1, <2>2 DEF FramesHeld, Frames!Other
<1>8. FramesGot'
  <2>1. CASE got + length > XferSize
    BY <1>1, <2>1 DEF FramesGot
  <2>2. CASE ~(got + length > XferSize)
    <3>1. \A i \in 1..got : buffer[out][i] = seq
      <4>1. gotBytes \in Nat BY DEF Frames!TypeOK
      <4>2. 1..got \subseteq 1..gotBytes BY <1>2, <4>1
      <4> QED BY <4>2 DEF FramesGot
    <3>2. \A i \in 1..got + length : mine[i] = seq
      BY <1>2, <1>4, <2>2, <3>1
    <3>3. buffer'[out] = mine BY <1>1, <1>2, <2>2
    <3>4. usb' = "swap" => length > 0 BY <1>1, <2>2
    <3> QED BY <1>1, <1>2, <2>2, <3>2, <3>3, <3>4 DEF FramesGot
  <2> QED BY <2>1, <2>2
<1>9. FramesCopied' BY <1>1 DEF FramesCopied
<1> QED BY <1>5, <1>6, <1>7, <1>8, <1>9

LEMMA FramesSwap == ASSUME FramesInv, Frames!SwapBuffers PROVE FramesInv'
<1> USE FramesAssumed DEF FramesInv
<1>1. /\ usb = "swap" /\ usb' = "streaming" /\ seq' = seq + 1
      /\ gotBytes' = 0 /\ gotBytes > 0 /\ seq <= LastSeq
      /\ IF holder = "none"
         THEN /\ out' = Frames!Other(out) /\ holdBytes' = gotBytes
              /\ holdSeq' = seq /\ notified' = TRUE
         ELSE UNCHANGED <<out, holdBytes, holdSeq, notified>>
      /\ UNCHANGED <<strmh, streaming, fid, buffer, holder, sample, lastSeq,
                     frame, sampleDone, streams>>
  BY DEF Frames!SwapBuffers, Frames!task, FramesGot
<1>2. /\ seq \in 0..LastSeq /\ gotBytes \in 0..XferSize /\ out \in 1..2
      /\ {holdSeq, lastSeq} \subseteq 0..LastSeq
      /\ Frames!Other(out) \in 1..2
      /\ Frames!Other(Frames!Other(out)) = out
  BY <1>1 DEF Frames!TypeOK, Frames!Other
<1>3. Frames!TypeOK'
  <2>1. out' \in 1..2 /\ {gotBytes', holdBytes'} \subseteq 0..XferSize
    BY <1>1, <1>2 DEF Frames!TypeOK
  <2>2. holdSeq' \in 0..LastSeq /\ seq' \in 0..LastSeq + 1
    BY <1>1, <1>2
  <2>3. notified' \in BOOLEAN BY <1>1 DEF Frames!TypeOK
  <2> QED BY <1>1, <1>2, <2>1, <2>2, <2>3 DEF Frames!TypeOK
<1>4. FramesPlaces' BY <1>1 DEF FramesPlaces
<1>5. FramesHeld'
  <2>1. CASE holder = "none"
    <3>1. buffer'[Frames!Other(out')] = buffer[out] BY <1>1, <1>2, <2>1
    <3>2. \A i \in 1..holdBytes' : buffer'[Frames!Other(out')][i] = holdSeq'
      BY <1>1, <2>1, <3>1 DEF FramesGot
    <3> QED BY <1>1, <1>2, <2>1, <3>2 DEF FramesHeld, Frames!Other
  <2>2. CASE holder # "none"
    BY <1>1, <1>2, <2>2 DEF FramesHeld, Frames!Other
  <2> QED BY <2>1, <2>2
<1>6. FramesGot' BY <1>1 DEF FramesGot
<1>7. FramesCopied'
  <2>1. sample = "copy" => holder # "none" BY DEF FramesPlaces
  <2> QED BY <1>1, <2>1 DEF FramesCopied
<1> QED BY <1>3, <1>4, <1>5, <1>6, <1>7

LEMMA FramesTest == ASSUME FramesInv, Frames!Test PROVE FramesInv'
<1> USE FramesAssumed DEF FramesInv
<1>1. /\ sample = "test" /\ sample' \in {"sleep", "copy", "finish"}
      /\ sample' = "finish" <=> ~streaming
      /\ sample' = "copy" => lastSeq # holdSeq
      /\ lastSeq' = IF sample' = "copy" THEN holdSeq ELSE lastSeq
      /\ frame' = IF sample' = "copy"
                  THEN [frame EXCEPT !.seq = holdSeq, !.bytes = 0]
                  ELSE frame
      /\ holder' = IF sample' = "copy" THEN holder ELSE "none"
      /\ UNCHANGED <<usb, strmh, streaming, fid, gotBytes, seq, out, buffer,
                     holdBytes, holdSeq, notified, sampleDone, streams>>
  BY DEF Frames!Test, Frames!assembly
<1>2. {holdSeq, lastSeq} \subseteq 0..LastSeq BY DEF Frames!TypeOK
<1>3. frame' \in [seq : 0..LastSeq, bytes : 0..XferSize, data : Frames!Bytes]
  <2>1. CASE sample' = "copy" BY <1>1, <1>2, <2>1, FramesFrame
  <2>2. CASE sample' # "copy" BY <1>1, <2>2 DEF Frames!TypeOK
  <2> QED BY <2>1, <2>2
<1>4. Frames!TypeOK'
  <2>1. holder' \in {"none", "sample"} BY <1>1 DEF Frames!TypeOK
  <2>2. lastSeq' \in 0..LastSeq BY <1>1, <1>2
  <2> QED BY <1>1, <1>2, <1>3, <2>1, <2>2 DEF Frames!TypeOK
<1>5. FramesPlaces' BY <1>1 DEF FramesPlaces
<1>6. FramesHeld' BY <1>1, <1>2 DEF FramesHeld, Frames!Other
<1>7. FramesGot' BY <1>1 DEF FramesGot
<1>8. FramesCopied'
  <2>1. CASE sample' # "copy" BY <1>1, <2>1 DEF FramesCopied
  <2>2. CASE sample' = "copy"
    <3>1. lastSeq <= holdSeq /\ lastSeq # holdSeq
      BY <1>1, <2>2 DEF FramesHeld
    <3>2. holdSeq # 0 BY <1>2, <3>1
    <3>3. frame'.seq = holdSeq /\ frame'.bytes = 0
      BY <1>1, <2>2 DEF Frames!TypeOK
    <3>4. holdBytes \in Nat BY DEF Frames!TypeOK
    <3> QED BY <1>1, <2>2, <3>2, <3>3, <3>4 DEF FramesCopied
  <2> QED BY <2>1, <2>2
<1> QED BY <1>4, <1>5, <1>6, <1>7, <1>8

LEMMA FramesCopy == ASSUME FramesInv, Frames!Copy PROVE FramesInv'
<1> USE FramesAssumed DEF FramesInv
<1> DEFINE i == frame.bytes + 1
           byte == buffer[Frames!Other(out)][i]
<1>1. /\ sample = "copy" /\ frame.bytes < holdBytes
      /\ frame' = [frame EXCEPT !.bytes = i, !.data[i] = byte]
      /\ UNCHANGED <<usb, strmh, streaming, fid, gotBytes, seq, out, buffer,
                     holdBytes, holdSeq, holder, sample, lastSeq, notified,
                     sampleDone, streams>>
  BY DEF Frames!Copy, Frames!assembly
<1>2. /\ frame.bytes \in Nat /\ i \in 1..holdBytes
      /\ holdBytes \in 0..XferSize /\ i \in 1..XferSize
      /\ frame.seq \in 0..LastSeq /\ frame.data \in Frames!Bytes
      /\ frame = [seq |-> frame.seq, bytes |-> frame.bytes,
                  data |-> frame.data]
  BY <1>1 DEF Frames!TypeOK
<1>3. byte = holdSeq BY <1>2 DEF FramesHeld
<1>4. holdSeq \in 0..LastSeq + 1 BY DEF Frames!TypeOK
<1> HIDE DEF i, byte
<1>5. frame' = [seq |-> frame.seq, bytes |-> i,
                data |-> [frame.data EXCEPT ![i] = holdSeq]]
  BY <1>1, <1>2, <1>3
<1>6. [frame.data EXCEPT ![i] = holdSeq] \in Frames!Bytes
  BY <1>2, <1>4 DEF Frames!Bytes
<1>7. Frames!TypeOK' BY <1>1, <1>2, <1>5, <1>6 DEF Frames!TypeOK
<1>8. FramesPlaces' BY <1>1 DEF FramesPlaces
<1>9. FramesHeld' /\ FramesGot'
  BY <1>1 DEF FramesHeld, FramesGot, Frames!Other
<1>10. FramesCopied'
  <2>1. \A j \in 1..i : frame'.data[j] = frame.seq
    <3>1. frame.seq = holdSeq BY <1>1 DEF FramesCopied
    <3>2. \A j \in 1..frame.bytes : frame.data[j] = frame.seq
      BY <1>1 DEF FramesCopied
    <3>3. \A j \in 1..i : j = i \/ j \in 1..frame.bytes BY <1>2 DEF i
    <3>4. \A j \in 1..i :
            frame'.data[j] = IF j = i THEN holdSeq ELSE frame.data[j]
      BY <1>2, <1>5 DEF Frames!Bytes
    <3> QED BY <3>1, <3>2, <3>3, <3>4
  <2> QED BY <1>1, <1>2, <1>5, <2>1 DEF FramesCopied
<1> QED BY <1>7, <1>8, <1>9, <1>10

LEMMA FramesStays == ASSUME FramesInv, [Next]_vars PROVE FramesInv'
<1>1. CASE UNCHANGED frames
  BY <1>1 DEF frames, FramesInv, Frames!TypeOK, FramesPlaces, FramesHeld,
     FramesGot, FramesCopied, Frames!Other
<1>2. CASE Frames!Next
  BY <1>2, FramesControl, FramesOpen, FramesPayload, FramesSwap, FramesTest,
     FramesCopy DEF Frames!Next, Frames!Usb, Frames!Sample
<1> QED BY <1>1, <1>2, FramesMoves

(* Every frame the callback gets is one frame of the camera, whole, and    *)
(* the sample task never uses a handle that the USB task has freed.        *)
THEOREM FrameIntactCorrect == Spec => []FrameIntact
<1>1. Init => FramesInv BY FramesStart
<1>2. FramesInv /\ [Next]_vars => FramesInv' BY FramesStays
<1>3. FramesInv => FrameIntact
  BY DEF FramesInv, FramesCopied, FramesPlaces, Frames!TypeOK, FrameIntact,
     Frames!FrameIntact
<1> QED BY <1>1, <1>2, <1>3, PTL DEF Spec
=============================================================================
