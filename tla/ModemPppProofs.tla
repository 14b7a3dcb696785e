--------------------------- MODULE ModemPppProofs ---------------------------
(***************************************************************************)
(* Proofs about ModemPpp, for every number of dial attempts and every bound*)
(* on the outstanding events: type correctness, NoTransitionLeft, and, from*)
(* one invariant of a boot without mishap, ConnectBitHonest and            *)
(* LinkAttendedUndisturbed.                                                *)
(***************************************************************************)
EXTENDS ModemPpp, SequenceTheorems, TLAPS

(* main has an attempt left until it decides to restart.                   *)
AttemptLeft == pc["main"] # "restart" => retries > 0

TypeInv == TypeOK /\ AttemptLeft

LEMMA LabelsNamed ==
  Labels = {"escape", "sync", "hangUp", "dial", "stop", "awaitStop", "start",
            "idle", "awaitConnect", "connected", "restart", "running"}
BY DEF Labels, Redialling, Changing

LEMMA TypeStep == TypeInv /\ [Next]_vars => TypeInv'
<1> SUFFICES ASSUME TypeInv, [Next]_vars PROVE TypeInv'
  OBVIOUS
<1> USE DEF TypeInv, TypeOK, link, bits, dial, queues
<1>1. ASSUME NEW t \in Tasks, StopBegin(t) PROVE TypeInv'
  <2> USE <1>1 DEF StopBegin, Goto
  <2>1. DceTyped'
    BY DEF DceTyped, TasksTyped, Modes, Tasks
  <2>2. (pc \in [Tasks -> Labels])'
    BY LabelsNamed DEF TasksTyped, Tasks
  <2>3. (savedMode \in [Tasks -> Modes])'
    BY DEF DceTyped, TasksTyped, Modes, Tasks
  <2>4. startRet' \in BOOLEAN /\ retries' \in 0..DialRetryTimes /\ AttemptLeft'
    BY BoundsAssumption DEF TasksTyped, AttemptLeft, Tasks
  <2>5. QueuesTyped'
    BY DEF QueuesTyped
  <2>6. (mishaps \subseteq Mishaps)'
    BY DEF Mishaps
  <2> QED
    BY <2>1, <2>2, <2>3, <2>4, <2>5, <2>6 DEF TasksTyped
<1>2. ASSUME NEW t \in Tasks, Escape(t) PROVE TypeInv'
  <2> USE <1>2 DEF Escape, Goto, Note
  <2>1. DceTyped'
    BY DEF DceTyped, TasksTyped, Modes, Tasks
  <2>2. (pc \in [Tasks -> Labels])'
    BY LabelsNamed DEF TasksTyped, Tasks
  <2>3. (savedMode \in [Tasks -> Modes])'
    BY DEF DceTyped, TasksTyped, Modes, Tasks
  <2>4. startRet' \in BOOLEAN /\ retries' \in 0..DialRetryTimes /\ AttemptLeft'
    BY BoundsAssumption DEF TasksTyped, AttemptLeft, Tasks
  <2>5. QueuesTyped'
    BY DEF QueuesTyped
  <2>6. (mishaps \subseteq Mishaps)'
    BY DEF Mishaps
  <2> QED
    BY <2>1, <2>2, <2>3, <2>4, <2>5, <2>6 DEF TasksTyped
<1>3. ASSUME NEW t \in Tasks, LeaveDataMode(t) PROVE TypeInv'
  <2> USE <1>3 DEF LeaveDataMode, Goto, Note
  <2>1. DceTyped'
    BY DEF DceTyped, TasksTyped, Modes, Tasks
  <2>2. (pc \in [Tasks -> Labels])'
    BY LabelsNamed DEF TasksTyped, Tasks
  <2>3. (savedMode \in [Tasks -> Modes])'
    BY DEF DceTyped, TasksTyped, Modes, Tasks
  <2>4. startRet' \in BOOLEAN /\ retries' \in 0..DialRetryTimes /\ AttemptLeft'
    BY BoundsAssumption DEF TasksTyped, AttemptLeft, Tasks
  <2>5. QueuesTyped'
    <3>1. dteQueue' = dteQueue \/ dteQueue' = Append(dteQueue, "PPP_STOP")
      OBVIOUS
    <3>2. sysQueue' = sysQueue
      OBVIOUS
    <3> HIDE <1>3
    <3> QED
      BY <3>1, <3>2 DEF QueuesTyped
  <2>6. (mishaps \subseteq Mishaps)'
    BY DEF Mishaps
  <2> QED
    BY <2>1, <2>2, <2>3, <2>4, <2>5, <2>6 DEF TasksTyped
<1>4. ASSUME NEW t \in Tasks, AwaitStop(t) PROVE TypeInv'
  <2> USE <1>4 DEF AwaitStop, Goto
  <2>1. DceTyped'
    BY DEF DceTyped, TasksTyped, Modes, Tasks
  <2>2. (pc \in [Tasks -> Labels])'
    BY LabelsNamed DEF TasksTyped, Tasks
  <2>3. (savedMode \in [Tasks -> Modes])'
    BY DEF DceTyped, TasksTyped, Modes, Tasks
  <2>4. startRet' \in BOOLEAN /\ retries' \in 0..DialRetryTimes /\ AttemptLeft'
    BY BoundsAssumption DEF TasksTyped, AttemptLeft, Tasks
  <2>5. QueuesTyped'
    BY DEF QueuesTyped
  <2>6. (mishaps \subseteq Mishaps)'
    BY DEF Mishaps
  <2> QED
    BY <2>1, <2>2, <2>3, <2>4, <2>5, <2>6 DEF TasksTyped
<1>5. ASSUME NEW t \in Tasks, StartBegin(t) PROVE TypeInv'
  <2> USE <1>5 DEF StartBegin, Returned, Goto
  <2>1. DceTyped'
    BY DEF DceTyped, TasksTyped, Modes, Tasks
  <2>2. (pc \in [Tasks -> Labels])'
    BY LabelsNamed DEF TasksTyped, Tasks
  <2>3. (savedMode \in [Tasks -> Modes])'
    BY DEF DceTyped, TasksTyped, Modes, Tasks
  <2>4. startRet' \in BOOLEAN /\ retries' \in 0..DialRetryTimes /\ AttemptLeft'
    BY BoundsAssumption DEF TasksTyped, AttemptLeft, Tasks
  <2>5. QueuesTyped'
    BY DEF QueuesTyped
  <2>6. (mishaps \subseteq Mishaps)'
    BY DEF Mishaps
  <2> QED
    BY <2>1, <2>2, <2>3, <2>4, <2>5, <2>6 DEF TasksTyped
<1>6. ASSUME NEW t \in Tasks, EnterDataMode(t) PROVE TypeInv'
  <2> USE <1>6 DEF EnterDataMode, Returned, Goto, Note
  <2>1. DceTyped'
    BY DEF DceTyped, TasksTyped, Modes, Tasks
  <2>2. (pc \in [Tasks -> Labels])'
    BY LabelsNamed DEF TasksTyped, Tasks
  <2>3. (savedMode \in [Tasks -> Modes])'
    BY DEF DceTyped, TasksTyped, Modes, Tasks
  <2>4. startRet' \in BOOLEAN /\ retries' \in 0..DialRetryTimes /\ AttemptLeft'
    BY BoundsAssumption DEF TasksTyped, AttemptLeft, Tasks
  <2>5. QueuesTyped'
    <3>1. dteQueue' = dteQueue \/ dteQueue' = Append(dteQueue, "PPP_START")
      OBVIOUS
    <3>2. sysQueue' = sysQueue
      OBVIOUS
    <3> HIDE <1>6
    <3> QED
      BY <3>1, <3>2 DEF QueuesTyped
  <2>6. (mishaps \subseteq Mishaps)'
    BY DEF Mishaps
  <2> QED
    BY <2>1, <2>2, <2>3, <2>4, <2>5, <2>6 DEF TasksTyped
<1>7. CASE ConnectSeen
  <2> USE <1>7 DEF ConnectSeen, Goto
  <2>1. DceTyped'
    BY DEF DceTyped, TasksTyped, Modes, Tasks
  <2>2. (pc \in [Tasks -> Labels])'
    BY LabelsNamed DEF TasksTyped, Tasks
  <2>3. (savedMode \in [Tasks -> Modes])'
    BY DEF DceTyped, TasksTyped, Modes, Tasks
  <2>4. startRet' \in BOOLEAN /\ retries' \in 0..DialRetryTimes /\ AttemptLeft'
    BY BoundsAssumption DEF TasksTyped, AttemptLeft, Tasks
  <2>5. QueuesTyped'
    BY DEF QueuesTyped
  <2>6. (mishaps \subseteq Mishaps)'
    BY DEF Mishaps
  <2> QED
    BY <2>1, <2>2, <2>3, <2>4, <2>5, <2>6 DEF TasksTyped
<1>8. CASE ConnectTimeout
  <2> USE <1>8 DEF ConnectTimeout, Goto, Note
  <2>1. DceTyped'
    BY DEF DceTyped, TasksTyped, Modes, Tasks
  <2>2. (pc \in [Tasks -> Labels])'
    BY LabelsNamed DEF TasksTyped, Tasks
  <2>3. (savedMode \in [Tasks -> Modes])'
    BY DEF DceTyped, TasksTyped, Modes, Tasks
  <2>4. startRet' \in BOOLEAN /\ retries' \in 0..DialRetryTimes /\ AttemptLeft'
    BY BoundsAssumption DEF TasksTyped, AttemptLeft, Tasks
  <2>5. QueuesTyped'
    BY DEF QueuesTyped
  <2>6. (mishaps \subseteq Mishaps)'
    BY DEF Mishaps
  <2> QED
    BY <2>1, <2>2, <2>3, <2>4, <2>5, <2>6 DEF TasksTyped
<1>9. CASE InitReturns
  <2> USE <1>9 DEF InitReturns, Goto
  <2>1. DceTyped'
    BY DEF DceTyped, TasksTyped, Modes, Tasks
  <2>2. (pc \in [Tasks -> Labels])'
    BY LabelsNamed DEF TasksTyped, Tasks
  <2>3. (savedMode \in [Tasks -> Modes])'
    BY DEF DceTyped, TasksTyped, Modes, Tasks
  <2>4. startRet' \in BOOLEAN /\ retries' \in 0..DialRetryTimes /\ AttemptLeft'
    BY BoundsAssumption DEF TasksTyped, AttemptLeft, Tasks
  <2>5. QueuesTyped'
    BY DEF QueuesTyped
  <2>6. (mishaps \subseteq Mishaps)'
    BY DEF Mishaps
  <2> QED
    BY <2>1, <2>2, <2>3, <2>4, <2>5, <2>6 DEF TasksTyped
<1>10. CASE Restart
  <2> USE <1>10 DEF Restart
  <2>1. DceTyped'
    BY DEF DceTyped, TasksTyped, Modes, Tasks
  <2>2. (pc \in [Tasks -> Labels])'
    BY LabelsNamed DEF TasksTyped, Tasks
  <2>3. (savedMode \in [Tasks -> Modes])'
    BY DEF DceTyped, TasksTyped, Modes, Tasks
  <2>4. startRet' \in BOOLEAN /\ retries' \in 0..DialRetryTimes /\ AttemptLeft'
    <3>1. startRet' \in BOOLEAN
      OBVIOUS
    <3>2. retries' = DialRetryTimes
      OBVIOUS
    <3> HIDE <1>10
    <3> QED
      BY <3>1, <3>2, BoundsAssumption DEF AttemptLeft
  <2>5. QueuesTyped'
    BY DEF QueuesTyped
  <2>6. (mishaps \subseteq Mishaps)'
    BY DEF Mishaps
  <2> QED
    BY <2>1, <2>2, <2>3, <2>4, <2>5, <2>6 DEF TasksTyped
<1>11. CASE DeliverGotIp
  <2> USE <1>11 DEF DeliverGotIp, Deliver, Note
  <2>1. DceTyped'
    BY DEF DceTyped, TasksTyped, Modes, Tasks
  <2>2. (pc \in [Tasks -> Labels])'
    BY LabelsNamed DEF TasksTyped, Tasks
  <2>3. (savedMode \in [Tasks -> Modes])'
    BY DEF DceTyped, TasksTyped, Modes, Tasks
  <2>4. startRet' \in BOOLEAN /\ retries' \in 0..DialRetryTimes /\ AttemptLeft'
    BY BoundsAssumption DEF TasksTyped, AttemptLeft, Tasks
  <2>5. QueuesTyped'
    BY DEF QueuesTyped
  <2>6. (mishaps \subseteq Mishaps)'
    BY DEF Mishaps
  <2> QED
    BY <2>1, <2>2, <2>3, <2>4, <2>5, <2>6 DEF TasksTyped
<1>12. CASE DeliverLostIp
  <2> USE <1>12 DEF DeliverLostIp, Deliver, Goto, Note
  <2>1. DceTyped'
    BY DEF DceTyped, TasksTyped, Modes, Tasks
  <2>2. (pc \in [Tasks -> Labels])'
    BY LabelsNamed DEF TasksTyped, Tasks
  <2>3. (savedMode \in [Tasks -> Modes])'
    BY DEF DceTyped, TasksTyped, Modes, Tasks
  <2>4. startRet' \in BOOLEAN /\ retries' \in 0..DialRetryTimes /\ AttemptLeft'
    BY BoundsAssumption DEF TasksTyped, AttemptLeft, Tasks
  <2>5. QueuesTyped'
    BY DEF QueuesTyped
  <2>6. (mishaps \subseteq Mishaps)'
    BY DEF Mishaps
  <2> QED
    BY <2>1, <2>2, <2>3, <2>4, <2>5, <2>6 DEF TasksTyped
<1>13. CASE DeliverPppError
  <2> USE <1>13 DEF DeliverPppError, Deliver
  <2>1. DceTyped'
    BY DEF DceTyped, TasksTyped, Modes, Tasks
  <2>2. (pc \in [Tasks -> Labels])'
    BY LabelsNamed DEF TasksTyped, Tasks
  <2>3. (savedMode \in [Tasks -> Modes])'
    BY DEF DceTyped, TasksTyped, Modes, Tasks
  <2>4. startRet' \in BOOLEAN /\ retries' \in 0..DialRetryTimes /\ AttemptLeft'
    BY BoundsAssumption DEF TasksTyped, AttemptLeft, Tasks
  <2>5. QueuesTyped'
    BY DEF QueuesTyped
  <2>6. (mishaps \subseteq Mishaps)'
    BY DEF Mishaps
  <2> QED
    BY <2>1, <2>2, <2>3, <2>4, <2>5, <2>6 DEF TasksTyped
<1>14. CASE NetifStart
  <2> USE <1>14 DEF NetifStart, HandleDteEvent
  <2>1. DceTyped'
    BY DEF DceTyped, TasksTyped, Modes, Tasks
  <2>2. (pc \in [Tasks -> Labels])'
    BY LabelsNamed DEF TasksTyped, Tasks
  <2>3. (savedMode \in [Tasks -> Modes])'
    BY DEF DceTyped, TasksTyped, Modes, Tasks
  <2>4. startRet' \in BOOLEAN /\ retries' \in 0..DialRetryTimes /\ AttemptLeft'
    BY BoundsAssumption DEF TasksTyped, AttemptLeft, Tasks
  <2>5. QueuesTyped'
    BY DEF QueuesTyped
  <2>6. (mishaps \subseteq Mishaps)'
    BY DEF Mishaps
  <2> QED
    BY <2>1, <2>2, <2>3, <2>4, <2>5, <2>6 DEF TasksTyped
<1>15. CASE NetifStop
  <2> USE <1>15 DEF NetifStop, HandleDteEvent
  <2>1. DceTyped'
    BY DEF DceTyped, TasksTyped, Modes, Tasks
  <2>2. (pc \in [Tasks -> Labels])'
    BY LabelsNamed DEF TasksTyped, Tasks
  <2>3. (savedMode \in [Tasks -> Modes])'
    BY DEF DceTyped, TasksTyped, Modes, Tasks
  <2>4. startRet' \in BOOLEAN /\ retries' \in 0..DialRetryTimes /\ AttemptLeft'
    BY BoundsAssumption DEF TasksTyped, AttemptLeft, Tasks
  <2>5. QueuesTyped'
    BY SMTT(30) DEF QueuesTyped
  <2>6. (mishaps \subseteq Mishaps)'
    BY DEF Mishaps
  <2> QED
    BY <2>1, <2>2, <2>3, <2>4, <2>5, <2>6 DEF TasksTyped
<1>16. CASE Network
  <2> USE <1>16 DEF Network, Establish, Terminated, SessionLost, CarrierLost,
           SessionMoves, Note
  <2>1. DceTyped'
    BY DEF DceTyped, TasksTyped, Modes, Tasks
  <2>2. (pc \in [Tasks -> Labels])'
    BY LabelsNamed DEF TasksTyped, Tasks
  <2>3. (savedMode \in [Tasks -> Modes])'
    BY DEF DceTyped, TasksTyped, Modes, Tasks
  <2>4. startRet' \in BOOLEAN /\ retries' \in 0..DialRetryTimes /\ AttemptLeft'
    BY BoundsAssumption DEF TasksTyped, AttemptLeft, Tasks
  <2>5. QueuesTyped'
    <3>1. \/ sysQueue' = sysQueue
          \/ \E event \in {"GOT_IP", "LOST_IP", "PPP_ERROR"} :
                sysQueue' = Append(sysQueue, event)
      OBVIOUS
    <3>2. dteQueue' = dteQueue
      OBVIOUS
    <3> HIDE <1>16
    <3>3. sysQueue' \in Seq({"GOT_IP", "LOST_IP", "PPP_ERROR"})
      <4>1. CASE sysQueue' = sysQueue
        BY <4>1 DEF QueuesTyped
      <4>2. ASSUME NEW event \in {"GOT_IP", "LOST_IP", "PPP_ERROR"},
                   sysQueue' = Append(sysQueue, event)
            PROVE  sysQueue' \in Seq({"GOT_IP", "LOST_IP", "PPP_ERROR"})
        BY <4>2 DEF QueuesTyped
      <4> QED
        BY <3>1, <4>1, <4>2
    <3> QED
      BY <3>2, <3>3 DEF QueuesTyped
  <2>6. (mishaps \subseteq Mishaps)'
    BY DEF Mishaps
  <2> QED
    BY <2>1, <2>2, <2>3, <2>4, <2>5, <2>6 DEF TasksTyped
<1>17. CASE UNCHANGED vars
  <2> USE <1>17 DEF vars
  <2>1. DceTyped'
    BY DEF DceTyped, TasksTyped, Modes, Tasks
  <2>2. (pc \in [Tasks -> Labels])'
    BY LabelsNamed DEF TasksTyped, Tasks
  <2>3. (savedMode \in [Tasks -> Modes])'
    BY DEF DceTyped, TasksTyped, Modes, Tasks
  <2>4. startRet' \in BOOLEAN /\ retries' \in 0..DialRetryTimes /\ AttemptLeft'
    BY BoundsAssumption DEF TasksTyped, AttemptLeft, Tasks
  <2>5. QueuesTyped'
    BY DEF QueuesTyped
  <2>6. (mishaps \subseteq Mishaps)'
    BY DEF Mishaps
  <2> QED
    BY <2>1, <2>2, <2>3, <2>4, <2>5, <2>6 DEF TasksTyped
<1> QED
  BY <1>1, <1>2, <1>3, <1>4, <1>5, <1>6, <1>7, <1>8, <1>9,
     <1>10, <1>11, <1>12, <1>13, <1>14, <1>15, <1>16, <1>17
  DEF Next, StopPpp, StartPpp, Main, SysLoop, Receiver

(* Every reachable state of the two tasks, the DCE, the PPP session and    *)
(* the event queues is well typed; dial_retry_times never goes below zero. *)
THEOREM TypeCorrect == Spec => []TypeOK
<1>1. Init => TypeInv
  <2> SUFFICES ASSUME Init PROVE TypeInv
    OBVIOUS
  <2> USE DEF Init
  <2>1. DceTyped
    BY DEF DceTyped, Modes
  <2>2. pc \in [Tasks -> Labels]
    BY LabelsNamed
  <2>3. savedMode \in [Tasks -> Modes]
    BY DEF Modes
  <2>4. startRet \in BOOLEAN /\ retries \in 0..DialRetryTimes /\ AttemptLeft
    <3>1. startRet \in BOOLEAN
      OBVIOUS
    <3>2. retries = DialRetryTimes
      OBVIOUS
    <3> HIDE DEF Init
    <3> QED
      BY <3>1, <3>2, BoundsAssumption DEF AttemptLeft
  <2>5. QueuesTyped
    BY DEF QueuesTyped
  <2> QED
    BY <2>1, <2>2, <2>3, <2>4, <2>5 DEF TypeInv, TypeOK, TasksTyped
<1>2. TypeInv => TypeOK
  BY DEF TypeInv
<1> QED
  BY <1>1, <1>2, TypeStep, PTL DEF Spec

-----------------------------------------------------------------------------
(* Without overlap at most one task is inside a redial, a mode it saved is *)
(* never TRANSITION, and TRANSITION means that it is between its two       *)
(* assignments to dce->mode.                                               *)
OneRedialer ==
  ~(pc["main"] \in Redialling /\ pc["sysLoop"] \in Redialling)

SavedIsProper ==
  \A t \in Tasks : pc[t] \in Changing => savedMode[t] # "TRANSITION"

TransitionOwned ==
  mode = "TRANSITION" => \E t \in Tasks : pc[t] \in Changing

ModeInv ==
  "overlap" \notin mishaps => OneRedialer /\ SavedIsProper /\ TransitionOwned

LEMMA ModeStep == TypeOK /\ ModeInv /\ [Next]_vars => ModeInv'
<1> SUFFICES ASSUME TypeOK, ModeInv, [Next]_vars PROVE ModeInv'
  OBVIOUS
<1> USE DEF TypeOK, DceTyped, TasksTyped, ModeInv, OneRedialer, SavedIsProper, TransitionOwned, Tasks,
        Modes, Redialling, Changing, link, bits, dial, queues
<1>1. ASSUME NEW t \in Tasks, StopBegin(t) PROVE ModeInv'
  BY <1>1 DEF StopBegin, Goto
<1>2. ASSUME NEW t \in Tasks, Escape(t) PROVE ModeInv'
  BY <1>2 DEF Escape, Goto, Note
<1>3. ASSUME NEW t \in Tasks, LeaveDataMode(t) PROVE ModeInv'
  BY <1>3 DEF LeaveDataMode, Goto, Note
<1>4. ASSUME NEW t \in Tasks, AwaitStop(t) PROVE ModeInv'
  BY <1>4 DEF AwaitStop, Goto
<1>5. ASSUME NEW t \in Tasks, StartBegin(t) PROVE ModeInv'
  BY <1>5 DEF StartBegin, Returned, Goto
<1>6. ASSUME NEW t \in Tasks, EnterDataMode(t) PROVE ModeInv'
  BY <1>6 DEF EnterDataMode, Returned, Goto, Note
<1>7. CASE ConnectSeen
  BY <1>7 DEF ConnectSeen, Goto
<1>8. CASE ConnectTimeout
  BY <1>8 DEF ConnectTimeout, Goto, Note
<1>9. CASE InitReturns
  BY <1>9 DEF InitReturns, Goto
<1>10. CASE Restart
  BY <1>10 DEF Restart
<1>11. CASE SysLoop
  BY <1>11 DEF SysLoop, DeliverGotIp, DeliverLostIp, DeliverPppError, Deliver,
               Goto, Note
<1>12. CASE Receiver
  BY <1>12 DEF Receiver, NetifStart, NetifStop, HandleDteEvent
<1>13. CASE Network
  BY <1>13 DEF Network, Establish, Terminated, SessionLost, CarrierLost,
               SessionMoves, Note
<1>14. CASE UNCHANGED vars
  BY <1>14 DEF vars
<1> QED
  BY <1>1, <1>2, <1>3, <1>4, <1>5, <1>6, <1>7, <1>8, <1>9, <1>10, <1>11, <1>12,
     <1>13, <1>14 DEF Next, StopPpp, StartPpp, Main

(* change_mode never leaves the DCE in TRANSITION while no two tasks change*)
(* the mode at once, for any number of attempts, failures and losses.      *)
THEOREM NoTransitionLeftCorrect == Spec => []NoTransitionLeft
<1>1. Init => ModeInv
  BY DEF Init, ModeInv, OneRedialer, SavedIsProper, TransitionOwned, Tasks,
     Redialling, Changing
<1>2. ModeInv => NoTransitionLeft
  BY DEF ModeInv, TransitionOwned, NoTransitionLeft
<1> QED
  BY <1>1, <1>2, ModeStep, TypeCorrect, PTL DEF Spec

-----------------------------------------------------------------------------
(* The two queues.                                                         *)

(* What has been said of the link is in order: LOST_IP comes after every   *)
(* GOT_IP and is not followed by another report.                           *)
LostLast(queue) ==
  \A i, j \in DOMAIN queue :
    queue[i] \in {"GOT_IP", "LOST_IP"} /\ queue[j] = "LOST_IP" => i <= j

(* A command that has brought the modem to command mode and told the netif *)
(* to stop, and has not dialled yet.                                       *)
Stopped == {"awaitStop", "start", "dial"}

(* With no mishap a redial is the only one and succeeds at each step, so   *)
(* where its task is tells the mode, and whether the modem can be in data  *)
(* mode; the rest of the time the mode is PPP.                             *)
RedialInOrder ==
  /\ OneRedialer
  /\ pc["sysLoop"] \in Redialling \cup {"idle"}
  /\ \A t \in Tasks :
       /\ pc[t] = "stop" => mode = "PPP"
       /\ pc[t] \in {"escape", "sync", "dial"} => mode = "TRANSITION"
       /\ pc[t] \in {"hangUp", "awaitStop", "start"} => mode = "COMMAND"
       /\ pc[t] \in Redialling \ {"stop", "escape"} => ~modemData
  /\ (\A t \in Tasks : pc[t] \notin Redialling) => mode = "PPP"

(* Nothing is posted to a queue that is not empty; a stop is posted by a   *)
(* redial that waits for it before it dials, and a start comes to a session*)
(* that has ended or is ending.                                            *)
PostsInOrder ==
  /\ dteQueue \in {<<>>, <<"PPP_START">>, <<"PPP_STOP">>}
  /\ dteQueue = <<"PPP_START">> =>
       /\ session \in {"closed", "closing"}
       /\ \A t \in Tasks : pc[t] \notin Redialling
  /\ dteQueue = <<"PPP_STOP">> =>
       /\ \E t \in Tasks : pc[t] \in Stopped
       /\ ~connectBit
       /\ ~Pending(sysQueue, "GOT_IP")
  /\ \A t \in Tasks : pc[t] \in Stopped =>
       session \in {"closed", "closing"} \/ dteQueue = <<"PPP_STOP">>

(* The reports follow the session: once LOST_IP is said nothing happens to *)
(* the session until its handler has redialled.                            *)
ReportsInOrder ==
  /\ LostLast(sysQueue)
  /\ Pending(sysQueue, "LOST_IP") =>
       /\ session = "closed"
       /\ dteQueue # <<"PPP_START">>
       /\ pc["sysLoop"] = "idle"
  /\ pc["sysLoop"] # "idle" => session = "closed"
  /\ connectBit \/ Pending(sysQueue, "GOT_IP") =>
       session = "up" \/ Pending(sysQueue, "LOST_IP")
  /\ pc["main"] \in Redialling => ~connectBit

(* Once main has seen the connection, the link is up or on its way.        *)
Attended ==
  pc["main"] \in {"connected", "running"} =>
    \/ session \in {"negotiating", "up"}
    \/ pc["sysLoop"] # "idle"
    \/ dteQueue = <<"PPP_START">> /\ session = "closed"
    \/ Pending(sysQueue, "LOST_IP")

LinkInv == mishaps = {} =>
  RedialInOrder /\ PostsInOrder /\ ReportsInOrder /\ Attended

(* A queue of one event, and what is left when it is taken.                *)
LEMMA OneEvent ==
  ASSUME NEW e
  PROVE  /\ Append(<<>>, e) = <<e>>
         /\ Head(<<e>>) = e
         /\ Tail(<<e>>) = <<>>
         /\ <<e>> # <<>>
<1>1. Len(<<e>>) = 1 /\ Len(<<>>) = 0
  OBVIOUS
<1>2. Append(<<>>, e) = <<e>>
  OBVIOUS
<1>3. Head(<<e>>) = e
  OBVIOUS
<1>4. \A t : t = <<e>> => Tail(t) = <<>>
  BY <1>1, HeadTailProperties, EmptySeq
<1> QED BY <1>1, <1>2, <1>3, <1>4

(* What a report adds to the queue of the default event loop.              *)
LEMMA Reported ==
  ASSUME NEW S, NEW q \in Seq(S), NEW e \in S
  PROVE  /\ \A x : Pending(Append(q, e), x) <=> Pending(q, x) \/ x = e
         /\ LostLast(q) /\ (e \in {"GOT_IP", "LOST_IP"} => ~Pending(q, "LOST_IP"))
              => LostLast(Append(q, e))
<1>1. /\ Len(q) \in Nat /\ DOMAIN q = 1..Len(q)
      /\ DOMAIN Append(q, e) = 1..(Len(q) + 1)
      /\ \A i \in 1..Len(q) : Append(q, e)[i] = q[i]
      /\ Append(q, e)[Len(q) + 1] = e
  BY AppendProperties, LenProperties
<1>2. ASSUME NEW x  PROVE Pending(Append(q, e), x) <=> Pending(q, x) \/ x = e
  <2>1. ASSUME Pending(Append(q, e), x)  PROVE Pending(q, x) \/ x = e
    BY <1>1, <2>1 DEF Pending
  <2>2. ASSUME Pending(q, x)  PROVE Pending(Append(q, e), x)
    BY <1>1, <2>2 DEF Pending
  <2>3. Pending(Append(q, e), e)
    <3>1. Len(q) + 1 \in 1..(Len(q) + 1)
      BY <1>1
    <3> QED BY <1>1, <3>1 DEF Pending
  <2> QED BY <2>1, <2>2, <2>3
<1>3. ASSUME LostLast(q), e \in {"GOT_IP", "LOST_IP"} => ~Pending(q, "LOST_IP")
      PROVE  LostLast(Append(q, e))
  <2> SUFFICES ASSUME NEW i \in 1..(Len(q) + 1), NEW j \in 1..(Len(q) + 1),
                      Append(q, e)[i] \in {"GOT_IP", "LOST_IP"},
                      Append(q, e)[j] = "LOST_IP"
               PROVE  i <= j
    BY <1>1 DEF LostLast
  <2>1. CASE j = Len(q) + 1
    BY <1>1, <2>1
  <2>2. CASE j \in 1..Len(q) /\ i \in 1..Len(q)
    BY <1>1, <1>3, <2>2 DEF LostLast
  <2>3. CASE j \in 1..Len(q) /\ i = Len(q) + 1
    BY <1>1, <1>3, <2>3 DEF Pending
  <2> QED BY <1>1, <2>1, <2>2, <2>3
<1> QED BY <1>2, <1>3

(* What is left of it when a report has been delivered.                    *)
LEMMA Delivered ==
  ASSUME NEW S, NEW q \in Seq(S), q # <<>>
  PROVE  /\ \A x : Pending(Tail(q), x) => Pending(q, x)
         /\ \A x : Pending(q, x) => x = Head(q) \/ Pending(Tail(q), x)
         /\ LostLast(q) => LostLast(Tail(q))
         /\ LostLast(q) /\ Head(q) = "LOST_IP" =>
              ~Pending(Tail(q), "LOST_IP") /\ ~Pending(Tail(q), "GOT_IP")
         /\ Pending(q, Head(q))
<1>1. /\ Len(q) \in Nat /\ Len(q) >= 1 /\ DOMAIN q = 1..Len(q)
      /\ DOMAIN Tail(q) = 1..(Len(q) - 1)
      /\ \A i \in 1..(Len(q) - 1) : Tail(q)[i] = q[i + 1]
      /\ Head(q) = q[1]
  <2>1. Len(q) \in Nat /\ Len(q) >= 1 /\ DOMAIN q = 1..Len(q)
    BY EmptySeq, LenProperties
  <2>2. /\ Tail(q) \in Seq(S) /\ Len(Tail(q)) = Len(q) - 1
        /\ \A i \in 1..Len(Tail(q)) : Tail(q)[i] = q[i + 1]
    BY <2>1, HeadTailProperties
  <2>3. DOMAIN Tail(q) = 1..Len(Tail(q))
    BY <2>2, LenProperties
  <2>4. Head(q) = q[1]
    OBVIOUS
  <2> QED BY <2>1, <2>2, <2>3, <2>4
<1>2. ASSUME NEW x, Pending(Tail(q), x)  PROVE Pending(q, x)
  <2>1. PICK i \in 1..(Len(q) - 1) : Tail(q)[i] = x
    BY <1>1, <1>2 DEF Pending
  <2>2. i + 1 \in DOMAIN q /\ q[i + 1] = x
    BY <1>1, <2>1
  <2> QED BY <2>2 DEF Pending
<1>3. ASSUME NEW x, Pending(q, x)  PROVE x = Head(q) \/ Pending(Tail(q), x)
  <2>1. PICK i \in 1..Len(q) : q[i] = x
    BY <1>1, <1>3 DEF Pending
  <2>2. CASE i = 1
    BY <1>1, <2>1, <2>2
  <2>3. CASE i # 1
    <3>1. i - 1 \in DOMAIN Tail(q) /\ Tail(q)[i - 1] = x
      <4>1. i - 1 \in 1..(Len(q) - 1) /\ (i - 1) + 1 = i
        BY <1>1, <2>3
      <4> QED BY <1>1, <2>1, <4>1
    <3> QED BY <3>1 DEF Pending
  <2> QED BY <2>2, <2>3
<1>4. ASSUME LostLast(q)
      PROVE  /\ LostLast(Tail(q))
             /\ Head(q) = "LOST_IP" => \A x \in {"LOST_IP", "GOT_IP"} :
                                         ~Pending(Tail(q), x)
  <2>1. \A i, j \in 1..Len(q) :
          q[i] \in {"GOT_IP", "LOST_IP"} /\ q[j] = "LOST_IP" => i <= j
    BY <1>1, <1>4 DEF LostLast
  <2>2. \A i \in 1..(Len(q) - 1) : i + 1 \in 1..Len(q)
    BY <1>1
  <2>3. LostLast(Tail(q))
    <3> SUFFICES ASSUME NEW i \in 1..(Len(q) - 1), NEW j \in 1..(Len(q) - 1),
                        Tail(q)[i] \in {"GOT_IP", "LOST_IP"},
                        Tail(q)[j] = "LOST_IP"
                 PROVE  i <= j
      BY <1>1 DEF LostLast
    <3>1. i + 1 <= j + 1
      BY <1>1, <2>1, <2>2
    <3> QED BY <1>1, <3>1
  <2>4. ASSUME Head(q) = "LOST_IP", NEW x \in {"LOST_IP", "GOT_IP"},
               Pending(Tail(q), x)
        PROVE  FALSE
    <3>1. PICK i \in 1..(Len(q) - 1) : Tail(q)[i] = x
      BY <1>1, <2>4 DEF Pending
    <3>2. i + 1 <= 1
      BY <1>1, <2>1, <2>2, <2>4, <3>1
    <3> QED BY <1>1, <3>2
  <2> QED BY <2>3, <2>4
<1>5. Pending(q, Head(q))
  <2>1. 1 \in DOMAIN q
    BY <1>1
  <2> QED BY <1>1, <2>1 DEF Pending
<1> QED BY <1>2, <1>3, <1>4, <1>5

(* Nothing is pending in an empty queue.                                   *)
LEMMA NothingPending == LostLast(<<>>) /\ \A x : ~Pending(<<>>, x)
  BY DEF LostLast, Pending

(* A step without a mishap keeps the redial, the posts and the reports in  *)
(* order, and somebody at a link that main has seen.                       *)
LEMMA LinkStep ==
  ASSUME TypeOK, [Next]_vars, ~Restart, mishaps' = {},
         RedialInOrder, PostsInOrder, ReportsInOrder, Attended
  PROVE  (RedialInOrder /\ PostsInOrder /\ ReportsInOrder /\ Attended)'
<1> USE DEF Tasks, Redialling, Changing, Stopped, link, bits, dial, queues
<1>q. /\ sysQueue \in Seq({"GOT_IP", "LOST_IP", "PPP_ERROR"})
      /\ pc \in [Tasks -> Labels]
      /\ modemData \in BOOLEAN
  BY DEF TypeOK, QueuesTyped, TasksTyped, DceTyped
<1>1. ASSUME NEW t \in Tasks, StopBegin(t)
      PROVE  (RedialInOrder /\ PostsInOrder /\ ReportsInOrder /\ Attended)'
  <2> USE <1>q, <1>1 DEF StopBegin, Goto
  <2>1. RedialInOrder'
    BY DEF RedialInOrder, OneRedialer
  <2>2. PostsInOrder'
    BY OneEvent DEF PostsInOrder, RedialInOrder, OneRedialer
  <2>3. ReportsInOrder'
    BY Reported, Delivered
    DEF ReportsInOrder, PostsInOrder, RedialInOrder, OneRedialer
  <2>4. Attended'
    BY Reported, Delivered
    DEF Attended, ReportsInOrder, PostsInOrder, RedialInOrder, OneRedialer
  <2> QED BY <2>1, <2>2, <2>3, <2>4
<1>2. ASSUME NEW t \in Tasks, Escape(t)
      PROVE  (RedialInOrder /\ PostsInOrder /\ ReportsInOrder /\ Attended)'
  <2> USE <1>q, <1>2 DEF Escape, Goto, Note
  <2>1. RedialInOrder'
    BY DEF RedialInOrder, OneRedialer
  <2>2. PostsInOrder'
    BY OneEvent DEF PostsInOrder, RedialInOrder, OneRedialer
  <2>3. ReportsInOrder'
    BY Reported, Delivered
    DEF ReportsInOrder, PostsInOrder, RedialInOrder, OneRedialer
  <2>4. Attended'
    BY Reported, Delivered
    DEF Attended, ReportsInOrder, PostsInOrder, RedialInOrder, OneRedialer
  <2> QED BY <2>1, <2>2, <2>3, <2>4
<1>3. ASSUME NEW t \in Tasks, LeaveDataMode(t)
      PROVE  (RedialInOrder /\ PostsInOrder /\ ReportsInOrder /\ Attended)'
  <2> USE <1>q, <1>3 DEF LeaveDataMode, Goto, Note
  <2>1. RedialInOrder'
    BY DEF RedialInOrder, OneRedialer
  <2>2. PostsInOrder'
    <3>1. /\ dteQueue = <<>> /\ ~modemData /\ Settled
          /\ dteQueue' = Append(dteQueue, "PPP_STOP")
          /\ pc' = [pc EXCEPT ![t] = "awaitStop"]
          /\ UNCHANGED <<session, connectBit, sysQueue>>
      BY DEF RedialInOrder, Settled
    <3>2. dteQueue' = <<"PPP_STOP">>
      BY <3>1, OneEvent
    <3>3. pc'[t] = "awaitStop"
      BY <3>1
    <3>4. ~connectBit /\ ~Pending(sysQueue, "GOT_IP")
      <4>1. CASE t = "main"
        <5>1. sysQueue = <<>>
          BY <3>1, <4>1 DEF RedialInOrder, OneRedialer, Settled
        <5> QED BY <4>1, <5>1, NothingPending DEF ReportsInOrder
      <4>2. CASE t = "sysLoop"
        BY <4>2 DEF ReportsInOrder
      <4> QED BY <4>1, <4>2
    <3> HIDE <1>3
    <3> QED BY <3>1, <3>2, <3>3, <3>4 DEF PostsInOrder
  <2>3. ReportsInOrder'
    BY Reported, Delivered
    DEF ReportsInOrder, PostsInOrder, RedialInOrder, OneRedialer
  <2>4. Attended'
    BY Reported, Delivered
    DEF Attended, ReportsInOrder, PostsInOrder, RedialInOrder, OneRedialer
  <2> QED BY <2>1, <2>2, <2>3, <2>4
<1>4. ASSUME NEW t \in Tasks, AwaitStop(t)
      PROVE  (RedialInOrder /\ PostsInOrder /\ ReportsInOrder /\ Attended)'
  <2> USE <1>q, <1>4 DEF AwaitStop, Goto
  <2>1. RedialInOrder'
    BY DEF RedialInOrder, OneRedialer
  <2>2. PostsInOrder'
    BY OneEvent DEF PostsInOrder, RedialInOrder, OneRedialer
  <2>3. ReportsInOrder'
    BY Reported, Delivered
    DEF ReportsInOrder, PostsInOrder, RedialInOrder, OneRedialer
  <2>4. Attended'
    BY Reported, Delivered
    DEF Attended, ReportsInOrder, PostsInOrder, RedialInOrder, OneRedialer
  <2> QED BY <2>1, <2>2, <2>3, <2>4
<1>5. ASSUME NEW t \in Tasks, StartBegin(t)
      PROVE  (RedialInOrder /\ PostsInOrder /\ ReportsInOrder /\ Attended)'
  <2> USE <1>q, <1>5 DEF StartBegin, Returned, Goto
  <2>1. RedialInOrder'
    BY DEF RedialInOrder, OneRedialer
  <2>2. PostsInOrder'
    BY OneEvent DEF PostsInOrder, RedialInOrder, OneRedialer
  <2>3. ReportsInOrder'
    <3>1. mode # "PPP"
      BY DEF RedialInOrder
    <3>2. pc' = [pc EXCEPT ![t] = "dial"]
          /\ UNCHANGED <<session, connectBit, dteQueue, sysQueue>>
      BY <3>1
    <3>3. pc[t] = "start"
      OBVIOUS
    <3> HIDE <1>5
    <3> QED BY <3>2, <3>3 DEF ReportsInOrder
  <2>4. Attended'
    <3>1. mode # "PPP"
      BY DEF RedialInOrder
    <3>2. pc' = [pc EXCEPT ![t] = "dial"]
          /\ UNCHANGED <<session, connectBit, dteQueue, sysQueue>>
      BY <3>1
    <3>3. pc[t] = "start" /\ t \in Tasks
      OBVIOUS
    <3> HIDE <1>5
    <3> QED BY <3>2, <3>3 DEF Attended
  <2> QED BY <2>1, <2>2, <2>3, <2>4
<1>6. ASSUME NEW t \in Tasks, EnterDataMode(t)
      PROVE  (RedialInOrder /\ PostsInOrder /\ ReportsInOrder /\ Attended)'
  <2> USE <1>q, <1>6 DEF EnterDataMode, Returned, Goto, Note
  <2>a. /\ dteQueue = <<>> /\ Settled /\ pc[t] = "dial"
        /\ dteQueue' = Append(dteQueue, "PPP_START")
        /\ pc' = [pc EXCEPT ![t] = IF t = "main" THEN "awaitConnect" ELSE "idle"]
        /\ UNCHANGED <<session, connectBit, sysQueue>>
    BY DEF RedialInOrder, Settled
  <2>b. /\ dteQueue' = <<"PPP_START">>
        /\ session \in {"closed", "closing"}
        /\ \A d \in Tasks : pc'[d] \notin Redialling
    <3>1. dteQueue' = <<"PPP_START">>
      BY <2>a, OneEvent
    <3>2. session \in {"closed", "closing"}
      BY <2>a, OneEvent DEF PostsInOrder
    <3> QED BY <2>a, <3>1, <3>2 DEF RedialInOrder, OneRedialer
  <2>c. ~Pending(sysQueue, "LOST_IP")
    <3>1. CASE t = "main"
      <4>1. sysQueue = <<>>
        BY <2>a, <3>1 DEF RedialInOrder, OneRedialer, Settled
      <4> QED BY <4>1, NothingPending
    <3>2. CASE t = "sysLoop"
      BY <2>a, <3>2 DEF ReportsInOrder
    <3> QED BY <3>1, <3>2
  <2>1. RedialInOrder'
    BY DEF RedialInOrder, OneRedialer
  <2>2. PostsInOrder'
    <3> HIDE <1>6
    <3>1. <<"PPP_START">> # <<>> /\ <<"PPP_START">> # <<"PPP_STOP">>
      BY OneEvent
    <3> QED BY <2>a, <2>b, <3>1 DEF PostsInOrder
  <2>3. ReportsInOrder'
    <3> HIDE <1>6
    <3> QED BY <2>a, <2>b, <2>c DEF ReportsInOrder
  <2>4. Attended'
    <3> HIDE <1>6
    <3>1. CASE t = "main"
      BY <2>a, <3>1 DEF Attended
    <3>2. CASE t = "sysLoop"
      BY <2>a, <2>b, <3>2 DEF ReportsInOrder, Attended
    <3> QED BY <3>1, <3>2
  <2> QED BY <2>1, <2>2, <2>3, <2>4
<1>7. CASE ConnectSeen
  <2> USE <1>q, <1>7 DEF ConnectSeen, Goto
  <2>1. RedialInOrder'
    BY DEF RedialInOrder, OneRedialer
  <2>2. PostsInOrder'
    BY OneEvent DEF PostsInOrder, RedialInOrder, OneRedialer
  <2>3. ReportsInOrder'
    BY Reported, Delivered
    DEF ReportsInOrder, PostsInOrder, RedialInOrder, OneRedialer
  <2>4. Attended'
    BY Reported, Delivered
    DEF Attended, ReportsInOrder, PostsInOrder, RedialInOrder, OneRedialer
  <2> QED BY <2>1, <2>2, <2>3, <2>4
<1>8. CASE ConnectTimeout
  <2> USE <1>q, <1>8 DEF ConnectTimeout, Goto, Note
  <2>1. RedialInOrder'
    BY DEF RedialInOrder, OneRedialer
  <2>2. PostsInOrder'
    <3>1. dteQueue = <<>> /\ UNCHANGED <<session, connectBit, sysQueue, dteQueue>>
      BY DEF Settled
    <3>2. \A t \in Tasks : pc'[t] \in Stopped => pc[t] \in Stopped
      OBVIOUS
    <3>3. <<>> # <<"PPP_START">> /\ <<>> # <<"PPP_STOP">>
      BY OneEvent
    <3> HIDE <1>8
    <3> QED BY <3>1, <3>2, <3>3 DEF PostsInOrder
  <2>3. ReportsInOrder'
    BY Reported, Delivered
    DEF ReportsInOrder, PostsInOrder, RedialInOrder, OneRedialer
  <2>4. Attended'
    BY Reported, Delivered
    DEF Attended, ReportsInOrder, PostsInOrder, RedialInOrder, OneRedialer
  <2> QED BY <2>1, <2>2, <2>3, <2>4
<1>9. CASE InitReturns
  <2> USE <1>q, <1>9 DEF InitReturns, Goto
  <2>1. RedialInOrder'
    BY DEF RedialInOrder, OneRedialer
  <2>2. PostsInOrder'
    BY OneEvent DEF PostsInOrder, RedialInOrder, OneRedialer
  <2>3. ReportsInOrder'
    BY Reported, Delivered
    DEF ReportsInOrder, PostsInOrder, RedialInOrder, OneRedialer
  <2>4. Attended'
    BY Reported, Delivered
    DEF Attended, ReportsInOrder, PostsInOrder, RedialInOrder, OneRedialer
  <2> QED BY <2>1, <2>2, <2>3, <2>4
<1>10. CASE DeliverGotIp
  <2> USE <1>q, <1>10 DEF DeliverGotIp, Deliver, Note
  <2>1. RedialInOrder'
    BY DEF RedialInOrder, OneRedialer
  <2>2. PostsInOrder'
    BY OneEvent DEF PostsInOrder, RedialInOrder, OneRedialer
  <2>3. ReportsInOrder'
    <3>1. /\ pc["sysLoop"] = "idle" /\ pc'["sysLoop"] = "idle"
          /\ pc["main"] \notin Redialling /\ pc'["main"] \notin Redialling
          /\ sysQueue # <<>> /\ Head(sysQueue) = "GOT_IP"
          /\ sysQueue' = Tail(sysQueue)
          /\ UNCHANGED <<session, dteQueue>>
      OBVIOUS
    <3>2. /\ \A x : Pending(sysQueue', x) => Pending(sysQueue, x)
          /\ \A x : Pending(sysQueue, x) => x = "GOT_IP" \/ Pending(sysQueue', x)
          /\ LostLast(sysQueue) => LostLast(sysQueue')
          /\ Pending(sysQueue, "GOT_IP")
      BY <3>1, Delivered
    <3> HIDE <1>10
    <3> QED BY <3>1, <3>2 DEF ReportsInOrder
  <2>4. Attended'
    BY Reported, Delivered
    DEF Attended, ReportsInOrder, PostsInOrder, RedialInOrder, OneRedialer
  <2> QED BY <2>1, <2>2, <2>3, <2>4
<1>11. CASE DeliverLostIp
  <2> USE <1>q, <1>11 DEF DeliverLostIp, Deliver, Goto, Note
  <2>1. RedialInOrder'
    BY DEF RedialInOrder, OneRedialer
  <2>2. PostsInOrder'
    <3>1. /\ sysQueue # <<>> /\ Head(sysQueue) = "LOST_IP"
          /\ sysQueue' = Tail(sysQueue)
          /\ connectBit' = FALSE
          /\ pc' = [pc EXCEPT !["sysLoop"] = "stop"]
          /\ UNCHANGED <<session, dteQueue>>
      OBVIOUS
    <3>2. /\ \A x : Pending(sysQueue', x) => Pending(sysQueue, x)
          /\ Pending(sysQueue, "LOST_IP")
      BY <3>1, Delivered
    <3>3. dteQueue # <<"PPP_START">> /\ session = "closed" /\ pc["sysLoop"] = "idle"
      BY <3>2 DEF ReportsInOrder
    <3> HIDE <1>11
    <3> QED BY <3>1, <3>2, <3>3 DEF PostsInOrder
  <2>3. ReportsInOrder'
    BY Reported, Delivered
    DEF ReportsInOrder, PostsInOrder, RedialInOrder, OneRedialer
  <2>4. Attended'
    BY Reported, Delivered
    DEF Attended, ReportsInOrder, PostsInOrder, RedialInOrder, OneRedialer
  <2> QED BY <2>1, <2>2, <2>3, <2>4
<1>12. CASE DeliverPppError
  <2> USE <1>q, <1>12 DEF DeliverPppError, Deliver
  <2>1. RedialInOrder'
    BY DEF RedialInOrder, OneRedialer
  <2>2. PostsInOrder'
    <3>1. /\ sysQueue # <<>> /\ sysQueue' = Tail(sysQueue)
          /\ \A t \in Tasks : pc'[t] \in Stopped <=> pc[t] \in Stopped
          /\ \A t \in Tasks : pc'[t] \in Redialling <=> pc[t] \in Redialling
          /\ UNCHANGED <<session, dteQueue, connectBit>>
      OBVIOUS
    <3>2. \A x : Pending(sysQueue', x) => Pending(sysQueue, x)
      BY <3>1, Delivered
    <3> HIDE <1>12
    <3> QED BY <3>1, <3>2 DEF PostsInOrder
  <2>3. ReportsInOrder'
    BY Reported, Delivered
    DEF ReportsInOrder, PostsInOrder, RedialInOrder, OneRedialer
  <2>4. Attended'
    BY Reported, Delivered
    DEF Attended, ReportsInOrder, PostsInOrder, RedialInOrder, OneRedialer
  <2> QED BY <2>1, <2>2, <2>3, <2>4
<1>13. CASE NetifStart
  <2> USE <1>q, <1>13 DEF NetifStart, HandleDteEvent
  <2>1. RedialInOrder'
    BY DEF RedialInOrder, OneRedialer
  <2>2. PostsInOrder'
    BY OneEvent DEF PostsInOrder, RedialInOrder, OneRedialer
  <2>3. ReportsInOrder'
    BY Reported, Delivered
    DEF ReportsInOrder, PostsInOrder, RedialInOrder, OneRedialer
  <2>4. Attended'
    BY Reported, Delivered
    DEF Attended, ReportsInOrder, PostsInOrder, RedialInOrder, OneRedialer
  <2> QED BY <2>1, <2>2, <2>3, <2>4
<1>14. CASE NetifStop
  <2> USE <1>q, <1>14 DEF NetifStop, HandleDteEvent
  <2>1. RedialInOrder'
    BY DEF RedialInOrder, OneRedialer
  <2>2. PostsInOrder'
    <3>1. /\ dteQueue # <<>> /\ Head(dteQueue) = "PPP_STOP"
          /\ dteQueue' = Tail(dteQueue)
          /\ session' \in {"closed", "closing"}
      OBVIOUS
    <3>2. dteQueue' = <<>>
      BY <3>1, OneEvent DEF PostsInOrder
    <3>3. <<>> # <<"PPP_START">> /\ <<>> # <<"PPP_STOP">>
      BY OneEvent
    <3> HIDE <1>14
    <3> QED BY <3>1, <3>2, <3>3 DEF PostsInOrder
  <2>3. ReportsInOrder'
    <3>1. /\ dteQueue # <<>> /\ Head(dteQueue) = "PPP_STOP"
          /\ dteQueue' = Tail(dteQueue)
          /\ sysQueue' \in {sysQueue, Append(sysQueue, "PPP_ERROR")}
          /\ session = "closed" => session' = "closed"
          /\ UNCHANGED <<pc, connectBit>>
      OBVIOUS
    <3>2. dteQueue = <<"PPP_STOP">> /\ dteQueue' = <<>>
      BY <3>1, OneEvent DEF PostsInOrder
    <3>3. /\ \A x \in {"LOST_IP", "GOT_IP"} :
               Pending(sysQueue', x) <=> Pending(sysQueue, x)
          /\ LostLast(sysQueue) => LostLast(sysQueue')
      <4>1. CASE sysQueue' = sysQueue
        BY <4>1
      <4>2. CASE sysQueue' = Append(sysQueue, "PPP_ERROR")
        <5> HIDE <1>14
        <5> QED BY <4>2, Reported
      <4> QED BY <3>1, <4>1, <4>2
    <3>4. ~connectBit /\ ~Pending(sysQueue, "GOT_IP")
      BY <3>2 DEF PostsInOrder
    <3>5. <<>> # <<"PPP_START">>
      BY OneEvent
    <3> HIDE <1>14
    <3> QED BY <3>1, <3>2, <3>3, <3>4, <3>5 DEF ReportsInOrder
  <2>4. Attended'
    BY Reported, Delivered
    DEF Attended, ReportsInOrder, PostsInOrder, RedialInOrder, OneRedialer
  <2> QED BY <2>1, <2>2, <2>3, <2>4
<1>15. CASE Establish
  <2> USE <1>q, <1>15 DEF Establish, SessionMoves
  <2>1. RedialInOrder'
    BY DEF RedialInOrder, OneRedialer
  <2>2. PostsInOrder'
    BY OneEvent DEF PostsInOrder, RedialInOrder, OneRedialer
  <2>3. ReportsInOrder'
    BY Reported, Delivered
    DEF ReportsInOrder, PostsInOrder, RedialInOrder, OneRedialer
  <2>4. Attended'
    BY Reported, Delivered
    DEF Attended, ReportsInOrder, PostsInOrder, RedialInOrder, OneRedialer
  <2> QED BY <2>1, <2>2, <2>3, <2>4
<1>16. CASE Terminated
  <2> USE <1>q, <1>16 DEF Terminated, SessionMoves
  <2>1. RedialInOrder'
    BY DEF RedialInOrder, OneRedialer
  <2>2. PostsInOrder'
    <3>1. /\ session = "closing" /\ session' = "closed"
          /\ sysQueue' = Append(sysQueue, "PPP_ERROR")
          /\ UNCHANGED <<pc, connectBit, dteQueue>>
      OBVIOUS
    <3>2. Pending(sysQueue', "GOT_IP") => Pending(sysQueue, "GOT_IP")
      BY <3>1, Reported
    <3> HIDE <1>16
    <3> QED BY <3>1, <3>2 DEF PostsInOrder
  <2>3. ReportsInOrder'
    BY Reported, Delivered
    DEF ReportsInOrder, PostsInOrder, RedialInOrder, OneRedialer
  <2>4. Attended'
    BY Reported, Delivered
    DEF Attended, ReportsInOrder, PostsInOrder, RedialInOrder, OneRedialer
  <2> QED BY <2>1, <2>2, <2>3, <2>4
<1>17. CASE SessionLost
  <2> USE <1>q, <1>17 DEF SessionLost, SessionMoves, Note
  <2>1. RedialInOrder'
    BY DEF RedialInOrder, OneRedialer
  <2>2. PostsInOrder'
    <3>1. /\ session' = "closed"
          /\ sysQueue' = Append(sysQueue, "LOST_IP")
          /\ UNCHANGED <<pc, connectBit, dteQueue>>
      OBVIOUS
    <3>2. Pending(sysQueue', "GOT_IP") => Pending(sysQueue, "GOT_IP")
      BY <3>1, Reported
    <3> HIDE <1>17
    <3> QED BY <3>1, <3>2 DEF PostsInOrder
  <2>3. ReportsInOrder'
    BY SMTT(30), Reported, Delivered
    DEF ReportsInOrder, PostsInOrder, RedialInOrder, OneRedialer
  <2>4. Attended'
    BY SMTT(30), Reported, Delivered
    DEF Attended, ReportsInOrder, PostsInOrder, RedialInOrder, OneRedialer
  <2> QED BY <2>1, <2>2, <2>3, <2>4
<1>18. CASE CarrierLost
  <2> USE <1>q, <1>18 DEF CarrierLost
  <2>1. RedialInOrder'
    BY DEF RedialInOrder, OneRedialer
  <2>2. PostsInOrder'
    BY OneEvent DEF PostsInOrder, RedialInOrder, OneRedialer
  <2>3. ReportsInOrder'
    BY Reported, Delivered
    DEF ReportsInOrder, PostsInOrder, RedialInOrder, OneRedialer
  <2>4. Attended'
    BY Reported, Delivered
    DEF Attended, ReportsInOrder, PostsInOrder, RedialInOrder, OneRedialer
  <2> QED BY <2>1, <2>2, <2>3, <2>4
<1>19. CASE UNCHANGED vars
  <2> USE <1>q, <1>19 DEF vars
  <2>1. RedialInOrder'
    BY DEF RedialInOrder, OneRedialer
  <2>2. PostsInOrder'
    BY OneEvent DEF PostsInOrder, RedialInOrder, OneRedialer
  <2>3. ReportsInOrder'
    BY Reported, Delivered
    DEF ReportsInOrder, PostsInOrder, RedialInOrder, OneRedialer
  <2>4. Attended'
    BY Reported, Delivered
    DEF Attended, ReportsInOrder, PostsInOrder, RedialInOrder, OneRedialer
  <2> QED BY <2>1, <2>2, <2>3, <2>4
<1> QED
  BY <1>1, <1>2, <1>3, <1>4, <1>5, <1>6, <1>7, <1>8, <1>9, <1>10, <1>11, <1>12, <1>13, <1>14, <1>15, <1>16, <1>17, <1>18, <1>19
  DEF Next, StopPpp, StartPpp, Main, SysLoop, Receiver, Network

(* A mishap is forgotten at a boot only.                                   *)
LEMMA MishapsKept ==
  ASSUME TypeOK, [Next]_vars, ~Restart, mishaps' = {}
  PROVE  mishaps = {}
<1> USE DEF queues
<1>1. ASSUME NEW t \in Tasks, StopPpp(t) \/ StartPpp(t)  PROVE mishaps = {}
  BY <1>1 DEF StopPpp, StartPpp, StopBegin, Escape, LeaveDataMode, AwaitStop,
              StartBegin, EnterDataMode, Note
<1>2. CASE Main
  BY <1>2 DEF Main, ConnectSeen, ConnectTimeout, InitReturns, Note
<1>3. CASE SysLoop \/ Receiver
  BY <1>3 DEF SysLoop, Receiver, DeliverGotIp, DeliverLostIp, DeliverPppError,
              NetifStart, NetifStop, Note
<1>4. CASE Network
  BY <1>4 DEF Network, Establish, Terminated, SessionLost, CarrierLost, Note
<1>5. CASE UNCHANGED vars
  BY <1>5 DEF vars
<1> QED BY <1>1, <1>2, <1>3, <1>4, <1>5 DEF Next

(* A boot leaves everything in order.                                      *)
LEMMA BootInOrder ==
  /\ Init => LinkInv
  /\ Restart => LinkInv'
<1>1. <<>> # <<"PPP_START">> /\ <<>> # <<"PPP_STOP">>
  BY OneEvent
<1>2. Init => LinkInv
  BY <1>1, NothingPending
     DEF Init, LinkInv, RedialInOrder, OneRedialer, PostsInOrder,
         ReportsInOrder, Attended, Tasks, Redialling, Changing, Stopped
<1>3. Restart => LinkInv'
  BY <1>1, NothingPending
     DEF Restart, LinkInv, RedialInOrder, OneRedialer, PostsInOrder,
         ReportsInOrder, Attended, Tasks, Redialling, Changing, Stopped
<1> QED BY <1>2, <1>3

(* Every step keeps the link in order until the first mishap.              *)
LEMMA LinkInvStep == TypeOK /\ LinkInv /\ [Next]_vars => LinkInv'
<1>1. Restart => LinkInv'
  BY BootInOrder
<1>2. TypeOK /\ LinkInv /\ [Next]_vars /\ ~Restart => LinkInv'
  BY MishapsKept, LinkStep DEF LinkInv
<1> QED BY <1>1, <1>2

(* CONNECT_BIT tells main the truth as long as nothing has gone wrong since*)
(* the boot, through any number of losses, retries and stale               *)
(* STOP_PPP_BITs.                                                          *)
THEOREM ConnectBitHonestCorrect == Spec => []ConnectBitHonest
<1>1. LinkInv => ConnectBitHonest
  BY DEF LinkInv, ReportsInOrder, ConnectBitHonest
<1> QED
  BY <1>1, BootInOrder, LinkInvStep, TypeCorrect, PTL DEF Spec

(* As long as nothing has gone wrong since the boot, a link that is down is*)
(* attended to: somebody dials, or a LOST_IP or a PPP_START is on its way. *)
THEOREM LinkAttendedCorrect == Spec => []LinkAttendedUndisturbed
<1>1. LinkInv => LinkAttendedUndisturbed
  <2> SUFFICES ASSUME LinkInv, mishaps = {}  PROVE LinkAttended
    BY DEF LinkAttendedUndisturbed
  <2>1. dteQueue = <<"PPP_START">> => Pending(dteQueue, "PPP_START")
    <3>1. 1 \in DOMAIN <<"PPP_START">> /\ <<"PPP_START">>[1] = "PPP_START"
      OBVIOUS
    <3> QED BY <3>1 DEF Pending
  <2> QED BY <2>1 DEF LinkInv, Attended, LinkAttended
<1> QED
  BY <1>1, BootInOrder, LinkInvStep, TypeCorrect, PTL DEF Spec
=============================================================================
