------------------------------ MODULE ModemPpp ------------------------------
(***************************************************************************)
(* Dialling and redialling: the mode of the DCE, the PPP session and the   *)
(* three tasks that move them.                                             *)
(*                                                                         *)
(*   main       the end of modem_board_init (modem_board.c): the first     *)
(*              dial, the wait for CONNECT_BIT and the dial_retry loop;    *)
(*   sysLoop    the default event loop, whose handlers are on_modem_event  *)
(*              and on_ppp_changed: on LOST_IP it stops and starts PPP     *)
(*              itself, and delivers no other event meanwhile;             *)
(*   receiver   _usb_data_recv_task, which drives the DTE's event loop and *)
(*              starts and stops the PPP netif.                            *)
(*                                                                         *)
(* main and sysLoop call the same esp_modem_stop_ppp and                   *)
(* esp_modem_start_ppp, which change dce->mode without a lock.  Here an AT *)
(* command is one step that succeeds or fails (ModemCommand models what is *)
(* inside); set_pdp_context, ATD and ATO are one step, since nothing but   *)
(* the modem changes between them.                                         *)
(***************************************************************************)
EXTENDS Naturals, Sequences

CONSTANTS
  DialRetryTimes,  (* CONFIG_MODEM_DIAL_RERTY_TIMES                        *)
  MaxEvents        (* Bound on the events the PPP stack has outstanding.   *)

ASSUME BoundsAssumption == DialRetryTimes \in Nat \ {0} /\ MaxEvents \in Nat

VARIABLES
  mode,        (* dce->mode                                                *)
  modemData,   (* the modem is in data mode (external)                     *)
  session,     (* phase of the PPP netif (external)                        *)
  stopPppBit,  (* ESP_MODEM_STOP_PPP_BIT of process_group                  *)
  connectBit,  (* CONNECT_BIT of connection_events                         *)
  pc,          (* where main and sysLoop are                               *)
  savedMode,   (* current_mode in each task's change_mode                  *)
  startRet,    (* ret: main's last esp_modem_start_ppp returned ESP_OK     *)
  retries,     (* dial_retry_times                                         *)
  dteQueue,    (* the DTE event loop: PPP_START and PPP_STOP               *)
  sysQueue,    (* the default event loop: GOT_IP, LOST_IP and PPP errors   *)
  mishaps      (* ghost: what went wrong since the last boot               *)

link   == <<mode, modemData>>
bits   == <<stopPppBit, connectBit>>
dial   == <<savedMode, startRet, retries>>
queues == <<dteQueue, sysQueue>>
vars   == <<link, session, bits, pc, dial, queues, mishaps>>

Tasks == {"main", "sysLoop"}
Modes == {"COMMAND", "PPP", "TRANSITION"}

(* Inside change_mode, and inside the redial around it.                    *)
Changing   == {"escape", "sync", "hangUp", "dial"}
Redialling == Changing \cup {"stop", "awaitStop", "start"}
Labels     == Redialling \cup {"idle", "awaitConnect", "connected", "restart",
                               "running"}

(* overlap: both tasks are redialling at once.  failure: a command that    *)
(* the modem could execute fails.  silence: a session ends without         *)
(* LOST_IP.  late: GOT_IP comes when main has given up and redials.        *)
Mishaps == {"overlap", "failure", "silence", "late"}

Note(mishap, happened) ==
  mishaps' = mishaps \cup {m \in {mishap} : happened}

(* The receive task, which carries every answer, runs the DTE event loop   *)
(* each time round, and the default event loop outranks the callers: both  *)
(* have delivered what they hold before a command is answered or a wait of *)
(* seconds ends, unless the second is inside the LOST_IP handler.          *)
Settled == dteQueue = <<>> /\ (pc["sysLoop"] = "idle" => sysQueue = <<>>)

Goto(t, label) == pc' = [pc EXCEPT ![t] = label]

(* After esp_modem_start_ppp main keeps the result and waits; the LOST_IP  *)
(* handler ignores it and ends.                                            *)
Returned(t, ok) ==
  /\ Goto(t, IF t = "main" THEN "awaitConnect" ELSE "idle")
  /\ startRet' = IF t = "main" THEN ok ELSE startRet

Init ==
  /\ mode = "COMMAND"
  /\ modemData = FALSE
  /\ session = "closed"
  /\ stopPppBit = FALSE
  /\ connectBit = FALSE
  /\ pc = [t \in Tasks |-> IF t = "main" THEN "start" ELSE "idle"]
  /\ savedMode = [t \in Tasks |-> "COMMAND"]
  /\ startRet = FALSE
  /\ retries = DialRetryTimes
  /\ dteQueue = <<>>
  /\ sysQueue = <<>>
  /\ mishaps = {}

-----------------------------------------------------------------------------
(* esp_modem_stop_ppp: change_mode to COMMAND, PPP_STOP, a wait of 20 s.   *)

(* change_mode refuses the mode it is in, else enters TRANSITION.          *)
StopBegin(t) ==
  /\ pc[t] = "stop"
  /\ \/ /\ mode = "COMMAND"
        /\ Goto(t, "start")
        /\ UNCHANGED <<mode, savedMode>>
     \/ /\ mode # "COMMAND"
        /\ savedMode' = [savedMode EXCEPT ![t] = mode]
        /\ mode' = "TRANSITION"
        /\ Goto(t, "escape")
  /\ UNCHANGED <<modemData, session, bits, startRet, retries, queues, mishaps>>

(* +++ after a second: a modem in data mode leaves it; one in command mode *)
(* says nothing.                                                           *)
Escape(t) ==
  /\ pc[t] = "escape"
  /\ Settled
  /\ \/ /\ modemData
        /\ modemData' = FALSE
        /\ mode' = "COMMAND"
        /\ Goto(t, "hangUp")
        /\ UNCHANGED mishaps
     \/ /\ Goto(t, "sync")
        /\ Note("failure", modemData)
        /\ UNCHANGED link
  /\ UNCHANGED <<session, bits, dial, queues>>

(* AT after a failed +++, ATH after a good one: on success the mode is     *)
(* COMMAND and PPP_STOP is posted; on failure change_mode restores the mode*)
(* it found and stop_ppp returns at once.  Both callers go on to start_ppp.*)
LeaveDataMode(t) ==
  /\ pc[t] \in {"sync", "hangUp"}
  /\ Settled
  /\ \/ /\ ~modemData
        /\ mode' = "COMMAND"
        /\ dteQueue' = Append(dteQueue, "PPP_STOP")
        /\ Goto(t, "awaitStop")
        /\ UNCHANGED mishaps
     \/ /\ mode' = savedMode[t]
        /\ Goto(t, "start")
        /\ Note("failure", ~modemData)
        /\ UNCHANGED dteQueue
  /\ UNCHANGED <<modemData, session, bits, dial, sysQueue>>

(* STOP_PPP_BIT is set already, or does not come: 20 s are enough for the  *)
(* netif to stop, though not for a busy event loop to report it.           *)
AwaitStop(t) ==
  /\ pc[t] = "awaitStop"
  /\ stopPppBit \/ (Settled /\ session # "closing")
  /\ stopPppBit' = FALSE
  /\ Goto(t, "start")
  /\ UNCHANGED <<link, session, connectBit, dial, queues, mishaps>>

-----------------------------------------------------------------------------
(* esp_modem_start_ppp: change_mode to PPP, then PPP_START.                *)

StartBegin(t) ==
  /\ pc[t] = "start"
  /\ \/ /\ mode = "PPP"
        /\ Returned(t, FALSE)
        /\ UNCHANGED <<mode, savedMode>>
     \/ /\ mode # "PPP"
        /\ savedMode' = [savedMode EXCEPT ![t] = mode]
        /\ mode' = "TRANSITION"
        /\ Goto(t, "dial")
        /\ UNCHANGED startRet
  /\ UNCHANGED <<modemData, session, bits, retries, queues, mishaps>>

(* Variant: a failed dial leaves dce->mode as it is.                       *)
EnterDataModeNoRestore(t) ==
  /\ pc[t] = "dial"
  /\ Settled
  /\ \/ /\ ~modemData
        /\ modemData' = TRUE
        /\ mode' = "PPP"
        /\ dteQueue' = Append(dteQueue, "PPP_START")
        /\ Returned(t, TRUE)
        /\ UNCHANGED mishaps
     \/ /\ Returned(t, FALSE)
        /\ Note("failure", ~modemData)
        /\ UNCHANGED <<link, dteQueue>>
  /\ UNCHANGED <<session, bits, savedMode, retries, sysQueue>>

(* The PDP context, then ATD or ATO: PPP mode and PPP_START, or the mode   *)
(* change_mode found.                                                      *)
EnterDataMode(t) ==
  /\ pc[t] = "dial"
  /\ Settled
  /\ \/ /\ ~modemData
        /\ modemData' = TRUE
        /\ mode' = "PPP"
        /\ dteQueue' = Append(dteQueue, "PPP_START")
        /\ Returned(t, TRUE)
        /\ UNCHANGED mishaps
     \/ /\ mode' = savedMode[t]
        /\ Returned(t, FALSE)
        /\ Note("failure", ~modemData)
        /\ UNCHANGED <<modemData, dteQueue>>
  /\ UNCHANGED <<session, bits, savedMode, retries, sysQueue>>

-----------------------------------------------------------------------------
(* The dial loop of modem_board_init.                                      *)

ConnectSeen ==
  /\ pc["main"] = "awaitConnect"
  /\ connectBit
  /\ Goto("main", "connected")
  /\ UNCHANGED <<link, session, bits, dial, queues, mishaps>>

(* Variant: the dial loop does not count its attempts down to the end.     *)
ConnectTimeoutEndless ==
  /\ pc["main"] = "awaitConnect"
  /\ ~connectBit
  /\ Settled
  /\ retries' = retries - 1
  /\ Goto("main", "stop")
  /\ Note("overlap", pc["sysLoop"] \in Redialling)
  /\ UNCHANGED <<link, session, bits, savedMode, startRet, queues>>

(* 60 s without CONNECT_BIT: dial again while --dial_retry_times > 0.      *)
ConnectTimeout ==
  /\ pc["main"] = "awaitConnect"
  /\ ~connectBit
  /\ Settled
  /\ retries' = retries - 1
  /\ Goto("main", IF retries' > 0 THEN "stop" ELSE "restart")
  /\ Note("overlap", retries' > 0 /\ pc["sysLoop"] \in Redialling)
  /\ UNCHANGED <<link, session, bits, savedMode, startRet, queues>>

(* Connected: modem_board_init returns if the last start_ppp succeeded.    *)
InitReturns ==
  /\ pc["main"] = "connected"
  /\ Goto("main", IF startRet THEN "running" ELSE "restart")
  /\ UNCHANGED <<link, session, bits, dial, queues, mishaps>>

(* esp_restart, and the boot up to the first dial: start_up has brought    *)
(* the modem back to command mode.                                         *)
Restart ==
  /\ pc["main"] = "restart"
  /\ mode' = "COMMAND"
  /\ modemData' = FALSE
  /\ session' = "closed"
  /\ stopPppBit' = FALSE
  /\ connectBit' = FALSE
  /\ pc' = [t \in Tasks |-> IF t = "main" THEN "start" ELSE "idle"]
  /\ savedMode' = [t \in Tasks |-> "COMMAND"]
  /\ startRet' = FALSE
  /\ retries' = DialRetryTimes
  /\ dteQueue' = <<>>
  /\ sysQueue' = <<>>
  /\ mishaps' = {}

-----------------------------------------------------------------------------
(* The default event loop.                                                 *)

Deliver(event) ==
  /\ pc["sysLoop"] = "idle"
  /\ sysQueue # <<>>
  /\ Head(sysQueue) = event
  /\ sysQueue' = Tail(sysQueue)

(* CONNECT_BIT is set, and wakes main if it is blocked on it.              *)
DeliverGotIp ==
  /\ Deliver("GOT_IP")
  /\ connectBit' = TRUE
  /\ pc' = [pc EXCEPT !["main"] = IF @ = "awaitConnect" THEN "connected" ELSE @]
  /\ Note("late", pc["main"] \in Redialling)
  /\ UNCHANGED <<link, session, stopPppBit, dial, dteQueue>>

(* Variant: CONNECT_BIT survives LOST_IP.                                  *)
DeliverLostIpKeepsBit ==
  /\ Deliver("LOST_IP")
  /\ Goto("sysLoop", "stop")
  /\ Note("overlap", pc["main"] \in Redialling)
  /\ UNCHANGED <<link, session, bits, dial, dteQueue>>

(* Variant: LOST_IP only clears CONNECT_BIT.                               *)
DeliverLostIpNoRedial ==
  /\ Deliver("LOST_IP")
  /\ connectBit' = FALSE
  /\ UNCHANGED <<link, session, stopPppBit, pc, dial, dteQueue, mishaps>>

(* CONNECT_BIT is cleared and the handler redials.                         *)
DeliverLostIp ==
  /\ Deliver("LOST_IP")
  /\ connectBit' = FALSE
  /\ Goto("sysLoop", "stop")
  /\ Note("overlap", pc["main"] \in Redialling)
  /\ UNCHANGED <<link, session, stopPppBit, dial, dteQueue>>

(* on_ppp_changed: STOP_PPP_BIT wakes main if it waits in stop_ppp, and    *)
(* stays set otherwise; on_modem_event only logs.                          *)
DeliverPppError ==
  /\ Deliver("PPP_ERROR")
  /\ stopPppBit' = (pc["main"] # "awaitStop")
  /\ pc' = [pc EXCEPT !["main"] = IF @ = "awaitStop" THEN "start" ELSE @]
  /\ UNCHANGED <<link, session, connectBit, dial, dteQueue, mishaps>>

-----------------------------------------------------------------------------
(* The receive task runs esp_netif_action_start and esp_netif_action_stop. *)

HandleDteEvent(event) ==
  /\ dteQueue # <<>>
  /\ Head(dteQueue) = event
  /\ dteQueue' = Tail(dteQueue)

(* A session that is not closed refuses to connect.                        *)
NetifStart ==
  /\ HandleDteEvent("PPP_START")
  /\ session' = IF session = "closed" THEN "negotiating" ELSE session
  /\ UNCHANGED <<link, bits, pc, dial, sysQueue, mishaps>>

(* A closed session reports at once, an open one when it has terminated.   *)
NetifStop ==
  /\ HandleDteEvent("PPP_STOP")
  /\ \/ /\ session = "closed"
        /\ sysQueue' = Append(sysQueue, "PPP_ERROR")
        /\ UNCHANGED session
     \/ /\ session # "closed"
        /\ session' = "closing"
        /\ UNCHANGED sysQueue
  /\ UNCHANGED <<link, bits, pc, dial, mishaps>>

-----------------------------------------------------------------------------
(* The PPP stack, the modem and the network (external).                    *)

SessionMoves(from, to, event) ==
  /\ session = from
  /\ session' = to
  /\ Len(sysQueue) < MaxEvents
  /\ sysQueue' = Append(sysQueue, event)
  /\ UNCHANGED <<link, bits, pc, dial, dteQueue>>

(* PPP frames reach the netif in PPP mode only.                            *)
Establish ==
  /\ mode = "PPP"
  /\ modemData
  /\ SessionMoves("negotiating", "up", "GOT_IP")
  /\ UNCHANGED mishaps

Terminated ==
  /\ SessionMoves("closing", "closed", "PPP_ERROR")
  /\ UNCHANGED mishaps

(* A lost connection is reported as LOST_IP; every other reason, such as a *)
(* peer that stops answering or refuses the login, only as a PPP error.    *)
SessionLost ==
  \E from \in {"negotiating", "up"}, event \in {"LOST_IP", "PPP_ERROR"} :
    /\ SessionMoves(from, "closed", event)
    /\ Note("silence", event = "PPP_ERROR")

CarrierLost ==
  /\ modemData
  /\ modemData' = FALSE
  /\ UNCHANGED <<mode, session, bits, pc, dial, queues, mishaps>>

-----------------------------------------------------------------------------
StopPpp(t)  == StopBegin(t) \/ Escape(t) \/ LeaveDataMode(t) \/ AwaitStop(t)
StartPpp(t) == StartBegin(t) \/ EnterDataMode(t)

Main     == ConnectSeen \/ ConnectTimeout \/ InitReturns \/ Restart
SysLoop  == DeliverGotIp \/ DeliverLostIp \/ DeliverPppError
Receiver == NetifStart \/ NetifStop
Network  == Establish \/ Terminated \/ SessionLost \/ CarrierLost

Next == \/ \E t \in Tasks : StopPpp(t) \/ StartPpp(t)
        \/ Main \/ SysLoop \/ Receiver \/ Network

Spec == Init /\ [][Next]_vars

-----------------------------------------------------------------------------
DceTyped ==
  /\ mode \in Modes
  /\ modemData \in BOOLEAN
  /\ session \in {"closed", "negotiating", "up", "closing"}
  /\ stopPppBit \in BOOLEAN
  /\ connectBit \in BOOLEAN

TasksTyped ==
  /\ pc \in [Tasks -> Labels]
  /\ savedMode \in [Tasks -> Modes]
  /\ startRet \in BOOLEAN
  /\ retries \in 0..DialRetryTimes

QueuesTyped ==
  /\ dteQueue \in Seq({"PPP_START", "PPP_STOP"})
  /\ sysQueue \in Seq({"GOT_IP", "LOST_IP", "PPP_ERROR"})

(* Types of the DCE and DTE words, the dial loop's locals and the queues;  *)
(* the dial loop never counts its attempts below zero.                     *)
TypeOK == DceTyped /\ TasksTyped /\ QueuesTyped /\ mishaps \subseteq Mishaps

Pending(queue, event) == \E i \in DOMAIN queue : queue[i] = event

(* A link that is down is somebody's business: main is still dialling, the *)
(* LOST_IP handler is redialling or will be called, or a start is posted.  *)
(* Otherwise the gateway stays offline for good: nothing else redials.     *)
LinkAttended ==
  \/ session \in {"negotiating", "up"}
  \/ pc["main"] # "running"
  \/ pc["sysLoop"] # "idle"
  \/ Pending(dteQueue, "PPP_START")
  \/ Pending(sysQueue, "LOST_IP")

(* The redial design is sound as far as it goes: with no mishap since the  *)
(* boot, a lost session is always attended to, through any number of       *)
(* losses, retries and stale STOP_PPP_BITs.                                *)
LinkAttendedUndisturbed == mishaps = {} => LinkAttended

(* What the LOST_IP handler announces ("Lost IP, Restart PPP"): a lost     *)
(* session is attended to even when commands to the modem fail.            *)
LinkAttendedDespiteFailures == mishaps \subseteq {"failure"} => LinkAttended

(* CONNECT_BIT tells main the truth: with no mishap since the boot, it is  *)
(* set only while the session is up or its LOST_IP is on the way.          *)
ConnectBitHonest ==
  mishaps = {} /\ connectBit => session = "up" \/ Pending(sysQueue, "LOST_IP")

(* change_mode never leaves the DCE in TRANSITION, where data is neither   *)
(* sent nor received, whatever commands fail, unless the two tasks change  *)
(* the mode at the same time.                                              *)
NoTransitionLeft ==
  "overlap" \notin mishaps /\ (\A t \in Tasks : pc[t] \notin Changing)
    => mode # "TRANSITION"
=============================================================================
