---------------------------- MODULE ModemCommand ----------------------------
(***************************************************************************)
(* One AT command at a time over the USB line: how a task that calls       *)
(* esp_modem_dce_generic_command (esp_modem_dce.c) and the receive task    *)
(* _usb_data_recv_task (esp_modem_usb_dte.c) share the DCE object.         *)
(*                                                                         *)
(* The DCE holds one handle_line pointer and one state word, the DTE one   *)
(* event group with COMMAND_BIT.  None of them is protected by a lock, no  *)
(* answer carries the name of its command, and the two tasks may run on    *)
(* different cores, so each shared access below is a step of its own.      *)
(*                                                                         *)
(* Ghost state: the identity of a command, carried by its lines and by     *)
(* stateBy, and alone exist only to state the properties.                  *)
(***************************************************************************)
EXTENDS Naturals, Sequences, FiniteSets

CONSTANTS
  Callers,         (* Tasks that send commands: main, default event loop.  *)
  Kinds,           (* Kinds of command in use, a subset of AllKinds.       *)
  Ids,             (* Identities of commands.  One is reused when nothing  *)
                   (* of its last use is left, so Ids bounds the backlog.  *)
  NoId,            (* Stands for the modem in lines it sends on its own.   *)
  MaxUnsolicited,  (* Bound on such lines waiting to be read.              *)
  LateAnswers      (* FALSE: an answer arrives before the timeout or never.*)

(* A kind stands for the commands that share a handle_line function.       *)
AllKinds == {"AT", "+++", "ATD", "AT+RESET"}

ASSUME KindsAssumption  == Kinds \subseteq AllKinds
ASSUME IdsAssumption    == NoId \notin Ids
ASSUME BoundsAssumption == MaxUnsolicited \in Nat /\ LateAnswers \in BOOLEAN

VARIABLES
  handleLine,   (* dce->handle_line, by the kind that installed it         *)
  dceState,     (* dce->state                                              *)
  commandBit,   (* ESP_MODEM_COMMAND_BIT of process_group                  *)
  callerPc,     (* where each caller is in generic_command/send_cmd        *)
  command,      (* the command each caller is in: [id, kind]               *)
  completed,    (* its event-group wait ended with COMMAND_BIT             *)
  recvPc,       (* where the receive task is in esp_handle_usb_data        *)
  buffer,       (* lines in the DTE line buffer: a set of [id, word]       *)
  rx,           (* lines received and not yet read: a sequence             *)
  pending,      (* commands written and not yet answered by the modem      *)
  stateBy,      (* commands whose lines last set dceState; {} on reset     *)
  alone         (* nothing but the caller's command was on the line since  *)
                (* it began                                                *)

callerVars == <<callerPc, command, completed, alone>>
recvVars   == <<recvPc, buffer>>
vars == <<handleLine, dceState, commandBit, callerVars, recvVars, rx,
          pending, stateBy>>

NoHandler == "NULL"
NoCommand == [id |-> NoId, kind |-> "AT"]
Words     == {"OK", "ERROR", "CONNECT", "NO CARRIER", "PB DONE"}
Line      == [id : Ids \cup {NoId}, word : Words]
Issued    == [id : Ids \cup {NoId}, kind : AllKinds]

(* What the modem may reply to a command of each kind.  An empty answer    *)
(* stands for one that is lost: never sent, dropped by the full IN ring    *)
(* buffer, or cut by two reads so that strstr matches neither half.        *)
Replies(kind) ==
  {<<>>, <<"ERROR">>} \cup
  CASE kind = "AT"       -> {<<"OK">>}
    [] kind = "+++"      -> {<<"OK">>, <<"NO CARRIER">>}
    [] kind = "ATD"      -> {<<"CONNECT">>, <<"NO CARRIER">>}
    [] kind = "AT+RESET" -> {<<"OK", "PB DONE">>}

(* Variant: the AT+RESET handler succeeds on OK, before the modem is done.  *)
OutcomeResetOnOk(kind, words) ==
  LET success == CASE kind = "AT"       -> {"OK"}
                   [] kind = "+++"      -> {"OK", "NO CARRIER"}
                   [] kind = "ATD"      -> {"CONNECT"}
                   [] kind = "AT+RESET" -> {"OK", "PB DONE"}
  IN  IF words \cap success # {} THEN "SUCCESS"
      ELSE IF "ERROR" \in words  THEN "FAIL"
      ELSE "none"

(* The handle_line functions: the state the buffer's text leads to, in the *)
(* order of their strstr tests, or "none" when no test matches.  AT:       *)
(* handle_response_default; +++: handle_exit_data_mode; ATD and ATO:       *)
(* handle_atd_ppp; AT+RESET: handle_reset, where OK alone decides nothing. *)
Outcome(kind, words) ==
  LET success == CASE kind = "AT"       -> {"OK"}
                   [] kind = "+++"      -> {"OK", "NO CARRIER"}
                   [] kind = "ATD"      -> {"CONNECT"}
                   [] kind = "AT+RESET" -> {"PB DONE"}
  IN  IF kind = "AT+RESET" /\ "OK" \in words THEN "none"
      ELSE IF words \cap success # {}        THEN "SUCCESS"
      ELSE IF "ERROR" \in words              THEN "FAIL"
      ELSE "none"

WordsOf(lines) == {l.word : l \in lines}
IdsOf(lines)   == {l.id : l \in lines}
LinesOf(seq)   == {seq[i] : i \in DOMAIN seq}

(* No trace of an earlier command is left anywhere between the two ends.   *)
LineQuiet == /\ rx = <<>>
             /\ pending = <<>>
             /\ recvPc = "loop"
             /\ ~commandBit
             /\ \A d \in Callers : callerPc[d] = "idle"

IdsInUse == IdsOf(LinesOf(rx)) \cup IdsOf(LinesOf(pending)) \cup IdsOf(buffer)
              \cup stateBy \cup {command[c].id : c \in Callers}

Init ==
  /\ handleLine = NoHandler
  /\ dceState = "SUCCESS"
  /\ commandBit = FALSE
  /\ callerPc = [c \in Callers |-> "idle"]
  /\ command = [c \in Callers |-> NoCommand]
  /\ completed = [c \in Callers |-> FALSE]
  /\ recvPc = "loop"
  /\ buffer = {}
  /\ rx = <<>>
  /\ pending = <<>>
  /\ stateBy = {}
  /\ alone = [c \in Callers |-> FALSE]

-----------------------------------------------------------------------------
(* The calling task.                                                       *)

(* generic_command installs the handler of the command it is about to send.*)
InstallHandler(c) ==
  /\ callerPc[c] = "idle"
  /\ \E k \in Kinds, id \in Ids \ IdsInUse :
       /\ handleLine' = k
       /\ command' = [command EXCEPT ![c] = [id |-> id, kind |-> k]]
  /\ callerPc' = [callerPc EXCEPT ![c] = "installed"]
  /\ alone' = [d \in Callers |-> d = c /\ LineQuiet]
  /\ UNCHANGED <<dceState, commandBit, completed, recvVars, rx, pending,
                 stateBy>>

(* send_cmd resets the state word and writes the command.                  *)
WriteCommand(c) ==
  /\ callerPc[c] = "installed"
  /\ dceState' = "PROCESSING"
  /\ stateBy' = {}
  /\ pending' = Append(pending, command[c])
  /\ callerPc' = [callerPc EXCEPT ![c] = "waiting"]
  /\ UNCHANGED <<handleLine, commandBit, command, completed, alone,
                 recvVars, rx>>

(* xEventGroupWaitBits finds COMMAND_BIT set and clears it (pdTRUE).  A bit *)
(* set while a caller is blocked is handed over by SetCommandBit instead.  *)
WaitSatisfied(c) ==
  /\ callerPc[c] = "waiting"
  /\ commandBit
  /\ commandBit' = FALSE
  /\ completed' = [completed EXCEPT ![c] = TRUE]
  /\ callerPc' = [callerPc EXCEPT ![c] = "returning"]
  /\ UNCHANGED <<handleLine, dceState, command, alone, recvVars, rx,
                 pending, stateBy>>

(* Without late answers the timeout only ends a wait nothing can complete. *)
AnswerStillDue(c) ==
  \/ recvPc # "loop"
  \/ command[c].id \in IdsOf(LinesOf(rx)) \cup IdsOf(LinesOf(pending))

(* Variant: the wait has no limit (portMAX_DELAY).                          *)
WaitWithoutLimit(c) == FALSE /\ c \in Callers /\ UNCHANGED vars

WaitTimeout(c) ==
  /\ callerPc[c] = "waiting"
  /\ ~commandBit
  /\ LateAnswers \/ ~AnswerStillDue(c)
  /\ completed' = [completed EXCEPT ![c] = FALSE]
  /\ callerPc' = [callerPc EXCEPT ![c] = "returning"]
  /\ UNCHANGED <<handleLine, dceState, commandBit, command, alone,
                 recvVars, rx, pending, stateBy>>

(* Variant: a timeout is judged by the state word like an answer.           *)
RemoveHandlerAndJudge(c) ==
  /\ callerPc[c] = "returning"
  /\ handleLine' = NoHandler
  /\ callerPc' = [callerPc EXCEPT ![c] = "judging"]
  /\ UNCHANGED <<dceState, commandBit, command, completed, alone, recvVars,
                 rx, pending, stateBy>>

(* send_cmd removes the handler; a timeout is reported at once.            *)
RemoveHandler(c) ==
  /\ callerPc[c] = "returning"
  /\ handleLine' = NoHandler
  /\ callerPc' = [callerPc EXCEPT ![c] = IF completed[c] THEN "judging"
                                                         ELSE "idle"]
  /\ command' = [command EXCEPT ![c] = IF completed[c] THEN @ ELSE NoCommand]
  /\ UNCHANGED <<dceState, commandBit, completed, alone, recvVars, rx,
                 pending, stateBy>>

(* generic_command reads the state word: ESP_FAIL when it is FAIL, ESP_OK  *)
(* for every other value.                                                  *)
Judge(c) ==
  /\ callerPc[c] = "judging"
  /\ callerPc' = [callerPc EXCEPT ![c] = "idle"]
  /\ command' = [command EXCEPT ![c] = NoCommand]
  /\ completed' = [completed EXCEPT ![c] = FALSE]
  /\ UNCHANGED <<handleLine, dceState, commandBit, alone, recvVars, rx,
                 pending, stateBy>>

-----------------------------------------------------------------------------
(* The receive task, in command or transition mode.                        *)

(* The buffer takes what has arrived, one line or several, and is dropped  *)
(* when no handler is installed (the test before and the one in            *)
(* esp_dte_handle_line have the same effect on the command).               *)
ReadLines ==
  /\ recvPc = "loop"
  /\ \E n \in 1..Len(rx) :
       /\ rx' = SubSeq(rx, n + 1, Len(rx))
       /\ IF handleLine = NoHandler
          THEN UNCHANGED recvVars
          ELSE /\ recvPc' = "calling"
               /\ buffer' = LinesOf(SubSeq(rx, 1, n))
  /\ UNCHANGED <<handleLine, dceState, commandBit, callerVars, pending,
                 stateBy>>

(* Variant: the handler stores its result even when no text matched.        *)
CallHandlerAlwaysStores ==
  /\ recvPc = "calling"
  /\ handleLine # NoHandler
  /\ dceState' = Outcome(handleLine, WordsOf(buffer))
  /\ stateBy' = IdsOf(buffer)
  /\ recvPc' = "marking"
  /\ buffer' = {}
  /\ UNCHANGED <<handleLine, commandBit, callerVars, rx, pending>>

(* The handler, loaded again for the call, sets the state word when the    *)
(* text has a result code (esp_modem_process_command_done).                *)
CallHandler ==
  /\ recvPc = "calling"
  /\ handleLine # NoHandler
  /\ LET outcome == Outcome(handleLine, WordsOf(buffer))
     IN  IF outcome = "none"
         THEN /\ recvPc' = "loop"
              /\ UNCHANGED <<dceState, stateBy>>
         ELSE /\ recvPc' = "marking"
              /\ dceState' = outcome
              /\ stateBy' = IdsOf(buffer)
  /\ buffer' = {}
  /\ UNCHANGED <<handleLine, commandBit, callerVars, rx, pending>>

(* The pointer was cleared after it was tested: the call goes to address 0 *)
(* and the panic handler restarts the gateway and, with it, the modem line.*)
CallNullHandler ==
  /\ recvPc = "calling"
  /\ handleLine = NoHandler
  /\ dceState' = "SUCCESS"
  /\ commandBit' = FALSE
  /\ callerPc' = [c \in Callers |-> "idle"]
  /\ command' = [c \in Callers |-> NoCommand]
  /\ completed' = [c \in Callers |-> FALSE]
  /\ alone' = [c \in Callers |-> FALSE]
  /\ recvPc' = "loop"
  /\ buffer' = {}
  /\ rx' = <<>>
  /\ pending' = <<>>
  /\ stateBy' = {}
  /\ UNCHANGED handleLine

(* Variant: the wait does not clear the bit on exit (pdFALSE).              *)
SetCommandBitSticky ==
  LET blocked == {c \in Callers : callerPc[c] = "waiting"}
  IN  /\ recvPc = "marking"
      /\ recvPc' = "loop"
      /\ commandBit' = TRUE
      /\ completed' = [c \in Callers |-> c \in blocked \/ completed[c]]
      /\ callerPc' = [c \in Callers |-> IF c \in blocked THEN "returning"
                                                         ELSE callerPc[c]]
      /\ UNCHANGED <<handleLine, dceState, command, alone, buffer, rx,
                     pending, stateBy>>

(* process_cmd_done: xEventGroupSetBits wakes every blocked caller and     *)
(* leaves the bit set only when there is none.                             *)
SetCommandBit ==
  LET blocked == {c \in Callers : callerPc[c] = "waiting"}
  IN  /\ recvPc = "marking"
      /\ recvPc' = "loop"
      /\ commandBit' = (blocked = {})
      /\ completed' = [c \in Callers |-> c \in blocked \/ completed[c]]
      /\ callerPc' = [c \in Callers |-> IF c \in blocked THEN "returning"
                                                         ELSE callerPc[c]]
      /\ UNCHANGED <<handleLine, dceState, command, alone, buffer, rx,
                     pending, stateBy>>

-----------------------------------------------------------------------------
(* The modem (external): it answers commands in order, or not at all, and  *)
(* may report a lost carrier at any time.                                  *)

Answer ==
  /\ pending # <<>>
  /\ \E reply \in Replies(Head(pending).kind) :
       rx' = rx \o [i \in DOMAIN reply |->
                      [id |-> Head(pending).id, word |-> reply[i]]]
  /\ pending' = Tail(pending)
  /\ UNCHANGED <<handleLine, dceState, commandBit, callerVars, recvVars,
                 stateBy>>

ReportCarrierLost ==
  /\ Cardinality({i \in DOMAIN rx : rx[i].id = NoId}) < MaxUnsolicited
  /\ rx' = Append(rx, [id |-> NoId, word |-> "NO CARRIER"])
  /\ alone' = [c \in Callers |-> FALSE]
  /\ UNCHANGED <<handleLine, dceState, commandBit, callerPc, command, completed,
                 recvVars, pending, stateBy>>

-----------------------------------------------------------------------------
Finish(c) == WaitSatisfied(c) \/ WaitTimeout(c) \/ RemoveHandler(c) \/ Judge(c)

Caller(c) == InstallHandler(c) \/ WriteCommand(c) \/ Finish(c)

Receiver == ReadLines \/ CallHandler \/ CallNullHandler \/ SetCommandBit

Modem == Answer \/ ReportCarrierLost

Next == (\E c \in Callers : Caller(c)) \/ Receiver \/ Modem

Spec == Init /\ [][Next]_vars

(* The scheduler runs every ready task and the tick ends every wait.       *)
Fairness == \A c \in Callers : WF_vars(WriteCommand(c)) /\ WF_vars(Finish(c))

FairSpec == Spec /\ Fairness

-----------------------------------------------------------------------------
(* Types of the shared DCE/DTE words and of the two tasks' private state.  *)
TypeOK ==
  /\ handleLine \in AllKinds \cup {NoHandler}
  /\ dceState \in {"PROCESSING", "SUCCESS", "FAIL"}
  /\ commandBit \in BOOLEAN
  /\ callerPc \in [Callers -> {"idle", "installed", "waiting", "returning",
                               "judging"}]
  /\ command \in [Callers -> Issued]
  /\ completed \in [Callers -> BOOLEAN]
  /\ recvPc \in {"loop", "calling", "marking"}
  /\ buffer \in SUBSET Line
  /\ rx \in Seq(Line)
  /\ pending \in Seq(Issued)
  /\ stateBy \in SUBSET (Ids \cup {NoId})
  /\ alone \in [Callers -> BOOLEAN]

(* A command that returns ESP_OK or ESP_FAIL does so on its own answer:    *)
(* the verdict generic_command is about to read was written for it.        *)
VerdictIsOwn(c) == dceState # "PROCESSING" /\ stateBy = {command[c].id}

OwnAnswer == \A c \in Callers : callerPc[c] = "judging" => VerdictIsOwn(c)

(* The discipline under which the unlocked protocol is right, whatever the *)
(* timing of the answers: a command that starts on a quiet line and has it *)
(* for itself returns its own verdict.                                     *)
AloneOwnAnswer ==
  \A c \in Callers : callerPc[c] = "judging" /\ alone[c] => VerdictIsOwn(c)

(* The receive task never calls handle_line after the caller cleared it    *)
(* (esp_dte_handle_line tests the pointer and loads it again for the call).*)
NoNullCall == recvPc = "calling" => handleLine # NoHandler

(* No completion is left in the event group for a command that has not     *)
(* been sent: when nobody is in a command, COMMAND_BIT is clear and no     *)
(* line is between its handler and the bit.                                *)
NoStaleCompletion ==
  (\A c \in Callers : callerPc[c] = "idle") => ~commandBit /\ recvPc # "marking"

(* Every command returns, whatever the modem and the receive task do: the  *)
(* wait in send_cmd is bounded.                                            *)
CommandReturns ==
  \A c \in Callers : callerPc[c] # "idle" ~> callerPc[c] = "idle"

(* The service a caller gets.  A call is under way until a wait was ended  *)
(* by COMMAND_BIT or has failed.                                           *)
Stage(c) ==
  IF callerPc[c] = "idle" THEN "idle"
  ELSE IF \/ callerPc[c] = "judging"
          \/ callerPc[c] = "returning" /\ completed[c]
       THEN "returns"
       ELSE "called"

(* What the modem means by the line that ends its answer.  The start of a  *)
(* reset decides nothing, and with its end in one read hides it.           *)
Meant(kind, said) ==
  IF said \in {{"OK"}, {"CONNECT"}, {"PB DONE"}}    THEN "SUCCESS"
  ELSE IF said = {"NO CARRIER"} /\ kind = "+++"     THEN "SUCCESS"
  ELSE IF said = {"ERROR"}                          THEN "FAIL"
  ELSE "none"

(* An answer is due until the modem has given it, then in the lines on     *)
(* their way, and last in the state word.                                  *)
AnswerTo(c) ==
  IF callerPc[c] = "idle"                               THEN "none"
  ELSE IF callerPc[c] = "installed" \/ pending # <<>>   THEN "due"
  ELSE IF stateBy = {command[c].id}                     THEN dceState
  ELSE Meant(command[c].kind, IF rx # <<>> THEN {rx[Len(rx)].word}
                                           ELSE WordsOf(buffer))

Service ==
  INSTANCE CommandService WITH
    Clients <- Callers,
    stage <- [c \in Callers |-> Stage(c)],
    answer <- [c \in Callers |-> AnswerTo(c)]

(* With one caller and prompt answers, a call returns the verdict of its   *)
(* own answer, however the lines of the answer are read, and times out     *)
(* only when that answer is lost; nothing of it is left to the next call.  *)
ImplementsService == Service!Spec
=============================================================================
