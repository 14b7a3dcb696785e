------------------------------ MODULE OutputLog ------------------------------
(***************************************************************************)
(* The output log in RAM (history_log.c).  Every task's log messages are   *)
(* also printed into outputLogBuf, at a pointer the tasks share without a  *)
(* lock, and whoever finds the pointer too near the end restarts the       *)
(* gateway.  The buffer survives a restart: when the cloud asks for it the *)
(* MQTT task publishes all of it, with the pointer's offset in its first   *)
(* word.  Offsets count in the unit of the constants.                      *)
(***************************************************************************)
EXTENDS Naturals

CONSTANTS
  Loggers,     (* the tasks that log                                       *)
  Lengths,     (* the lengths of messages                                  *)
  Header,      (* the word for the offset                                  *)
  Reserve,     (* OUTPUT_LOG_STRING_BYTES_MAX                              *)
  Size         (* OUTPUT_LOG_BUFFER_SIZE                                   *)

OutputLogAssumption ==
  /\ Lengths \subseteq Nat /\ Header \in Nat /\ Reserve \in Nat
  /\ Size \in Nat /\ Header + Reserve <= Size

VARIABLES
  pos,         (* outputLogBufPtr, as an offset                            *)
  at,          (* where each task is in _output_log_vprintf                *)
  printed,     (* the length vsprintf returned to it, 0 before             *)
  offset       (* the first word of the buffer                             *)

vars == <<pos, at, printed, offset>>

Init ==
  /\ pos = Header
  /\ at = [t \in Loggers |-> "idle"]
  /\ printed = [t \in Loggers |-> 0]
  /\ offset = 0

(* Variant: the test the right way round, but for the very last message.   *)
WrapAtEnd(t) ==
  /\ at[t] = "idle"
  /\ pos' = IF pos + Reserve > Size THEN Header ELSE pos
  /\ at' = [at EXCEPT ![t] = "format"]
  /\ UNCHANGED <<printed, offset>>

(* "Start overwriting buffer from the beginning" while there is room: the  *)
(* test is the wrong way round.                                            *)
Wrap(t) ==
  /\ at[t] = "idle"
  /\ pos' = IF pos + Reserve < Size THEN Header ELSE pos
  /\ at' = [at EXCEPT ![t] = "format"]
  /\ UNCHANGED <<printed, offset>>

(* vsprintf at the pointer, wherever it is by now.                         *)
Format(t, length) ==
  /\ at[t] = "format"
  /\ at' = [at EXCEPT ![t] = "advance"]
  /\ printed' = [printed EXCEPT ![t] = length]
  /\ UNCHANGED <<pos, offset>>

Advance(t) ==
  /\ at[t] = "advance"
  /\ pos' = pos + printed[t]
  /\ at' = [at EXCEPT ![t] = "test"]
  /\ printed' = [printed EXCEPT ![t] = 0]
  /\ UNCHANGED offset

Restart ==
  /\ at' = [t \in Loggers |-> "idle"]
  /\ printed' = [t \in Loggers |-> 0]
  /\ UNCHANGED <<pos, offset>>

(* "Reboot, as we have overwritten data."  Only a power-on sets the        *)
(* pointer again.                                                          *)
Return(t) ==
  /\ at[t] = "test"
  /\ IF pos + Reserve > Size
     THEN Restart
     ELSE at' = [at EXCEPT ![t] = "idle"] /\ UNCHANGED <<pos, printed, offset>>

(* history_log_report_output_logs.                                         *)
Report ==
  /\ offset' = pos
  /\ UNCHANGED <<pos, at, printed>>

Logger(t) ==
  \/ Wrap(t) \/ (\E length \in Lengths : Format(t, length)) \/ Advance(t)
  \/ Return(t)

Next ==
  \/ \E t \in Loggers : Logger(t)
  \/ Report
  \/ Restart

Spec == Init /\ [][Next]_vars

-----------------------------------------------------------------------------
(* Whatever tasks log at once and however the gateway restarts, the log    *)
(* stays in its buffer, so that the restart for an overrun is never        *)
(* reached: it takes as many messages at once as fill the buffer.          *)
LogStaysInside == pos + Reserve <= Size
=============================================================================
