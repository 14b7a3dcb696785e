---------------------------- MODULE ModemStartUp ----------------------------
(***************************************************************************)
(* The start-up of the modem: modem_board_init creates the DTE and the DCE *)
(* with its commands and ties them to the network interface, and           *)
(* modem_board_start_up sends AT until the modem answers and then turns    *)
(* the echo off.  esp_modem_retry_run counts the timeouts and the errors   *)
(* of AT apart; before each retry my_recov does what it holds for a cure:  *)
(* leave data mode and reset by command, pulse the reset pin, power-cycle  *)
(* the board or enter the PIN of the SIM.  When all fails ESP_ERROR_CHECK  *)
(* restarts the gateway, and the modem and its SIM stay as they are.       *)
(*                                                                         *)
(* One task does all this, so each command is one step: its outcome is     *)
(* that of esp_modem_dce_generic_command, whose inner life ModemCommand    *)
(* models.  The modem may be busy booting, in data mode or hung.           *)
(***************************************************************************)
EXTENDS Naturals, FiniteSets

CONSTANTS
  Timeouts,   \* esp_modem_recov_resend_new's max_timeouts
  Errors,     \* and max_errors
  Attempts,   \* wrong PINs a SIM endures
  MaxBoots    \* bound: starts of the gateway

StartUpAssumption ==
  /\ Timeouts \in Nat /\ Errors \in Nat
  /\ Attempts \in Nat \ {0} /\ MaxBoots \in Nat \ {0}

VARIABLES
  at,         \* where modem_board_init is
  timeouts, errors,
  ready,      \* my_recov's local
  tried,      \* cures tried in this start-up
  boots,
  modem,      \* "command", "data", "booting" or "hung"
  echo,
  dce,        \* what modem_board_create and default_attach have made
  sim         \* locked: it waits for a PIN; known: its PIN is 1234; left:
              \* wrong PINs it still endures; fresh: the same at this boot

vars == <<at, timeouts, errors, ready, tried, boots, modem, echo, dce, sim>>

Binding  == {"create", "netif", "handlers", "attach", "notify"}
Syncing  == {"sync", "escape", "reset", "reset2", "pulse", "cycle", "again",
             "read", "enter", "check", "echo"}
Places   == {"new", "none", "failed", "info", "up"} \cup Binding \cup Syncing
Modes    == {"command", "data", "booting", "hung"}
Cures    == {"command", "pulse", "cycle", "pin"}

(* The library's commands, those to which the DCE has pointers of its own, *)
(* and what ties the DTE to the network interface.                         *)
Refs  == {"set_data_mode", "resume_data_mode", "set_command_mode",
          "set_pdp_context", "hang_up", "set_echo", "sync", "set_flow_ctrl",
          "store_profile"}
Table == Refs \cup
         {"get_imei_number", "get_imsi_number", "get_module_name",
          "get_operator_name", "get_signal_quality", "get_battery_status",
          "power_down", "reset", "set_pin", "read_pin", "set_baud"}
Pins  == {"power", "reset"}
Ties  == {"receive", "start", "stop", "connected", "disconnected",
          "transmit", "closed", "initialized"}
Null  == "NULL"

NoDce == [list |-> {}, refs |-> [r \in Refs |-> Null], pins |-> {},
          resync |-> Null, ties |-> {}]

TypeOK ==
  /\ at \in Places /\ ready \in BOOLEAN /\ tried \subseteq Cures
  /\ timeouts \in 0..Timeouts + 1 /\ errors \in 0..Errors + 1
  /\ boots \in 1..MaxBoots /\ modem \in Modes /\ echo \in BOOLEAN
  /\ dce.pins \subseteq Pins /\ dce.ties \subseteq Ties
  /\ at \in Syncing \cup {"info", "up"}
     => /\ dce.resync # Null /\ dce.ties = Ties
        /\ \A r \in Refs : dce.refs[r] # Null
  /\ sim \in [locked : BOOLEAN, known : BOOLEAN, left : 0..Attempts,
              fresh : 0..Attempts]

Init ==
  /\ at = "new" /\ timeouts = 0 /\ errors = 0 /\ ready = FALSE
  /\ tried = {} /\ boots = 1 /\ echo = TRUE /\ dce = NoDce
  /\ modem \in {"booting", "data", "hung"}
  /\ sim \in [locked : BOOLEAN, known : BOOLEAN, left : {Attempts},
              fresh : {Attempts}]
  /\ modem = "booting" /\ sim.known => sim.locked

(* A command's outcome: an answer of OK or ERROR only from a modem that    *)
(* listens, and any answer may be lost or late.                            *)
Outcomes == IF modem = "command" THEN {"ok", "fail", "timeout"}
                                 ELSE {"timeout"}

(* A modem that starts again echoes, and wants the PIN of its SIM again:   *)
(* one whose PIN is 1234 is locked, one with another PIN was never open,   *)
(* and one that is neither locked nor known has none.                      *)
Locked == [sim EXCEPT !.locked = @ \/ sim.known]

Boot ==
  /\ modem = "booting"
  /\ modem' = "command" /\ echo' = TRUE /\ sim' = Locked
  /\ UNCHANGED <<at, timeouts, errors, ready, tried, boots, dce>>

-----------------------------------------------------------------------------
(* modem_board_init: without a dongle esp_modem_dte_new fails and the      *)
(* gateway goes on with WiFi only.                                         *)
NewDte ==
  /\ at = "new"
  /\ at' \in {"create", "none"}
  /\ UNCHANGED <<timeouts, errors, ready, tried, boots, modem, echo, sim, dce>>

(* esp_modem_dce_init.  The pointers come from the defaults and then from  *)
(* the list of commands, in which a name that is missing gives NULL.       *)
DefaultInit    == [NoDce EXCEPT !.refs = [r \in Refs |-> r]]
FindCommand(d, name) == IF name \in d.list THEN name ELSE Null
UpdateRefs(d)  == [d EXCEPT !.refs = [r \in Refs |-> FindCommand(d, r)]]
InitList(d)    == [d EXCEPT !.list = Table]
SetDefaultList(d) == UpdateRefs(InitList(d))

(* No device is named in the configuration, so no command is replaced.     *)
DceInit(populate) ==
  IF populate THEN SetDefaultList(DefaultInit) ELSE DefaultInit

ResendNew(command, memory) == IF memory THEN command ELSE Null
GpioNew(pin, memory)       == IF memory THEN {pin} ELSE {}

(* modem_board_create, on whose failure modem_board_init asserts.  A pin   *)
(* for which there is no memory is not pulsed later; nobody tests whether  *)
(* there is an object for the retries of AT, whose command is that of now. *)
Create ==
  /\ at = "create"
  /\ \/ at' = "failed" /\ UNCHANGED dce
     \/ LET board == DceInit(TRUE)
        IN  /\ \E power, reset, resend \in BOOLEAN :
                 dce' = [board EXCEPT
                           !.pins = GpioNew("power", power)
                                    \cup GpioNew("reset", reset),
                           !.resync = ResendNew(board.refs["sync"], resend),
                           !.refs["store_profile"] = "re_store_profile"]
            /\ at' = "netif"
  /\ UNCHANGED <<timeouts, errors, ready, tried, boots, modem, echo, sim>>

(* esp_modem_default_attach, each step of which may fail: then the start   *)
(* aborts, or loads from the adapter that is NULL.                         *)
Tie(from, to, ties) ==
  /\ at = from
  /\ \/ at' = to /\ dce' = [dce EXCEPT !.ties = @ \cup ties]
     \/ at' = "failed" /\ UNCHANGED dce
  /\ UNCHANGED <<timeouts, errors, ready, tried, boots, modem, echo, sim>>

NewNetif    == Tie("netif", "handlers", {"receive"})
SetHandlers == Tie("handlers", "attach",
                   {"start", "stop", "connected", "disconnected"})
PostAttach  == Tie("attach", "notify", {"transmit", "closed"})

(* The last one, esp_modem_notify_initialized, starts the receive task;    *)
(* the first AT then goes through the retry object.                        *)
Initialized ==
  /\ at = "notify"
  /\ dce' = [dce EXCEPT !.ties = @ \cup {"initialized"}]
  /\ at' = IF dce.resync = Null THEN "failed" ELSE "sync"
  /\ UNCHANGED <<timeouts, errors, ready, tried, boots, modem, echo, sim>>

Attach == NewNetif \/ SetHandlers \/ PostAttach \/ Initialized

-----------------------------------------------------------------------------
(* Variant: the pulse of the reset pin is left for after the cycle.        *)
CureCycleFirst(err, t) ==
  IF err = "timeout" THEN IF t # 3 THEN "escape" ELSE "pulse"
  ELSE "read"

(* my_recov's choice, by the last error and by the number of timeouts.     *)
Cure(err, t) ==
  IF err = "timeout" THEN IF t < 2 THEN "escape"
                          ELSE IF t < 3 THEN "pulse"
                          ELSE "escape"
  ELSE "read"

(* esp_modem_retry_run, after an unsuccessful AT: the loop's condition and *)
(* the recovery before the next try.                                       *)
Retry(err, t, e) ==
  IF t <= Timeouts /\ e <= Errors THEN Cure(err, t) ELSE "failed"

Sync ==
  /\ at = "sync"
  /\ \E o \in Outcomes :
       LET t == IF o = "timeout" THEN timeouts + 1 ELSE timeouts
           e == IF o = "fail" THEN errors + 1 ELSE errors
       IN  /\ timeouts' = t /\ errors' = e
           /\ at' = IF o = "ok" THEN "echo" ELSE Retry(o, t, e)
  /\ ready' = FALSE
  /\ UNCHANGED <<tried, boots, modem, echo, sim, dce>>

(* my_recov at the first timeout and from the third on: +++, also heard in *)
(* data mode; its result is ignored.                                       *)
Escape ==
  /\ at = "escape" /\ at' = "reset"
  /\ modem' \in IF modem = "data" THEN {"data", "command"} ELSE {modem}
  /\ UNCHANGED <<timeouts, errors, ready, tried, boots, echo, sim, dce>>

(* esp_modem_dce_reset: AT+RESET, done on PB DONE, which the modem sends   *)
(* when it has started again; on any other outcome AT^RESET.  A modem that *)
(* heard the command may restart although its answer is lost.              *)
AfterReset == IF timeouts < 2 THEN "sync" ELSE "cycle"

Reset ==
  /\ at \in {"reset", "reset2"}
  /\ \E o \in Outcomes :
       /\ at' = IF at = "reset" /\ o # "ok" THEN "reset2" ELSE AfterReset
       /\ tried' = IF at' = "reset2" THEN tried ELSE tried \cup {"command"}
       /\ IF o = "ok"
          THEN modem' = "command" /\ echo' = TRUE /\ sim' = Locked
          ELSE /\ modem' \in IF o = "timeout" /\ modem = "command"
                             THEN {modem, "booting"} ELSE {modem}
               /\ UNCHANGED <<echo, sim>>
  /\ UNCHANGED <<timeouts, errors, ready, boots, dce>>

(* modem_board_reset and modem_board_power_down: the pulse and its waits.  *)
(* Nothing configures the pins as outputs, so that the modem may not       *)
(* notice.                                                                 *)
Pulse ==
  /\ at = "pulse" /\ at' = "sync"
  /\ tried' = tried \cup {"pulse"}
  /\ modem' \in IF "reset" \in dce.pins THEN {modem, "booting"} ELSE {modem}
  /\ UNCHANGED <<timeouts, errors, ready, boots, echo, sim, dce>>

PowerCycle ==
  /\ at = "cycle" /\ at' = "again"
  /\ tried' = tried \cup {"cycle"}
  /\ modem' \in IF "power" \in dce.pins THEN {modem, "booting"} ELSE {modem}
  /\ UNCHANGED <<timeouts, errors, ready, boots, echo, sim, dce>>

(* The AT after the power cycle, whose result is ignored.                  *)
SyncAgain ==
  /\ at = "again" /\ at' = "sync"
  /\ UNCHANGED <<timeouts, errors, ready, tried, boots, modem, echo, sim, dce>>

-----------------------------------------------------------------------------
(* esp_modem_dce_read_pin: READY sets the local even when the OK after it  *)
(* is lost; the results of the commands are ignored.                       *)
Reads(r) ==
  \E o \in Outcomes :
    r \in CASE o = "ok"      -> {~sim.locked}
            [] o = "fail"    -> {ready}
            [] o = "timeout" -> {ready} \cup
                 IF modem = "command" THEN {~sim.locked} ELSE {}

ReadPin ==
  /\ at = "read"
  /\ Reads(ready')
  /\ at' = IF ready' THEN "check" ELSE "enter"
  /\ UNCHANGED <<timeouts, errors, tried, boots, modem, echo, sim, dce>>

(* set_pin(dce, "1234"): a locked SIM opens or counts a wrong PIN; one     *)
(* with none left wants its PUK.  The answer may be lost, or the command.  *)
EnterPin ==
  /\ at = "enter" /\ at' = "check" /\ tried' = tried \cup {"pin"}
  /\ \/ /\ modem = "command" /\ sim.locked /\ sim.left > 0
        /\ sim' = IF sim.known
                  THEN [sim EXCEPT !.locked = FALSE, !.left = Attempts,
                                   !.fresh = Attempts]
                  ELSE [sim EXCEPT !.left = @ - 1]
     \/ UNCHANGED sim
  /\ UNCHANGED <<timeouts, errors, ready, boots, modem, echo, dce>>

(* Variant: the PIN is entered until the SIM is ready.                     *)
CheckPinTryAgain ==
  /\ at = "check"
  /\ Reads(ready')
  /\ at' = IF ready' THEN "sync" ELSE "enter"
  /\ UNCHANGED <<timeouts, errors, tried, boots, modem, echo, sim, dce>>

CheckPin ==
  /\ at = "check"
  /\ Reads(ready')
  /\ at' = IF ready' THEN "sync" ELSE "failed"
  /\ UNCHANGED <<timeouts, errors, tried, boots, modem, echo, sim, dce>>

-----------------------------------------------------------------------------
(* modem_board_start_up: ATE0 after AT.  (A lost answer fails the start.)  *)
SetEcho ==
  /\ at = "echo"
  /\ \E o \in Outcomes :
       /\ at' = IF o = "ok" THEN "info" ELSE "failed"
       /\ echo' \in CASE o = "ok" -> {FALSE} [] o = "fail" -> {echo}
                      [] o = "timeout" -> {echo} \cup
                           IF modem = "command" THEN {FALSE} ELSE {}
  /\ UNCHANGED <<timeouts, errors, ready, tried, boots, modem, sim, dce>>

(* esp_modem_print_info: AT+CGSN and AT+CIMI, whatever comes of them.      *)
PrintInfo ==
  /\ at = "info" /\ at' = "up"
  /\ UNCHANGED <<timeouts, errors, ready, tried, boots, modem, echo, dce, sim>>

(* ESP_ERROR_CHECK(esp_modem_default_start(dte)) aborts; later esp_restart *)
(* comes from a session whose modem may still be in data mode.  The modem  *)
(* has its own supply and is not restarted.                                *)
Restart ==
  /\ at \in {"failed", "up"} /\ boots < MaxBoots
  /\ boots' = boots + 1 /\ at' = "new"
  /\ timeouts' = 0 /\ errors' = 0 /\ ready' = FALSE /\ tried' = {}
  /\ dce' = NoDce
  /\ modem' \in IF at = "up" THEN {"command", "data", "hung"} ELSE {modem}
  /\ sim' = [sim EXCEPT !.fresh = sim.left]
  /\ UNCHANGED echo

Stop ==
  /\ at = "none" \/ (at \in {"failed", "up"} /\ boots = MaxBoots)
  /\ UNCHANGED vars

Task ==
  \/ NewDte \/ Create \/ Attach \/ Sync \/ Escape \/ Reset \/ Pulse
  \/ PowerCycle \/ SyncAgain \/ ReadPin \/ EnterPin \/ CheckPin \/ SetEcho
  \/ PrintInfo \/ Restart

Next == Task \/ Boot \/ Stop

Spec == Init /\ [][Next]_vars

-----------------------------------------------------------------------------
(* The cures come in the order of their violence, whatever mixture of      *)
(* timeouts and errors the modem gives (timeouts and errors are counted    *)
(* apart): the board is power-cycled only after its reset by command and   *)
(* by pin were tried in the same start-up.                                 *)
GentleFirst == at = "cycle" \/ "cycle" \in tried
                 => {"command", "pulse"} \subseteq tried

(* A start-up costs the SIM at most one wrong PIN, whatever is lost: a SIM *)
(* that is not ready after 1234 ends the loop, and so does a second ERROR. *)
(* (Each further restart costs another, until the SIM is blocked.)         *)
SimSparedPerBoot == sim.fresh - sim.left <= 1
=============================================================================
