---------------------------- MODULE LedIndicator ----------------------------
(***************************************************************************)
(* One LED of led_indicator.c and the helpers of board_leds.c.  Several    *)
(* blink lists may be started at once; the incomplete list with the        *)
(* smallest index is the active one, and _blink_list_runner executes its   *)
(* steps: in the timer task when the one-shot timer expires, and in the    *)
(* task that starts or stops a list.                                       *)
(*                                                                         *)
(* The runner tests active_blink, loads it again with the list's step and  *)
(* stores the step after it, all before it takes the mutex; start and stop *)
(* hold the mutex while _blink_list_switch clears active_blink and then    *)
(* stores the list it found.  What comes of it is recorded in races.       *)
(***************************************************************************)
EXTENDS Integers, Sequences

CONSTANTS
  Callers,      (* the tasks that start and stop lists on this LED         *)
  Timer,        (* the FreeRTOS timer task                                 *)
  Nobody,
  Blinks,       (* the indices of led_indicator_blink_lists, by priority   *)
  Steps         (* for each list its steps: "on", "off", "loop" or "stop"  *)

LedAssumption ==
  /\ Timer \notin Callers /\ Nobody \notin Callers \cup {Timer}
  /\ Blinks \subseteq Nat
  /\ Steps \in [Blinks -> Seq({"on", "off", "loop", "stop"})]

VARIABLES
  step,     (* p_blink_steps: the next step of each list, or Stop          *)
  active,   (* active_blink                                                *)
  mutex,    (* who holds it                                                *)
  lit,      (* the level of the GPIO                                       *)
  armed,    (* the timer will expire                                       *)
  at,       (* where each context is                                       *)
  on,       (* the list each context works on                              *)
  seen,     (* the step its runner loaded                                  *)
  direct,   (* ghost: the GPIO was set directly since the last switch      *)
  races     (* ghost: which unlocked reads went wrong so far               *)

run  == <<at, on, seen>>
vars == <<step, active, mutex, lit, armed, run, direct, races>>

(* LED_BLINK_STOP and NULL_ACTIVE_BLINK; steps are counted from one.       *)
Stop == 0
None == -1
Contexts == Callers \cup {Timer}
Places   == {"idle", "starting", "stopping", "ending", "check", "run", "pick",
             "store", "body", "wild"}

(* blind: active_blink was read while a switch in progress had cleared it. *)
(* late: a runner acted on a list whose step had been changed since.       *)
Races == {"blind", "late"}
Note(race, happened) == races' = races \cup {r \in {race} : happened}

Goto(c, place) == at' = [at EXCEPT ![c] = place]

(* Back to the caller, or to the runner's test, where nothing is kept.     *)
Leave(c, place) ==
  /\ Goto(c, place)
  /\ on' = [on EXCEPT ![c] = None]
  /\ seen' = [seen EXCEPT ![c] = Stop]

(* What _blink_list_switch finds.                                          *)
Incomplete == {b \in Blinks : step[b] # Stop}
First(S) ==
  IF S = {} THEN None ELSE CHOOSE b \in S : \A other \in S : b <= other

Switches == {"starting", "stopping", "ending"}
Switching == \E c \in Contexts : at[c] \in Switches

(* led_indicator_create: nothing blinks and the timer does not run.        *)
Init ==
  /\ step = [b \in Blinks |-> Stop]
  /\ active = None
  /\ mutex = Nobody
  /\ lit = FALSE
  /\ armed = FALSE
  /\ at = [c \in Contexts |-> "idle"]
  /\ on = [c \in Contexts |-> None]
  /\ seen = [c \in Contexts |-> Stop]
  /\ direct = FALSE
  /\ races = {}

-----------------------------------------------------------------------------
(* Variant: the LED stays as the last list left it.                        *)
ClearStaysLit(c, place) ==
  /\ active' = None
  /\ direct' = FALSE
  /\ Goto(c, place)
  /\ UNCHANGED lit

(* _blink_list_switch clears active_blink and turns the LED off ...        *)
Clear(c, place) ==
  /\ active' = None
  /\ lit' = FALSE
  /\ direct' = FALSE
  /\ Goto(c, place)

(* led_indicator_start and led_indicator_stop, up to there.                *)
Start(c, b) ==
  /\ at[c] = "idle"
  /\ mutex = Nobody
  /\ mutex' = c
  /\ step' = [step EXCEPT ![b] = 1]
  /\ on' = [on EXCEPT ![c] = b]
  /\ Clear(c, "starting")
  /\ UNCHANGED <<armed, seen, races>>

StopBlink(c, b) ==
  /\ at[c] = "idle"
  /\ mutex = Nobody
  /\ mutex' = c
  /\ step' = [step EXCEPT ![b] = Stop]
  /\ on' = [on EXCEPT ![c] = b]
  /\ Clear(c, "stopping")
  /\ UNCHANGED <<armed, seen, races>>

(* Variant: a list that is started becomes the active one.                 *)
SwitchToStarted(c) ==
  /\ at[c] \in Switches
  /\ active' = IF at[c] = "starting" THEN on[c] ELSE First(Incomplete)
  /\ mutex' = Nobody
  /\ Leave(c, "run")
  /\ UNCHANGED <<step, lit, armed, direct, races>>

(* ... and stores the first incomplete list; the mutex is given back.      *)
(* start goes on to compare, the other two run the list.                   *)
Switch(c) ==
  /\ at[c] \in Switches
  /\ active' = First(Incomplete)
  /\ mutex' = Nobody
  /\ \/ at[c] = "starting" /\ Goto(c, "check") /\ UNCHANGED <<on, seen>>
     \/ at[c] # "starting" /\ Leave(c, "run")
  /\ UNCHANGED <<step, lit, armed, direct, races>>

(* start runs the list only if it is the active one.                       *)
Check(c) ==
  /\ at[c] = "check"
  /\ Leave(c, IF active = on[c] THEN "run" ELSE "idle")
  /\ Note("blind", active = None /\ Switching)
  /\ UNCHANGED <<step, active, mutex, lit, armed, direct>>

(* set_led_behaviour with On or Off sets the GPIO and stops no list: the   *)
(* states it remembers are never anything but -1.                          *)
SetLevel(c, level) ==
  /\ at[c] = "idle"
  /\ lit' = level
  /\ direct' = TRUE
  /\ UNCHANGED <<step, active, mutex, armed, run, races>>

(* The one-shot timer expires: its callback is the runner.                 *)
Expire ==
  /\ armed
  /\ at[Timer] = "idle"
  /\ armed' = FALSE
  /\ Goto(Timer, "run")
  /\ UNCHANGED <<step, active, mutex, lit, on, seen, direct, races>>

-----------------------------------------------------------------------------
(* _blink_list_runner: nothing to do without an active list.               *)
Test(c) ==
  /\ at[c] = "run"
  /\ Goto(c, IF active = None THEN "idle" ELSE "pick")
  /\ Note("blind", active = None /\ Switching)
  /\ UNCHANGED <<step, active, mutex, lit, armed, on, seen, direct>>

(* Load the active list again, and its step.                               *)
Valid == active \in Blinks /\ step[active] \in DOMAIN Steps[active]

Pick(c) ==
  /\ at[c] = "pick"
  /\ Valid
  /\ on' = [on EXCEPT ![c] = active]
  /\ seen' = [seen EXCEPT ![c] = step[active]]
  /\ Goto(c, "store")
  /\ UNCHANGED <<step, active, mutex, lit, armed, direct, races>>

(* An index of NULL_ACTIVE_BLINK or LED_BLINK_STOP, or one past the end of *)
(* the list: C promises nothing any more, the behaviour ends.              *)
PickWild(c) ==
  /\ at[c] = "pick"
  /\ ~Valid
  /\ at' = [other \in Contexts |-> "wild"]
  /\ UNCHANGED <<step, active, mutex, lit, armed, on, seen, direct, races>>

(* Store the step after it.                                                *)
Store(c) ==
  /\ at[c] = "store"
  /\ step' = [step EXCEPT ![on[c]] = seen[c] + 1]
  /\ Note("late", active # on[c] \/ step[on[c]] # seen[c])
  /\ Goto(c, "body")
  /\ UNCHANGED <<active, mutex, lit, armed, on, seen, direct>>

(* With the mutex: execute the step that was loaded.                       *)
Ready(c) ==
  /\ at[c] = "body"
  /\ mutex = Nobody
  /\ Note("late", active # on[c] \/ step[on[c]] # seen[c] + 1)

Type(c) == Steps[on[c]][seen[c]]

Hold(c) ==
  /\ Ready(c)
  /\ Type(c) \in {"on", "off"}
  /\ lit' = (Type(c) = "on")
  /\ armed' = TRUE
  /\ Leave(c, "idle")
  /\ direct' = FALSE
  /\ UNCHANGED <<step, active, mutex>>

Loop(c) ==
  /\ Ready(c)
  /\ Type(c) = "loop"
  /\ step' = [step EXCEPT ![on[c]] = 1]
  /\ Leave(c, "run")
  /\ UNCHANGED <<active, mutex, lit, armed, direct>>

End(c) ==
  /\ Ready(c)
  /\ Type(c) = "stop"
  /\ step' = [step EXCEPT ![on[c]] = Stop]
  /\ mutex' = c
  /\ Clear(c, "ending")
  /\ UNCHANGED <<armed, on, seen>>

(* Variant: the runner gives up for good.                                  *)
GiveUpForGood(c) ==
  /\ at[c] = "body"
  /\ mutex # Nobody
  /\ Leave(c, "idle")
  /\ UNCHANGED <<step, active, mutex, lit, armed, direct, races>>

(* The wait for the mutex ends after 100 ms: try again by the timer.       *)
GiveUp(c) ==
  /\ at[c] = "body"
  /\ mutex # Nobody
  /\ armed' = TRUE
  /\ Leave(c, "idle")
  /\ UNCHANGED <<step, active, mutex, lit, direct, races>>

Runner(c) ==
  \/ Test(c) \/ Pick(c) \/ PickWild(c) \/ Store(c)
  \/ Hold(c) \/ Loop(c) \/ End(c) \/ GiveUp(c)

Caller(c) ==
  \/ \E b \in Blinks : Start(c, b) \/ StopBlink(c, b)
  \/ \E level \in BOOLEAN : SetLevel(c, level)
  \/ Check(c)

Next ==
  \/ Expire
  \/ \E c \in Callers : Caller(c)
  \/ \E c \in Contexts : Switch(c) \/ Runner(c)

Spec == Init /\ [][Next]_vars

-----------------------------------------------------------------------------
(* Types.  A list's step is one of its steps, the one past its last, which *)
(* stands between the runner's store and its execution of the last, or     *)
(* Stop.  The mutex is held exactly inside a switch.                       *)
TypeOK ==
  /\ \A b \in Blinks : step[b] \in Stop..Len(Steps[b]) + 1
  /\ active \in Blinks \cup {None}
  /\ lit \in BOOLEAN /\ armed \in BOOLEAN /\ direct \in BOOLEAN
  /\ at \in [Contexts -> Places]
  /\ on \in [Contexts -> Blinks \cup {None}]
  /\ \A c \in Contexts : at[c] \in {"store", "body"} =>
       on[c] \in Blinks /\ seen[c] \in DOMAIN Steps[on[c]]
  /\ \A c \in Contexts :
       at[c] # "wild" => ((mutex = c) <=> at[c] \in Switches)
  /\ mutex \in Contexts \cup {Nobody}
  /\ races \subseteq Races

Quiet == \A c \in Contexts : at[c] = "idle"

(* Blinking goes on: when no task is at work and a list is active, the     *)
(* timer will execute its next step.  A runner that looks while a switch   *)
(* has cleared active_blink returns without arming the timer, and start    *)
(* does not run a list that is not the first: then the LED stays as it is. *)
BlinkGoesOn == Quiet /\ races = {} => (active # None => armed)

(* The active list is the incomplete one of the highest priority whenever  *)
(* nobody is switching, as led_indicator.h says of lists that are started  *)
(* together, unless a runner stored a step over one that had changed.      *)
HighestPriority ==
  mutex = Nobody /\ "late" \notin races => active = First(Incomplete)

(* A stopped LED stays dark: when nothing is active and no task is at      *)
(* work, the LED is lit only by a direct On after the last switch.         *)
StoppedIsDark ==
  Quiet /\ active = None /\ "late" \notin races => (lit => direct)

(* A list of the highest priority is shown, goes on, and no other is left. *)
LedShowsActive == BlinkGoesOn /\ HighestPriority /\ StoppedIsDark
=============================================================================
