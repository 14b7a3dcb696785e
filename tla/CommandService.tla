--------------------------- MODULE CommandService ---------------------------
(***************************************************************************)
(* What a task may rely on when it sends a command to the modem, the       *)
(* abstract specification of ModemCommand when answers are prompt: the     *)
(* modem serves the command once, its verdict is returned unchanged, or    *)
(* the answer is lost on the way and the call times out.                   *)
(***************************************************************************)
CONSTANT Clients

VARIABLES
  stage,    \* where each client's call is
  answer    \* the verdict on its way to it: "due" before there is one,
            \* "none" when there is none any more

vars == <<stage, answer>>

Verdicts == {"SUCCESS", "FAIL"}

Init ==
  /\ stage = [c \in Clients |-> "idle"]
  /\ answer = [c \in Clients |-> "none"]

(* A client calls.                                                         *)
Call(c) ==
  /\ stage[c] = "idle"
  /\ stage' = [stage EXCEPT ![c] = "called"]
  /\ answer' = [answer EXCEPT ![c] = "due"]

(* The modem carries the command out or refuses it, in an answer or none.  *)
Serve(c) ==
  /\ stage[c] = "called" /\ answer[c] = "due"
  /\ \E verdict \in Verdicts \cup {"none"} :
       answer' = [answer EXCEPT ![c] = verdict]
  /\ UNCHANGED stage

(* The answer is lost.                                                     *)
Lose(c) ==
  /\ stage[c] = "called" /\ answer[c] \in Verdicts
  /\ answer' = [answer EXCEPT ![c] = "none"]
  /\ UNCHANGED stage

(* The answer ends the wait: from now on it cannot be lost.                *)
Complete(c) ==
  /\ stage[c] = "called" /\ answer[c] \in Verdicts
  /\ stage' = [stage EXCEPT ![c] = "returns"]
  /\ UNCHANGED answer

(* The verdict is returned.                                                *)
Return(c) ==
  /\ stage[c] = "returns"
  /\ stage' = [stage EXCEPT ![c] = "idle"]
  /\ answer' = [answer EXCEPT ![c] = "none"]

(* Without an answer the call returns after its limit.                     *)
TimeOut(c) ==
  /\ stage[c] = "called" /\ answer[c] = "none"
  /\ stage' = [stage EXCEPT ![c] = "idle"]
  /\ UNCHANGED answer

Next ==
  \E c \in Clients :
    Call(c) \/ Serve(c) \/ Lose(c) \/ Complete(c) \/ Return(c) \/ TimeOut(c)

Spec == Init /\ [][Next]_vars
=============================================================================
