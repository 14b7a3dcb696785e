--------------------------- MODULE SharedResource ---------------------------
(***************************************************************************)
(* What an owner that shares a resource with tasks promises them: it is    *)
(* there before any task uses it and is freed only when none does, and     *)
(* never comes back.  The abstract specification that UsbLifeCycle         *)
(* implements.                                                             *)
(***************************************************************************)
CONSTANT Tasks

VARIABLES
  state,  \* "none", "held" or "freed"
  users   \* the tasks that use it

vars == <<state, users>>

Init == state = "none" /\ users = {}

(* It is made, perhaps together with a first user.                         *)
Acquire ==
  /\ state = "none" /\ state' = "held" /\ users' \in SUBSET Tasks

Join == \E t \in Tasks \ users :
  state = "held" /\ users' = users \cup {t} /\ UNCHANGED state

Leave == \E t \in users :
  state = "held" /\ users' = users \ {t} /\ UNCHANGED state

Free == state = "held" /\ users = {} /\ state' = "freed" /\ UNCHANGED users

Next == Acquire \/ Join \/ Leave \/ Free

Spec == Init /\ [][Next]_vars
=============================================================================
