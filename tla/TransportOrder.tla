--------------------------- MODULE TransportOrder ---------------------------
(***************************************************************************)
(* What the logistics application promises about one transport task,       *)
(* whoever moves it along: it is submitted once, follows the status table, *)
(* never leaves a terminal status, and passes the loading and the          *)
(* unloading gate only after a human confirmed that gate of that task.     *)
(*                                                                         *)
(* No robot, dispatcher, navigator or event bus appears here.              *)
(* LogisticsDispatch is shown to implement this specification.             *)
(***************************************************************************)
EXTENDS TaskStatus

CONSTANT Tasks

VARIABLES
  status,     \* the stored status of every task, or "none"
  confirmed   \* the <<task, gate>> pairs a human has confirmed

orderVars == <<status, confirmed>>

OrderTypeOK ==
  /\ status \in [Tasks -> TaskStatuses \cup {"none"}]
  /\ confirmed \subseteq Tasks \X Gates

Init ==
  /\ status = [t \in Tasks |-> "none"]
  /\ confirmed = {}

Submit(t) ==
  /\ status[t] = "none"
  /\ status' = [status EXCEPT ![t] = "queued"]
  /\ UNCHANGED confirmed

\* A human says that the tray is on (off) the robot, which is asked for only
\* while the task waits at that gate.
HumanConfirms(t, gate) ==
  /\ \/ gate = "load"   /\ status[t] = "awaiting_load"
     \/ gate = "unload" /\ status[t] = "awaiting_unload"
  /\ confirmed' = confirmed \cup {<<t, gate>>}
  /\ UNCHANGED status

GateOpen(t, new) ==
  /\ new = "in_transit" => <<t, "load">> \in confirmed
  /\ new = "completed"  => <<t, "unload">> \in confirmed

Move(t, new) ==
  /\ CanMove(status[t], new)
  /\ GateOpen(t, new)
  /\ status' = [status EXCEPT ![t] = new]
  /\ UNCHANGED confirmed

Next ==
  \E t \in Tasks :
    \/ Submit(t)
    \/ \E gate \in Gates : HumanConfirms(t, gate)
    \/ \E new \in TaskStatuses : Move(t, new)

Spec == Init /\ [][Next]_orderVars

=============================================================================
