----------------------------- MODULE TaskStatus -----------------------------
(***************************************************************************)
(* The status of a transport task, and the moves the task queue allows.    *)
(* Every writer of a status -- the dispatcher's route result, its event    *)
(* handlers, the watchdog, the operator's DELETE -- goes through           *)
(* TaskQueue._transition_task, which reads the stored status, checks it    *)
(* against this table and writes the new one under one lock.               *)
(***************************************************************************)

\* The statuses of apps/logistics/tasks/queue.py; the specifications add
\* "none" for a task that was not submitted yet.
TaskStatuses ==
  { "queued", "dispatched", "awaiting_load", "in_transit", "awaiting_unload",
    "completed", "failed", "cancelled" }

TerminalStatuses == { "completed", "failed", "cancelled" }

\* ALLOWED_TRANSITIONS
AllowedTransitions(current) ==
  CASE current = "queued"          -> { "dispatched", "failed", "cancelled" }
    [] current = "dispatched"      -> { "awaiting_load", "failed", "cancelled" }
    [] current = "awaiting_load"   -> { "in_transit", "failed", "cancelled" }
    [] current = "in_transit"      -> { "awaiting_unload", "failed" }
    [] current = "awaiting_unload" -> { "completed", "failed" }
    [] OTHER                       -> {}

CanMove(current, new) == new \in AllowedTransitions(current)

\* The two points of a transport where a human hands the tray over.
Gates == { "load", "unload" }

=============================================================================
