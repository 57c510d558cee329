---------------------------- MODULE PatrolWatchdog ----------------------------
(***************************************************************************)
(* The patrol watchdog beside the patrol it watches (PatrolMission).  It   *)
(* learns of suspensions and completed cycles from the bus, looks at the   *)
(* queue's counts and raises an alert; it changes nothing of the patrol.   *)
(***************************************************************************)
EXTENDS PatrolMission

CONSTANT
  MaxCrashes  \* bound: crashes of the process

ASSUME CrashesAssumption == MaxCrashes \in Nat

VARIABLES
  asleep,    \* PatrolWatchdog._suspended
  lastDone,  \* PatrolWatchdog._last_cycle_completed_at
  alert,     \* PatrolWatchdog._last_alert_reason
  crashes    \* of the process, so far

watchdogVars == <<asleep, lastDone, alert, crashes>>
allVars == <<vars, watchdogVars>>

WatchdogInit ==
  /\ asleep   = FALSE
  /\ lastDone = "never"
  /\ alert    = "none"
  /\ crashes  = 0

\* PATROL_CYCLE_COMPLETED
HandleCycleCompleted ==
  /\ lastDone' = "recently"
  /\ alert'    = "none"
  /\ UNCHANGED <<asleep, crashes>>

\* PATROL_SUSPENDED and PATROL_RESUMED; a resumption clears the alert.
HandleSuspension(kind) ==
  /\ asleep' = (kind = "suspended")
  /\ alert'  = IF kind = "resumed" THEN "none" ELSE alert
  /\ UNCHANGED <<lastDone, crashes>>

\* Three patrol intervals pass.
TimePasses ==
  /\ lastDone = "recently"
  /\ lastDone' = "long ago"
  /\ UNCHANGED <<vars, asleep, alert, crashes>>

CyclesAccumulate ==
  /\ \E c \in Cycles : Scheduled(c)
  /\ \A c \in Cycles : status[c] # "active"

\* (mutant: no alert is raised while another one stands)
CheckOnceLatched ==
  /\ ~asleep
  /\ alert' = CASE alert # "none" -> alert
                [] alert = "none" /\ lastDone = "long ago" -> "stalled"
                [] alert = "none" /\ lastDone # "long ago" /\ CyclesAccumulate
                     -> "accumulating"
                [] OTHER -> "none"
  /\ UNCHANGED <<vars, asleep, lastDone, crashes>>

\* check_once; an alert with the reason of the last one is not repeated.
CheckOnce ==
  /\ ~asleep
  /\ alert' = CASE lastDone = "long ago" -> "stalled"
                [] lastDone # "long ago" /\ CyclesAccumulate -> "accumulating"
                [] OTHER -> "none"
  /\ UNCHANGED <<vars, asleep, lastDone, crashes>>

\* The process dies and is started again with a new watchdog.
Restart ==
  /\ crashes < MaxCrashes
  /\ crashes' = crashes + 1
  /\ Crash
  /\ asleep'   = FALSE
  /\ lastDone' = "never"
  /\ alert'    = "none"

WatchedNext ==
  \/ UnheardStep /\ UNCHANGED watchdogVars
  \/ \E r \in Robots : RecordCompletion(r) /\ HandleCycleCompleted
  \/ Deliver /\ HandleSuspension(Head(bus))
  \/ TimePasses
  \/ CheckOnce
  \/ Restart

\* The watchdog's loop polls for ever.
WatchedSpec ==
  /\ Init /\ WatchdogInit
  /\ [][WatchedNext]_allVars
  /\ Fairness
  /\ WF_allVars(TimePasses)
  /\ WF_allVars(CheckOnce)

-----------------------------------------------------------------------------
(* Properties *)

\* A cycle under way ends, completed or failed, unless the process dies: no
\* suspension, emergency stop or fault leaves it active for ever.
ActiveCyclesEnd ==
  \A c \in Cycles : status[c] = "active" ~> status[c] # "active" \/ crashes > 0

\* A cycle that waits is taken, unless the patrol is suspended; a cycle whose
\* mark_active keeps failing leads to suspension and is not retried for ever.
ScheduledCyclesServed ==
  \A c \in Cycles :
    Scheduled(c) ~> ~Scheduled(c) \/ suspended["dispatcher"]

\* A patrol that completed a cycle and then no other for three intervals is
\* reported, unless it is suspended.
StallReported ==
  lastDone = "long ago" ~> alert = "stalled" \/ lastDone # "long ago" \/ asleep

=============================================================================
