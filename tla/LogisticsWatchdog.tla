-------------------------- MODULE LogisticsWatchdog --------------------------
(***************************************************************************)
(* The logistics watchdog hears the telemetry and the connection events of *)
(* the robots, raises an alert for a robot that is silent or disconnected  *)
(* and fails its task.  While mark_failed waits for the database, events   *)
(* are delivered and tasks end and begin.                                  *)
(***************************************************************************)
EXTENDS StateMonitor

VARIABLES
  watching, \* the loop runs and the handlers are subscribed
  age,      \* age of _last_telemetry_at_by_robot
  conn,     \* _last_connection_ok_by_robot
  alert,    \* _alert_active_by_robot
  handled,  \* _last_handled_interruption_by_robot
  failing,  \* the interruption whose mark_failed is under way
  task,     \* the robot has an active task
  kept      \* mark_failed was refused for the active task (history)

watchdogVars ==
  <<watching, age, conn, alert, handled, failing, task, kept>>
watchedVars == <<robotVars, monitorVars, bus, watchdogVars>>

Reasons == {"telemetry_timeout", "quadruped_power_loss", "connection_lost"}
Keys == [task : {"none", "this", "earlier"}, reason : Reasons]
NoKey == [task |-> Nobody, reason |-> Nobody]
Interruptions == [robot : Robots, task : {"this", "earlier"}]
Idle == [robot |-> Nobody, task |-> Nobody]

WatchdogTypeOK ==
  /\ MonitorTypeOK
  /\ watching \in BOOLEAN
  /\ age \in [Robots -> {"never", "fresh", "stale"}]
  /\ conn \in [Robots -> {"unknown", "up", "down"}]
  /\ alert \in [Robots -> BOOLEAN]
  /\ handled \in [Robots -> Keys \cup {NoKey}]
  /\ failing \in Interruptions \cup {Idle}
  /\ task \in [Robots -> BOOLEAN] /\ kept \in [Robots -> BOOLEAN]

WatchdogInit ==
  /\ MonitorInit
  /\ watching = FALSE
  /\ age = [r \in Robots |-> "never"]
  /\ conn = [r \in Robots |-> "unknown"]
  /\ alert = [r \in Robots |-> FALSE]
  /\ handled = [r \in Robots |-> NoKey]
  /\ failing = Idle
  /\ task = [r \in Robots |-> FALSE]
  /\ kept = [r \in Robots |-> FALSE]

(***************************************************************************)
(* Polls, and the tasks the dispatcher begins and ends.                    *)
(***************************************************************************)
WatchedLinkChanges(r) == ChangeLink(r) /\ UNCHANGED watchdogVars

WatchedBatteryChanges(r) == ChangeBattery(r) /\ UNCHANGED watchdogVars

WatchedReadLink(r) == ReadTheLink(r) /\ UNCHANGED watchdogVars

WatchedFinishPoll(r) == FinishThePoll(r) /\ UNCHANGED watchdogVars

\* What named the task that ends names an earlier one from now on.
Forgotten(key) == IF key.task = "this" THEN [key EXCEPT !.task = "earlier"]
                                       ELSE key

TaskChanges(r) ==
  /\ task' = [task EXCEPT ![r] = ~@]
  /\ handled' = [handled EXCEPT ![r] = Forgotten(@)]
  /\ failing' = IF failing.robot = r THEN Forgotten(failing) ELSE failing
  /\ kept' = [kept EXCEPT ![r] = FALSE]
  /\ UNCHANGED <<robotVars, monitorVars, bus, watching, age, conn, alert>>

(***************************************************************************)
(* The watchdog.                                                           *)
(***************************************************************************)
StartWatchdog ==
  /\ ~watching /\ watching' = TRUE
  /\ UNCHANGED <<robotVars, monitorVars, bus, age, conn, alert, handled,
                 failing, task, kept>>

\* stop() joins the loop, which ends the interruption it is handling.
StopWatchdog ==
  /\ watching /\ failing = Idle
  /\ watching' = FALSE
  /\ UNCHANGED <<robotVars, monitorVars, bus, age, conn, alert, handled,
                 failing, task, kept>>

(* (mutant: telemetry does not clear an alert) *)
RestoredOnly == {"restored"}

Recovering == {"link_ok", "restored"}

\* An event that names no robot is taken for the first one's.
TargetRobot(event) == Target(event)

ClearAlert(r) ==
  /\ alert' = [alert EXCEPT ![r] = FALSE]
  /\ handled' = [handled EXCEPT ![r] = NoKey]

\* _on_telemetry, _on_connection_lost and _on_connection_restored.
Hear(r, kind) ==
  /\ conn' = [conn EXCEPT ![r] =
                IF kind \in {"link_ok", "restored"} THEN "up" ELSE "down"]
  /\ age' = IF kind = "lost" THEN age ELSE [age EXCEPT ![r] = "fresh"]
  /\ IF alert[r] /\ kind \in Recovering
     THEN ClearAlert(r) ELSE UNCHANGED <<alert, handled>>

DeliverToWatchdog ==
  /\ bus # <<>>
  /\ bus' = Tail(bus)
  /\ IF watching /\ Head(bus).kind \in LinkKinds
     THEN Hear(TargetRobot(Head(bus)), Head(bus).kind)
     ELSE UNCHANGED <<age, conn, alert, handled>>
  /\ UNCHANGED <<robotVars, monitorVars, watching, failing, task, kept>>

TelemetryAges(r) ==
  /\ age[r] = "fresh"
  /\ age' = [age EXCEPT ![r] = "stale"]
  /\ UNCHANGED <<robotVars, monitorVars, bus, watching, conn, alert, handled,
                 failing, task, kept>>

Unhealthy(r) == age[r] = "stale" \/ (age[r] = "fresh" /\ conn[r] = "down")

Reason(r) ==
  IF age[r] = "stale" THEN "telemetry_timeout"
  ELSE IF current[r] = "empty" THEN "quadruped_power_loss"
  ELSE "connection_lost"

Key(r) == [task |-> IF task[r] THEN "this" ELSE "none", reason |-> Reason(r)]

(* (mutant: a reason is handled once, whatever the task) *)
ReasonHandled(r) == handled[r].reason = Reason(r)

AlreadyHandled(r) == handled[r] = Key(r)

\* One robot's part of check_once, up to the call of mark_failed.
CheckRobotOnce(r) ==
  /\ watching /\ failing = Idle
  /\ Unhealthy(r)
  /\ alert' = [alert EXCEPT ![r] = TRUE]
  /\ IF AlreadyHandled(r) THEN UNCHANGED <<handled, failing>>
     ELSE /\ handled' = [handled EXCEPT ![r] = Key(r)]
          /\ failing' = IF task[r] THEN [robot |-> r, task |-> "this"]
                                   ELSE Idle
  /\ UNCHANGED <<robotVars, monitorVars, bus, watching, age, conn, task, kept>>

\* mark_failed: a task that has ended is not failed again.
TaskFailed ==
  /\ failing # Idle
  /\ IF failing.task = "this"
     THEN /\ task' = [task EXCEPT ![failing.robot] = FALSE]
          /\ handled' = [handled EXCEPT ![failing.robot] = Forgotten(@)]
          /\ kept' = [kept EXCEPT ![failing.robot] = FALSE]
     ELSE UNCHANGED <<task, handled, kept>>
  /\ failing' = Idle
  /\ UNCHANGED <<robotVars, monitorVars, bus, watching, age, conn, alert>>

\* The database refuses the update.  The key is stored already.
TaskNotFailed ==
  /\ failing # Idle
  /\ kept' = IF failing.task = "this"
             THEN [kept EXCEPT ![failing.robot] = TRUE] ELSE kept
  /\ failing' = Idle
  /\ UNCHANGED <<robotVars, monitorVars, bus, watching, age, conn, alert,
                 handled, task>>

WatchedPoll(r) == WatchedReadLink(r) \/ WatchedFinishPoll(r)

WatchdogNext ==
  \/ \E r \in Robots :
       \/ WatchedLinkChanges(r) \/ WatchedBatteryChanges(r)
       \/ WatchedPoll(r)
       \/ TaskChanges(r) \/ TelemetryAges(r) \/ CheckRobotOnce(r)
  \/ StartWatchdog \/ StopWatchdog
  \/ DeliverToWatchdog \/ TaskFailed \/ TaskNotFailed

WatchdogSpec == WatchdogInit /\ [][WatchdogNext]_watchedVars

(***************************************************************************)
(* The loops run, and mark_failed answers.  A poll comes once a second and *)
(* a delivery takes milliseconds, so polls keep finding the bus drained.   *)
(***************************************************************************)
WatchdogFairness ==
  /\ WF_watchedVars(DeliverToWatchdog)
  /\ WF_watchedVars(TaskFailed \/ TaskNotFailed)
  /\ \A r \in Robots :
       /\ WF_watchedVars(WatchedPoll(r)) /\ WF_watchedVars(CheckRobotOnce(r))
       /\ []<><<WatchedFinishPoll(r) /\ bus = <<>>>>_watchedVars

FairWatchdogSpec == WatchdogSpec /\ WatchdogFairness

-----------------------------------------------------------------------------
(* The task of a robot that stays lost is failed, unless the database      *)
(* refused to: a new task under an old alert is not overlooked.            *)
LostRobotsTaskFails ==
  \A r \in Robots :
    <>[](~link[r] /\ watching) => []<>(~task[r] \/ kept[r])

(* An alert does not outlive its cause: when the robots answer again their *)
(* alerts are cleared.                                                     *)
AlertsClear ==
  \A r \in Robots :
    <>[]((\A q \in Robots : link[q]) /\ watching) => []<>~alert[r]
=============================================================================
