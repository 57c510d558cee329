--------------------------- MODULE ObstaclePolicy ---------------------------
(***************************************************************************)
(* How a navigating robot reacts to obstacles: the detector publishes the  *)
(* changes of what it sees, the bus delivers them to the navigators that   *)
(* are under way, and each navigator blocks, waits for the path to stay    *)
(* clear, counts repetitions, and gives the route up after a time.         *)
(*                                                                         *)
(* A step of a navigator is what its coroutine does between two            *)
(* suspensions; a delivery is one handler call of every navigator.  Time   *)
(* is three stages of one hold: fresh, held (longer than the minimum hold) *)
(* and overdue (longer than the hold timeout).                             *)
(***************************************************************************)
EXTENDS Naturals, Sequences

CONSTANTS
  Robots,
  Waypoints,    \* number of waypoints of a route
  HoldAt,       \* those at which the robot waits for a human
  RepeatLimit,  \* obstacle_repeat_fallback_count
  BusCapacity,  \* bound on events on the bus; more are dropped
  All           \* addressee of an event that names no robot

ASSUME PolicyAssumption ==
  /\ Waypoints \in Nat \ {0}
  /\ HoldAt \subseteq 1..Waypoints
  /\ RepeatLimit \in Nat \ {0}
  /\ BusCapacity \in Nat \ {0}
  /\ All \notin Robots

VARIABLES
  detecting, \* the detector's loop runs
  seen,      \* ObstacleDetector._last_status.obstacle_present
  bus,       \* obstacle events that wait for delivery
  phase,     \* where execute_route is, per robot
  done,      \* _completed_waypoints
  known,     \* the state monitor has stored a state
  blind,     \* the route began before it had (history)
  blocked,   \* _blocked
  timer,     \* age of _blocked_started_at and _obstacle_detected_at
  count,     \* _obstacle_count, kept at RepeatLimit once it is reached
  requires,  \* _requires_hmi_confirmation
  stable,    \* a stable-clear task sleeps
  holdSet,   \* _hold_event is set
  cancelled, \* _cancelled
  moving,    \* the heartbeat's target velocity is not zero
  heard      \* last obstacle event handled on this route (history)

sensorVars == <<detecting, seen, bus>>
routeVars  == <<phase, done, known, blind, holdSet, cancelled>>
policyVars == <<blocked, timer, count, requires, stable, heard>>
obstacleVars == <<sensorVars, routeVars, policyVars, moving>>

Phases == {"idle", "driving", "reading", "waiting", "holding", "heldUp"}
Kinds  == {"detected", "cleared", "manual"}
Events == [kind : Kinds, to : Robots \cup {All}]

Navigating(r) == phase[r] # "idle"

ObstacleTypeOK ==
  /\ detecting \in BOOLEAN /\ seen \in BOOLEAN
  /\ bus \in Seq(Events) /\ Len(bus) <= BusCapacity
  /\ phase \in [Robots -> Phases]
  /\ done \in [Robots -> 0..Waypoints]
  /\ known \in [Robots -> BOOLEAN]    /\ blind \in [Robots -> BOOLEAN]
  /\ blocked \in [Robots -> BOOLEAN]  /\ requires \in [Robots -> BOOLEAN]
  /\ stable \in [Robots -> BOOLEAN]   /\ holdSet \in [Robots -> BOOLEAN]
  /\ cancelled \in [Robots -> BOOLEAN] /\ moving \in [Robots -> BOOLEAN]
  /\ timer \in [Robots -> {"fresh", "held", "overdue"}]
  /\ count \in [Robots -> 0..RepeatLimit]
  /\ heard \in [Robots -> Kinds \cup {"nothing"}]

ObstacleInit ==
  /\ detecting = FALSE /\ seen = FALSE
  /\ bus = <<>>
  /\ phase = [r \in Robots |-> "idle"]
  /\ done  = [r \in Robots |-> 0]
  /\ known \in [Robots -> BOOLEAN]
  /\ LET off == [r \in Robots |-> FALSE]
     IN /\ blind = off /\ blocked = off /\ requires = off /\ stable = off
        /\ holdSet = off /\ cancelled = off /\ moving = off
  /\ timer = [r \in Robots |-> "fresh"]
  /\ count = [r \in Robots |-> 0]
  /\ heard = [r \in Robots |-> "nothing"]

----------------------------------------------------------------------------
(* The detector, the operator's screen and the bus                        *)

\* publish_nowait: on a full queue the event is lost.
PublishNowait(e) == IF Len(bus) < BusCapacity THEN Append(bus, e) ELSE bus

\* A poll that finds a change stores it and publishes it once.  No bridge, no
\* scan and an invalid scan count as clear.
DetectorPoll(present) ==
  /\ detecting /\ present # seen
  /\ seen' = present
  /\ bus' = PublishNowait([kind |-> IF present THEN "detected" ELSE "cleared",
                           to   |-> All])
  /\ UNCHANGED <<detecting, routeVars, policyVars, moving>>

\* start, and stop once the loop's last poll has ended; the status stays.
DetectorRuns(on) ==
  /\ detecting # on
  /\ detecting' = on
  /\ UNCHANGED <<seen, bus, routeVars, policyVars, moving>>

\* CONFIRM_OBSTACLE_CLEARED: the screen may or may not name its robot.
ConfirmCleared(to) ==
  /\ Len(bus) < BusCapacity
  /\ bus' = Append(bus, [kind |-> "manual", to |-> to])
  /\ UNCHANGED <<detecting, seen, routeVars, policyVars, moving>>

\* _event_is_for_this_robot, for the robots that are subscribed.
Concerned(e) == {r \in Robots : Navigating(r) /\ e.to \in {r, All}}

\* (mutant: a detection leaves the stable-clear task waiting)
StableKept(rs) == stable

\* What a detection does to the pending stable-clear tasks, to the clocks of
\* those newly blocked, and to the target velocities.
StableCancelled(rs) == [r \in Robots |-> stable[r] /\ r \notin rs]

\* (mutant: the clock of an obstacle restarts with each detection)
ClockAlways(rs) == [r \in Robots |-> IF r \in rs THEN "fresh" ELSE timer[r]]

ClockStarted(rs) ==
  [r \in Robots |-> IF r \in rs /\ ~blocked[r] THEN "fresh" ELSE timer[r]]

\* (mutant: the target velocity stays)
TargetKept(rs) == moving

TargetCleared(rs) == [r \in Robots |-> moving[r] /\ r \notin rs]

\* _handle_obstacle_detected: only a robot that becomes blocked counts.
Detected(rs) ==
  LET new == {r \in rs : ~blocked[r]}
      n   == [r \in Robots |-> IF r \in new /\ count[r] < RepeatLimit
                                 THEN count[r] + 1 ELSE count[r]]
  IN /\ blocked' = [r \in Robots |-> blocked[r] \/ r \in rs]
     /\ timer' = ClockStarted(rs)
     /\ count' = n
     /\ requires' = [r \in Robots |->
                       requires[r] \/ (r \in new /\ n[r] >= RepeatLimit)]
     /\ stable' = StableCancelled(rs)
     /\ moving' = TargetCleared(rs)

\* _handle_obstacle_cleared, manual: at once, whatever was counted.
ClearedByHand(rs) ==
  LET on == {r \in rs : blocked[r]}
  IN /\ blocked'  = [r \in Robots |-> blocked[r] /\ r \notin on]
     /\ requires' = [r \in Robots |-> requires[r] /\ r \notin on]
     /\ stable'   = [r \in Robots |-> stable[r] /\ r \notin on]
     /\ UNCHANGED <<timer, count, moving>>

\* (mutant: the sensor's clear counts although a human is required)
SensorHeardByAll(rs) == {r \in rs : blocked[r]}

\* Whom a clear of the sensor concerns: not those that require a human.
SensorHeard(rs) == {r \in rs : blocked[r] /\ ~requires[r]}

\* _handle_obstacle_cleared, from the sensor: a brief detection is undone at
\* once, otherwise a stable-clear task is started anew.
ClearedBySensor(rs) ==
  LET on    == SensorHeard(rs)
      brief == {r \in on : timer[r] = "fresh"}
  IN /\ blocked' = [r \in Robots |-> blocked[r] /\ r \notin brief]
     /\ count' = [r \in Robots |-> IF r \in brief /\ count[r] > 0
                                     THEN count[r] - 1 ELSE count[r]]
     /\ stable' = [r \in Robots |->
                     (stable[r] \/ r \in on) /\ r \notin brief]
     /\ UNCHANGED <<timer, requires, moving>>

\* EventBus._dispatch_event calls the handlers one after the other.
Deliver ==
  /\ bus # <<>>
  /\ bus' = Tail(bus)
  /\ LET e  == Head(bus)
         rs == Concerned(e)
     IN /\ heard' = [r \in Robots |-> IF r \in rs THEN e.kind ELSE heard[r]]
        /\ CASE e.kind = "detected" -> Detected(rs)
             [] e.kind = "manual"   -> ClearedByHand(rs)
             [] e.kind = "cleared"  -> ClearedBySensor(rs)
  /\ UNCHANGED <<detecting, seen, routeVars>>

----------------------------------------------------------------------------
(* The clocks                                                             *)

\* _run_stable_clear_wait wakes up.
StableClear(r) ==
  /\ stable[r]
  /\ stable' = [stable EXCEPT ![r] = FALSE]
  /\ blocked' = [blocked EXCEPT ![r] = @ /\ ~Navigating(r)]
  /\ UNCHANGED <<sensorVars, routeVars, timer, count, requires, heard,
                 moving>>

HoldAges(r) ==
  /\ blocked[r] /\ timer[r] # "overdue"
  /\ timer' = [timer EXCEPT ![r] = IF @ = "fresh" THEN "held"
                                                  ELSE "overdue"]
  /\ UNCHANGED <<sensorVars, routeVars, blocked, count, requires, stable,
                 heard, moving>>

\* The state monitor stores its first state.
FirstState(r) ==
  /\ ~known[r]
  /\ known' = [known EXCEPT ![r] = TRUE]
  /\ UNCHANGED <<sensorVars, phase, done, blind, holdSet, cancelled,
                 policyVars, moving>>

----------------------------------------------------------------------------
(* The navigator                                                          *)

\* _execute_route_definition resets the policy before it subscribes.  (It
\* forgets the stable-clear task of the last route; it does not cancel it.)
StartRoute(r) ==
  /\ phase[r] = "idle"
  /\ phase' = [phase EXCEPT ![r] = "driving"]
  /\ done' = [done EXCEPT ![r] = 0]
  /\ blind' = [blind EXCEPT ![r] = ~known[r]]
  /\ cancelled' = [cancelled EXCEPT ![r] = FALSE]
  /\ holdSet' = [holdSet EXCEPT ![r] = FALSE]
  /\ blocked' = [blocked EXCEPT ![r] = FALSE]
  /\ timer' = [timer EXCEPT ![r] = "fresh"]
  /\ count' = [count EXCEPT ![r] = 0]
  /\ requires' = [requires EXCEPT ![r] = FALSE]
  /\ heard' = [heard EXCEPT ![r] = "nothing"]
  /\ UNCHANGED <<sensorVars, known, stable, moving>>

StableEnded(r) == [stable EXCEPT ![r] = FALSE]

\* The finally clause of _execute_route_definition, whatever ended it.
EndRoute(r) ==
  /\ phase' = [phase EXCEPT ![r] = "idle"]
  /\ blocked' = [blocked EXCEPT ![r] = FALSE]
  /\ stable' = StableEnded(r)
  /\ moving' = [moving EXCEPT ![r] = FALSE]
  /\ UNCHANGED <<sensorVars, done, known, blind, holdSet, cancelled, timer,
                 count, requires, heard>>

GoTo(r, p) ==
  /\ phase' = [phase EXCEPT ![r] = p]
  /\ UNCHANGED <<sensorVars, done, known, blind, holdSet, cancelled,
                 policyVars, moving>>

\* What follows once a state is at hand: steer and sleep.
SteerRoute(r) ==
  /\ phase' = [phase EXCEPT ![r] = "driving"]
  /\ moving' = [moving EXCEPT ![r] = TRUE]
  /\ UNCHANGED <<sensorVars, done, known, blind, holdSet, cancelled,
                 policyVars>>

\* The waypoint is reached: stop, announce it, wait there if it is a hold.
Arrive(r) ==
  /\ done[r] < Waypoints
  /\ done' = [done EXCEPT ![r] = @ + 1]
  /\ moving' = [moving EXCEPT ![r] = FALSE]
  /\ phase' = [phase EXCEPT ![r] = IF done[r] + 1 \in HoldAt THEN "holding"
                                                             ELSE "driving"]
  /\ holdSet' = [holdSet EXCEPT ![r] = @ /\ done[r] + 1 \notin HoldAt]
  /\ UNCHANGED <<sensorVars, known, blind, cancelled, policyVars>>

RouteDone(r) == done[r] = Waypoints /\ phase[r] = "driving"

\* _drive_to_waypoint from the top of its loop to its next suspension.
Drive(r) ==
  /\ phase[r] = "driving" /\ ~RouteDone(r)
  /\ \/ cancelled[r] /\ EndRoute(r)
     \/ ~cancelled[r] /\ blocked[r] /\ GoTo(r, "waiting")
     \/ /\ ~cancelled[r] /\ ~blocked[r]
        /\ IF known[r] THEN SteerRoute(r) \/ Arrive(r) ELSE GoTo(r, "reading")

\* The poll of _get_state_or_poll returns; the loop goes on with it.
ReadDone(r) ==
  /\ phase[r] = "reading"
  /\ \/ SteerRoute(r)
     \/ Arrive(r)
     \/ EndRoute(r)          \* no state, or no connection

\* A lap of _wait_while_blocked.  Once it is not blocked any more the drive
\* goes on without another look at the cancellation.
WaitWhileBlocked(r) ==
  /\ phase[r] = "waiting"
  /\ \/ /\ blocked[r] /\ (cancelled[r] \/ timer[r] = "overdue")
        /\ EndRoute(r)
     \/ ~blocked[r] /\ (IF known[r] THEN SteerRoute(r) \/ Arrive(r)
                                    ELSE GoTo(r, "reading"))

\* _wait_for_hold_confirmation; an obstacle delays it as it does a drive.
Hold(r) ==
  /\ phase[r] = "holding"
  /\ \/ holdSet[r] /\ ~cancelled[r] /\ GoTo(r, "driving")
     \/ cancelled[r] /\ EndRoute(r)
     \/ ~holdSet[r] /\ ~cancelled[r] /\ blocked[r] /\ GoTo(r, "heldUp")

HeldUp(r) ==
  /\ phase[r] = "heldUp"
  /\ \/ /\ blocked[r] /\ (cancelled[r] \/ timer[r] = "overdue")
        /\ EndRoute(r)
     \/ ~blocked[r] /\ GoTo(r, "holding")

Complete(r) == RouteDone(r) /\ EndRoute(r)

\* A lost connection or another error ends the drive.
DriveFails(r) ==
  /\ phase[r] = "driving" /\ known[r] /\ ~blocked[r] /\ ~cancelled[r]
  /\ EndRoute(r)

ConfirmHold(r) ==
  /\ Navigating(r) /\ ~holdSet[r]
  /\ holdSet' = [holdSet EXCEPT ![r] = TRUE]
  /\ UNCHANGED <<sensorVars, phase, done, known, blind, cancelled,
                 policyVars, moving>>

CancelNavigation(r) ==
  /\ Navigating(r) /\ ~cancelled[r]
  /\ cancelled' = [cancelled EXCEPT ![r] = TRUE]
  /\ holdSet' = [holdSet EXCEPT ![r] = TRUE]
  /\ moving' = [moving EXCEPT ![r] = FALSE]
  /\ UNCHANGED <<sensorVars, phase, done, known, blind, policyVars>>

----------------------------------------------------------------------------
Environment ==
  \/ \E on \in BOOLEAN : DetectorRuns(on) \/ DetectorPoll(on)
  \/ \E to \in Robots \cup {All} : ConfirmCleared(to)

Progress(r) ==
  \/ Drive(r) \/ ReadDone(r) \/ WaitWhileBlocked(r) \/ Hold(r) \/ HeldUp(r)
  \/ Complete(r)

Robot(r) ==
  \/ StartRoute(r) \/ Progress(r) \/ DriveFails(r)
  \/ StableClear(r) \/ HoldAges(r) \/ FirstState(r)
  \/ ConfirmHold(r) \/ CancelNavigation(r)

ObstacleNext == Environment \/ Deliver \/ \E r \in Robots : Robot(r)

ObstacleSpec == ObstacleInit /\ [][ObstacleNext]_obstacleVars

\* The loop runs ready coroutines, vendor calls return, clocks go on, the
\* bus delivers.  Nothing is assumed of the sensor or of people.
ObstacleFairness ==
  /\ WF_obstacleVars(Deliver)
  /\ \A r \in Robots :
       /\ WF_obstacleVars(Progress(r))
       /\ WF_obstacleVars(StableClear(r))
       /\ WF_obstacleVars(HoldAges(r))

FairObstacleSpec == ObstacleSpec /\ ObstacleFairness

----------------------------------------------------------------------------
(* Properties                                                             *)

\* A robot that a detection has blocked stands still, whatever its control
\* loop, a hold, or a cancellation does at the same time.  A route that
\* began before any state was known is excepted: its control loop suspends
\* between the check and the command.
BlockedMeansStill ==
  \A r \in Robots : blocked[r] /\ ~blind[r] => ~moving[r]

\* After a detection the robot stays blocked until a clear is heard: no
\* stable-clear wait that began before the detection releases it.
DetectionHoldsUntilClear ==
  \A r \in Robots : Navigating(r) /\ heard[r] = "detected" => blocked[r]

\* Once the repeat limit is reached, every block is left only by a human or
\* with the end of the route, whatever the sensor reports.
RepeatsNeedAHuman ==
  [][\A r \in Robots :
       /\ blocked[r] /\ count[r] >= RepeatLimit
       /\ ~blocked'[r] /\ phase'[r] # "idle"
       => heard'[r] = "manual"]_obstacleVars

\* A robot without a route keeps neither a velocity nor a stable-clear task
\* that could release the next route's block.
NothingOutlivesTheRoute ==
  \A r \in Robots : ~Navigating(r) => ~moving[r] /\ ~stable[r] /\ ~blocked[r]

\* A robot has a target velocity on its route only, and not while blocked.
RobotsStandWhenTheyMust == BlockedMeansStill /\ NothingOutlivesTheRoute

\* No block lasts for ever, however the sensor flickers: the path becomes
\* clear, or the route is given up.
BlocksEnd == \A r \in Robots : blocked[r] ~> ~blocked[r]

=============================================================================
