-------------------------- MODULE LogisticsDispatch --------------------------
(***************************************************************************)
(* The logistics application at work: task queue, dispatcher, one          *)
(* navigator per robot, event bus and the operators' REST/HMI requests.    *)
(*                                                                         *)
(* Everything runs on one asyncio loop, so a step of this specification is *)
(* the code between two real suspension points: a database round trip, a   *)
(* sleep of the control loop, a wait on the bus queue.  One dispatch       *)
(* coroutine per robot selects a task under the dispatch lock, marks it    *)
(* dispatched, awaits the navigator's whole route and interprets the       *)
(* result (pc below).  The bus delivers one event at a time; a dispatcher  *)
(* handler suspends in the middle, for a database read, and finds the      *)
(* dispatcher's tables as they are when it resumes.                        *)
(*                                                                         *)
(* Time, geometry, scoring and the route's intermediate waypoints are      *)
(* abstracted: a route is the number of its hold waypoints, a step may     *)
(* take any time, and any queued task may have the best score.             *)
(***************************************************************************)
EXTENDS TaskStatus, Naturals, Sequences

CONSTANTS
  Robots,        \* the registered logistics robots
  FirstRobot,    \* the first of them: events without robot_id are its events
  HoldRelease,   \* the robots whose navigator listens for confirmations
  Tasks,
  RouteHolds,    \* RouteHolds[t]: hold waypoints on the route of task t
  BusCapacity,   \* bound of the event bus queue (1000 in the code)
  Disturbances,  \* what may go wrong in this run
  NoTask, NoRobot, NoEvent

DisturbanceKinds ==
  { "cancel",          \* operators cancel tasks
    "watchdog",        \* telemetry goes stale and the watchdog fails the task
    "fault",           \* obstacle timeout, lost state, missing route
    "offline",         \* a robot has no usable state when a task is due
    "pause",           \* the dispatcher is paused and resumed
    "stop",            \* the dispatcher is stopped
    "crash",           \* the process dies and is started again
    "double_confirm" } \* an operator confirms the same gate again

ASSUME ConstantsAssumption ==
  /\ FirstRobot \in Robots
  /\ HoldRelease \subseteq Robots
  /\ RouteHolds \in [Tasks -> Nat]
  /\ BusCapacity \in Nat \ {0}
  /\ Disturbances \subseteq DisturbanceKinds
  /\ NoTask \notin Tasks
  /\ NoRobot \notin Robots

VARIABLES
  status,     \* the database: status of every task
  confirmed,  \* history: the <<task, gate>> pairs humans confirmed
  active,     \* Dispatcher._active_tasks
  holds,      \* Dispatcher._arrived_hold_counts
  unloadOk,   \* Dispatcher._unload_confirmed_by_robot
  paused,     \* Dispatcher._paused
  mode,       \* dispatcher life cycle: "running", "stopping", "stopped"
  pc,         \* where each robot's dispatch coroutine is
  reached,    \* hold waypoints each navigator has reached on its route
  released,   \* Navigator._hold_event
  cancelled,  \* Navigator._cancelled
  judged,     \* the status _interpret_navigation_result read, or "none"
  toCancel,   \* robots whose navigator Dispatcher.stop has still to cancel
  bus,        \* the event bus queue
  handling    \* the dispatcher handler suspended in its database read

dispatcherVars == <<active, holds, unloadOk>>
coroutineVars  == <<pc, judged>>
lifecycleVars  == <<paused, mode, toCancel>>
navigatorVars  == <<reached, released, cancelled>>
busVars        == <<bus, handling>>
vars == <<status, confirmed, dispatcherVars, coroutineVars, lifecycleVars,
          navigatorVars, busVars>>

-----------------------------------------------------------------------------

Navigating(r) == pc[r] \in {"driving", "holding"}

\* (mutant: every robot chooses its task without waiting for the others)
DispatchLockForgotten == TRUE

\* The dispatch lock is held from the choice of a task until it is marked.
DispatchLockFree == \A r \in Robots : pc[r] # "marking"

QueuedTasks == { t \in Tasks : status[t] = "queued" }

\* _publish_event: publish_nowait, and a full queue drops the event.
PublishNowait(event) ==
  bus' = IF Len(bus) < BusCapacity THEN Append(bus, event) ELSE bus

ForgetActiveTask(r) ==
  /\ active'   = [active EXCEPT ![r] = NoTask]
  /\ holds'    = [holds EXCEPT ![r] = 0]
  /\ unloadOk' = [unloadOk EXCEPT ![r] = FALSE]

Init ==
  /\ status    = [t \in Tasks |-> "none"]
  /\ confirmed = {}
  /\ active    = [r \in Robots |-> NoTask]
  /\ holds     = [r \in Robots |-> 0]
  /\ unloadOk  = [r \in Robots |-> FALSE]
  /\ paused    = FALSE
  /\ mode      = "running"
  /\ toCancel  = {}
  /\ pc        = [r \in Robots |-> "idle"]
  /\ judged    = [r \in Robots |-> "none"]
  /\ reached   = [r \in Robots |-> 0]
  /\ released  = [r \in Robots |-> FALSE]
  /\ cancelled = [r \in Robots |-> FALSE]
  /\ bus       = <<>>
  /\ handling  = NoEvent

-----------------------------------------------------------------------------
(* Operators *)

SubmitTask(t) ==
  /\ status[t] = "none"
  /\ status' = [status EXCEPT ![t] = "queued"]
  /\ UNCHANGED <<confirmed, dispatcherVars, lifecycleVars, coroutineVars,
                 navigatorVars, busVars>>

\* DELETE /tasks/{id}: only the stored status is changed; the dispatcher and
\* the navigator are not told.
CancelTask(t) ==
  /\ "cancel" \in Disturbances
  /\ CanMove(status[t], "cancelled")
  /\ status' = [status EXCEPT ![t] = "cancelled"]
  /\ UNCHANGED <<confirmed, dispatcherVars, lifecycleVars, coroutineVars,
                 navigatorVars, busVars>>

\* confirm-load and confirm-unload check the stored status, and only that, and
\* publish.  REST sends no robot_id; a screen sends the one it is set up with.
Confirm(t, gate, robot) ==
  /\ \/ gate = "load"   /\ status[t] = "awaiting_load"
     \/ gate = "unload" /\ status[t] = "awaiting_unload"
  /\ <<t, gate>> \in confirmed => "double_confirm" \in Disturbances
  /\ Len(bus) < BusCapacity
  /\ confirmed' = confirmed \cup {<<t, gate>>}
  /\ bus' = Append(bus, [kind |-> gate, task |-> t, robot |-> robot])
  /\ UNCHANGED <<status, dispatcherVars, lifecycleVars, coroutineVars,
                 navigatorVars, handling>>

SetPaused(value) ==
  /\ "pause" \in Disturbances
  /\ paused # value
  /\ paused' = value
  /\ UNCHANGED <<status, confirmed, dispatcherVars, mode, toCancel,
                 coroutineVars, navigatorVars, busVars>>

-----------------------------------------------------------------------------
(* The dispatch coroutine of robot r *)

\* The polling loop turns, unless it is stopped,
LoopSchedules == mode = "running" /\ ~paused

\* and starts the coroutine, which suspends for the robot's state.
BeginDispatch(r) ==
  /\ LoopSchedules
  /\ pc[r] = "idle"
  /\ active[r] = NoTask
  /\ pc' = [pc EXCEPT ![r] = "ready"]
  /\ UNCHANGED <<status, confirmed, dispatcherVars, lifecycleVars, judged,
                 navigatorVars, busVars>>

\* No state, no connection, or nothing to do.
SkipDispatch(r) ==
  /\ pc[r] = "ready"
  /\ \/ "offline" \in Disturbances
     \/ DispatchLockFree /\ QueuedTasks = {}
  /\ pc' = [pc EXCEPT ![r] = "idle"]
  /\ UNCHANGED <<status, confirmed, dispatcherVars, lifecycleVars, judged,
                 navigatorVars, busVars>>

\* Under the dispatch lock: get_next_task, then _set_active_task_state.
SelectTask(r, t) ==
  /\ pc[r] = "ready"
  /\ DispatchLockFree
  /\ active[r] = NoTask
  /\ t \in QueuedTasks
  /\ pc'       = [pc EXCEPT ![r] = "marking"]
  /\ active'   = [active EXCEPT ![r] = t]
  /\ holds'    = [holds EXCEPT ![r] = 0]
  /\ unloadOk' = [unloadOk EXCEPT ![r] = FALSE]
  /\ UNCHANGED <<status, confirmed, lifecycleVars, judged, navigatorVars,
                 busVars>>

\* mark_dispatched; the task may have been cancelled or failed meanwhile.
MarkDispatched(r) ==
  /\ pc[r] = "marking"
  /\ LET t == active[r] IN
     IF CanMove(status[t], "dispatched")
     THEN /\ status' = [status EXCEPT ![t] = "dispatched"]
          /\ pc' = [pc EXCEPT ![r] = "starting"]
          /\ UNCHANGED dispatcherVars
     ELSE /\ pc' = [pc EXCEPT ![r] = "idle"]
          /\ ForgetActiveTask(r)
          /\ UNCHANGED status
  /\ UNCHANGED <<confirmed, lifecycleVars, judged, navigatorVars, busVars>>

\* execute_route: a fresh navigation forgets whatever the last one was told,
\* a cancellation that came before it started included.
StartNavigation(r) ==
  /\ pc[r] = "starting"
  /\ pc'        = [pc EXCEPT ![r] = "driving"]
  /\ reached'   = [reached EXCEPT ![r] = 0]
  /\ released'  = [released EXCEPT ![r] = FALSE]
  /\ cancelled' = [cancelled EXCEPT ![r] = FALSE]
  /\ UNCHANGED <<status, confirmed, dispatcherVars, lifecycleVars, judged,
                 busVars>>

\* (mutant: the wait starts with the last release)
ReachHoldReleased(r) ==
  /\ pc[r] = "driving"
  /\ reached[r] < RouteHolds[active[r]]
  /\ pc'      = [pc EXCEPT ![r] = "holding"]
  /\ reached' = [reached EXCEPT ![r] = @ + 1]
  /\ PublishNowait([kind |-> "arrived", task |-> active[r], robot |-> r])
  /\ UNCHANGED <<status, confirmed, dispatcherVars, lifecycleVars, judged,
                 released, cancelled, handling>>

\* A hold waypoint: the arrival is published, then the wait starts afresh.  A
\* cancellation that comes after the last check is only noticed at the next.
ReachHold(r) ==
  /\ pc[r] = "driving"
  /\ reached[r] < RouteHolds[active[r]]
  /\ pc'       = [pc EXCEPT ![r] = "holding"]
  /\ reached'  = [reached EXCEPT ![r] = @ + 1]
  /\ released' = [released EXCEPT ![r] = FALSE]
  /\ PublishNowait([kind |-> "arrived", task |-> active[r], robot |-> r])
  /\ UNCHANGED <<status, confirmed, dispatcherVars, lifecycleVars, judged,
                 cancelled, handling>>

\* The loop leaves on the event alone: when it is set just as the wait times
\* out, a cancellation that set it goes unnoticed here.
LeaveHold(r) ==
  /\ pc[r] = "holding"
  /\ released[r]
  /\ pc' = [pc EXCEPT ![r] = "driving"]
  /\ UNCHANGED <<status, confirmed, dispatcherVars, lifecycleVars, judged,
                 navigatorVars, busVars>>

FinishRoute(r) ==
  /\ pc[r] = "driving"
  /\ reached[r] = RouteHolds[active[r]]
  /\ pc' = [pc EXCEPT ![r] = "arrived"]
  /\ UNCHANGED <<status, confirmed, dispatcherVars, lifecycleVars, judged,
                 navigatorVars, busVars>>

\* The navigation notices that it was cancelled.
CancelledExit(r) ==
  /\ Navigating(r)
  /\ cancelled[r]
  /\ pc' = [pc EXCEPT ![r] = "aborted"]
  /\ UNCHANGED <<status, confirmed, dispatcherVars, lifecycleVars, judged,
                 navigatorVars, busVars>>

\* Obstacle timeout, lost state or connection, no active route.
NavigationFault(r) ==
  /\ "fault" \in Disturbances
  /\ Navigating(r) \/ pc[r] = "starting"
  /\ pc' = [pc EXCEPT ![r] = "aborted"]
  /\ UNCHANGED <<status, confirmed, dispatcherVars, lifecycleVars, judged,
                 navigatorVars, busVars>>

\* _interpret_navigation_result of a successful route reads the task ...
ReadTask(r) ==
  /\ pc[r] = "arrived"
  /\ pc'     = [pc EXCEPT ![r] = "judging"]
  /\ judged' = [judged EXCEPT ![r] = status[active[r]]]
  /\ UNCHANGED <<status, confirmed, dispatcherVars, lifecycleVars,
                 navigatorVars, busVars>>

\* (mutant: a route that ended is taken for a delivery)
StatusWhateverConfirmed(r) ==
  IF CanMove(status[active[r]], "completed") THEN "completed"
  ELSE IF status[active[r]] \in TerminalStatuses THEN status[active[r]]
  ELSE "failed"

\* ... and resumes with the status it read and the tables of now.  With no
\* arrival counted the task is marked completed, and when the status table
\* refuses that, the error handler marks it failed.
StatusAfterSuccess(r) ==
  LET current == status[active[r]]
      asksCompleted == \/ unloadOk[r] /\ judged[r] = "awaiting_unload"
                       \/ holds[r] = 0 /\ judged[r] # "completed"
  IN IF ~asksCompleted \/ current \in TerminalStatuses THEN current
     ELSE IF CanMove(current, "completed")              THEN "completed"
     ELSE "failed"

InterpretSuccess(r) ==
  /\ pc[r] = "judging"
  /\ pc'     = [pc EXCEPT ![r] = "idle"]
  /\ judged' = [judged EXCEPT ![r] = "none"]
  /\ status' = [status EXCEPT ![active[r]] = StatusAfterSuccess(r)]
  /\ ForgetActiveTask(r)
  /\ UNCHANGED <<confirmed, lifecycleVars, navigatorVars, busVars>>

\* A blocked, cancelled or failed route: _mark_failed_if_possible.
InterpretAbort(r) ==
  /\ pc[r] = "aborted"
  /\ pc' = [pc EXCEPT ![r] = "idle"]
  /\ status' = [status EXCEPT ![active[r]] =
                  IF @ \in TerminalStatuses THEN @ ELSE "failed"]
  /\ ForgetActiveTask(r)
  /\ UNCHANGED <<confirmed, lifecycleVars, judged, navigatorVars, busVars>>

-----------------------------------------------------------------------------
(* The event bus: one event at a time, the dispatcher's handler first *)

\* _resolve_event_robot_id
EventRobot(event) == IF event.robot = NoRobot THEN FirstRobot ELSE event.robot

\* (mutant: the task of the event is not compared)
RobotConcerned(event) ==
  mode # "stopped" /\ active[EventRobot(event)] # NoTask

\* _task_matches_event; the dispatcher is subscribed until it has stopped.
DispatcherConcerned(event) ==
  mode # "stopped" /\ active[EventRobot(event)] = event.task

\* The navigators in the bus's snapshot of subscriptions for this event whose
\* robot it addresses.
NavigatorsConcerned(event) ==
  { r \in HoldRelease :
      /\ event.kind \in Gates
      /\ Navigating(r)
      /\ event.robot \in {NoRobot, r} }

ReleaseHolds(navigators) ==
  released' = [r \in Robots |->
                 released[r] \/ (r \in navigators /\ Navigating(r))]

\* The dispatcher's handler ignores the event; the navigators do not.
DeliverPast ==
  /\ handling = NoEvent
  /\ bus # <<>>
  /\ ~DispatcherConcerned(Head(bus))
  /\ bus' = Tail(bus)
  /\ ReleaseHolds(NavigatorsConcerned(Head(bus)))
  /\ UNCHANGED <<status, confirmed, dispatcherVars, lifecycleVars,
                 coroutineVars, reached, cancelled, handling>>

\* The dispatcher's handler notes the arrival or confirmation and suspends in
\* get_task, with the status it is going to see.
DeliverBegin ==
  /\ handling = NoEvent
  /\ bus # <<>>
  /\ LET event == Head(bus)
         robot == EventRobot(event)
     IN /\ DispatcherConcerned(event)
        /\ bus' = Tail(bus)
        /\ holds' = [holds EXCEPT ![robot] =
                       IF event.kind = "arrived" THEN @ + 1 ELSE @]
        /\ unloadOk' = [unloadOk EXCEPT ![robot] =
                          @ \/ event.kind = "unload"]
        /\ handling' = [kind |-> event.kind, task |-> event.task,
                        robot |-> robot, seen |-> status[event.task],
                        wake |-> NavigatorsConcerned(event)]
  /\ UNCHANGED <<status, confirmed, active, lifecycleVars, coroutineVars,
                 navigatorVars>>

\* (mutant: the arrival count is taken for granted, only the status decides)
TargetOfStatusSeen ==
  IF handling.kind = "arrived" /\ handling.seen = "dispatched"
  THEN "awaiting_load"
  ELSE "nothing"

\* (mutant: the first arrival is expected at count zero)
TargetCountedFromZero ==
  IF /\ handling.kind = "arrived"
     /\ holds[handling.robot] = 0
     /\ handling.seen = "dispatched"
  THEN "awaiting_load"
  ELSE "nothing"

\* What the resumed handler asks of the task queue, given the status it saw.
HandlerTarget ==
  LET r == handling.robot IN
  CASE /\ handling.kind = "arrived"
       /\ holds[r] = 1
       /\ handling.seen = "dispatched"                    -> "awaiting_load"
    [] /\ handling.kind = "arrived"
       /\ holds[r] >= 2
       /\ handling.seen \in {"in_transit", "awaiting_load"} -> "awaiting_unload"
    [] handling.kind = "load"   /\ handling.seen = "awaiting_load"
                                                          -> "in_transit"
    [] handling.kind = "unload" /\ handling.seen = "awaiting_unload"
                                                          -> "completed"
    [] OTHER                                              -> "nothing"

\* The handler resumes: the transition is asked for the task that is active
\* NOW, a refused one is logged and dropped, and the navigators come next.
DeliverFinish ==
  /\ handling # NoEvent
  /\ LET t == active[handling.robot] IN
     status' = IF t # NoTask /\ CanMove(status[t], HandlerTarget)
               THEN [status EXCEPT ![t] = HandlerTarget]
               ELSE status
  /\ ReleaseHolds(handling.wake)
  /\ handling' = NoEvent
  /\ UNCHANGED <<confirmed, dispatcherVars, lifecycleVars, coroutineVars,
                 reached, cancelled, bus>>

-----------------------------------------------------------------------------
(* Watchdog, shutdown and restart *)

\* Stale telemetry or a lost connection: the robot's active task is marked
\* failed; the route goes on.
WatchdogInterrupt(r) ==
  /\ "watchdog" \in Disturbances
  /\ active[r] # NoTask
  /\ CanMove(status[active[r]], "failed")
  /\ status' = [status EXCEPT ![active[r]] = "failed"]
  /\ UNCHANGED <<confirmed, dispatcherVars, lifecycleVars, coroutineVars,
                 navigatorVars, busVars>>

\* stop: the loop ends, which leaves the running dispatches to be cancelled,
StopDispatcher ==
  /\ "stop" \in Disturbances
  /\ mode = "running"
  /\ mode'     = "stopping"
  /\ toCancel' = { r \in Robots : pc[r] # "idle" }
  /\ UNCHANGED <<status, confirmed, dispatcherVars, coroutineVars, paused,
                 navigatorVars, busVars>>

\* one navigator after the other (cancel_navigation); each call waits for the
\* heartbeat while the others' coroutines run on.
CancelNavigation(r) ==
  /\ r \in toCancel
  /\ toCancel'  = toCancel \ {r}
  /\ cancelled' = [cancelled EXCEPT ![r] = TRUE]
  /\ released'  = [released EXCEPT ![r] = TRUE]
  /\ UNCHANGED <<status, confirmed, dispatcherVars, coroutineVars, paused,
                 mode, reached, busVars>>

\* (mutant: the handlers are unsubscribed without awaiting the dispatches)
StoppedAtOnce ==
  /\ mode = "stopping"
  /\ toCancel = {}
  /\ mode' = "stopped"
  /\ UNCHANGED <<status, confirmed, dispatcherVars, coroutineVars, paused,
                 toCancel, navigatorVars, busVars>>

\* Then the dispatches are awaited and the handlers unsubscribed.
DispatcherStopped ==
  /\ mode = "stopping"
  /\ toCancel = {}
  /\ \A r \in Robots : pc[r] = "idle"
  /\ mode' = "stopped"
  /\ UNCHANGED <<status, confirmed, dispatcherVars, coroutineVars, paused,
                 toCancel, navigatorVars, busVars>>

\* The process dies and is started again: only the database is left, and
\* nothing looks at the tasks that were under way.
CrashAndRestart ==
  /\ "crash" \in Disturbances
  /\ active'    = [r \in Robots |-> NoTask]
  /\ holds'     = [r \in Robots |-> 0]
  /\ unloadOk'  = [r \in Robots |-> FALSE]
  /\ paused'    = FALSE
  /\ mode'      = "running"
  /\ toCancel'  = {}
  /\ pc'        = [r \in Robots |-> "idle"]
  /\ judged'    = [r \in Robots |-> "none"]
  /\ reached'   = [r \in Robots |-> 0]
  /\ released'  = [r \in Robots |-> FALSE]
  /\ cancelled' = [r \in Robots |-> FALSE]
  /\ bus'       = <<>>
  /\ handling'  = NoEvent
  /\ UNCHANGED <<status, confirmed>>

-----------------------------------------------------------------------------

DispatchStep(r) ==
  \/ BeginDispatch(r)
  \/ SkipDispatch(r)
  \/ \E t \in Tasks : SelectTask(r, t)
  \/ MarkDispatched(r)
  \/ StartNavigation(r)
  \/ ReachHold(r)
  \/ LeaveHold(r)
  \/ FinishRoute(r)
  \/ CancelledExit(r)
  \/ ReadTask(r)
  \/ InterpretSuccess(r)
  \/ InterpretAbort(r)

BusStep == DeliverPast \/ DeliverBegin \/ DeliverFinish

\* The REST endpoints, which name no robot;
RestRequest(t) ==
  \/ SubmitTask(t)
  \/ CancelTask(t)
  \/ \E gate \in Gates : Confirm(t, gate, NoRobot)

\* and the buttons of a screen, which is set up beside one robot and names
\* it whichever task it confirms.
HmiAction(t, robot) ==
  \/ SubmitTask(t)
  \/ \E gate \in Gates : Confirm(t, gate, robot)

HumanStep(t) == RestRequest(t) \/ \E robot \in Robots : HmiAction(t, robot)

Next ==
  \/ \E t \in Tasks : HumanStep(t)
  \/ \E value \in BOOLEAN : SetPaused(value)
  \/ \E r \in Robots : DispatchStep(r)
  \/ \E r \in Robots : NavigationFault(r)
  \/ BusStep
  \/ \E r \in Robots : WatchdogInterrupt(r)
  \/ StopDispatcher
  \/ \E r \in Robots : CancelNavigation(r)
  \/ DispatcherStopped
  \/ CrashAndRestart

Spec == Init /\ [][Next]_vars

\* asyncio runs every ready coroutine again (its locks are first come, first
\* served), the bus loop drains its queue, and a worker who stands at a
\* waiting robot presses the button.
Fairness ==
  /\ \A r \in Robots : WF_vars(DispatchStep(r))
  /\ \A r \in Robots : SF_vars(\E t \in Tasks : SelectTask(r, t))
  /\ WF_vars(BusStep)
  /\ \A r \in Robots : WF_vars(CancelNavigation(r))
  /\ WF_vars(DispatcherStopped)
  /\ \A t \in Tasks :
       WF_vars(\E gate \in Gates, robot \in Robots \cup {NoRobot} :
                 Confirm(t, gate, robot))

FairSpec == Spec /\ Fairness

-----------------------------------------------------------------------------
(* Properties *)

Event == [kind : Gates \cup {"arrived"}, task : Tasks,
          robot : Robots \cup {NoRobot}]

PendingHandler == [kind : Gates \cup {"arrived"}, task : Tasks,
                   robot : Robots, seen : TaskStatuses,
                   wake : SUBSET Robots]

\* Every variable keeps its type: the tables of the dispatcher are keyed by
\* robot, a status is one of the eight of the status table.
TypeOK ==
  /\ status \in [Tasks -> TaskStatuses \cup {"none"}]
  /\ confirmed \subseteq Tasks \X Gates
  /\ active \in [Robots -> Tasks \cup {NoTask}]
  /\ holds \in [Robots -> Nat]
  /\ unloadOk \in [Robots -> BOOLEAN]
  /\ paused \in BOOLEAN
  /\ mode \in {"running", "stopping", "stopped"}
  /\ toCancel \subseteq Robots
  /\ pc \in [Robots -> {"idle", "ready", "marking", "starting", "driving",
                        "holding", "arrived", "judging", "aborted"}]
  /\ judged \in [Robots -> TaskStatuses \cup {"none"}]
  /\ reached \in [Robots -> Nat]
  /\ released \in [Robots -> BOOLEAN]
  /\ cancelled \in [Robots -> BOOLEAN]
  /\ bus \in Seq(Event) /\ Len(bus) <= BusCapacity
  /\ handling = NoEvent \/ handling \in PendingHandler

\* No two robots carry the same task: choosing a task (get_queued_tasks) and
\* taking it out of the queue (mark_dispatched) are separate database calls,
\* and only the dispatch lock around them keeps a second robot away.
OneRobotPerTask ==
  \A r1, r2 \in Robots :
    r1 # r2 /\ active[r1] # NoTask => active[r1] # active[r2]

\* A robot drives only for a task that has left the queue: a crash, a
\* cancellation or the watchdog between selection and start never sends a
\* robot off for a task another robot could still be given.
DrivesOnlyDispatched ==
  \A r \in Robots :
    Navigating(r) => /\ active[r] # NoTask
                     /\ status[active[r]] \notin {"none", "queued"}

\* A task is taken out of the queue once, for one robot, and before that
\* robot drives.
TasksTakenOnce == OneRobotPerTask /\ DrivesOnlyDispatched

\* The dispatcher never counts more hold arrivals for a robot than its
\* navigator has made on the present route: arrival events still queued when
\* a route ends, or handled across a suspension, are not counted for the next
\* task, whose loading would otherwise be taken for its unloading.
ArrivalsNotOvercounted ==
  \A r \in Robots : Navigating(r) => holds[r] <= reached[r]

\* A handler that resumes after its database read moves only the task whose
\* event it handles, although it looks the active task up again and the robot
\* may by then be on its next task (_apply_event_driven_transition).
HandlerMovesItsOwnTask ==
  [][\A t \in Tasks :
       DeliverFinish /\ status'[t] # status[t] => t = handling.task]_vars

\* After Dispatcher.stop returned, no dispatch coroutine is left running and
\* no robot is under way, until the process is started again.
StoppedMeansStill ==
  mode = "stopped" => \A r \in Robots : pc[r] = "idle" /\ active[r] = NoTask

\* The application keeps the promise of TransportOrder: statuses follow the
\* table, terminal ones are final across crashes and races of operator,
\* watchdog, dispatcher and bus, and each gate is passed only after a human
\* confirmed that gate of that very task.
Order == INSTANCE TransportOrder
           WITH Tasks <- Tasks, status <- status, confirmed <- confirmed
ImplementsTransportOrder == Order!Spec

\* The operators have confirmed the gate at which t waits, and the
\* confirmation reached nobody: it named another robot's screen, or came by
\* REST for a robot that is not the first.  (With the bound of one confirmation
\* for a gate; in the code they may confirm it again.)
ConfirmedInVain(t) ==
  /\ \/ status[t] = "awaiting_load"   /\ <<t, "load">> \in confirmed
     \/ status[t] = "awaiting_unload" /\ <<t, "unload">> \in confirmed
  /\ handling # NoEvent => handling.task # t
  /\ \A k \in DOMAIN bus : bus[k].task # t

\* Nothing is going to release r from its hold: its navigator does not
\* listen, its task was cancelled or failed on the way, so that the endpoints
\* refuse to confirm it, or the confirmation was spent.
LeftAtHold(r) ==
  /\ pc[r] = "holding"
  /\ ~released[r]
  /\ \/ r \notin HoldRelease
     \/ status[active[r]] \in TerminalStatuses
     \/ ConfirmedInVain(active[r])

\* Every submitted task ends, whatever its route does, unless dispatching is
\* paused, a task was failed or cancelled before (which may leave a
\* confirmation on the bus that releases the next task's hold), or a robot
\* stands at a hold for good: needs every event handled, every hold released
\* and every route's result interpreted.
EveryTaskEnds ==
  \A t \in Tasks :
    status[t] = "queued" ~>
      \/ status[t] \in TerminalStatuses
      \/ paused
      \/ \E u \in Tasks : status[u] \in {"failed", "cancelled"}
      \/ \E r \in Robots : []LeftAtHold(r)

\* Every robot that took a task becomes free again, whatever operators, the
\* watchdog and the other robots do meanwhile, but for one that stands at a
\* hold for good because nothing can release it: no robot is lost anywhere
\* else, and none that somebody could release.
EveryRobotFreed ==
  \A r \in Robots :
    active[r] # NoTask ~> active[r] = NoTask \/ []LeftAtHold(r)

=============================================================================
