# Verification of the autonomous logistics system

TLA+ models, TLC runs and TLAPS proofs for the Python system in this
repository: quadruped robots that carry trays between stations (logistics) or
walk inspection rounds (patrol), driven by asyncio services, a REST API and
operators' screens.

Contents: 1 the system, 2 the modules, 3 the runs, 4 what is proved, 5 what the
code does and the documents say otherwise, 6 simplifications, 7 what is not
modelled, 8 the plan.

    tlc -workers 2 -config dispatch_races.cfg MCLogisticsDispatch
    tlc -workers 2 -config shared_database.cfg SharedDatabase
    tlapm LogisticsDispatch_proofs.tla

Section 3 names the module and the configuration of every run.

## 1. The system

Each application is one process with one asyncio loop. Coroutines change state
only between two suspension points, and what has to be modelled is what happens
across them: database round trips, sleeps, locks, the bus queue, and the worker
threads that carry out the vendor SDK's calls and the provisioning jobs.

| Component | State | Operations | What makes it correct |
|---|---|---|---|
| Task queue `apps/logistics/tasks/queue.py` | task rows in SQLite, its lock | submit, get next by score, `mark_*`, cancel, all through the table `ALLOWED_TRANSITIONS` | terminal statuses are final, gates are passed only in order |
| Dispatcher `apps/logistics/tasks/dispatcher.py` | per robot: active task, hold arrivals, unload confirmed; paused, running | polling loop, one dispatch coroutine per robot, bus handlers, pause, stop | no task on two robots; events move only their own task; stop leaves nothing behind; a robot becomes free when somebody can release it |
| Navigator `shared/navigation/navigator.py` | route under way, hold event, cancelled flag, blocked flag, obstacle counter, stable-clear task | execute route, cancel, hold, obstacle handlers | holds are left only when confirmed; the target velocity never outlives the route |
| Event bus `shared/core/event_bus.py` | bounded queue (1000), subscriptions | publish, publish_nowait, deliver sequentially, start, stop once idle | order; no subscriber blocks the others for ever |
| REST and HMI `apps/*/api/` | none of their own | create, cancel, confirm, pause, e-stop, release | a command is either carried out or refused |
| Watchdog `apps/logistics/tasks/watchdog.py` | telemetry age, connection, alert, handled interruption per robot | fail the active task, raise alerts | a lost robot's task does not stay active; an alert ends with its cause |
| Battery manager `apps/logistics/tasks/battery_manager.py` | charging mode and dock task per robot; the dispatcher's pause flag | critical, recharged | charging follows the battery; every pause ends |
| SDK adapter `shared/quadruped/sdk_adapter.py` | mode | connect, stand up, passive, move, check connection | the mode describes the robot; a refused command has no effect |
| Heartbeat `shared/quadruped/heartbeat.py` | target velocity | send it every 20 ms, answer the e-stop event, stop | the robot never walks without somebody steering |
| State monitor `shared/quadruped/state_monitor.py` | last state, connection and battery latches | poll, publish transitions | every threshold crossing is announced once |
| Runtime `shared/runtime/base_startup.py`, `apps/*/runtime/startup.py` | registry, singletons | startup in order, rollback, shutdown | what runs finds what it needs; nothing is left running and no robot standing |
| Obstacle detector `shared/navigation/obstacle.py` and the navigator's policy | last status; blocked, repeat counter | detect, clear, manual clear | a blocked robot moves again only when the path stayed clear |
| Patrol `apps/patrol/tasks/` | cycles in SQLite, suspended flag, consecutive failures, active cycle | submit, dispatch, suspend, resume, watchdog | one cycle at a time, suspension holds, failures suspend, a stall is reported |
| Database `shared/core/database.py` | one SQLite connection for all coroutines | statements, commits, close, reopen | a task's status that was answered survives |
| Route store `shared/navigation/route_store.py` | routes in memory, in a JSON file, in the database | load, upsert, commissioning's writes | the three copies agree |
| Alerts `shared/observability/`, WebSocket broker `shared/api/ws_broker.py` | latest alerts under a lock, audit log, connected clients | raise, store, broadcast, acknowledge, connect, disconnect | what is shown is on record; acknowledgements stand; every client is told |
| Provisioning `shared/provisioning/` | job table, `robots.yaml` | put a robot on the site's network and into the fleet file, delete one | the file names each robot and id once, and its entries reach their robots |

How they interact: REST and screens write the queue and publish confirmations
on the bus; the dispatcher polls the queue, awaits the navigator's route, and
listens on the bus for arrivals and confirmations; the navigator publishes
arrivals, listens for confirmations and obstacles while it navigates, and writes
the heartbeat's target slot; heartbeat, monitor, REST and the runtime share the
SDK adapter, whose calls run on threads; the monitor's telemetry feeds watchdog
and battery manager by way of the bus; alert router, alert manager and broker
are subscribers that push what they hear to browsers; every queue, the monitor,
the alerts and the routes share one database connection; provisioning jobs are
threads that share the fleet file and the alert list with the loop.

Hard behaviours: handlers that look a table up again after an await; a
cancellation that overtakes the start of a route; confirmations that carry no
robot; vendor calls that return after a newer command; commits that publish what
other coroutines have written; polls that read link and battery in two thread
calls; events a full bus drops; files that are emptied before they are written;
starts and stops that raise halfway; shutdown while all of this is under way; a
restart that keeps nothing but the database and the files. `PROJECT.json` lists
them under `hazards`, each with its line and the properties that cover it.

## 2. The modules

| Module | Models |
|---|---|
| `TaskStatus` | the status table and the two gates |
| `TransportOrder` | the abstract promise for one task: submitted once, follows the table, terminal is final, a gate is passed only after a human confirmed that gate of that task |
| `LogisticsDispatch` | queue, dispatcher, one navigator per robot, event bus, operators, watchdog, stop and restart |
| `MotionControl` | one robot's platform: SDK adapter, heartbeat, monitor, e-stop and release, navigator as the writer of the target, startup and shutdown |
| `ObstaclePolicy` | obstacle detector and every navigator's reaction to it: blocking, stable clear, repeats, manual confirmation, timeout |
| `StateMonitor` | the polls, thresholds and bus that the next two modules extend |
| `BatteryManager` | charging mode and the pause flag shared with the operator |
| `LogisticsWatchdog` | the alerts and interruptions of lost robots, and the failing of their tasks |
| `PatrolMission` | the patrol on registered robots: cycle queue, scheduler, dispatcher, suspend and resume requests, their events, restart |
| `PatrolOrder` | the abstract promise for the cycles of a patrol: taken in the order they were submitted, each by one robot that carries nothing else, completed by that robot only, final once ended; the schedule has one open |
| `PatrolWatchdog` | the patrol watchdog beside `PatrolMission`, whose variables it only reads |
| `SharedDatabase` | the one connection: statements and commits of the task queue and the route store, failures, close, crash; the routes file |
| `SystemLifecycle` | startup, rollback and shutdown of both applications around a bus that delivers |
| `Provisioning` | provisioning jobs, the DELETE handler, `robots.yaml`, restart |
| `Alerts` | alert router, audit log, alert manager, WebSocket broker, acknowledgements |

`MCLogisticsDispatch`, `MCPatrolMission`, `MCProvisioning` and `MCAlerts` are
instances for TLC (functions and symmetries that a `.cfg` cannot write); the
other modules are run as they are. `X_proofs` holds the theorems about `X`;
`Motion_proofs` those about `MotionControl` and `ObstaclePolicy`,
`Supervision_proofs` those about `BatteryManager` and `LogisticsWatchdog`, which
share the lemmas about the polls. `LogisticsDispatch` implements
`TransportOrder` and `PatrolMission` implements `PatrolOrder`, each by `INSTANCE
... WITH`; `LogisticsDispatch`, `TransportOrder` and `SharedDatabase` rest on
`TaskStatus`. `BatteryManager` and `LogisticsWatchdog` are compositions with
`StateMonitor`, `PatrolWatchdog` one with `PatrolMission`: each action of theirs
is their own step or a step of the extended module joined with what it leaves
alone.

### LogisticsDispatch and the code

`pc[r]` is where the dispatch coroutine of robot r is suspended:

| pc | in `_dispatch_for_robot` and below |
|---|---|
| idle | no coroutine |
| ready | waits for the robot's state or for the dispatch lock |
| marking | task chosen and set active, inside `mark_dispatched`, holds the lock |
| starting | about to enter `execute_route`, looks the route up |
| driving, holding | inside `_execute_route_definition`, at a hold waypoint or not |
| arrived, judging | `_interpret_navigation_result` before and after its `get_task` |
| aborted | the route was blocked, cancelled or failed |

`active`, `holds`, `unloadOk`, `paused` are the dispatcher's tables
`_active_tasks`, `_arrived_hold_counts`, `_unload_confirmed_by_robot`,
`_paused`; `released` and `cancelled` the navigator's `_hold_event` and
`_cancelled`; `bus` the queue; `handling` the dispatcher handler that is
suspended in its `get_task`, with the status it is going to see and the
navigators that come after it in the bus's snapshot. `confirmed` is a history
variable that no action reads but the bound on repeated confirmations.

The constant `Disturbances` selects what may go wrong in a run, `HoldRelease` the
robots whose navigator listens for confirmations: startup configures the first
registered robot only, so both runs have `HoldRelease = {r1}`. The disturbance
`"double_confirm"` lets a gate be confirmed again and again; no run enables it,
the theorems, `Refinement` among them, cover it.

### MotionControl and the code

An adapter method is three steps: *issued* (mode check, call handed to a
thread), *carried out* (the thread runs the vendor call, the robot reacts) and
*returned* (the coroutine resumes and sets the mode). The callers are the
runtime, the heartbeat's loop, its handler of the e-stop event, the monitor, and
four requests: e-stop and release of one robot and of the default robot. Each has
one call under way. `stage` follows the startup of a platform and, on the way
down, `_shutdown_registered_platforms`: connect, passive, stand up, serve; clear
the target, stop motion, join the heartbeat, join the monitor, passive.

`app` tells the applications apart: the patrol's e-stop publishes
`estop.triggered` when the robot lies limp, the logistics one an alert. `events`
counts those events on the bus. Every heartbeat hears every such event, because
the handler does not look at the robot's id (`heartbeat.py:234`); the action
`OtherRobotStopped` stands for the other robots' e-stops.

### ObstaclePolicy and the code

`phase[r]` is where robot r's `execute_route` is: idle, driving (between two laps
of the drive loop), reading (in `_get_state_or_poll`), waiting
(`_wait_while_blocked`), holding (`_wait_for_hold_confirmation`), heldUp (blocked
at a hold). `timer` is the age of the block: fresh, held (longer than the
minimum hold) or overdue (longer than the timeout). A delivery calls the handlers
of all navigators under way in one step, since none of them suspends. `known`
says that the state monitor has a state; a route begun without one (`blind`) reads
it between the check of the blocked flag and the command, which is why
`BlockedMeansStill` excepts it. `heard` and `blind` are history variables.

### StateMonitor, BatteryManager, LogisticsWatchdog and the code

A poll is two steps, because it is two thread calls: the link (`ReadTheLink`,
where the SDK adapter itself announces a loss, without a robot id) and the
battery (`FinishThePoll`, which publishes what changed). Battery levels are the
thresholds they have passed: 0 critical, which is also what a failed read
answers, 1 warning, 2 between, 3 resume. `Offer` is `publish_nowait`: what does
not fit is dropped, and the latch is set all the same.

`BatteryManager`: `charging`, `dock` and `paused` are `_charging_mode`,
`_dock_task_active` and the dispatcher's flag; `docking` is the handler suspended
in its submission. The submission is compared with the priorities the database
takes (`VALID_PRIORITIES`), which refuses it. `asked` (the operator's last
request) and `missed` (the last crossing was dropped or not heard) are history
variables.

`LogisticsWatchdog`: `age`, `conn`, `alert`, `handled` are the per-robot tables,
`failing` the `mark_failed` under way. A handled key names this task, an earlier
one or none, which is all that comparing keys can tell apart. `kept` remembers
that the database refused the update.

### PatrolMission and the code

`pc[r]` is where robot r's `_dispatch_for_robot` is suspended:

| pc | in the code |
|---|---|
| idle | no coroutine |
| waiting | waits for the dispatch lock, or reads the next cycle inside it |
| marking | cycle chosen and set active, inside `mark_active`, holds the lock |
| starting | about to enter `execute_route_by_id`, looks the route up |
| driving, cancelled | on its round; told to stop |
| succeeded | observes, then inside `mark_completed` |
| docking | completion recorded and published, inside `_return_to_dock` |
| recording, tripping | inside `_handle_cycle_failure`'s `mark_failed`, below or at the limit |
| suspending, announcing | at the limit: publishes the failure; publishes PATROL_SUSPENDED |

`RecordCompletion` takes the commit, the reset of the failure count and the
departure together: aiosqlite answers queries in order, so nobody sees the
commit before the coroutine that made it goes on.

`scheduler` says where `run_once` is (waiting, reading the counts, inserting);
`suspended` holds the flags of scheduler and dispatcher; `active`, `failures`
are `_active_cycles` and `_consecutive_failures`. A request of `POST
/patrol/suspend` or `/resume` sets both flags in one step, because nothing
before `_cancel_active_dispatches` suspends, and then goes through the stages
*announcing* (suspend awaits the coroutines in `waits`; the dispatcher publishes)
and *answering* (the REST handler publishes again). `bus` holds these events
only. Their handlers suspend nowhere, so a delivery is one step. `asked` and
`excused` are history variables.

In the refinement a robot of `PatrolOrder` carries its active cycle from the mark
to the result of the route (`Carries`); a robot that marks, that gives up or that
returns to the dock carries nothing.

`PatrolWatchdog` adds the watchdog's suspension flag, whether the last completed
cycle is recent, and its last alert; each of its steps is either its own or
joined to the patrol's step whose event it hears. `crashes` counts the crashes of
the process for the bound `MaxCrashes`. The liveness properties of dispatcher and
scheduler stand here, under `WatchedSpec`: `ActiveCyclesEnd` exempts a process that
crashed, because nothing takes up a cycle that a crash left active (section 5).

### SharedDatabase and the code

`view` is what the connection sees, `disk` what was committed, `op[c]` where a
caller is: reading, inserting, updating, committing, confirming. Nobody rolls
back, so a statement whose caller fails stays in `view` until somebody's commit
(`LogTelemetry`, `LogEvent` and `Initialize` are commits of callers whose rows are not
modelled) puts it on the disk, or a `Close` or `Crash` drops it. A commit under
way has the closed connection in hand (`open`) and can then only fail; every
other call opens a new connection. `lock` is `TaskQueue._lock`; routes are written
without one. `store` and `file` are the route store's memory and JSON file,
`unread` the routes that `load` has still to write to the database, which it does
before the process serves requests. `answered` and `disputed` are history.

### SystemLifecycle and the code

A part is a name and the robot it belongs to, or 0 (`Shared`). `StartSteps` are
the steps of `base_startup`, of the application's `startup.py` and of its API, in
the order `StartPlace`; `started` those that are done; `todo` what is left to
stop, in the order `StopPlace`, computed as the code does from what was started
(`RollbackSteps`) or for a regular shutdown. What belongs to robots goes robot by
robot (`Precedes`). Each start and stop is an action, and any of those that can
may raise: a start is rolled back, a stop is logged and the next one follows.
Meanwhile `queue` and `calls` are the bus and the subscribers it has yet to call
for the present event, which may have been stopped since. `up` is what runs,
`posture` what each robot was last told; `raised` and `leftUp` are history.

### Provisioning and the code

A job, one thread, goes through queued, scripting, locating, patching, loading,
then writes. `joined` is the access point the PC is on; `noted` the address file on
each robot, which an earlier job may have left. `ReadBack` reads MAC and address by
two commands that fail independently; for the MAC there is the one in the SSID.
`file` is the sequence of entries. Writing empties the file first (`Empty`, then
`Fill`), and of two writers that have emptied it the later one writes over the
start of the other's text: when its own is shorter, the end of the other's is left
(`LeavesEnd`), which cannot be parsed, or goes on with whole entries, the last one
written having perhaps the other's last keys (`Continued`). A restart forgets the
job table and refuses a file it cannot parse or that has an id twice. A job that
has ended makes room for another call: `status` has no outcomes. `calls` and
`leaves` are bounds; history are `registered`, `disturbed`, `mixed` (a write left
another's end) and `crossed` (pairs of a MAC and the address of another robot).

### Alerts and the code

`alerts` is the router's list, `holding` what the loop and a provisioning thread
do under its lock. A list operation is two steps, so that a thread can come in
between (the loop itself does nothing else meanwhile: `LoopFree`). An event goes
to the router, the manager if it is a `SYSTEM_ALERT`, then the broker, as the bus
calls them (`handling`); `broadcast` holds the clients a broadcast has yet to send
to, one at a time. `owed` and `accepted` are history.

## 3. The runs

All are expected to pass.

| Run (module) | Bounds | Shows |
|---|---|---|
| `dispatch_races` (`MCLogisticsDispatch`) | 2 robots, 2 tasks, bus of 2; cancel, watchdog, faults, pause, stop, crash | `TasksTakenOnce`, `ArrivalsNotOvercounted`, `StoppedMeansStill`, `HandlerMovesItsOwnTask`, the refinement `ImplementsTransportOrder` (2.8 M states) |
| `dispatch_live` (`MCLogisticsDispatch`) | 2 robots, one of which hears confirmations, 2 tasks, bus of 4; cancel, watchdog, faults, offline, pause; fairness | `EveryTaskEnds`, `EveryRobotFreed` (169 k) |
| `motion_control` (`MotionControl`) | one platform of either application; connect, stand up and connection check may fail; an e-stop is asked for while no event waits; fairness | `ShutdownLeavesNothingUnderWay`, `RobotHalts` (770 k) |
| `obstacle_policy` (`ObstaclePolicy`) | 1 robot, 2 waypoints, a hold at the first, repeat limit 2, bus of 2; fairness | `RobotsStandWhenTheyMust`, `DetectionHoldsUntilClear`, `RepeatsNeedAHuman`, `BlocksEnd` |
| `charging` (`BatteryManager`) | 1 unregistered robot, levels 0, 1, 3, bus of 3; fairness | `ChargingFollowsBattery`, `PauseHasAReason`, `RechargeEndsCharging` (620 k) |
| `lost_robot` (`LogisticsWatchdog`) | 1 registered robot, levels 0, 3, bus of 2; fairness | `LostRobotsTaskFails`, `AlertsClear` (240 k) |
| `patrol_races` (`MCPatrolMission`) | 2 robots, 2 cycles, 1 request at a time, limit of 2 failures, bus of 2; triggers, faults, database errors, e-stops, charging, crashes without bound | `OneRobotPerCycle`, `OneScheduledCycleOpen`, `LastAnswerHolds`, `FailureLimitHolds`, the refinement `ImplementsPatrolOrder` (4.2 M) |
| `patrol_live` (`PatrolWatchdog`) | the same with the watchdog, a bus of 1, faults, e-stops, one crash; fairness | `ActiveCyclesEnd`, `ScheduledCyclesServed`, `RequestsAnswered`, `StallReported` (65 k) |
| `shared_database` (`SharedDatabase`) | 1 task, 1 route of 2 contents, 2 callers | `AnsweredIsDurable`, `TasksGoForward`, `RoutesAgree` (1.4 M) |
| `lifecycle` (`SystemLifecycle`) | both applications, registered fleet of 2 or a single robot, bus of 2, 1 client, any start may raise, 1 stop may; fairness | `RunsOnWhatRuns`, `NothingLeftBehind`, `StartupAndShutdownEnd` (250 k) |
| `provisioning` (`MCProvisioning`) | 2 robots, 2 addresses, 2 ids, 2 jobs at a time, 3 calls, 1 loss of the network, 1 leftover text | `FileIsWellFormed`, `FileHoldsWhatWasDone`, `EntriesReachTheirRobots` (1.6 M) |
| `alerts` (`MCAlerts`) | 2 alerts on the bus, 1 of a request, 1 of a thread; 2 clients, 1 supervisor, a list of 2; fairness | `ShownIsOnRecord`, `AcknowledgementsStand`, `EveryClientIsTold` (750 k) |

Type invariants are theorems (section 4) and not run again; in `SystemLifecycle`
and `Provisioning`, `RunsOnWhatRuns` and `FileIsWellFormed` include them.
`PatrolWatchdog` has none of its own.

For each property, `PROJECT.json` names a mutation of the modelled code (the
dispatch lock forgotten, a stop that does not wait for its loop, a pause that a
recharge leaves behind, ...) that makes TLC find the property violated.

### Why the bounds suffice

Two robots and two tasks are what a race for a task, a confirmation for the other
robot, and a late event of the previous task need; the proofs carry the safety
properties to any number. A bus of two fills up, so events are dropped. The
shipped routes hold twice, at the origin and the destination (`TwoHolds`); a task
is submitted once. In `dispatch_live` one of two robots hears confirmations, so
that a robot waits that nobody can release, one whose task ends at its hold, and
one that another's confirmation releases; a bus of four holds what two robots and
two operators say at once, and a gate is confirmed once. `TaskSymmetry` is used in
`dispatch_races` only: tasks are interchangeable there (all routes hold twice) and
no liveness is checked.

In `motion_control` one event of another robot is what a late answer needs; the
theorems hold for any number, and for any set of failing calls.

In `obstacle_policy` the navigators share nothing but the detector's events, so
one shows what each does; a hold and a waypoint without one, a limit that is
reached at the second block, and a bus that drops are in it. The theorems
cover any number.

In `charging` levels 0, 1, 3 give critical, warning and recharge; the level
between changes nothing. A poll publishes up to four events, so a bus of three
drops in the middle of one poll, after its telemetry and connection events have
been taken. `Registered = FALSE` is the case in which the manager pauses the
dispatcher. `lost_robot` needs a registered robot, and one: with more, an event
without a robot id is taken for the first robot's (section 5). The theorems are
for any fleet.

For the patrol, two robots and two cycles are a race for a cycle, a cycle that
one robot gives up and the other takes, and a scheduled cycle beside a triggered
one. A limit of two failures takes both robots, or one robot twice. One request
at a time may follow another, so a bus of two holds events of different requests
and fills up. Crashes are not bounded in `patrol_races`; in `patrol_live`
`MaxCrashes` bounds them, since nothing is promised of a process that is killed
for ever, and charging, which only keeps the scheduler from submitting, is left to
`patrol_races`. `RobotSymmetry` is used in `patrol_races` only.

In `shared_database` two callers are what it takes for one to commit what the
other has written; two contents tell an old route from a new one; crashes, closes
and failures are not bounded. In `lifecycle` two robots give a part to roll back
that came up and one that did not; `MaxStopFailures` bounds how many stops raise.
In `provisioning` two jobs race for the file, the network and an id; `MaxLeaves`
bounds the network changes. Three calls (`MaxCalls`) register two robots and then
one of them anew against a DELETE of the other, which is what it takes to have one
robot in the file twice. Of texts left over one is enough: what the next one does
is done to a file of which only the address is promised. `Ids` is a bound: a job
that needs a new id waits when none is left (`IdLeft`), where the code counts on.
In `alerts` the list of two is cut while it is looked into, and four alerts have
all severities that are told apart.

Deadlock is checked in every run whose system goes on for ever. A dispatcher that
was stopped, a platform that was shut down and a process that ended really stop,
and in `alerts` each alert is raised once: `dispatch_races`, `motion_control`,
`lifecycle` and `alerts` say `CHECK_DEADLOCK FALSE`.

### Fairness

Each dispatch coroutine that is ready runs on (asyncio), the dispatch lock is
first come first served and a robot is not without state for ever when its turn
comes (strong fairness of `SelectTask`), the bus loop drains its queue,
cancelling a navigation and the end of stop go through, and a human confirms a
gate that goes on being asked for. In the patrol the scheduler's and the
watchdog's loops go on polling, coroutines run on and rounds end (the navigator's
waits are bounded by time), the dispatch lock is first come first served (strong
fairness of `TakeCycle`), the bus delivers, and time passes.

In `MotionControl` the loop resumes ready coroutines, the handler's included,
vendor calls return, and the firmware's three-second timer expires. In
`ObstaclePolicy` the bus delivers, the navigator's loop and the stable-clear task
go on, and blocks grow old; nothing is assumed of the sensor or of people.

In `BatteryManager` the polls, the bus and the submission go on. In
`LogisticsWatchdog` the watchdog's loop and `mark_failed` do too, and polls keep
ending with a drained bus (`[]<><<WatchedFinishPoll(r) /\ bus = <<>>>>_watchedVars`): a poll comes once a second, a delivery takes milliseconds,
so a bus that is full at every poll of a robot for ever is not a schedule of this
program.

In `SystemLifecycle` starts, stops and callbacks end. In `Alerts` the loop
runs what is ready and a send returns or raises: the server pings its clients and
closes a connection that is gone. `SharedDatabase` and `Provisioning` have no
fairness and no liveness; in the latter the script's exit status is awaited without
a time limit (`provision_backend.py:131`), so that no job is promised to end.

Nothing is assumed of operators' other requests, navigations, faults, the
watchdog in `LogisticsDispatch`, crashes or the beginning of a shutdown.

`EveryTaskEnds` excepts paused dispatching, and a task that failed or was cancelled
before: its confirmation may still be on the bus when the next task's robot holds,
release that hold, and leave the next task in `awaiting_unload` for a robot that
has gone. It also excepts a robot left at its hold. `EveryRobotFreed` says that
this is the only place where a robot is lost, and says when (`LeftAtHold`): its
navigator does not listen, its task ended at the hold, so that every confirmation
is refused, or the gate's confirmation was spent on another robot. The first two
are the code's (section 5). The third comes of the bound of one confirmation for a
gate: in the code operators may confirm again.

## 4. What is proved

Each theorem is for all values of the constants that satisfy the module's
assumption (`ConstantsAssumption`, `DatabaseAssumption`, ...), which TLC
evaluates on every run. None of the properties is inductive by itself; what
follows says what each invariant adds, and why. Every safety invariant, every
action property and both refinements that the runs check are theorems.

`LogisticsDispatch_proofs`, for any robots, tasks, routes, bus capacity and all
disturbances together: `TypeCorrect`, `TasksAreTakenOnce`,
`StopLeavesNothingRunning`, `HandlersMoveTheirOwnTask`,
`ArrivalsStayWithTheirRoute`, and `Refinement`: the dispatch system implements
`TransportOrder`. `IndInv` adds:

- a robot has an active task exactly while its coroutine is past the selection
  (`ActiveWhileBusy`), only one coroutine is inside the lock (`OneMarks`) and an
  active task is still queued only for that one (`QueuedOnlyWhileMarking`):
  hence what a second robot finds queued is not active anywhere;
- confirmations on the bus, in a suspended handler and in `unloadOk` are of
  gates a human confirmed (`EventsConfirmed`, `HandlingConfirmed`,
  `UnloadConfirmed`);
- a handler that resumes and finds its robot on another task finds it before
  the first arrival of that task (`StaleHandlerHarmless`), and a task that is
  awaiting or in transit has an arrival counted (`ArrivalCountedUnderWay`):
  hence the transition it then asks for is refused by the table, and no route
  result without arrivals completes a task;
- nothing runs once stopped (`IdleWhenStopped`).

`ArrivalsStayWithTheirRoute` (`ArrivalsNotOvercounted`) needs a count: the
arrivals a robot has noted, together with those of its task that wait on the bus,
are at most the holds its route has reached (`EachArrivalCountedOnce`, by the
cardinality of the set of places on the bus). The sum is kept by what the bus
takes and gives. It starts at zero because a task is taken once: a robot that
begins a task has noted nothing, and none of the task's arrivals can be on the
bus (`StartsAfresh`), since an arrival on the bus is of a task that has left the
queue for good (`ArrivalsHaveStarted`).

`Motion_proofs`, first about `MotionControl`, for any set of vendor calls that may fail:
`MotionTypeCorrect` and `ShutdownIsQuiet`. The invariant says stage by stage
whose command may still be under way (`ServedOnly`, `LoopsJoined`), that only
fallible calls fail, that a robot never reached is limp, that only a patrol's
e-stop handler may be late (`NoEventsInLogistics`), and that after the last
passive nothing but its zero move is under way, which a limp robot ignores
(`LastPassive`).

The same module about `ObstaclePolicy`, for any robots, routes, repeat limit and
bus: `PolicyTypeCorrect`, `RobotsStand`, `DetectionsHold`,
`OnlyHumansLiftRepeats`. A
stable-clear task sleeps only if the last event heard was a sensor's clear
(`StableOnlyAfterClear`), a robot at the limit and blocked requires a human
(`LimitRequiresHuman`), and a robot that reads its state has begun its route
without one (`ReadsBlindly`).

`Supervision_proofs`, for any robots, levels and bus: `BatteryTypeCorrect`,
`PausesHaveReasons`, `ChargingAgreesWithLatch`. `Agrees`: of the crossings of a
robot that wait on the bus the last one agrees with the latch, and when none
waits charging mode does, unless the last one was missed. A poll announces at
most one crossing, as its last event (`PollFacts`), and names the robot
(`CrossingsNamed`), so that a full bus drops it or takes everything before it.

On the same lemmas about polls and the bus (`OfferFacts`, `PollFacts`, ...), about
`LogisticsWatchdog`: `WatchdogTypeCorrect` and `NoTaskIsOverlooked`
(`HandledMeansDealtWith`: a task that the handled key names is being failed or the
database refused to). This is the safety half of `LostRobotsTaskFails`: the key
that makes the watchdog act once never makes it act too rarely.

`SharedDatabase_proofs`, for any tasks, routes, contents and callers:
`DatabaseTypeCorrect`, `AnswersAreDurable`, `TasksNeverGoBack`,
`RoutesComeToAgree`. For tasks: whoever works on one holds the lock (`LockHeld`),
the connection is never behind the disk (`ViewAhead`), and the move a caller has
in hand is allowed for what the connection sees and for what is on the disk, and
is on the disk when it confirms (`TasksInHand`). So a commit by anybody at any
time publishes allowed moves only. For routes: the file never has a route the
store lacks (`RouteKnown`), and an undisputed route under work has one writer,
who writes what the store has; when it is done, disk, file and store agree
(`RouteSettled`).

`Alerts_proofs`, for any alerts, clients and limit: `AlertsTypeCorrect`,
`AcknowledgedIsAcknowledged`, `ShownAlertsAreOnRecord`. Loop and thread are never
in the list together (`Exclusive`), the list is over its limit only in between
(`SizeKept`), an alert that waits to be stored is nowhere else and acknowledged
by nobody (`WaitingAreFresh`), the entry found stays at its index until it is
replaced (`FoundStays`), and an alert stored stays in the list unless it is full
(`Recorded`).

`PatrolMission_proofs`, for any robots, cycles, requests, bus capacity and
failure limit and all disturbances together: `TypeCorrect`, five safety
properties, each by its own strengthening, and the refinement.

- `RobotsNeverShareACycle`: only one coroutine is between choosing a cycle and
  marking it (`OneMarks`), and a robot past that point, unless it is giving up,
  has a cycle that left the queue (`MarkedBeyondQueue`). Statuses never lead back
  to scheduled (`StatusFacts`), so what another robot finds scheduled is not under
  way. A robot whose `mark_active` failed may share its cycle, which is why the
  property excepts robots that give up.
- `ResultsAreFinal` (`TerminalIsFinal`, which the proof module states): every write
  goes through the table, so the late `mark_failed` of such a robot is refused once
  the cycle has ended.
- `SchedulerNeverDoubles`: when the scheduler submits, none of its cycles is open
  (`SubmitsAlone`); supervisors may add theirs in between, but no closed or
  triggered cycle becomes an open one of the schedule.
- `TheLastAnswerHolds`: whenever no request is in between, the last event of the
  bus is the one asked for last, or, when it is empty, both flags agree with it
  (`BusEndsAsAsked`). The REST handler's own event, published last and never
  dropped, is what makes it so: the mutant without it breaks the property.
- `TheFailureLimitHolds`: a limit that was reached is being announced by the
  robot that reached it or is what was asked for last (`LimitAnnounced`).

- `PatrolRefinement`: `PatrolMission` implements `PatrolOrder`. The step that takes
  a cycle is `MarkActive`, but the cycle was chosen in an earlier query, with
  triggers, suspensions and other robots' results in between. That it
  is still the head of the queue (`MarksTheFirst`) rests on cycles being numbered
  as they come (`QueueInOrder`), on one robot marking at a time and on no status
  leading back to scheduled; that nobody else carries it, on
  `RobotsNeverShareACycle`. That the schedule submits alone is `SubmitsAlone`.
  `Carries` changes with the mark, the recorded completion, a failure (which puts
  the cycle down without touching the queue) and a crash; the late `mark_failed`
  of a robot that gave up is a `Fail`, or nothing when the table refuses it.

`SystemLifecycle_proofs`, for any fleet, bus, clients and number of stops that
raise: `LifecycleTypes`, `PartsRunOnWhatRuns`, `EndsClean`. While the process comes
up, what runs is what was started (`UpIsStarted`), and that is a beginning of the
start order (`StartsInOrder`); while it goes down, what runs is still to be
stopped, could not be stopped, or is the speaker or a database that was opened
again (`UpIsDue`). A part rests on parts that start before it and stop after it,
in the regular order, in both rollbacks and robot by robot, which is where
`Precedes` has to agree with `RestsOn`. The bus runs as long as anything but the
database is to be stopped (`BusOutlasts`) and stops only when it is idle, so that
events wait only where a bus is (`EventsHaveABus`); a registered robot stands only
while its adapter waits to make it passive (`StandingIsDue`).

`Provisioning_proofs`, for any robots, addresses, ids, jobs and bounds:
`FileStaysWellFormed`, `NothingIsLostAlone`, `EntriesAreTrue`. Whatever a writer
has in hand was computed from a readable file, and stays well formed and unmixed
while no text was left over (`ContentsAreWellFormed`, from `WithEntryFacts` and
`WithoutEntryFacts`). An address is followed from the script (`JobsKnowTheirRobots`)
over the one noted (`AddressesHold`) and the content in hand into the file: a
leftover text may change whose entry an address is in, but brings none of its own
(`LeftoverFacts`), which is why even then every entry leads to a configured robot.
`WritersTakeTurns` says what a writer alone is about to write, and that without
overlapping writers nothing is left over. The least unused id exists because ids
are natural numbers (`LeastIsIn`, by well-founded induction) and one is left
(`IdLeft`).

Only model-checked are the liveness properties: `EveryTaskEnds`, `EveryRobotFreed`,
`RobotHalts`, `BlocksEnd`, `RechargeEndsCharging`, `LostRobotsTaskFails`,
`AlertsClear`, `ActiveCyclesEnd`, `ScheduledCyclesServed`, `RequestsAnswered`,
`StallReported`, `StartupAndShutdownEnd`, `EveryClientIsTold`. The
prover has no rule for liveness under fairness, nor for `ENABLED`. `PatrolWatchdog`
has no theorem, because what it adds is about liveness.

## 5. Where code and documents disagree

Read in the code while it was modelled. None has a run of its own: the models
contain each behaviour that is within them, and the properties above say what
holds in spite of it.

About dispatching and navigation:

- The navigator does not compare the task of a confirmation with its own
  (`navigator.py:519`), and REST sends no robot: confirming the load of one robot
  releases the hold of another that waits. The bring-up guide
  (`docs/runbooks/full_poc_bringup_guide.md:761`) says "If a route holds for
  load/unload, do not bypass those confirmations.", the rules
  (`agents/robotics-safety.md:49`) "Never bypass load/unload confirmation gates."
  The statuses keep the promise (`Refinement`): the robot leaves, its task stays
  where it was.
- Only the first registered robot's navigator is told which events release a hold
  (`startup.py:45`); another never continues, while `specs.md:199` says of
  confirm-load "Triggers navigator to continue."
- A robot waits at a hold without a timeout (`navigator.py:405`), and nobody tells it
  that its task was cancelled or failed: the endpoints refuse to confirm a task
  that has ended, and the robot waits until the process restarts
  (`EveryRobotFreed` excepts both).
- `execute_route` resets the cancelled flag (`navigator.py:213`): a cancellation
  just before it is lost, and stop waits for the whole route.
  `tests/test_navigator.py:432` cancels only routes that have started.
- `execute_route` also resets the blocked flag (`navigator.py:215`), and the
  detector publishes changes only (`obstacle.py:212`): an obstacle that is there
  when a route begins does not stop the robot until it was gone once. The guide
  (line 666): "Obstacle detected -> robot stops."
- `specs.md:197`: DELETE cancels a queued task, not one in progress; the table
  (`queue.py:20`) allows it for dispatched and awaiting_load, and nobody tells
  the robot.
- The youngest of equal tasks scores best (`recency_weight / age`), so that old
  ones may starve. `specs.md:163` asks for it.

About the robot:

- A heartbeat move in flight sets the mode back after the e-stop's passive was
  acknowledged (`sdk_adapter.py:241`), so the heartbeat goes on sending
  velocities, and the later release, which needs the mode passive, is refused.
  `agents/robotics-safety.md:47`: "E-stop/passive must take priority." In the same
  way the late answer to a patrol's e-stop event may set the mode to standing
  after the last passive of a shutdown; no robot moves (`ShutdownIsQuiet`).
- A single, unregistered robot gets no last passive at shutdown
  (`base_startup.py:232`); registered ones do.
- `connection_lost` of the SDK adapter carries no robot id (`sdk_adapter.py:417`),
  and the watchdog takes such an event for the first robot's (`watchdog.py:338`):
  another robot's lost link may fail the first one's task.
  `tests/test_watchdog.py:343` (`test_one_robot_stale_does_not_affect_healthy_robot`)
  tests stale telemetry only.
- The watchdog stores the handled key before `mark_failed` (`watchdog.py:262`);
  when the database refuses, the task stays active and is not tried again.
- The dock task has priority 9999 (`battery_manager.py:161`), the database takes 0,
  1 and 2 (`database.py:31`): it is always refused, and the robot stays where it is
  until somebody charges it. `specs.md:175`: "queues a synthetic "dock" task with the
  highest possible priority".

About the patrol:

- The watchdog measures a stall from the last completed cycle of this process
  (`patrol_watchdog.py:115`). A crash in a round leaves an active cycle: the
  restarted scheduler submits nothing, the dispatcher finds nothing, and no alert
  is ever raised, while `patrol_module_plan.md:302` promises one when no cycle has
  completed in three intervals.
- `patrol_module_plan.md:322`: `/patrol/suspend` suspends after the current route
  completes; `PatrolDispatcher.suspend` cancels the routes.
- `patrol_module_plan.md:294`: PATROL_SUSPENDED cancels the current navigation; its
  handler only sets the flag, so after the automatic suspension the other robots
  finish their rounds.
- `patrol_module_plan.md:292`: suspension when the failures exceed the limit; the
  code suspends when they reach it.

About files, database and alerts:

- A route that commissioning has written to the file is overwritten by the next
  save of the store, which has not read it: `RouteStore.reload_if_changed` has no
  caller outside the tests. A save that fails leaves the route in memory only.
- A change of a route is answered with success although its write to the database
  failed (`route_store.py:460`), which only logs a warning: `AnsweredIsDurable` is about
  tasks.
- A database that cannot create its tables has been opened and stays open
  (`SystemLifecycle.NothingRuns` excepts it).
- `robots.yaml` is emptied before it is written; a start in between, or after a
  write that failed, takes it for a fleet of none. The address file a robot keeps
  in `/tmp` may be an earlier job's, and then gives an address that is no longer
  the robot's.
- Two overlapping writes of `robots.yaml` may leave valid YAML that neither wrote
  (`provision_backend.py:293`, `:334`): with x and y in it, a job that provisions y
  again and a DELETE of x leave y twice. The next start refuses an id that is there
  twice, and takes a MAC under two ids for two robots.
- MAC and address are read back by two commands (`provision_backend.py:540`). When
  only the first fails, the MAC of the request's SSID is paired with the address of
  the robot that was logged in to, which is another one if the PC was on its access
  point: that robot is configured and its address written to the first one's entry.
- An alert raised by a provisioning thread is stored and audited, but not
  broadcast, as the thread has no running loop. `AlertMessage` knows no severity
  "error": the alert manager refuses such an alert, which the broker then forwards
  as an event.

## 6. Simplifications

- Any queued task may be chosen; scoring, positions, waypoints without a hold
  (but in `ObstaclePolicy`), velocities other than go and still, and time are left
  out. A step may take any time, so every timeout may expire early.
  `LogisticsDispatch` has the watchdog, obstacle timeouts and lost states as the
  nondeterministic `WatchdogInterrupt` and `NavigationFault`; their own modules
  have the details.
- Database errors are in `SharedDatabase`, `PatrolMission`, `LogisticsWatchdog` and
  `SystemLifecycle`. In `LogisticsDispatch` a read and the write that depends on it
  are separate steps where the code suspends between them and another actor can
  change the outcome. The status check and the publication of a confirmation are
  one step, and so are an attempted completion and the failure that follows a
  refusal: the status table is consulted again at the write, so the outcome is the
  same.
- Each module has the events it is about on its bus; the others are represented by
  its small capacity. Handlers of `navigation.completed`, `.blocked` and `.failed`
  only write a log field. A confirmation is published when there is room
  (`publish` waits for it). In `Alerts` the bus drops nothing: an alert that was
  dropped is one that was not raised.
- `MotionControl` models one robot of the registered-platform path, at its
  regular startup and shutdown; rollback and the single robot are in
  `SystemLifecycle`, without the commands under way. One request of each kind is in flight
  at a time. uvicorn drains requests before the shutdown begins, and the dispatcher
  has been stopped by then (`StoppedMeansStill`). A limp robot ignores moves, and
  the firmware damps the robot after three seconds without a command: both are
  assumptions about the vendor's robot (`specs.md:117`).
- `RobotHalts` is checked with reliable move and passive calls: a robot whose
  every command fails keeps walking whatever the program does.
- `PatrolMission`: routes, observations and other events than suspension and
  resumption are left out. A database call that fails has no effect. A dispatch
  coroutine that finds its robot taken returns at once, so a second coroutine
  that `_dispatch_tasks.clear()` lets the loop start is left out. `suspend`
  cancels all routes in one step; each cancellation is one assignment that the
  navigator looks at later. A robot of the patrol is always registered: the
  single-robot mode, in which an e-stop also suspends, is left out, and so are
  starting and stopping the loops (their order is in `SystemLifecycle`). Cycle
  numbers are never reused, so a run ends its submissions at `MaxCycles`. The
  watchdog's check is one step, and it hears of a completion when the dispatcher
  publishes it.
- `SharedDatabase`: a row is its status or contents, a file is written in one step
  (its emptying is in `Provisioning`, where others read it), and a route that is
  not in the file is unknown after a start.
- `BatteryManager`: the dock task's run is left out, since it is refused.
- `Alerts`: a client is one connection, and its next one a new client of the same
  name once no broadcast has the old one; writes to the audit log succeed.
- `Provisioning`: a robot stands for its MAC, the network gives every robot an
  address of its own, and the script's effects are one step.

## 7. Not modelled

`PROJECT.json` lists every component with its status. Left out for good:

- the patrol's observation. `VideoCapture._capture_frames` returns None
  (`video_capture.py:80`), so no frame is analysed and no anomaly logged: what
  would follow has no reachable state;
- localisation, waypoint geometry and the text that the provisioning script
  patches: arithmetic and text without concurrency;
- peripherals and stubs, the serial display bridge, email, the WiFi scan: pure
  I/O with no effect on robots or tasks;
- status pages, metrics, log retention, diagnostics records: read-only or
  append-only;
- configuration, logging, authorisation, stations and roles: stateless after the
  start.

`suspend_cycle` and `resume_cycle` of the patrol queue and `lie_down` of the SDK
adapter have no caller.

## 8. Plan

Done: all modules of section 2 with their runs, and proofs of every safety
property and both refinements. Left, most important first:

1. An abstract specification of supervision (a lost robot's task ends, a charged
   robot's pause ends) that `BatteryManager` and `LogisticsWatchdog` implement.
2. The safety halves of further liveness properties as invariants with proofs, as
   `HandledMeansDealtWith` is of `LostRobotsTaskFails`: for `StallReported` that the
   watchdog's record of the last completed cycle is never later than the cycle,
   for `EveryClientIsTold` that a client still owed an alert is still to be sent
   to.
3. The patrol's single-robot mode and the start and stop of its loops in
   `PatrolMission`.
