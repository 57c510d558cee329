--------------------------- MODULE SystemLifecycle ---------------------------
(***************************************************************************)
(* How the process of an application comes up and goes down: the shared    *)
(* platform, then the application's own services, then the services of the *)
(* API, started one by one and stopped one by one, while the event bus     *)
(* delivers what the running services publish.  A start may raise, which   *)
(* rolls back what is up; a stop may raise, and the rest is stopped none   *)
(* the less.  Tasks, routes and requests are left out.                     *)
(***************************************************************************)
EXTENDS Naturals, Sequences, FiniteSets

CONSTANTS
  NumRobots,       \* robots of a registered fleet
  BusCapacity,     \* bound on events in the bus
  Clients,         \* WebSocket clients
  MaxStopFailures  \* bound: stops that raise

ASSUME LifecycleAssumption ==
  /\ NumRobots \in Nat \ {0}
  /\ BusCapacity \in Nat \ {0}
  /\ MaxStopFailures \in Nat

VARIABLES
  app,         \* the application: "logistics" or "patrol"
  registered,  \* robots.yaml enables robots; else there is one, unregistered
  phase,       \* "starting", "serving", "stopping" or "ended"
  started,     \* the steps of the startup that are done
  todo,        \* the stops that are left
  up,          \* the parts that run, or are open
  posture,     \* of every robot, as its SDK adapter commanded it
  queue,       \* events that wait in the bus
  calls,       \* the subscribers the bus has yet to call for the last event
  clients,     \* the connected WebSocket clients
  raised,      \* the start that raised (history)
  leftUp       \* the parts whose stop raised (history)

busVars  == <<queue, calls>>
bootVars == <<app, registered, started, raised>>
vars == <<bootVars, phase, todo, up, posture, busVars, clients, leftUp>>

-----------------------------------------------------------------------------
(* The parts, and the order they start and stop in. *)

Robots == 1..NumRobots

Fleet == IF registered THEN Robots ELSE {1}

Shared(name) == <<name, 0>>

SharedParts(names) == names \X {0}

\* The parts of these names of every robot.
FleetParts(names) == names \X Fleet

BaseSteps ==
  SharedParts({"database", "routes", "bus", "detector", "stand"})
  \cup FleetParts({"adapter", "heartbeat", "monitor"})

AppSteps ==
  SharedParts(IF app = "logistics"
              THEN {"speaker", "dispatcher", "battery_manager", "watchdog"}
              ELSE {"zones", "cycles", "scheduler", "dispatcher", "watchdog"})

ApiSteps ==
  SharedParts(IF app = "logistics"
              THEN {"broker", "alert_router", "alert_manager"}
              ELSE {"broker", "alert_manager"})

StartSteps == BaseSteps \cup AppSteps \cup ApiSteps

\* The order of the starts; one place serves both applications.
StartPlace ==
  [database |-> 1, routes |-> 2, bus |-> 3,
   adapter |-> 4, heartbeat |-> 5, monitor |-> 6, detector |-> 7, stand |-> 8,
   speaker |-> 9, zones |-> 9, cycles |-> 10, scheduler |-> 11,
   dispatcher |-> 12, battery_manager |-> 13, watchdog |-> 14,
   broker |-> 15, alert_router |-> 16, alert_manager |-> 17]

\* The order of the stops.
StopPlace ==
  [alert_manager |-> 1, alert_router |-> 2, broker |-> 3,
   watchdog |-> 4, battery_manager |-> 5, dispatcher |-> 6, scheduler |-> 7,
   detector |-> 8, heartbeat |-> IF registered THEN 9 ELSE 11, monitor |-> 10,
   adapter |-> 11, bus |-> 12, database |-> 13]

\* What belongs to robots is started and stopped robot by robot.
Precedes(place, p, q) ==
  IF p[2] # 0 /\ q[2] # 0 /\ p[2] # q[2] THEN p[2] < q[2]
  ELSE place[p[1]] < place[q[1]]

IsFirst(place, part, parts) ==
  part \in parts /\ \A q \in parts \ {part} : Precedes(place, part, q)

\* The stops of the robots, started or not.  The SDK adapter of an
\* unregistered robot is not among them.
PlatformStops ==
  FleetParts({"heartbeat", "monitor"})
  \cup (IF registered THEN FleetParts({"adapter"}) ELSE {})

BaseStops == SharedParts({"detector", "bus", "database"}) \cup PlatformStops

AppStops ==
  SharedParts(IF app = "logistics"
              THEN {"watchdog", "battery_manager", "dispatcher"}
              ELSE {"watchdog", "dispatcher", "scheduler"})

ApiStops == ApiSteps

\* What the rollback of the shared startup stops: registered robots all
\* together, once the bus is up.
BaseRollback ==
  IF registered
  THEN (started \cap SharedParts({"database", "bus"}))
       \cup (IF Shared("bus") \in started THEN PlatformStops ELSE {})
  ELSE started \cap (SharedParts({"database", "bus"}) \cup PlatformStops)

AppRollback == started \cap AppStops

BaseIsUp == BaseSteps \subseteq started

(* (mutant: an application that does not come up stops its own services) *)
StopsOwnServicesOnly == IF BaseIsUp THEN AppRollback ELSE BaseRollback

RollbackSteps ==
  IF BaseIsUp THEN AppRollback \cup BaseStops ELSE BaseRollback

-----------------------------------------------------------------------------
(* The event bus. *)

Kinds == {"notice", "alert", "battery", "estop"}

\* What each part subscribes to; the broker subscribes to everything.
Hears(name) ==
  CASE name = "heartbeat"       -> {"estop"}
    [] name = "dispatcher"      -> IF app = "patrol" THEN {"estop"} ELSE {}
    [] name = "battery_manager" -> {"battery"}
    [] name = "scheduler"       -> {"battery"}
    [] name = "alert_router"    -> {"alert", "battery", "estop"}
    [] name = "alert_manager"   -> {"alert"}
    [] OTHER                    -> {}

\* The subscribers of an event, when the bus takes it.
Subscribers(kind) ==
  {part \in up : kind \in Hears(part[1]) \/ part[1] = "broker"}

\* Those of its name are called as they subscribed, then those of every
\* event.
CallPlace == [StartPlace EXCEPT !.broker = 18]

NextCall == CHOOSE part \in calls : IsFirst(CallPlace, part, calls)

HasRoom == Len(queue) < BusCapacity

\* publish_nowait: an event that finds the bus full is dropped.
Published(kind) == IF HasRoom THEN Append(queue, kind) ELSE queue

Publish(kind) ==
  /\ HasRoom
  /\ queue' = Published(kind)
  /\ UNCHANGED <<bootVars, phase, todo, up, posture, calls, clients, leftUp>>

\* The dispatch loop takes an event when the last one has been delivered.
DispatchEvent ==
  /\ Shared("bus") \in up
  /\ queue # <<>> /\ calls = {}
  /\ queue' = Tail(queue)
  /\ calls' = Subscribers(Head(queue))
  /\ UNCHANGED <<bootVars, phase, todo, up, posture, clients, leftUp>>

\* The loop waits for each callback, which is called although its part may
\* have been stopped since the event was taken.
Called(name) == calls # {} /\ NextCall[1] = name

Returns ==
  /\ calls' = calls \ {NextCall}
  /\ UNCHANGED <<bootVars, phase, todo, posture, queue, leftUp>>

\* _invoke_callback: what a callback raises is logged.
CallbackRaises ==
  /\ calls # {}
  /\ calls' = calls \ {NextCall}
  /\ UNCHANGED <<bootVars, phase, todo, up, posture, queue, clients, leftUp>>

\* Every query opens the database when it is closed.
DatabaseUsed == up' = up \cup {Shared("database")}

\* The alert is stored, shown to the clients and sent by mail.
AlertManagerCalled ==
  /\ Called("alert_manager")
  /\ DatabaseUsed
  /\ clients' \in SUBSET clients
  /\ Returns

\* The alert is kept in memory.
AlertRouterCalled ==
  /\ Called("alert_router")
  /\ Returns /\ UNCHANGED <<up, clients>>

\* The dock task is submitted.
BatteryManagerCalled ==
  /\ Called("battery_manager")
  /\ DatabaseUsed
  /\ Returns /\ UNCHANGED clients

\* broadcast: a client that cannot be sent to is disconnected.
BrokerCalled ==
  /\ Called("broker")
  /\ clients' \in SUBSET clients
  /\ Returns /\ UNCHANGED up

\* The heartbeat stops the motion; scheduler and patrol dispatcher set
\* their flags.
FlagSetterCalled ==
  /\ \E name \in {"heartbeat", "scheduler", "dispatcher"} : Called(name)
  /\ Returns /\ UNCHANGED <<up, clients>>

BusStep ==
  \/ DispatchEvent \/ CallbackRaises
  \/ AlertManagerCalled \/ AlertRouterCalled \/ BatteryManagerCalled
  \/ BrokerCalled \/ FlagSetterCalled

-----------------------------------------------------------------------------
(* Startup. *)

Init ==
  /\ app \in {"logistics", "patrol"} /\ registered \in BOOLEAN
  /\ phase = "starting"
  /\ started = {} /\ todo = {}
  /\ up = {}
  /\ posture = [r \in Fleet |-> "off"]
  /\ queue = <<>> /\ calls = {}
  /\ clients = {}
  /\ raised = Shared("none")
  /\ leftUp = {}

Upcoming(part) ==
  phase = "starting" /\ IsFirst(StartPlace, part, StartSteps \ started)

StepDone(part) ==
  /\ started' = started \cup {part}
  /\ UNCHANGED <<app, registered, phase, todo, raised, calls, clients, leftUp>>

Start(part) ==
  /\ Upcoming(part)
  /\ up' = up \cup {part}
  /\ StepDone(part) /\ UNCHANGED posture

StartQuietly(part) == Start(part) /\ UNCHANGED queue

StartNoticed(part) == Start(part) /\ queue' = Published("notice")

\* Something is read, and nothing runs because of it.
Load(part) ==
  /\ Upcoming(part)
  /\ StepDone(part) /\ UNCHANGED <<up, posture>>

InitializeDatabase == StartQuietly(Shared("database"))

LoadRoutes == Load(Shared("routes")) /\ queue' = Published("notice")

StartEventBus == StartQuietly(Shared("bus"))

\* connect leaves the robot passive; one that cannot be reached is tolerated.
ConnectRobot(r) ==
  /\ Upcoming(<<"adapter", r>>)
  /\ StepDone(<<"adapter", r>>) /\ UNCHANGED up
  /\ \/ /\ posture' = [posture EXCEPT ![r] = "passive"]
        /\ queue' = Published("notice")
     \/ UNCHANGED <<posture, queue>>

StartHeartbeat(r) == StartNoticed(<<"heartbeat", r>>)

StartStateMonitor(r) == StartQuietly(<<"monitor", r>>)

StartObstacleDetector == StartQuietly(Shared("detector"))

(* (mutant: a robot that is not connected is waited for) *)
AutoStandConnected ==
  /\ Upcoming(Shared("stand"))
  /\ \A r \in Fleet : posture[r] = "passive"
  /\ posture' = [r \in Fleet |-> "standing"]
  /\ StepDone(Shared("stand")) /\ UNCHANGED <<up, queue>>

\* auto_stand_on_startup: the connected robots stand up, if they can.
AutoStand ==
  /\ Upcoming(Shared("stand"))
  /\ \E standing \in SUBSET {r \in Fleet : posture[r] = "passive"} :
       posture' = [r \in Fleet |-> IF r \in standing THEN "standing"
                                                    ELSE posture[r]]
  /\ StepDone(Shared("stand")) /\ UNCHANGED <<up, queue>>

StartSpeaker == StartQuietly(Shared("speaker"))

StartDispatcher == StartNoticed(Shared("dispatcher"))

StartBatteryManager == StartQuietly(Shared("battery_manager"))

StartWatchdog == StartQuietly(Shared("watchdog"))

LoadZones == Load(Shared("zones")) /\ UNCHANGED queue

InitializePatrolQueue == Load(Shared("cycles")) /\ UNCHANGED queue

StartPatrolScheduler == StartQuietly(Shared("scheduler"))

StartWebSocketBroker == StartQuietly(Shared("broker"))

StartAlertRouter == StartQuietly(Shared("alert_router"))

StartAlertManager == StartQuietly(Shared("alert_manager"))

\* The starts that are rolled back when they raise; bus.start and the
\* speaker's cannot, and those of the API are not guarded.
Raising == {"database", "routes", "adapter", "heartbeat", "monitor",
            "detector", "dispatcher", "battery_manager", "watchdog",
            "zones", "cycles", "scheduler"}

\* A database that cannot create its tables has been opened all the same.
StartRaises ==
  /\ \E part \in StartSteps :
       /\ Upcoming(part) /\ part[1] \in Raising
       /\ raised' = part
       /\ \/ part = Shared("database") /\ DatabaseUsed
          \/ UNCHANGED up
  /\ phase' = "stopping"
  /\ todo' = RollbackSteps
  /\ UNCHANGED <<app, registered, started, posture, busVars, clients, leftUp>>

Serve ==
  /\ phase = "starting" /\ started = StartSteps
  /\ phase' = "serving"
  /\ UNCHANGED <<bootVars, todo, up, posture, busVars, clients, leftUp>>

StartStep ==
  \/ InitializeDatabase \/ LoadRoutes \/ StartEventBus
  \/ \E r \in Robots : \/ ConnectRobot(r) \/ StartHeartbeat(r)
                       \/ StartStateMonitor(r)
  \/ StartObstacleDetector \/ AutoStand
  \/ StartSpeaker \/ StartDispatcher \/ StartBatteryManager \/ StartWatchdog
  \/ LoadZones \/ InitializePatrolQueue \/ StartPatrolScheduler
  \/ StartWebSocketBroker \/ StartAlertRouter \/ StartAlertManager
  \/ StartRaises \/ Serve
-----------------------------------------------------------------------------
(* What goes on meanwhile. *)

ClientConnects(c) ==
  /\ phase = "serving"
  /\ clients' = clients \cup {c}
  /\ UNCHANGED <<bootVars, phase, todo, up, posture, busVars, leftUp>>

ClientDisconnects(c) ==
  /\ c \in clients
  /\ clients' = clients \ {c}
  /\ UNCHANGED <<bootVars, phase, todo, up, posture, busVars, leftUp>>

\* The operator's emergency stop.
TriggerEstop == phase = "serving" /\ Publish("estop")

MonitorPublishes ==
  (\E r \in Robots : <<"monitor", r>> \in up) /\ Publish("battery")

WatchdogPublishes == Shared("watchdog") \in up /\ Publish("alert")

\* A part whose loop reads and writes the database.
QueriesDatabase(name) ==
  /\ \E part \in up : part[1] = name
  /\ DatabaseUsed
  /\ UNCHANGED <<bootVars, phase, todo, posture, busVars, clients, leftUp>>

Work ==
  \/ \E c \in Clients : ClientConnects(c) \/ ClientDisconnects(c)
  \/ TriggerEstop \/ MonitorPublishes \/ WatchdogPublishes
  \/ \E name \in {"monitor", "dispatcher", "scheduler", "watchdog"} :
       QueriesDatabase(name)

-----------------------------------------------------------------------------
(* Shutdown. *)

ShutDown ==
  /\ phase = "serving"
  /\ phase' = "stopping"
  /\ todo' = ApiStops \cup AppStops \cup BaseStops
  /\ UNCHANGED <<bootVars, up, posture, busVars, clients, leftUp>>

(* (mutant: the stops are run together instead of one after the other) *)
IsLeft(part) == phase = "stopping" /\ part \in todo

IsNext(part) == phase = "stopping" /\ IsFirst(StopPlace, part, todo)

Stop(part) ==
  /\ IsNext(part)
  /\ todo' = todo \ {part}
  /\ up' = up \ {part}
  /\ UNCHANGED <<bootVars, phase, calls, leftUp>>

StopQuietly(part) == Stop(part) /\ UNCHANGED <<posture, queue, clients>>

StopAlertManager == StopQuietly(Shared("alert_manager"))

StopAlertRouter == StopQuietly(Shared("alert_router"))

StopWebSocketBroker ==
  /\ Stop(Shared("broker"))
  /\ clients' = {}
  /\ UNCHANGED <<posture, queue>>

StopWatchdog == StopQuietly(Shared("watchdog"))

StopBatteryManager == StopQuietly(Shared("battery_manager"))

StopPatrolScheduler == StopQuietly(Shared("scheduler"))

StopDispatcher ==
  /\ Stop(Shared("dispatcher"))
  /\ queue' = IF app = "logistics" THEN Published("notice") ELSE queue
  /\ UNCHANGED <<posture, clients>>

StopObstacleDetector == StopQuietly(Shared("detector"))

StopStateMonitor(r) == StopQuietly(<<"monitor", r>>)

StopHeartbeat(r) ==
  /\ Stop(<<"heartbeat", r>>)
  /\ queue' = IF <<"heartbeat", r>> \in up THEN Published("notice") ELSE queue
  /\ UNCHANGED <<posture, clients>>

\* The adapter has no disconnect; passive takes its place, and is refused
\* by an adapter that is not connected.
DisconnectRobot(r) ==
  /\ Stop(<<"adapter", r>>)
  /\ posture' = [posture EXCEPT ![r] = IF @ = "off" THEN @ ELSE "passive"]
  /\ UNCHANGED <<queue, clients>>

\* wait_until_idle
BusIsIdle == queue = <<>> /\ calls = {}

StopEventBus == BusIsIdle /\ StopQuietly(Shared("bus"))

CloseDatabase == StopQuietly(Shared("database"))

\* A stop raises, and the shutdown goes on with the next.  What the part
\* has running may go on as well.
Joining == {"heartbeat", "monitor", "adapter", "detector", "dispatcher",
            "watchdog", "scheduler"}

StopRaises ==
  /\ Cardinality(leftUp) < MaxStopFailures
  /\ \E part \in todo :
       /\ IsNext(part) /\ part[1] \in Joining
       /\ leftUp' = leftUp \cup {part}
       /\ todo' = todo \ {part}
  /\ UNCHANGED <<bootVars, phase, up, posture, busVars, clients>>

End ==
  /\ phase = "stopping" /\ todo = {}
  /\ phase' = "ended"
  /\ UNCHANGED <<bootVars, todo, up, posture, busVars, clients, leftUp>>

StopStep ==
  \/ StopAlertManager \/ StopAlertRouter \/ StopWebSocketBroker
  \/ StopWatchdog \/ StopBatteryManager \/ StopPatrolScheduler
  \/ StopDispatcher \/ StopObstacleDetector
  \/ \E r \in Robots : \/ StopStateMonitor(r) \/ StopHeartbeat(r)
                       \/ DisconnectRobot(r)
  \/ StopEventBus \/ CloseDatabase \/ StopRaises \/ End

Next == StartStep \/ BusStep \/ Work \/ ShutDown \/ StopStep

\* Starts, stops and callbacks end; nobody has to shut the process down.
Spec == Init /\ [][Next]_vars
             /\ WF_vars(StartStep) /\ WF_vars(StopStep) /\ WF_vars(BusStep)

-----------------------------------------------------------------------------
(* Properties *)

Parts ==
  SharedParts({"database", "bus", "detector", "speaker", "dispatcher",
               "battery_manager", "watchdog", "scheduler", "broker",
               "alert_router", "alert_manager"})
  \cup FleetParts({"heartbeat", "monitor"})

\* What has a stop.
Stops == (Parts \ {Shared("speaker")}) \cup FleetParts({"adapter"})

TypeOK ==
  /\ phase \in {"starting", "serving", "stopping", "ended"}
  /\ started \subseteq StartSteps
  /\ todo \subseteq Stops
  /\ up \subseteq Parts
  /\ posture \in [Fleet -> {"off", "passive", "standing"}]
  /\ queue \in Seq(Kinds) /\ Len(queue) <= BusCapacity
  /\ calls \subseteq Parts
  /\ clients \subseteq Clients
  /\ leftUp \subseteq Stops

\* What a part uses while it runs, the callbacks the bus makes for it
\* included.
RestsOn(part) ==
  CASE part[1] = "bus"      -> {Shared("database")}
    [] part[1] \in {"heartbeat", "detector", "broker"} -> {Shared("bus")}
    [] part[1] = "monitor"  -> {Shared("bus"), Shared("database")}
    [] part[1] \in {"dispatcher", "scheduler"} ->
         SharedParts({"bus", "database", "detector"})
         \cup FleetParts({"heartbeat", "monitor"})
    [] part[1] \in {"battery_manager", "watchdog"} ->
         SharedParts({"bus", "database", "dispatcher"})
    [] part[1] = "alert_router"  -> {Shared("bus")}
    [] part[1] = "alert_manager" -> {Shared("database"), Shared("broker")}
    [] OTHER -> {}

\* At every moment of a startup, a rollback or a shutdown, everything keeps
\* its type and what runs finds what it uses running.  A part whose stop
\* raised is beyond this.
RunsOnWhatRuns ==
  /\ TypeOK
  /\ \A part \in up \ leftUp : RestsOn(part) \subseteq up

\* Nothing is running, connected or open but the parts whose own stop
\* raised, with the database they open again; the speaker, which has no
\* stop; and a database that was opened and not initialized.
NothingRuns ==
  /\ clients = {}
  /\ up \ {Shared("speaker")} \subseteq
       leftUp \cup (IF leftUp # {} \/ raised = Shared("database")
                   THEN {Shared("database")} ELSE {})

\* Nor is a registered robot left standing.
RobotsArePassive ==
  registered =>
    \A r \in Fleet : <<"adapter", r>> \in leftUp \/ posture[r] # "standing"

\* However the process ends, and whichever start or stop raised: it leaves
\* nothing running, no robot standing that nobody commands any more, and no
\* event undelivered, those of the stops themselves included.
NothingLeftBehind ==
  phase = "ended" =>
    /\ NothingRuns
    /\ RobotsArePassive
    /\ leftUp = {} => queue = <<>>

\* A startup and a shutdown come to an end: no stop waits for the bus for
\* ever, unless a part whose stop raised keeps filling it.
StartupAndShutdownEnd ==
  phase \in {"starting", "stopping"}
    ~> phase \in {"serving", "ended"} \/ leftUp # {}

=============================================================================
