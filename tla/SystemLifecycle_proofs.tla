------------------------ MODULE SystemLifecycle_proofs ------------------------
(***************************************************************************)
(* What SystemLifecycle promises, for any number of robots and clients,    *)
(* any bus, and any number of stops that raise.  While the process comes   *)
(* up, what runs is what was started; while it goes down, what runs is     *)
(* still to be stopped, or could not be.  Both orders respect what a part  *)
(* rests on, so that nothing loses its ground.                             *)
(***************************************************************************)
EXTENDS SystemLifecycle, TLAPS

ComingUp == phase \in {"starting", "serving"}

Bus      == Shared("bus")
Store    == Shared("database")
Broker   == Shared("broker")

\* The steps were taken in order, and all of them before the process serves.
StartsInOrder ==
  /\ \A p \in started, q \in StartSteps :
       Precedes(StartPlace, q, p) => q \in started
  /\ phase = "serving" => started = StartSteps

\* Until a stop, what runs is what was started and nothing failed to stop.
UpIsStarted ==
  ComingUp =>
    /\ up = started \cap Parts
    /\ todo = {} /\ leftUp = {} /\ raised = Shared("none")

\* A database that is open although its stop is past or was never due.
StrayStore ==
  IF leftUp # {} \/ raised = Store THEN {Store} ELSE {}

\* From then on, what runs will be stopped, or its stop raised.
UpIsDue ==
  /\ ~ComingUp => up \subseteq todo \cup leftUp \cup {Shared("speaker")}
                               \cup StrayStore
  /\ phase = "ended" => todo = {}
  /\ todo \cap leftUp = {}

\* The bus is stopped after everything but the database, and runs so long.
BusOutlasts ==
  /\ \A p \in todo : p # Store => Bus \in todo
  /\ Bus \in todo => Bus \in up
  /\ calls # {} => Bus \in up

\* Events wait only where a bus runs or will; or a part could not be
\* stopped, and goes on publishing.
EventsHaveABus ==
  queue # <<>> =>
    \/ Bus \in up \/ leftUp # {}
    \/ phase = "starting" /\ Shared("routes") \in started

ClientsHaveABroker == clients # {} => phase = "serving" \/ Broker \in todo

\* A registered robot stands only while its adapter is still to be made
\* passive.
StandingIsDue ==
  registered =>
    \A r \in Fleet :
      posture[r] = "standing" =>
        \/ ComingUp /\ Shared("stand") \in started
        \/ <<"adapter", r>> \in todo \cup leftUp

IndInv ==
  /\ app \in {"logistics", "patrol"} /\ registered \in BOOLEAN
  /\ RunsOnWhatRuns
  /\ StartsInOrder /\ UpIsStarted
  /\ UpIsDue /\ BusOutlasts
  /\ EventsHaveABus /\ ClientsHaveABroker /\ StandingIsDue

-----------------------------------------------------------------------------
(* The parts and their order.                                              *)

LEMMA PartShape ==
  ASSUME registered \in BOOLEAN
  PROVE  \A p \in Parts \cup FleetParts({"adapter"}) \cup StartSteps :
           p = <<p[1], p[2]>> /\ p[2] \in Nat
<1>1. Fleet \subseteq Nat
      BY LifecycleAssumption DEF Fleet, Robots
<1>2. ASSUME NEW names, NEW p \in FleetParts(names)
      PROVE  p = <<p[1], p[2]>> /\ p[2] \in Nat
  <2>1. p[2] \in Fleet /\ p = <<p[1], p[2]>>
        BY DEF FleetParts
  <2> QED BY <1>1, <2>1
<1>3. \A names : \A p \in SharedParts(names) :
        p = <<p[1], p[2]>> /\ p[2] \in Nat
      BY DEF SharedParts
<1> QED BY <1>2, <1>3, Zenon
        DEF Parts, StartSteps, BaseSteps, AppSteps, ApiSteps

LEMMA StartPlaced == \A p \in StartSteps : StartPlace[p[1]] \in Nat
BY DEF StartSteps, BaseSteps, AppSteps, ApiSteps, SharedParts, FleetParts,
       StartPlace

LEMMA Asymmetric ==
  ASSUME NEW place, NEW p, NEW q,
         place[p[1]] \in Nat, place[q[1]] \in Nat,
         p[2] \in Nat, q[2] \in Nat
  PROVE  ~(Precedes(place, p, q) /\ Precedes(place, q, p))
BY DEF Precedes

\* What depends on the application and the registry alone.
LEMMA Rigid ==
  ASSUME UNCHANGED <<app, registered>>
  PROVE  /\ Fleet' = Fleet /\ Parts' = Parts /\ StartSteps' = StartSteps
         /\ \A names : FleetParts(names)' = FleetParts(names)
         /\ \A p : RestsOn(p)' = RestsOn(p)
         /\ PlatformStops' = PlatformStops /\ BaseSteps' = BaseSteps
         /\ Stops' = Stops
<1>1. Fleet' = Fleet
      BY DEF Fleet, Robots
<1>2. \A names : FleetParts(names)' = FleetParts(names)
      BY <1>1 DEF FleetParts
<1>3. Parts' = Parts
      BY <1>2 DEF Parts, SharedParts
<1>4. BaseSteps' = BaseSteps /\ PlatformStops' = PlatformStops
      BY <1>2 DEF BaseSteps, PlatformStops, SharedParts
<1>5. StartSteps' = StartSteps
      BY <1>4 DEF StartSteps, AppSteps, ApiSteps, SharedParts
<1>6. \A p : RestsOn(p)' = RestsOn(p)
      BY <1>2 DEF RestsOn, SharedParts, Shared
<1>7. Stops' = Stops
      BY <1>2, <1>3 DEF Stops, Shared
<1> QED BY <1>1, <1>2, <1>3, <1>4, <1>5, <1>6, <1>7

\* What a part rests on is started before it and stopped after it.
LEMMA Grounds ==
  ASSUME app \in {"logistics", "patrol"}, registered \in BOOLEAN,
         NEW p \in Parts, NEW q \in RestsOn(p)
  PROVE  /\ q \in Parts /\ q \in StartSteps
         /\ Precedes(StartPlace, q, p) /\ Precedes(StopPlace, p, q)
         /\ StopPlace[p[1]] \in Nat /\ StopPlace[q[1]] \in Nat
<1> DEFINE base == SharedParts({"bus", "database", "detector"})
                   \cup FleetParts({"heartbeat", "monitor"})
           more == {Shared("dispatcher"), Shared("broker")}
<1>1. base \subseteq Parts /\ more \subseteq Parts
      BY DEF Parts, SharedParts, FleetParts, Shared
<1>2. base \subseteq StartSteps /\ more \subseteq StartSteps
      BY DEF StartSteps, BaseSteps, AppSteps, ApiSteps, SharedParts,
             FleetParts, Shared
<1>3. q \in base \cup more
      BY DEF RestsOn, SharedParts, Shared
<1>4. p[1] \in {"bus", "heartbeat", "detector", "broker", "monitor",
                "dispatcher", "scheduler", "battery_manager", "watchdog",
                "alert_router", "alert_manager"}
      BY DEF RestsOn
<1>5. /\ StopPlace[p[1]] \in Nat /\ StopPlace[q[1]] \in Nat
      BY <1>3, <1>4 DEF StopPlace, SharedParts, FleetParts, Shared
<1>6. p[2] # 0 => p[1] \in {"heartbeat", "monitor"}
      BY DEF Parts, SharedParts, FleetParts
<1>7. /\ StartPlace[q[1]] < StartPlace[p[1]]
      /\ StopPlace[p[1]] < StopPlace[q[1]]
      /\ p[2] = 0 \/ q[2] = 0
  <2>1. CASE p[1] = "bus"
        BY <2>1, <1>6 DEF RestsOn, SharedParts, FleetParts, Shared,
                          StartPlace, StopPlace
  <2>2. CASE p[1] \in {"heartbeat", "detector", "broker"}
        BY <2>2 DEF RestsOn, Shared, StartPlace, StopPlace
  <2>3. CASE p[1] = "monitor"
        BY <2>3 DEF RestsOn, Shared, StartPlace, StopPlace
  <2>4. CASE p[1] \in {"dispatcher", "scheduler"}
        BY <2>4, <1>6 DEF RestsOn, SharedParts, FleetParts, StartPlace,
                          StopPlace
  <2>5. CASE p[1] \in {"battery_manager", "watchdog"}
        BY <2>5, <1>6 DEF RestsOn, SharedParts, StartPlace, StopPlace
  <2>6. CASE p[1] \in {"alert_router", "alert_manager"}
        BY <2>6, <1>6 DEF RestsOn, Shared, StartPlace, StopPlace
  <2> QED BY <1>4, <2>1, <2>2, <2>3, <2>4, <2>5, <2>6
<1> QED BY <1>1, <1>2, <1>3, <1>5, <1>7 DEF Precedes

\* The next stop is not of anything that a part with a stop ahead rests on.
LEMMA StopsKeepGrounds ==
  ASSUME TypeOK, app \in {"logistics", "patrol"}, registered \in BOOLEAN,
         NEW part, IsNext(part), NEW p \in todo \cap Parts, p # part
  PROVE  part \notin RestsOn(p)
<1> SUFFICES ASSUME part \in RestsOn(p)
             PROVE  FALSE
    OBVIOUS
<1>1. Precedes(StopPlace, part, p)
      BY DEF IsNext, IsFirst
<1>2. /\ Precedes(StopPlace, p, part) /\ part \in Parts
      /\ StopPlace[p[1]] \in Nat /\ StopPlace[part[1]] \in Nat
      BY Grounds
<1>3. p[2] \in Nat /\ part[2] \in Nat
      BY <1>2, PartShape
<1> QED BY <1>1, <1>2, <1>3, Asymmetric

-----------------------------------------------------------------------------
(* What the steps have in common.                                          *)

\* A step of the startup is done.
Started(part) ==
  /\ part \in StartSteps /\ Upcoming(part)
  /\ started' = started \cup {part}
  /\ up' = up \cup ({part} \cap Parts)
  /\ queue' = queue \/ (part # Store /\ queue' = Published("notice"))
  /\ posture' \in [Fleet -> {"off", "passive", "standing"}]
  /\ \A r \in Fleet : posture'[r] = "standing" =>
                        posture[r] = "standing" \/ part = Shared("stand")
  /\ UNCHANGED <<app, registered, phase, todo, raised, calls, clients, leftUp>>

\* The next stop is done.
Stopped(part) ==
  /\ IsNext(part)
  /\ todo' = todo \ {part} /\ up' = up \ {part}
  /\ queue' = queue \/ (part \notin {Bus, Store}
                        /\ queue' = Published("notice"))
  /\ part = Bus => BusIsIdle
  /\ clients' = IF part = Broker THEN {} ELSE clients
  /\ posture' \in [Fleet -> {"off", "passive", "standing"}]
  /\ \A r \in Fleet : posture'[r] = "standing" =>
                        posture[r] = "standing" /\ part # <<"adapter", r>>
  /\ UNCHANGED <<bootVars, phase, calls, leftUp>>

\* The bus delivers, or a loop uses the database, where either can.
Worked ==
  /\ \/ up' = up
     \/ /\ up' = up \cup {Store}
        /\ \/ calls # {}
           \/ \E part \in up : part[1] \in {"monitor", "dispatcher",
                                            "scheduler", "watchdog"}
  /\ calls' \subseteq calls \/ (Bus \in up /\ calls' \subseteq up)
  /\ queue' = queue \/ (queue # <<>> /\ queue' = Tail(queue))
  /\ clients' \subseteq clients
  /\ UNCHANGED <<bootVars, phase, todo, posture, leftUp>>

\* An event is published by who runs.
Announced ==
  /\ phase = "serving" \/ \E part \in up : part[1] \in {"monitor", "watchdog"}
  /\ \E kind \in Kinds : queue' = Published(kind)
  /\ UNCHANGED <<bootVars, phase, todo, up, posture, calls, clients, leftUp>>

Connected ==
  /\ phase = "serving" /\ clients' \subseteq Clients
  /\ UNCHANGED <<bootVars, phase, todo, up, posture, busVars, leftUp>>

LEMMA StartKinds ==
  ASSUME TypeOK, app \in {"logistics", "patrol"}, registered \in BOOLEAN,
         StartStep
  PROVE  (\E part \in StartSteps : Started(part)) \/ StartRaises \/ Serve
<1>1. \A part : Upcoming(part) => part \in StartSteps
      BY DEF Upcoming, IsFirst
<1>2. posture \in [Fleet -> {"off", "passive", "standing"}]
      BY DEF TypeOK
<1>3. ASSUME NEW part, Start(part), part \in Parts,
             queue' = queue \/ (part # Store /\ queue' = Published("notice")),
             part # Shared("stand")
      PROVE  \E p \in StartSteps : Started(p)
      BY <1>1, <1>2, <1>3 DEF Start, Started, StepDone
<1>4. ASSUME NEW part, Load(part), part \notin Parts, part # Store,
             queue' = queue \/ queue' = Published("notice")
      PROVE  \E p \in StartSteps : Started(p)
      BY <1>1, <1>2, <1>4 DEF Load, Started, StepDone
<1>5. /\ \A name \in {"database", "bus", "detector", "speaker", "dispatcher",
                      "battery_manager", "watchdog", "scheduler", "broker",
                      "alert_router", "alert_manager"} :
           Shared(name) \in Parts /\ Shared(name) # Shared("stand")
      /\ \A name \in {"routes", "zones", "cycles", "stand"} :
           Shared(name) \notin Parts /\ Shared(name) # Store
      /\ \A r \in Fleet, name \in {"heartbeat", "monitor"} :
           /\ <<name, r>> \in Parts
           /\ <<name, r>> # Shared("stand") /\ <<name, r>> # Store
      /\ \A r \in Fleet : <<"adapter", r>> \notin Parts
                          /\ <<"adapter", r>> # Store
      BY DEF Parts, SharedParts, FleetParts, Shared, Store
<1>6. ASSUME NEW r, NEW name, Upcoming(<<name, r>>),
             name \in {"adapter", "heartbeat", "monitor"}
      PROVE  r \in Fleet
  <2>1. <<name, r>> \in StartSteps
        BY <1>1, <1>6
  <2> QED BY <1>6, <2>1 DEF StartSteps, BaseSteps, AppSteps, ApiSteps,
                            SharedParts, FleetParts
<1>7. CASE \/ InitializeDatabase \/ StartEventBus \/ StartObstacleDetector
           \/ StartSpeaker \/ StartBatteryManager \/ StartWatchdog
           \/ StartPatrolScheduler \/ StartWebSocketBroker
           \/ StartAlertRouter \/ StartAlertManager
      BY <1>3, <1>5, <1>7, Zenon
         DEF InitializeDatabase, StartEventBus, StartObstacleDetector,
             StartSpeaker, StartBatteryManager, StartWatchdog,
             StartPatrolScheduler, StartWebSocketBroker, StartAlertRouter,
             StartAlertManager, StartQuietly
<1>8. CASE StartDispatcher
  <2>1. Shared("dispatcher") # Store
        BY DEF Shared, Store
  <2> QED BY <1>3, <1>5, <1>8, <2>1 DEF StartDispatcher, StartNoticed
<1>9. CASE LoadRoutes \/ LoadZones \/ InitializePatrolQueue
      BY <1>4, <1>5, <1>9 DEF LoadRoutes, LoadZones, InitializePatrolQueue
<1>10. ASSUME NEW r \in Robots, StartHeartbeat(r) \/ StartStateMonitor(r)
       PROVE  \E p \in StartSteps : Started(p)
  <2>1. CASE StartHeartbeat(r)
    <3>1. r \in Fleet
          BY <1>6, <2>1 DEF StartHeartbeat, StartNoticed, Start
    <3> QED BY <1>3, <1>5, <2>1, <3>1 DEF StartHeartbeat, StartNoticed
  <2>2. CASE StartStateMonitor(r)
    <3>1. r \in Fleet
          BY <1>6, <2>2 DEF StartStateMonitor, StartQuietly, Start
    <3> QED BY <1>3, <1>5, <2>2, <3>1 DEF StartStateMonitor, StartQuietly
  <2> QED BY <1>10, <2>1, <2>2
<1>11. ASSUME NEW r \in Robots, ConnectRobot(r)
       PROVE  \E p \in StartSteps : Started(p)
  <2>1. r \in Fleet
        BY <1>6, <1>11 DEF ConnectRobot
  <2>2. /\ posture' \in [Fleet -> {"off", "passive", "standing"}]
        /\ \A q \in Fleet : posture'[q] = "standing" => posture[q] = "standing"
        BY <1>2, <1>11, <2>1 DEF ConnectRobot
  <2>3. queue' = queue \/ queue' = Published("notice")
        BY <1>11 DEF ConnectRobot
  <2>4. /\ Upcoming(<<"adapter", r>>) /\ StepDone(<<"adapter", r>>)
        /\ UNCHANGED up
        BY <1>11 DEF ConnectRobot
  <2>5. up = up \cup ({<<"adapter", r>>} \cap Parts)
        BY <1>5, <2>1
  <2> QED BY <1>1, <1>5, <2>1, <2>2, <2>3, <2>4, <2>5 DEF Started, StepDone
<1>12. CASE AutoStand
  <2>1. /\ posture' \in [Fleet -> {"off", "passive", "standing"}]
        BY <1>2, <1>12 DEF AutoStand
  <2> QED BY <1>1, <1>5, <1>12, <2>1 DEF AutoStand, Started, StepDone
<1> QED BY <1>7, <1>8, <1>9, <1>10, <1>11, <1>12 DEF StartStep

LEMMA WorkKinds ==
  ASSUME TypeOK, BusStep \/ Work
  PROVE  Worked \/ Announced \/ Connected
<1>1. CASE DispatchEvent
  <2>1. Subscribers(Head(queue)) \subseteq up
        BY DEF Subscribers
  <2> QED BY <1>1, <2>1 DEF DispatchEvent, Worked, Bus
<1>2. CASE CallbackRaises
      BY <1>2 DEF CallbackRaises, Worked
<1>3. CASE AlertManagerCalled \/ BatteryManagerCalled
      BY <1>3 DEF AlertManagerCalled, BatteryManagerCalled, Called, Returns,
                  DatabaseUsed, Worked, Store
<1>4. CASE AlertRouterCalled \/ BrokerCalled \/ FlagSetterCalled
      BY <1>4 DEF AlertRouterCalled, BrokerCalled, FlagSetterCalled, Called,
                  Returns, Worked
<1>5. ASSUME NEW c \in Clients, ClientConnects(c) PROVE Connected
      BY <1>5 DEF ClientConnects, Connected, TypeOK
<1>6. ASSUME NEW c \in Clients, ClientDisconnects(c) PROVE Worked
      BY <1>6 DEF ClientDisconnects, Worked, busVars
<1>7. \A kind \in Kinds : Publish(kind) =>
        /\ queue' = Published(kind)
        /\ UNCHANGED <<bootVars, phase, todo, up, posture, calls, clients,
                       leftUp>>
      BY DEF Publish
<1>8. {"estop", "battery", "alert"} \subseteq Kinds
      BY DEF Kinds
<1>9. CASE TriggerEstop
      BY <1>7, <1>8, <1>9 DEF TriggerEstop, Announced
<1>10. CASE MonitorPublishes
  <2>1. \E part \in up : part[1] \in {"monitor", "watchdog"}
        BY <1>10 DEF MonitorPublishes
  <2> QED BY <1>7, <1>8, <1>10, <2>1 DEF MonitorPublishes, Announced
<1>11. CASE WatchdogPublishes
  <2>1. \E part \in up : part[1] \in {"monitor", "watchdog"}
        BY <1>11 DEF WatchdogPublishes, Shared
  <2> QED BY <1>7, <1>8, <1>11, <2>1 DEF WatchdogPublishes, Announced
<1>12. ASSUME NEW name \in {"monitor", "dispatcher", "scheduler", "watchdog"},
              QueriesDatabase(name)
       PROVE  Worked
      BY <1>12 DEF QueriesDatabase, DatabaseUsed, Worked, Store, busVars
<1> QED BY <1>1, <1>2, <1>3, <1>4, <1>5, <1>6, <1>9, <1>10, <1>11, <1>12
        DEF BusStep, Work

LEMMA StopKinds ==
  ASSUME TypeOK, StopStep
  PROVE  (\E part \in todo : Stopped(part)) \/ StopRaises \/ End
<1>1. \A part : IsNext(part) => part \in todo
      BY DEF IsNext, IsFirst
<1>2. posture \in [Fleet -> {"off", "passive", "standing"}]
      BY DEF TypeOK
<1> DEFINE NoAdapter(part) == \A r \in Fleet : part # <<"adapter", r>>
<1>3. ASSUME NEW part, StopQuietly(part), part # Broker, NoAdapter(part),
             part = Bus => BusIsIdle
      PROVE  \E p \in todo : Stopped(p)
      BY <1>1, <1>2, <1>3 DEF StopQuietly, Stop, Stopped
<1>4. \A name \in {"alert_manager", "alert_router", "broker", "watchdog",
                   "battery_manager", "scheduler", "dispatcher", "detector",
                   "database", "bus"} :
        NoAdapter(Shared(name))
      BY DEF Shared
<1>5. \A name \in {"alert_manager", "alert_router", "watchdog",
                   "battery_manager", "scheduler", "dispatcher", "detector"} :
        Shared(name) # Broker /\ Shared(name) # Bus /\ Shared(name) # Store
      BY DEF Shared, Broker, Bus, Store
<1>6. \A r : \A name \in {"heartbeat", "monitor", "adapter"} :
        <<name, r>> # Broker /\ <<name, r>> # Bus /\ <<name, r>> # Store
      BY DEF Shared, Broker, Bus, Store
<1>7. CASE \/ StopAlertManager \/ StopAlertRouter \/ StopWatchdog
           \/ StopBatteryManager \/ StopPatrolScheduler
           \/ StopObstacleDetector
  <2> HIDE DEF NoAdapter
  <2> QED BY <1>3, <1>4, <1>5, <1>7, Zenon
          DEF StopAlertManager, StopAlertRouter, StopWatchdog,
              StopBatteryManager, StopPatrolScheduler, StopObstacleDetector
<1>8. CASE StopWebSocketBroker
  <2>1. Broker # Bus
        BY DEF Shared, Broker, Bus
  <2> QED BY <1>1, <1>2, <1>4, <1>8, <2>1
          DEF StopWebSocketBroker, Stop, Stopped, Broker
<1>9. CASE StopDispatcher
      BY <1>1, <1>2, <1>4, <1>5, <1>9 DEF StopDispatcher, Stop, Stopped
<1>10. ASSUME NEW r \in Robots, StopStateMonitor(r)
       PROVE  \E p \in todo : Stopped(p)
  <2>1. NoAdapter(<<"monitor", r>>)
        OBVIOUS
  <2> QED BY <1>3, <1>6, <1>10, <2>1 DEF StopStateMonitor
<1>11. ASSUME NEW r \in Robots, StopHeartbeat(r)
       PROVE  \E p \in todo : Stopped(p)
  <2>1. NoAdapter(<<"heartbeat", r>>)
        OBVIOUS
  <2> QED BY <1>1, <1>2, <1>6, <1>11, <2>1 DEF StopHeartbeat, Stop, Stopped
<1>12. ASSUME NEW r \in Robots, DisconnectRobot(r)
       PROVE  \E p \in todo : Stopped(p)
  <2>1. /\ posture' \in [Fleet -> {"off", "passive", "standing"}]
        /\ \A q \in Fleet : posture'[q] = "standing" =>
             posture[q] = "standing" /\ <<"adapter", r>> # <<"adapter", q>>
        BY <1>2, <1>12 DEF DisconnectRobot
  <2> QED BY <1>1, <1>6, <1>12, <2>1 DEF DisconnectRobot, Stop, Stopped
<1>13. CASE StopEventBus
  <2>1. Bus # Broker /\ NoAdapter(Bus)
        BY DEF Shared, Broker, Bus
  <2> QED BY <1>3, <1>13, <2>1 DEF StopEventBus, Bus
<1>14. CASE CloseDatabase
  <2>1. Store # Broker /\ Store # Bus /\ NoAdapter(Store)
        BY DEF Shared, Broker, Bus, Store
  <2> QED BY <1>3, <1>14, <2>1 DEF CloseDatabase, Store
<1> QED BY <1>7, <1>8, <1>9, <1>10, <1>11, <1>12, <1>13, <1>14 DEF StopStep

-----------------------------------------------------------------------------
(* The invariant holds at first.                                           *)

LEMMA InitInv == Init => IndInv
<1> SUFFICES ASSUME Init
             PROVE  IndInv
    OBVIOUS
<1>1. /\ phase = "starting" /\ started = {} /\ todo = {} /\ up = {}
      /\ calls = {} /\ clients = {} /\ leftUp = {}
      /\ app \in {"logistics", "patrol"} /\ registered \in BOOLEAN
      /\ raised = Shared("none")
      BY DEF Init
<1>2. queue = <<>> /\ queue \in Seq(Kinds) /\ Len(queue) = 0
      BY DEF Init
<1>3. posture \in [Fleet -> {"off", "passive", "standing"}]
      /\ \A r \in Fleet : posture[r] # "standing"
      BY DEF Init
<1>4. TypeOK
      BY <1>1, <1>2, <1>3, LifecycleAssumption DEF TypeOK
<1>5. RunsOnWhatRuns /\ StartsInOrder /\ UpIsStarted /\ UpIsDue
      BY <1>1, <1>4
         DEF RunsOnWhatRuns, StartsInOrder, UpIsStarted, UpIsDue, ComingUp
<1>6. BusOutlasts /\ EventsHaveABus /\ ClientsHaveABroker
      BY <1>1, <1>2 DEF BusOutlasts, EventsHaveABus, ClientsHaveABroker
<1>7. StandingIsDue
      BY <1>3 DEF StandingIsDue
<1> QED BY <1>1, <1>5, <1>6, <1>7 DEF IndInv

-----------------------------------------------------------------------------
(* Types.                                                                  *)

LEMMA PublishedTyped ==
  ASSUME TypeOK, NEW kind \in Kinds
  PROVE  /\ Published(kind) \in Seq(Kinds)
         /\ Len(Published(kind)) <= BusCapacity
<1>1. queue \in Seq(Kinds) /\ Len(queue) <= BusCapacity /\ Len(queue) \in Nat
      BY DEF TypeOK
<1>2. CASE HasRoom
  <2>1. Published(kind) = Append(queue, kind)
        BY <1>2 DEF Published
  <2> QED BY <1>1, <1>2, <2>1, LifecycleAssumption DEF HasRoom
<1>3. CASE ~HasRoom
      BY <1>1, <1>3 DEF Published
<1> QED BY <1>2, <1>3

LEMMA RollbackFacts ==
  ASSUME TypeOK, app \in {"logistics", "patrol"}
  PROVE  RollbackSteps \cup ApiStops \cup AppStops \cup BaseStops
           \subseteq Stops
<1>1. /\ PlatformStops \subseteq Stops
      /\ SharedParts({"detector", "bus", "database"}) \subseteq Stops
      /\ SharedParts({"database", "bus"}) \subseteq Stops
      BY DEF PlatformStops, Stops, Parts, SharedParts, FleetParts, Shared
<1>2. AppStops \cup ApiStops \subseteq Stops
      BY DEF AppStops, ApiStops, ApiSteps, Stops, Parts, SharedParts, Shared
<1> QED BY <1>1, <1>2
        DEF RollbackSteps, AppRollback, BaseRollback, BaseStops

LEMMA TypeStep ==
  ASSUME TypeOK, app \in {"logistics", "patrol"}, registered \in BOOLEAN,
         [Next]_vars
  PROVE  /\ TypeOK' /\ UNCHANGED <<app, registered>>
<1>1. Store \in Parts /\ "notice" \in Kinds
      BY DEF Store, Shared, Parts, SharedParts, Kinds
<1>2. ASSUME NEW part \in StartSteps, Started(part)
      PROVE  TypeOK' /\ UNCHANGED <<app, registered>>
  <2>1. queue' \in Seq(Kinds) /\ Len(queue') <= BusCapacity
        BY <1>1, <1>2, PublishedTyped DEF Started, TypeOK
  <2>2. up' \subseteq Parts /\ started' \subseteq StartSteps
        BY <1>2 DEF Started, TypeOK
  <2> QED BY <1>2, <2>1, <2>2, Rigid DEF Started, TypeOK
<1>3. CASE StartRaises
  <2>1. up' \subseteq Parts
        BY <1>1, <1>3 DEF StartRaises, DatabaseUsed, Store, TypeOK
  <2>2. todo' \subseteq Stops
        BY <1>3, RollbackFacts DEF StartRaises
  <2>3. phase' = "stopping"
        /\ UNCHANGED <<app, registered, started, posture, queue, calls,
                       clients, leftUp>>
        BY <1>3 DEF StartRaises, busVars
  <2> QED BY <2>1, <2>2, <2>3, Rigid DEF TypeOK
<1>4. CASE Serve
      BY <1>4, Rigid DEF Serve, TypeOK, bootVars, busVars
<1>5. CASE Worked
  <2>1. queue' \in Seq(Kinds) /\ Len(queue') <= BusCapacity
    <3>1. CASE queue' = queue
          BY <3>1 DEF TypeOK
    <3>2. CASE queue # <<>> /\ queue' = Tail(queue)
      <4>1. /\ queue \in Seq(Kinds) /\ Len(queue) <= BusCapacity
            BY DEF TypeOK
      <4>2. Tail(queue) \in Seq(Kinds) /\ Len(Tail(queue)) = Len(queue) - 1
            BY <3>2, <4>1
      <4>3. Len(queue) \in Nat /\ BusCapacity \in Nat
            BY <4>1, LifecycleAssumption
      <4> QED BY <3>2, <4>1, <4>2, <4>3
    <3> QED BY <1>5, <3>1, <3>2 DEF Worked
  <2>2. up' \subseteq Parts /\ calls' \subseteq Parts
        BY <1>1, <1>5 DEF Worked, TypeOK
  <2>3. clients' \subseteq Clients
        BY <1>5 DEF Worked, TypeOK
  <2> QED BY <1>5, <2>1, <2>2, <2>3, Rigid DEF Worked, TypeOK, bootVars
<1>6. CASE Announced
  <2>1. queue' \in Seq(Kinds) /\ Len(queue') <= BusCapacity
        BY <1>6, PublishedTyped DEF Announced
  <2> QED BY <1>6, <2>1, Rigid DEF Announced, TypeOK, bootVars
<1>7. CASE Connected
      BY <1>7, Rigid DEF Connected, TypeOK, bootVars, busVars
<1>8. CASE ShutDown
  <2>1. todo' \subseteq Stops
        BY <1>8, RollbackFacts DEF ShutDown
  <2> QED BY <1>8, <2>1, Rigid DEF ShutDown, TypeOK, bootVars, busVars
<1>9. ASSUME NEW part \in todo, Stopped(part)
       PROVE  TypeOK' /\ UNCHANGED <<app, registered>>
  <2>1. queue' \in Seq(Kinds) /\ Len(queue') <= BusCapacity
        BY <1>1, <1>9, PublishedTyped DEF Stopped, TypeOK
  <2>2. /\ up' \subseteq Parts
        /\ todo' \subseteq Stops
        /\ clients' \subseteq Clients
        BY <1>9 DEF Stopped, TypeOK
  <2> QED BY <1>9, <2>1, <2>2, Rigid DEF Stopped, TypeOK, bootVars
<1>10. CASE StopRaises
  <2>1. /\ todo' \subseteq Stops
        /\ leftUp' \subseteq Stops
        BY <1>10 DEF StopRaises, TypeOK
  <2> QED BY <1>10, <2>1, Rigid DEF StopRaises, TypeOK, bootVars, busVars
<1>11. CASE End
      BY <1>11, Rigid DEF End, TypeOK, bootVars, busVars
<1>12. CASE UNCHANGED vars
      BY <1>12, Rigid DEF vars, TypeOK, bootVars, busVars
<1> QED BY <1>2, <1>3, <1>4, <1>5, <1>6, <1>7, <1>8, <1>9, <1>10, <1>11,
           <1>12, StartKinds, WorkKinds, StopKinds
        DEF Next

-----------------------------------------------------------------------------
(* Coming up.                                                              *)

\* The part that is started next has what it rests on.
LEMMA GroundsAreUp ==
  ASSUME IndInv, NEW part \in StartSteps \cap Parts, Upcoming(part)
  PROVE  RestsOn(part) \subseteq up
<1> SUFFICES ASSUME NEW q \in RestsOn(part)
             PROVE  q \in up
    OBVIOUS
<1>1. phase = "starting" /\ IsFirst(StartPlace, part, StartSteps \ started)
      BY DEF Upcoming
<1>2. /\ q \in Parts /\ q \in StartSteps
      /\ Precedes(StartPlace, q, part)
      BY Grounds DEF IndInv
<1>3. /\ StartPlace[q[1]] \in Nat /\ StartPlace[part[1]] \in Nat
      /\ q[2] \in Nat /\ part[2] \in Nat
      BY <1>2, StartPlaced, PartShape DEF IndInv
<1>4. ~Precedes(StartPlace, part, q)
      BY <1>2, <1>3, Asymmetric
<1>5. q # part
  <2>1. ~Precedes(StartPlace, part, part)
        BY <1>3 DEF Precedes
  <2> QED BY <1>2, <2>1
<1>6. q \in started
      BY <1>1, <1>2, <1>4, <1>5 DEF IsFirst
<1> QED BY <1>1, <1>2, <1>6 DEF IndInv, UpIsStarted, ComingUp

LEMMA StartedStep ==
  ASSUME IndInv, TypeOK', NEW part \in StartSteps, Started(part)
  PROVE  IndInv'
<1>1. /\ phase = "starting" /\ phase' = "starting"
      /\ IsFirst(StartPlace, part, StartSteps \ started)
      /\ started' = started \cup {part}
      /\ up' = up \cup ({part} \cap Parts)
      /\ UNCHANGED <<app, registered, todo, raised, calls, clients, leftUp>>
      BY DEF Started, Upcoming
<1>2. /\ up = started \cap Parts
      /\ todo = {} /\ leftUp = {} /\ raised = Shared("none")
      BY <1>1 DEF IndInv, UpIsStarted, ComingUp
<1>3. /\ Parts' = Parts /\ StartSteps' = StartSteps /\ Fleet' = Fleet
      /\ \A p : RestsOn(p)' = RestsOn(p)
      BY <1>1, Rigid
<1>4. RunsOnWhatRuns'
  <2>1. ASSUME NEW p \in up' PROVE RestsOn(p) \subseteq up'
    <3>1. CASE p \in up
          BY <1>1, <1>2, <3>1 DEF IndInv, RunsOnWhatRuns
    <3>2. CASE p = part /\ part \in Parts
          BY <1>1, <3>2, GroundsAreUp DEF Started
    <3> QED BY <1>1, <2>1, <3>1, <3>2
  <2> QED BY <1>3, <2>1 DEF RunsOnWhatRuns
<1>5. StartsInOrder'
  <2>1. ASSUME NEW p \in started', NEW q \in StartSteps,
               Precedes(StartPlace, q, p)
        PROVE  q \in started'
    <3>1. CASE p \in started
          BY <1>1, <2>1, <3>1 DEF IndInv, StartsInOrder
    <3>2. CASE p = part /\ q \notin started'
      <4>1. Precedes(StartPlace, part, q)
            BY <1>1, <3>2 DEF IsFirst
      <4>2. /\ StartPlace[q[1]] \in Nat /\ StartPlace[p[1]] \in Nat
            /\ q[2] \in Nat /\ p[2] \in Nat
            BY <3>2, StartPlaced, PartShape DEF IndInv
      <4> QED BY <2>1, <3>2, <4>1, <4>2, Asymmetric
    <3> QED BY <1>1, <2>1, <3>1, <3>2
  <2>2. StartPlace' = StartPlace
        BY DEF StartPlace
  <2>3. \A p, q : Precedes(StartPlace, q, p)' = Precedes(StartPlace, q, p)
        BY <2>2 DEF Precedes
  <2> QED BY <1>1, <1>3, <2>1, <2>3 DEF StartsInOrder
<1>6. UpIsStarted'
      BY <1>1, <1>2, <1>3 DEF UpIsStarted
<1>7. UpIsDue'
      BY <1>1, <1>2 DEF UpIsDue, ComingUp
<1>8. BusOutlasts'
      BY <1>1, <1>2 DEF IndInv, BusOutlasts, Bus, Shared
<1>9. EventsHaveABus'
  <2>1. CASE queue' = queue
        BY <1>1, <2>1 DEF IndInv, EventsHaveABus, Bus, Shared
  <2>2. CASE part # Store
    <3>1. CASE part = Shared("routes")
          BY <1>1, <3>1 DEF EventsHaveABus, Shared
    <3>2. CASE part # Shared("routes")
      <4>1. StartPlace[part[1]] \in Nat \ {1, 2}
            BY <2>2, <3>2
               DEF StartSteps, BaseSteps, AppSteps, ApiSteps, SharedParts,
                   FleetParts, StartPlace, Shared, Store
      <4>2. /\ Shared("routes")[1] = "routes" /\ Shared("routes")[2] = 0
            /\ StartPlace["routes"] = 2
            BY DEF Shared, StartPlace
      <4>3. ~Precedes(StartPlace, part, Shared("routes"))
            \/ StartPlace[part[1]] < 2
            BY <4>2 DEF Precedes
      <4>4. StartPlace[part[1]] # 0
            BY DEF StartSteps, BaseSteps, AppSteps, ApiSteps, SharedParts,
                   FleetParts, StartPlace
      <4>5. ~Precedes(StartPlace, part, Shared("routes"))
            BY <4>1, <4>3, <4>4
      <4>6. Shared("routes") \in StartSteps
            BY DEF StartSteps, BaseSteps, SharedParts, Shared
      <4>7. Shared("routes") \in started
            BY <1>1, <3>2, <4>5, <4>6 DEF IsFirst
      <4> QED BY <1>1, <4>7 DEF EventsHaveABus, Shared
    <3> QED BY <3>1, <3>2
  <2> QED BY <2>1, <2>2 DEF Started
<1>10. ClientsHaveABroker'
      BY <1>1 DEF IndInv, ClientsHaveABroker, Broker, Shared
<1>11. StandingIsDue'
  <2>1. ASSUME NEW r \in Fleet, registered, posture'[r] = "standing"
        PROVE  Shared("stand") \in started'
    <3>1. CASE part = Shared("stand")
          BY <1>1, <3>1
    <3>2. CASE posture[r] = "standing"
          BY <1>1, <1>2, <2>1, <3>2 DEF IndInv, StandingIsDue
    <3> QED BY <2>1, <3>1, <3>2 DEF Started
  <2> QED BY <1>1, <1>3, <2>1 DEF StandingIsDue, ComingUp, Shared
<1> QED BY <1>1, <1>4, <1>5, <1>6, <1>7, <1>8, <1>9, <1>10, <1>11 DEF IndInv

\* Where the steps are in the order of the starts.
LEMMA Places ==
  ASSUME NEW p \in StartSteps
  PROVE  /\ StartPlace[p[1]] \in 1..17
         /\ p \in BaseSteps <=> StartPlace[p[1]] <= 8
         /\ p \in ApiSteps <=> StartPlace[p[1]] >= 15
         /\ StartPlace[p[1]] \in 4..6 =>
              p \in FleetParts({"adapter", "heartbeat", "monitor"})
         /\ StartPlace[p[1]] \notin 4..6 => p[2] = 0
         /\ StartPlace[p[1]] <= 3 =>
              p \in SharedParts({"database", "routes", "bus"})
         /\ StartPlace[p[1]] = 3 <=> p = Bus
         /\ StartPlace[p[1]] < 3 => p \in {Store, Shared("routes")}
         /\ StartPlace[p[1]] = 7 <=> p = Shared("detector")
         /\ StartPlace[p[1]] = 8 <=> p = Shared("stand")
<1> DEFINE platform == FleetParts({"adapter", "heartbeat", "monitor"})
           base == SharedParts({"database", "routes", "bus", "detector",
                                "stand"})
<1>1. CASE p \in platform
  <2>1. /\ p[1] \in {"adapter", "heartbeat", "monitor"}
        /\ p \in BaseSteps
        BY <1>1 DEF FleetParts, BaseSteps
  <2>2. StartPlace[p[1]] \in 4..6
        BY <2>1 DEF StartPlace
  <2>3. p \notin ApiSteps /\ p # Bus /\ p # Shared("detector")
        /\ p # Shared("stand")
        BY <2>1 DEF ApiSteps, SharedParts, Bus, Shared
  <2> QED BY <1>1, <2>1, <2>2, <2>3
<1>2. CASE p \in base
  <2>1. p = Shared(p[1]) /\ p[2] = 0 /\ p \in BaseSteps /\ p \notin ApiSteps
        BY <1>2 DEF SharedParts, Shared, BaseSteps, ApiSteps
  <2>2. p[1] \in {"database", "routes", "bus", "detector", "stand"}
        BY <1>2 DEF SharedParts
  <2> QED BY <2>1, <2>2 DEF StartPlace, SharedParts, Shared, Bus, Store
<1>3. CASE p \in AppSteps
  <2>1. /\ StartPlace[p[1]] \in 9..14 /\ p[2] = 0
        /\ p \notin ApiSteps /\ p \notin BaseSteps
        BY <1>3 DEF AppSteps, ApiSteps, BaseSteps, SharedParts, FleetParts,
                    StartPlace
  <2>2. p # Bus /\ p # Shared("detector") /\ p # Shared("stand")
        BY <1>3 DEF AppSteps, SharedParts, Shared, Bus
  <2> QED BY <2>1, <2>2
<1>4. CASE p \in ApiSteps
  <2>1. /\ StartPlace[p[1]] \in 15..17 /\ p[2] = 0 /\ p \notin BaseSteps
        BY <1>4 DEF ApiSteps, BaseSteps, SharedParts, FleetParts, StartPlace
  <2>2. p # Bus /\ p # Shared("detector") /\ p # Shared("stand")
        BY <1>4 DEF ApiSteps, SharedParts, Shared, Bus
  <2> QED BY <1>4, <2>1, <2>2
<1> QED BY <1>1, <1>2, <1>3, <1>4
        DEF StartSteps, BaseSteps, SharedParts, FleetParts

\* What has been started when a start raises: nothing that comes later.
LEMMA StartedBefore ==
  ASSUME IndInv, NEW part \in StartSteps, Upcoming(part), part[1] \in Raising
  PROVE  /\ part \in BaseSteps \/ BaseIsUp
         /\ BaseIsUp => started \cap ApiSteps = {}
         /\ ~BaseIsUp => started \subseteq
                           SharedParts({"database", "routes", "bus"})
                           \cup FleetParts({"adapter", "heartbeat", "monitor"})
         /\ Bus \in started \/ part \in {Store, Shared("routes")}
         /\ Shared("stand") \in started => BaseIsUp
         /\ \A p \in started : StartPlace[p[1]] > 3 => Bus \in started
<1>1. /\ phase = "starting" /\ part \notin started
      /\ \A q \in StartSteps \ started :
           q # part => Precedes(StartPlace, part, q)
      BY DEF Upcoming, IsFirst
<1>2. started \subseteq StartSteps
      BY DEF IndInv, RunsOnWhatRuns, TypeOK
<1>3. \A p \in started, q \in StartSteps :
        Precedes(StartPlace, q, p) => q \in started
      BY DEF IndInv, StartsInOrder
<1>4. \A p \in started : ~Precedes(StartPlace, part, p)
      BY <1>1, <1>3
<1>5. /\ BaseSteps \subseteq StartSteps
      /\ Shared("stand") \in BaseSteps /\ Bus \in BaseSteps
      BY DEF StartSteps, BaseSteps, SharedParts, Shared, Bus
<1>6. StartPlace[part[1]] # 8 /\ StartPlace[part[1]] < 15
  <2>1. part[1] # "stand" /\ part \notin ApiSteps
        BY DEF Raising, ApiSteps, SharedParts
  <2>2. part # Shared("stand")
        BY <2>1 DEF Shared
  <2> QED BY <2>1, <2>2, Places
<1>7. \A p, q \in StartSteps :
        StartPlace[p[1]] < StartPlace[q[1]]
        /\ (StartPlace[p[1]] \notin 4..6 \/ StartPlace[q[1]] \notin 4..6)
          => Precedes(StartPlace, p, q)
      BY Places DEF Precedes
<1>8. part \in BaseSteps \/ BaseIsUp
  <2>1. ASSUME NEW b \in BaseSteps, b \notin started, part \notin BaseSteps
        PROVE  FALSE
    <3>1. StartPlace[b[1]] <= 8 /\ StartPlace[part[1]] > 8
          BY <1>5, <2>1, Places
    <3>2. b # part /\ Precedes(StartPlace, part, b)
          BY <1>1, <1>5, <2>1
    <3>3. /\ part[2] = 0
          BY <3>1, Places
    <3> QED BY <1>5, <3>1, <3>2, <3>3, Places DEF Precedes
  <2> QED BY <2>1 DEF BaseIsUp
<1>9. ASSUME NEW p \in started, BaseIsUp PROVE p \notin ApiSteps
  <2>1. part \notin BaseSteps
        BY <1>1, <1>9 DEF BaseIsUp
  <2>2. StartPlace[part[1]] \in 9..14
        BY <1>6, <2>1, Places
  <2>3. p \in ApiSteps => StartPlace[p[1]] >= 15
        BY <1>2, Places
  <2> QED BY <1>2, <1>4, <1>7, <2>2, <2>3, Places
<1>10. ASSUME NEW p \in started, ~BaseIsUp
       PROVE  StartPlace[p[1]] <= 6
  <2>1. StartPlace[part[1]] <= 7
        BY <1>6, <1>8, <1>10, Places
  <2>2. StartPlace[p[1]] <= 7
        BY <1>2, <1>4, <1>7, <2>1, Places
  <2>3. StartPlace[p[1]] # 7
    <3>1. SUFFICES ASSUME StartPlace[p[1]] = 7
                   PROVE  FALSE
          BY <2>2
    <3>2. StartPlace[part[1]] = 7
          BY <1>2, <1>4, <1>7, <2>1, <3>1, Places
    <3>3. p = part
          BY <1>2, <3>1, <3>2, Places
    <3> QED BY <1>1, <3>3
  <2> QED BY <1>2, <2>2, <2>3, Places
<1>11. ~BaseIsUp => started \subseteq
                      SharedParts({"database", "routes", "bus"})
                      \cup FleetParts({"adapter", "heartbeat", "monitor"})
      BY <1>2, <1>10, Places
<1>12. StartPlace[Bus[1]] = 3
      BY <1>5, Places
<1>13. Bus \in started \/ part \in {Store, Shared("routes")}
  <2>1. SUFFICES ASSUME Bus \notin started
                 PROVE  part \in {Store, Shared("routes")}
        OBVIOUS
  <2>2. part # Bus
        BY DEF Raising, Bus, Shared
  <2>3. Precedes(StartPlace, part, Bus)
        BY <1>1, <1>5, <2>1, <2>2
  <2>4. Bus[2] = 0
        BY DEF Bus, Shared
  <2>5. StartPlace[part[1]] < 3
        BY <1>12, <2>3, <2>4 DEF Precedes
  <2> QED BY <2>5, Places
<1>14. Shared("stand") \in started => BaseIsUp
  <2>1. ASSUME Shared("stand") \in started, ~BaseIsUp PROVE FALSE
    <3>1. StartPlace[Shared("stand")[1]] = 8
          BY DEF Shared, StartPlace
    <3>2. StartPlace[Shared("stand")[1]] <= 6
          BY <1>10, <2>1
    <3> QED BY <3>1, <3>2
  <2> QED BY <2>1
<1>15. ASSUME NEW p \in started, StartPlace[p[1]] > 3 PROVE Bus \in started
  <2>1. Precedes(StartPlace, Bus, p)
        BY <1>2, <1>5, <1>7, <1>12, <1>15
  <2> QED BY <1>2, <1>3, <1>5, <2>1
<1> QED BY <1>8, <1>9, <1>11, <1>13, <1>14, <1>15

\* A part that runs is stopped by the rollback, or has no stop.
LEMMA RollbackCovers ==
  ASSUME IndInv, NEW part \in StartSteps, Upcoming(part), part[1] \in Raising
  PROVE  /\ up \subseteq RollbackSteps \cup {Shared("speaker")}
         /\ Bus \in RollbackSteps => Bus \in up
         /\ \A p \in RollbackSteps : p # Store => Bus \in RollbackSteps
<1>1. up = started \cap Parts /\ started \subseteq StartSteps
      BY DEF IndInv, UpIsStarted, ComingUp, RunsOnWhatRuns, TypeOK, Upcoming
<1>2. /\ Bus \in Parts /\ Bus \in BaseSteps /\ Bus \in BaseStops
      /\ Bus \in SharedParts({"database", "bus"}) /\ Bus \notin PlatformStops
      BY DEF Bus, Shared, Parts, BaseSteps, BaseStops, SharedParts,
             PlatformStops, FleetParts
<1>3. CASE BaseIsUp
  <2>1. RollbackSteps = AppRollback \cup BaseStops
        BY <1>3 DEF RollbackSteps
  <2>2. Bus \in started
        BY <1>2, <1>3 DEF BaseIsUp
  <2>3. \A p \in StartSteps \cap Parts :
          p \in AppStops \cup BaseStops \cup {Shared("speaker")}
                \cup ApiSteps
    <3>1. BaseSteps \cap Parts \subseteq BaseStops
          BY DEF BaseSteps, BaseStops, PlatformStops, Parts, SharedParts,
                 FleetParts
    <3>2. AppSteps \cap Parts \subseteq AppStops \cup {Shared("speaker")}
          BY DEF AppSteps, AppStops, Parts, SharedParts, FleetParts, Shared
    <3> QED BY <3>1, <3>2 DEF StartSteps
  <2>4. up \subseteq AppRollback \cup BaseStops \cup {Shared("speaker")}
        BY <1>1, <1>3, <2>3, StartedBefore DEF AppRollback
  <2> QED BY <1>1, <1>2, <2>1, <2>2, <2>4
<1>4. CASE ~BaseIsUp
  <2>1. RollbackSteps = BaseRollback
        BY <1>4 DEF RollbackSteps
  <2>2. started \subseteq SharedParts({"database", "routes", "bus"})
                          \cup FleetParts({"adapter", "heartbeat", "monitor"})
        BY <1>4, StartedBefore
  <2>3. up \subseteq SharedParts({"database", "bus"})
                     \cup FleetParts({"heartbeat", "monitor"})
        BY <1>1, <2>2 DEF Parts, SharedParts, FleetParts
  <2>4. \A p \in started \cap FleetParts({"heartbeat", "monitor"}) :
          Bus \in started
    <3>1. \A p \in FleetParts({"heartbeat", "monitor"}) :
            StartPlace[p[1]] > 3
          BY DEF FleetParts, StartPlace
    <3> QED BY <3>1, StartedBefore
  <2>5. /\ FleetParts({"heartbeat", "monitor"}) \subseteq PlatformStops
        /\ ~registered => PlatformStops = FleetParts({"heartbeat", "monitor"})
        BY DEF PlatformStops
  <2>6. \A p \in SharedParts({"database", "bus"}) : p = Store \/ p = Bus
        BY DEF SharedParts, Store, Bus, Shared
  <2>7. CASE registered
    <3>1. CASE Bus \in started
      <4>1. RollbackSteps = (started \cap SharedParts({"database", "bus"}))
                            \cup PlatformStops
            BY <2>1, <2>7, <3>1 DEF BaseRollback, Bus
      <4>2. Bus \in RollbackSteps /\ Bus \in up
            BY <1>1, <1>2, <3>1, <4>1
      <4> QED BY <1>1, <2>3, <2>5, <4>1, <4>2
    <3>2. CASE Bus \notin started
      <4>1. RollbackSteps = started \cap SharedParts({"database", "bus"})
            BY <2>1, <2>7, <3>2 DEF BaseRollback, Bus
      <4>2. Bus \notin RollbackSteps
            BY <3>2, <4>1
      <4> QED BY <1>1, <2>3, <2>4, <2>6, <3>2, <4>1, <4>2
    <3> QED BY <3>1, <3>2
  <2>8. CASE ~registered
        BY <1>1, <1>2, <2>1, <2>3, <2>4, <2>5, <2>6, <2>8 DEF BaseRollback
  <2> QED BY <2>7, <2>8
<1> QED BY <1>3, <1>4

LEMMA StartRaisesStep ==
  ASSUME IndInv, TypeOK', StartRaises
  PROVE  IndInv'
<1>1. PICK part \in StartSteps :
        /\ Upcoming(part) /\ part[1] \in Raising
        /\ raised' = part
        /\ \/ part = Store /\ up' = up \cup {Store}
           \/ up' = up
      BY DEF StartRaises, DatabaseUsed, Store
<1>2. /\ phase = "starting" /\ phase' = "stopping"
      /\ todo' = RollbackSteps
      /\ UNCHANGED <<app, registered, started, posture, queue, calls, clients,
                     leftUp>>
      BY <1>1 DEF StartRaises, Upcoming, busVars
<1>3. leftUp = {} /\ up = started \cap Parts
      BY <1>2 DEF IndInv, UpIsStarted, ComingUp
<1>4. /\ up \subseteq todo' \cup {Shared("speaker")}
      /\ Bus \in todo' => Bus \in up
      /\ \A p \in todo' : p # Store => Bus \in todo'
      BY <1>1, <1>2, RollbackCovers
<1>5. /\ Fleet' = Fleet /\ StartSteps' = StartSteps
      /\ \A p : RestsOn(p)' = RestsOn(p)
      BY <1>2, Rigid
<1>6. RunsOnWhatRuns'
  <2>1. RestsOn(Store) = {}
        BY DEF RestsOn, Store, Shared
  <2>2. \A p \in up' : RestsOn(p) \subseteq up'
        BY <1>1, <1>3, <2>1 DEF IndInv, RunsOnWhatRuns
  <2> QED BY <1>5, <2>2 DEF RunsOnWhatRuns
<1>7. StartsInOrder'
  <2>1. StartPlace' = StartPlace
        BY DEF StartPlace
  <2>2. \A p, q : Precedes(StartPlace, q, p)' = Precedes(StartPlace, q, p)
        BY <2>1 DEF Precedes
  <2> QED BY <1>2, <1>5, <2>2 DEF IndInv, StartsInOrder
<1>8. UpIsStarted'
      BY <1>2 DEF UpIsStarted, ComingUp
<1>9. UpIsDue'
      BY <1>1, <1>2, <1>3, <1>4 DEF UpIsDue, StrayStore, Store, Shared
<1>10. BusOutlasts'
  <2>1. calls # {} => Bus \in up
        BY DEF IndInv, BusOutlasts
  <2> QED BY <1>1, <1>2, <1>4, <2>1 DEF BusOutlasts, Bus, Store, Shared
<1>11. EventsHaveABus'
  <2>1. SUFFICES ASSUME queue # <<>>
                 PROVE  Bus \in up
        BY <1>1, <1>2 DEF EventsHaveABus, Bus, Shared
  <2>2. Bus \in up \/ Shared("routes") \in started
        BY <1>2, <1>3, <2>1 DEF IndInv, EventsHaveABus
  <2>3. Bus \in started \/ part \in {Store, Shared("routes")}
        BY <1>1, StartedBefore
  <2>4. Bus \in Parts
        BY DEF Bus, Parts, Shared, SharedParts
  <2>5. ASSUME Shared("routes") \in started PROVE Store \in started
    <3>1. Precedes(StartPlace, Store, Shared("routes"))
          BY DEF Precedes, Store, Shared, StartPlace
    <3>2. Store \in StartSteps
          BY DEF Store, Shared, StartSteps, BaseSteps, SharedParts
    <3> QED BY <2>5, <3>1, <3>2 DEF IndInv, StartsInOrder
  <2>6. part \notin started
        BY <1>1 DEF Upcoming, IsFirst
  <2> QED BY <1>3, <2>2, <2>3, <2>4, <2>5, <2>6
<1>12. ClientsHaveABroker'
  <2>1. clients = {}
    <3>1. Broker \notin todo
          BY <1>2 DEF IndInv, UpIsStarted, ComingUp
    <3> QED BY <1>2, <3>1 DEF IndInv, ClientsHaveABroker
  <2> QED BY <1>2, <2>1 DEF ClientsHaveABroker
<1>13. StandingIsDue'
  <2>1. ASSUME NEW r \in Fleet, registered, posture[r] = "standing"
        PROVE  <<"adapter", r>> \in todo'
    <3>1. Shared("stand") \in started
          BY <1>2, <1>3, <2>1 DEF IndInv, StandingIsDue, UpIsStarted, ComingUp
    <3>2. BaseIsUp
          BY <1>1, <3>1, StartedBefore
    <3>3. <<"adapter", r>> \in BaseStops
          BY <2>1 DEF BaseStops, PlatformStops, FleetParts
    <3> QED BY <1>2, <3>2, <3>3 DEF RollbackSteps
  <2> QED BY <1>2, <1>5, <2>1 DEF StandingIsDue
<1> QED BY <1>2, <1>6, <1>7, <1>8, <1>9, <1>10, <1>11, <1>12, <1>13
        DEF IndInv

-----------------------------------------------------------------------------
(* While the bus delivers and the parts work.                              *)

\* What does not depend on the bus, the clients and the open database.
LEMMA Bystanders ==
  ASSUME IndInv, UNCHANGED <<bootVars, phase, posture>>
  PROVE  StartsInOrder' /\ (ComingUp' <=> ComingUp)
<1>1. StartSteps' = StartSteps /\ StartPlace' = StartPlace
      BY Rigid DEF bootVars, StartPlace
<1>2. \A p, q : Precedes(StartPlace, q, p)' = Precedes(StartPlace, q, p)
      BY <1>1 DEF Precedes
<1> QED BY <1>1, <1>2 DEF IndInv, StartsInOrder, bootVars, ComingUp

\* Who opens the database finds it open, unless a stop raised.
LEMMA StoreIsOpen ==
  ASSUME IndInv, Worked
  PROVE  up' = up \/ (up' = up \cup {Store} /\ leftUp # {})
<1>1. SUFFICES ASSUME leftUp = {}, up' = up \cup {Store}
               PROVE  Store \in up
      BY DEF Worked
<1>2. \A p \in up : RestsOn(p) \subseteq up
      BY <1>1 DEF IndInv, RunsOnWhatRuns
<1>3. CASE calls # {}
  <2>1. Bus \in up /\ Store \in RestsOn(Bus)
        BY <1>3 DEF IndInv, BusOutlasts, RestsOn, Bus, Store, Shared
  <2> QED BY <1>2, <2>1
<1>4. ASSUME NEW p \in up,
             p[1] \in {"monitor", "dispatcher", "scheduler", "watchdog"}
      PROVE  Store \in up
  <2>1. Store \in RestsOn(p)
        BY <1>4 DEF RestsOn, SharedParts, Store, Shared
  <2> QED BY <1>2, <1>4, <2>1
<1>5. CASE UNCHANGED up
      BY <1>1, <1>5
<1> QED BY <1>3, <1>4, <1>5 DEF Worked

LEMMA WorkedStep ==
  ASSUME IndInv, TypeOK', Worked
  PROVE  IndInv'
<1>1. /\ UNCHANGED <<app, registered, started, raised, phase, todo, posture,
                     leftUp>>
      /\ clients' \subseteq clients
      BY DEF Worked, bootVars
<1>2. up' = up \/ (up' = up \cup {Store} /\ leftUp # {})
      BY StoreIsOpen
<1>3. /\ Fleet' = Fleet /\ Parts' = Parts /\ \A p : RestsOn(p)' = RestsOn(p)
      BY <1>1, Rigid
<1>4. RunsOnWhatRuns'
  <2>1. RestsOn(Store) = {}
        BY DEF RestsOn, Store, Shared
  <2>2. \A p \in up' \ leftUp : RestsOn(p) \subseteq up'
        BY <1>2, <2>1 DEF IndInv, RunsOnWhatRuns
  <2> QED BY <1>1, <1>3, <2>2 DEF RunsOnWhatRuns
<1>5. StartsInOrder' /\ (ComingUp' <=> ComingUp)
      BY <1>1, Bystanders DEF Worked
<1>6. UpIsStarted'
      BY <1>1, <1>2, <1>3, <1>5 DEF IndInv, UpIsStarted
<1>7. UpIsDue'
      BY <1>1, <1>2, <1>5
         DEF IndInv, UpIsDue, StrayStore, Store, Shared
<1>8. BusOutlasts'
  <2>1. calls' # {} => Bus \in up
        BY DEF IndInv, BusOutlasts, Worked
  <2> QED BY <1>1, <1>2, <2>1 DEF IndInv, BusOutlasts, Bus, Store, Shared
<1>9. EventsHaveABus'
  <2>1. queue' # <<>> => queue # <<>>
        BY DEF Worked
  <2> QED BY <1>1, <1>2, <2>1 DEF IndInv, EventsHaveABus, Bus, Shared
<1>10. ClientsHaveABroker'
      BY <1>1 DEF IndInv, ClientsHaveABroker, Broker, Shared
<1>11. StandingIsDue'
      BY <1>1, <1>3, <1>5 DEF IndInv, StandingIsDue, Shared
<1> QED BY <1>1, <1>4, <1>5, <1>6, <1>7, <1>8, <1>9, <1>10, <1>11 DEF IndInv

LEMMA AnnouncedStep ==
  ASSUME IndInv, TypeOK', Announced
  PROVE  IndInv'
<1>1. UNCHANGED <<app, registered, started, raised, phase, todo, up, posture,
                  calls, clients, leftUp>>
      BY DEF Announced, bootVars
<1>2. /\ Fleet' = Fleet /\ Parts' = Parts /\ \A p : RestsOn(p)' = RestsOn(p)
      BY <1>1, Rigid
<1>3. RunsOnWhatRuns'
      BY <1>1, <1>2 DEF IndInv, RunsOnWhatRuns
<1>4. StartsInOrder' /\ (ComingUp' <=> ComingUp)
      BY <1>1, Bystanders DEF Announced
<1>5. Bus \in up \/ leftUp # {}
  <2>1. CASE phase = "serving"
    <3>1. started = StartSteps /\ up = started \cap Parts
          BY <2>1 DEF IndInv, StartsInOrder, UpIsStarted, ComingUp
    <3>2. Bus \in StartSteps \cap Parts
          BY DEF Bus, Shared, StartSteps, BaseSteps, Parts, SharedParts
    <3> QED BY <3>1, <3>2
  <2>2. ASSUME NEW p \in up, p[1] \in {"monitor", "watchdog"}, leftUp = {}
        PROVE  Bus \in up
    <3>1. Bus \in RestsOn(p)
          BY <2>2 DEF RestsOn, SharedParts, Bus, Shared
    <3> QED BY <2>2, <3>1 DEF IndInv, RunsOnWhatRuns
  <2> QED BY <2>1, <2>2 DEF Announced
<1>6. /\ UpIsStarted' /\ UpIsDue' /\ BusOutlasts'
      BY <1>1, <1>2, <1>4 DEF IndInv, UpIsStarted, UpIsDue, StrayStore,
                              BusOutlasts, Bus, Store, Shared
<1>7. EventsHaveABus' /\ ClientsHaveABroker'
      BY <1>1, <1>5 DEF IndInv, EventsHaveABus, ClientsHaveABroker, Bus,
                        Broker, Shared
<1>8. StandingIsDue'
      BY <1>1, <1>2, <1>4 DEF IndInv, StandingIsDue, Shared
<1> QED BY <1>1, <1>3, <1>4, <1>6, <1>7, <1>8 DEF IndInv

LEMMA ConnectedStep ==
  ASSUME IndInv, TypeOK', Connected
  PROVE  IndInv'
<1>1. /\ UNCHANGED <<app, registered, started, raised, phase, todo, up,
                     posture, queue, calls, leftUp>>
      /\ phase = "serving"
      BY DEF Connected, bootVars, busVars
<1>2. /\ Fleet' = Fleet /\ Parts' = Parts /\ \A p : RestsOn(p)' = RestsOn(p)
      BY <1>1, Rigid
<1>3. RunsOnWhatRuns'
      BY <1>1, <1>2 DEF IndInv, RunsOnWhatRuns
<1>4. StartsInOrder' /\ (ComingUp' <=> ComingUp)
      BY <1>1, Bystanders DEF Connected
<1>5. /\ UpIsStarted' /\ UpIsDue' /\ BusOutlasts'
      BY <1>1, <1>2, <1>4 DEF IndInv, UpIsStarted, UpIsDue, StrayStore,
                              BusOutlasts, Bus, Store, Shared
<1>6. EventsHaveABus' /\ ClientsHaveABroker'
      BY <1>1 DEF IndInv, EventsHaveABus, ClientsHaveABroker, Bus, Shared
<1>7. StandingIsDue'
      BY <1>1, <1>2, <1>4 DEF IndInv, StandingIsDue, Shared
<1> QED BY <1>1, <1>3, <1>4, <1>5, <1>6, <1>7 DEF IndInv

LEMMA ServeStep ==
  ASSUME IndInv, TypeOK', Serve
  PROVE  IndInv'
<1>1. /\ UNCHANGED <<app, registered, started, raised, todo, up, posture,
                     queue, calls, clients, leftUp>>
      /\ phase = "starting" /\ phase' = "serving" /\ started = StartSteps
      BY DEF Serve, bootVars, busVars
<1>2. /\ Fleet' = Fleet /\ Parts' = Parts /\ \A p : RestsOn(p)' = RestsOn(p)
      /\ StartSteps' = StartSteps /\ StartPlace' = StartPlace
      BY <1>1, Rigid DEF StartPlace
<1>3. RunsOnWhatRuns'
      BY <1>1, <1>2 DEF IndInv, RunsOnWhatRuns
<1>4. StartsInOrder'
  <2>1. \A p, q : Precedes(StartPlace, q, p)' = Precedes(StartPlace, q, p)
        BY <1>2 DEF Precedes
  <2> QED BY <1>1, <1>2, <2>1 DEF IndInv, StartsInOrder
<1>5. /\ UpIsStarted' /\ UpIsDue' /\ BusOutlasts'
      BY <1>1, <1>2 DEF IndInv, UpIsStarted, UpIsDue, StrayStore, ComingUp,
                        BusOutlasts, Bus, Store, Shared
<1>6. EventsHaveABus'
  <2>1. Bus \in up
    <3>1. Bus \in StartSteps \cap Parts
          BY DEF Bus, Shared, StartSteps, BaseSteps, Parts, SharedParts
    <3> QED BY <1>1, <3>1 DEF IndInv, UpIsStarted, ComingUp
  <2> QED BY <1>1, <2>1 DEF EventsHaveABus, Bus, Shared
<1>7. ClientsHaveABroker'
      BY <1>1 DEF ClientsHaveABroker
<1>8. StandingIsDue'
      BY <1>1, <1>2 DEF IndInv, StandingIsDue, ComingUp, Shared
<1> QED BY <1>1, <1>3, <1>4, <1>5, <1>6, <1>7, <1>8 DEF IndInv

-----------------------------------------------------------------------------
(* Going down.                                                             *)

\* The steps of the startup are a thing of the past.
LEMMA StartIsPast ==
  ASSUME IndInv, UNCHANGED <<app, registered, started>>, phase' # "serving"
  PROVE  StartsInOrder'
<1>1. StartSteps' = StartSteps /\ StartPlace' = StartPlace
      BY Rigid DEF StartPlace
<1>2. \A p, q : Precedes(StartPlace, q, p)' = Precedes(StartPlace, q, p)
      BY <1>1 DEF Precedes
<1> QED BY <1>1, <1>2 DEF IndInv, StartsInOrder

LEMMA ShutDownStep ==
  ASSUME IndInv, TypeOK', ShutDown
  PROVE  IndInv'
<1>1. /\ UNCHANGED <<app, registered, started, raised, up, posture, queue,
                     calls, clients, leftUp>>
      /\ phase = "serving" /\ phase' = "stopping"
      /\ todo' = ApiStops \cup AppStops \cup BaseStops
      BY DEF ShutDown, bootVars, busVars
<1>2. /\ Fleet' = Fleet /\ \A p : RestsOn(p)' = RestsOn(p)
      BY <1>1, Rigid
<1>3. up = StartSteps \cap Parts /\ leftUp = {}
      BY <1>1 DEF IndInv, UpIsStarted, StartsInOrder, ComingUp
<1>4. RunsOnWhatRuns'
      BY <1>1, <1>2 DEF IndInv, RunsOnWhatRuns
<1>5. StartsInOrder' /\ UpIsStarted'
      BY <1>1, StartIsPast DEF UpIsStarted, ComingUp
<1>6. up \subseteq todo' \cup {Shared("speaker")}
  <2>1. BaseSteps \cap Parts \subseteq BaseStops
        BY DEF BaseSteps, BaseStops, PlatformStops, Parts, SharedParts,
               FleetParts
  <2>2. AppSteps \cap Parts \subseteq AppStops \cup {Shared("speaker")}
        BY DEF AppSteps, AppStops, Parts, SharedParts, FleetParts, Shared
  <2> QED BY <1>1, <1>3, <2>1, <2>2 DEF StartSteps, ApiStops
<1>7. Bus \in up /\ Bus \in todo' /\ Broker \in todo'
      BY <1>1, <1>3
         DEF Bus, Broker, Shared, StartSteps, BaseSteps, BaseStops, ApiStops,
             ApiSteps, Parts, SharedParts
<1>8. UpIsDue' /\ BusOutlasts'
      BY <1>1, <1>3, <1>6, <1>7 DEF UpIsDue, BusOutlasts, Bus, Shared
<1>9. EventsHaveABus' /\ ClientsHaveABroker'
      BY <1>1, <1>7
         DEF EventsHaveABus, ClientsHaveABroker, Bus, Broker, Shared
<1>10. StandingIsDue'
  <2>1. registered => \A r \in Fleet : <<"adapter", r>> \in todo'
        BY <1>1 DEF BaseStops, PlatformStops, FleetParts
  <2> QED BY <1>1, <1>2, <2>1 DEF StandingIsDue
<1> QED BY <1>1, <1>4, <1>5, <1>8, <1>9, <1>10 DEF IndInv

\* The bus is the last to be stopped but for the database.
LEMMA BusIsAlmostLast ==
  ASSUME TypeOK, IsNext(Bus), NEW p \in todo, p # Bus
  PROVE  p = Store
<1>1. Precedes(StopPlace, Bus, p) /\ p \in Stops
      BY DEF IsNext, IsFirst, TypeOK
<1>2. StopPlace[p[1]] > 12
      BY <1>1 DEF Precedes, StopPlace, Bus, Shared
<1>3. CASE p \in FleetParts({"heartbeat", "monitor", "adapter"})
  <2>1. StopPlace[p[1]] <= 11
        BY <1>3 DEF StopPlace, FleetParts
  <2> QED BY <1>2, <2>1, <1>3 DEF StopPlace, FleetParts
<1>4. CASE p \in SharedParts({"bus", "detector", "dispatcher",
               "battery_manager", "watchdog", "scheduler", "broker",
               "alert_router", "alert_manager"})
  <2>1. StopPlace[p[1]] \in 1..12
        BY <1>4 DEF StopPlace, SharedParts
  <2> QED BY <1>2, <2>1
<1>5. CASE p \in SharedParts({"database"})
      BY <1>5 DEF SharedParts, Shared, Store
<1> QED BY <1>1, <1>3, <1>4, <1>5
        DEF Stops, Parts, SharedParts, FleetParts, Shared

LEMMA StoppedStep ==
  ASSUME IndInv, TypeOK', NEW part \in todo, Stopped(part)
  PROVE  IndInv'
<1>1. /\ UNCHANGED <<app, registered, started, raised, phase, calls, leftUp>>
      /\ IsNext(part) /\ phase = "stopping"
      /\ todo' = todo \ {part} /\ up' = up \ {part}
      /\ part = Bus => BusIsIdle
      BY DEF Stopped, bootVars, IsNext
<1>2. /\ Fleet' = Fleet /\ \A p : RestsOn(p)' = RestsOn(p)
      BY <1>1, Rigid
<1>3. up \subseteq todo \cup leftUp \cup {Shared("speaker")} \cup StrayStore
      BY <1>1 DEF IndInv, UpIsDue, ComingUp
<1>4. TypeOK /\ app \in {"logistics", "patrol"} /\ registered \in BOOLEAN
      BY DEF IndInv, RunsOnWhatRuns
<1>5. RunsOnWhatRuns'
  <2>1. ASSUME NEW p \in up' \ leftUp
        PROVE  part \notin RestsOn(p)
    <3>1. CASE p \in todo
      <4>1. p \in Parts /\ p # part
            BY <1>1, <1>4, <2>1 DEF TypeOK
      <4> QED BY <1>1, <1>4, <3>1, <4>1, StopsKeepGrounds
    <3>2. CASE p \in {Shared("speaker"), Store}
          BY <3>2 DEF RestsOn, Store, Shared
    <3> QED BY <1>1, <1>3, <2>1, <3>1, <3>2 DEF StrayStore
  <2> QED BY <1>1, <1>2, <2>1 DEF IndInv, RunsOnWhatRuns
<1>6. StartsInOrder' /\ UpIsStarted'
      BY <1>1, StartIsPast DEF UpIsStarted, ComingUp
<1>7. UpIsDue'
      BY <1>1, <1>3 DEF IndInv, UpIsDue, StrayStore, ComingUp, Store, Shared
<1>8. BusOutlasts'
  <2>1. part = Bus => \A p \in todo' : p = Store
        BY <1>1, <1>4, BusIsAlmostLast
  <2>2. part = Bus => calls = {}
        BY <1>1 DEF BusIsIdle
  <2> QED BY <1>1, <2>1, <2>2 DEF IndInv, BusOutlasts, Bus, Store, Shared
<1>9. EventsHaveABus'
  <2>1. CASE part = Bus
    <3>1. queue' = <<>>
          BY <1>1, <2>1 DEF Stopped, BusIsIdle
    <3> QED BY <3>1 DEF EventsHaveABus
  <2>2. CASE part = Store
    <3>1. queue' = queue /\ Store # Bus
          BY <2>2 DEF Stopped, Store, Bus, Shared
    <3> QED BY <1>1, <2>2, <3>1 DEF IndInv, EventsHaveABus, Bus, Shared
  <2>3. CASE part \notin {Bus, Store}
    <3>1. Bus \in up'
          BY <1>1, <2>3 DEF IndInv, BusOutlasts
    <3> QED BY <3>1 DEF EventsHaveABus, Bus, Shared
  <2> QED BY <2>1, <2>2, <2>3
<1>10. ClientsHaveABroker'
  <2>1. clients' = IF part = Broker THEN {} ELSE clients
        BY DEF Stopped
  <2> QED BY <1>1, <2>1 DEF IndInv, ClientsHaveABroker, Broker, Shared
<1>11. StandingIsDue'
  <2>1. \A r \in Fleet : posture'[r] = "standing" =>
          posture[r] = "standing" /\ part # <<"adapter", r>>
        BY DEF Stopped
  <2> QED BY <1>1, <1>2, <2>1 DEF IndInv, StandingIsDue, ComingUp
<1> QED BY <1>1, <1>4, <1>5, <1>6, <1>7, <1>8, <1>9, <1>10, <1>11 DEF IndInv

LEMMA StopRaisesStep ==
  ASSUME IndInv, TypeOK', StopRaises
  PROVE  IndInv'
<1>1. PICK part \in todo :
        /\ IsNext(part) /\ part[1] \in Joining
        /\ leftUp' = leftUp \cup {part}
        /\ todo' = todo \ {part}
      BY DEF StopRaises
<1>2. /\ UNCHANGED <<app, registered, started, raised, phase, up, posture,
                     queue, calls, clients>>
      /\ phase = "stopping"
      BY <1>1 DEF StopRaises, bootVars, busVars, IsNext
<1>3. /\ Fleet' = Fleet /\ \A p : RestsOn(p)' = RestsOn(p)
      BY <1>2, Rigid
<1>4. part # Bus /\ part # Store /\ part # Broker
      BY <1>1 DEF Joining, Bus, Store, Broker, Shared
<1>5. RunsOnWhatRuns'
      BY <1>1, <1>2, <1>3 DEF IndInv, RunsOnWhatRuns
<1>6. StartsInOrder' /\ UpIsStarted'
      BY <1>2, StartIsPast DEF UpIsStarted, ComingUp
<1>7. UpIsDue'
      BY <1>1, <1>2 DEF IndInv, UpIsDue, StrayStore, ComingUp, Store, Shared
<1>8. BusOutlasts'
      BY <1>1, <1>2, <1>4 DEF IndInv, BusOutlasts, Bus, Store, Shared
<1>9. EventsHaveABus' /\ ClientsHaveABroker'
      BY <1>1, <1>2, <1>4
         DEF IndInv, EventsHaveABus, ClientsHaveABroker, Broker, Shared
<1>10. StandingIsDue'
      BY <1>1, <1>2, <1>3 DEF IndInv, StandingIsDue, ComingUp
<1> QED BY <1>2, <1>5, <1>6, <1>7, <1>8, <1>9, <1>10 DEF IndInv

LEMMA EndStep ==
  ASSUME IndInv, TypeOK', End
  PROVE  IndInv'
<1>1. /\ UNCHANGED <<app, registered, started, raised, todo, up, posture,
                     queue, calls, clients, leftUp>>
      /\ phase = "stopping" /\ phase' = "ended" /\ todo = {}
      BY DEF End, bootVars, busVars
<1>2. /\ Fleet' = Fleet /\ \A p : RestsOn(p)' = RestsOn(p)
      BY <1>1, Rigid
<1>3. RunsOnWhatRuns'
      BY <1>1, <1>2 DEF IndInv, RunsOnWhatRuns
<1>4. StartsInOrder' /\ UpIsStarted'
      BY <1>1, StartIsPast DEF UpIsStarted, ComingUp
<1>5. UpIsDue' /\ BusOutlasts'
      BY <1>1 DEF IndInv, UpIsDue, StrayStore, ComingUp, BusOutlasts, Bus,
                  Store, Shared
<1>6. EventsHaveABus' /\ ClientsHaveABroker'
      BY <1>1 DEF IndInv, EventsHaveABus, ClientsHaveABroker, Bus, Broker,
                  Shared
<1>7. StandingIsDue'
      BY <1>1, <1>2 DEF IndInv, StandingIsDue, ComingUp
<1> QED BY <1>1, <1>3, <1>4, <1>5, <1>6, <1>7 DEF IndInv

-----------------------------------------------------------------------------
(* What the process promises.                                              *)

LEMMA NextInv == IndInv /\ [Next]_vars => IndInv'
<1> SUFFICES ASSUME IndInv, [Next]_vars
             PROVE  IndInv'
    OBVIOUS
<1>1. TypeOK /\ app \in {"logistics", "patrol"} /\ registered \in BOOLEAN
      BY DEF IndInv, RunsOnWhatRuns
<1>2. TypeOK'
      BY <1>1, TypeStep
<1>3. CASE StartStep
      BY <1>1, <1>2, <1>3, StartKinds, StartedStep, StartRaisesStep, ServeStep
<1>4. CASE BusStep \/ Work
      BY <1>1, <1>2, <1>4, WorkKinds, WorkedStep, AnnouncedStep,
         ConnectedStep
<1>5. CASE ShutDown
      BY <1>2, <1>5, ShutDownStep
<1>6. CASE StopStep
      BY <1>1, <1>2, <1>6, StopKinds, StoppedStep, StopRaisesStep, EndStep
<1>7. CASE UNCHANGED vars
  <2>1. UNCHANGED <<app, registered, started, raised, phase, todo, up,
                    posture, queue, calls, clients, leftUp>>
        BY <1>7 DEF vars, bootVars, busVars
  <2>2. /\ Fleet' = Fleet /\ Parts' = Parts
        /\ \A p : RestsOn(p)' = RestsOn(p)
        BY <2>1, Rigid
  <2>3. RunsOnWhatRuns'
        BY <1>2, <2>1, <2>2 DEF IndInv, RunsOnWhatRuns
  <2>4. StartsInOrder' /\ (ComingUp' <=> ComingUp)
        BY <2>1, Bystanders DEF bootVars
  <2>5. UpIsStarted' /\ UpIsDue' /\ BusOutlasts'
        BY <2>1, <2>2, <2>4
           DEF IndInv, UpIsStarted, UpIsDue, StrayStore, BusOutlasts, Bus,
               Store, Shared
  <2>6. EventsHaveABus' /\ ClientsHaveABroker' /\ StandingIsDue'
        BY <2>1, <2>2, <2>4
           DEF IndInv, EventsHaveABus, ClientsHaveABroker, StandingIsDue,
               Bus, Broker, Shared
  <2> QED BY <2>1, <2>3, <2>4, <2>5, <2>6 DEF IndInv
<1> QED BY <1>3, <1>4, <1>5, <1>6, <1>7 DEF Next

LEMMA InvariantHolds == Spec => []IndInv
BY InitInv, NextInv, PTL DEF Spec

\* Whatever starts, stops and raises: every step that is done or due is one
\* of the configured application, and the bus never holds more than it has
\* room for.
THEOREM LifecycleTypes == Spec => []TypeOK
<1>1. IndInv => TypeOK
      BY DEF IndInv, RunsOnWhatRuns
<1> QED BY <1>1, InvariantHolds, PTL

\* base_startup, the startups of the applications, their rollbacks and their
\* shutdowns: nothing runs, at any moment, without what it uses.
THEOREM PartsRunOnWhatRuns == Spec => []RunsOnWhatRuns
<1>1. IndInv => RunsOnWhatRuns
      BY DEF IndInv
<1> QED BY <1>1, InvariantHolds, PTL

\* However the process ends, it leaves nothing that it could have stopped:
\* no part running, no client connected, no registered robot standing, and
\* no event in the bus.
THEOREM EndsClean == Spec => []NothingLeftBehind
<1>1. ASSUME IndInv PROVE NothingLeftBehind
  <2>1. SUFFICES ASSUME phase = "ended"
                 PROVE  /\ NothingRuns /\ RobotsArePassive
                        /\ leftUp = {} => queue = <<>>
        BY DEF NothingLeftBehind
  <2>2. /\ todo = {} /\ ~ComingUp
        /\ up \subseteq leftUp \cup {Shared("speaker")} \cup StrayStore
        BY <1>1, <2>1 DEF IndInv, UpIsDue, ComingUp
  <2>3. NothingRuns
        BY <1>1, <2>1, <2>2
           DEF IndInv, ClientsHaveABroker, NothingRuns, StrayStore, Store
  <2>4. RobotsArePassive
        BY <1>1, <2>2 DEF IndInv, StandingIsDue, RobotsArePassive
  <2>5. leftUp = {} => Bus \notin up
        BY <2>2 DEF StrayStore, Store, Bus, Shared
  <2>6. leftUp = {} => queue = <<>>
        BY <1>1, <2>1, <2>5 DEF IndInv, EventsHaveABus
  <2> QED BY <2>3, <2>4, <2>6
<1> QED BY <1>1, InvariantHolds, PTL

=============================================================================
