---------------------------- MODULE MotionControl ----------------------------
(***************************************************************************)
(* How one robot is moved: the navigator writes a target velocity, the     *)
(* heartbeat loop sends it through the SDK adapter every few milliseconds, *)
(* and the operators' e-stop and release, the heartbeat's answer to the    *)
(* e-stop's event, the telemetry poll and the platform's startup and       *)
(* shutdown use the same adapter.                                          *)
(*                                                                         *)
(* An adapter command checks the adapter's mode, hands the vendor call to  *)
(* a worker thread and awaits it, then sets the mode.  Threads carry the   *)
(* commands out, and coroutines resume, in any order, so a command is      *)
(* three steps here: issued, carried out, returned.  Each caller has at    *)
(* most one command under way.                                             *)
(*                                                                         *)
(* A velocity is "go" or "still"; diagnostics, clamping and the telemetry  *)
(* values themselves are left out.                                         *)
(***************************************************************************)

EXTENDS Naturals

CONSTANTS
  Faults,      \* the vendor calls that may fail ("check": connection lost)
  MaxEvents,   \* bound: e-stop events on the bus when one more is asked for
  NoCommand

\* The operators' requests: of one robot, or of the default robot.
EstopRequests   == {"robot_estop", "estop"}
ReleaseRequests == {"robot_estop_release", "estop_release"}
Operators       == EstopRequests \cup ReleaseRequests

Callers ==
  { "runtime",     \* startup and shutdown, one command at a time
    "heartbeat",   \* HeartbeatController._run_loop
    "handler",     \* HeartbeatController._handle_estop, called by the bus
    "monitor" }    \* StateMonitor: check_connection of each poll
  \cup Operators

Operations == {"initRobot", "passive", "standUp", "move", "check"}

Modes == { "disconnected", "connected", "passive", "standing", "moving",
           "error" }

Commands ==
  [op : Operations, velocity : {"go", "still"},
   outcome : {"pending", "ok", "failed"}]

ASSUME ConstantsAssumption ==
  /\ Faults \subseteq Operations
  /\ MaxEvents \in Nat
  /\ NoCommand \notin Commands

VARIABLES
  mode,     \* SDKAdapter._mode
  command,  \* the command each caller awaits
  target,   \* HeartbeatController._target_velocity
  driving,  \* a navigation is under way
  stage,    \* where startup and shutdown are
  app,      \* the platform that runs: "logistics" or "patrol"
  events,   \* estop.triggered events on the bus
  robot     \* the robot: "limp", "still" or "going"

vars == <<mode, command, target, driving, stage, app, events, robot>>

-----------------------------------------------------------------------------
(* Adapter commands *)

\* The mode check at the head of each adapter method.
Accepts(op) ==
  CASE op = "initRobot" -> mode \in {"disconnected", "error"}
    [] op = "passive"   -> mode # "disconnected"
    [] op = "standUp"   -> mode \in {"connected", "passive"}
    [] op = "move"      -> mode \in {"standing", "moving"}
    [] op = "check"     -> TRUE

Idle(c) == command[c] = NoCommand

Issue(c, op, velocity) ==
  /\ Idle(c)
  /\ Accepts(op)
  /\ command' = [command EXCEPT ![c] = [op |-> op, velocity |-> velocity,
                                        outcome |-> "pending"]]

\* What the robot does when a thread has carried out c's command: a robot
\* that lies limp walks only after it stood up.
RobotAfter(c) ==
  CASE command[c].op = "passive" -> "limp"
    [] command[c].op = "standUp" -> IF robot = "limp" THEN "still" ELSE robot
    [] command[c].op = "move" /\ robot # "limp" ->
         IF command[c].velocity = "go" THEN "going" ELSE "still"
    [] OTHER -> robot

\* The mode the method sets when its command has returned.
ModeAfter(c) ==
  LET ok == command[c].outcome = "ok" IN
  CASE command[c].op = "initRobot" /\ ok -> "connected"
    [] command[c].op = "passive"   /\ ok -> "passive"
    [] command[c].op = "standUp"   /\ ok -> "standing"
    [] command[c].op = "move"      /\ ok ->
         IF command[c].velocity = "go" THEN "moving" ELSE "standing"
    [] command[c].op = "check" /\ ~ok /\ mode # "disconnected" -> "error"
    [] OTHER -> mode

\* A worker thread runs the vendor call.
CarryOut(c) ==
  /\ ~Idle(c)
  /\ command[c].outcome = "pending"
  /\ \E outcome \in {"ok", "failed"} :
       /\ outcome = "failed" => command[c].op \in Faults
       /\ command' = [command EXCEPT ![c].outcome = outcome]
       /\ robot' = IF outcome = "ok" THEN RobotAfter(c) ELSE robot
  /\ UNCHANGED <<mode, target, driving, stage, app, events>>

\* c's coroutine resumes: the method sets the mode and returns.
Returned(c) ==
  /\ ~Idle(c)
  /\ command[c].outcome # "pending"
  /\ mode' = ModeAfter(c)
  /\ command' = [command EXCEPT ![c] = NoCommand]

Init ==
  /\ mode     = "disconnected"
  /\ command  = [c \in Callers |-> NoCommand]
  /\ target   = "still"
  /\ driving  = FALSE
  /\ stage    = "connect"
  /\ app \in {"logistics", "patrol"}
  /\ events   = 0
  /\ robot    = "limp"

-----------------------------------------------------------------------------
(* The runtime: startup and shutdown of the platform *)

HeartbeatRuns == stage \in {"autostand", "serving", "stopping", "quieting"}
MonitorRuns   == HeartbeatRuns \/ stage = "joining"

\* The next stage once the runtime's command of this stage is answered;
\* startup goes on without the robot when a command fails or is rejected.
StageAfter(ok) ==
  CASE stage = "connect"      -> IF ok THEN "passive" ELSE "autostand"
    [] stage = "passive"      -> "autostand"
    [] stage = "autostand"    -> "serving"
    [] stage = "quieting"     -> "joining"
    [] stage = "passivating"  -> "down"

CommandStages ==
  {"connect", "passive", "autostand", "quieting", "passivating"}

StageCommand ==
  CASE stage = "connect"   -> "initRobot"
    [] stage = "autostand" -> "standUp"
    [] stage = "quieting"  -> "move"
    [] OTHER               -> "passive"

\* connect (initRobot, then passive), stand_up after the heartbeat and the
\* monitor were started; stop_motion and passive on the way down.
RuntimeCommands ==
  /\ stage \in CommandStages
  /\ Issue("runtime", StageCommand, "still")
  /\ UNCHANGED <<mode, target, driving, stage, app, events, robot>>

RuntimeReturns ==
  /\ stage \in CommandStages
  /\ Returned("runtime")
  /\ stage' = StageAfter(command["runtime"].outcome = "ok")
  /\ UNCHANGED <<target, driving, app, events, robot>>

\* The adapter rejects the command at once; without auto_stand_on_startup or
\* without a connection no stand_up is asked for.
RuntimeSkips ==
  /\ stage \in CommandStages
  /\ Idle("runtime")
  /\ ~Accepts(StageCommand) \/ stage = "autostand"
  /\ stage' = StageAfter(FALSE)
  /\ UNCHANGED <<mode, command, target, driving, app, events, robot>>

\* Requests are drained and the dispatcher has stopped, so nothing navigates
\* (StoppedMeansStill of LogisticsDispatch).
BeginShutdown ==
  /\ stage = "serving"
  /\ ~driving /\ \A c \in Operators : Idle(c)
  /\ stage' = "stopping"
  /\ UNCHANGED <<mode, command, target, driving, app, events, robot>>

\* HeartbeatController.stop: clear the target, send one last zero move,
HeartbeatStops ==
  /\ stage = "stopping"
  /\ stage' = "quieting"
  /\ target' = "still"
  /\ UNCHANGED <<mode, command, driving, app, events, robot>>

\* (mutant: the loop's task is not awaited)
JoinWithoutLoop ==
  /\ stage = "joining"
  /\ stage' = "polling"
  /\ UNCHANGED <<mode, command, target, driving, app, events, robot>>

\* then set the stop event and await the loop,
HeartbeatJoined ==
  /\ stage = "joining"
  /\ Idle("heartbeat")
  /\ stage' = "polling"
  /\ UNCHANGED <<mode, command, target, driving, app, events, robot>>

\* and the monitor's loop in the same way, before the last passive.
MonitorJoined ==
  /\ stage = "polling"
  /\ Idle("monitor")
  /\ stage' = "passivating"
  /\ UNCHANGED <<mode, command, target, driving, app, events, robot>>

-----------------------------------------------------------------------------
(* Heartbeat, telemetry poll, navigator, operators *)

\* _send_once; a rejected move changes nothing.
HeartbeatSends ==
  /\ HeartbeatRuns
  /\ Issue("heartbeat", "move", target)
  /\ UNCHANGED <<mode, target, driving, stage, app, events, robot>>

HeartbeatReturns ==
  /\ Returned("heartbeat")
  /\ UNCHANGED <<target, driving, stage, app, events, robot>>

\* A poll begins with check_connection, the only call of it that changes the
\* adapter's mode.
MonitorPolls ==
  /\ MonitorRuns
  /\ Issue("monitor", "check", "still")
  /\ UNCHANGED <<mode, target, driving, stage, app, events, robot>>

MonitorReturns ==
  /\ Returned("monitor")
  /\ UNCHANGED <<target, driving, stage, app, events, robot>>

\* A navigation begins, while the dispatcher runs;
BeginNavigation ==
  /\ stage = "serving"
  /\ ~driving
  /\ driving' = TRUE
  /\ UNCHANGED <<mode, command, target, stage, app, events, robot>>

\* its control loop sets a velocity, and clears it at a waypoint, at an
\* obstacle or when it is cancelled;
Steer ==
  /\ driving
  /\ \E velocity \in {"go", "still"} : target' = velocity
  /\ UNCHANGED <<mode, command, driving, stage, app, events, robot>>

\* (mutant: the target velocity outlives the navigation)
LeaveTarget ==
  /\ driving
  /\ driving' = FALSE
  /\ UNCHANGED <<mode, command, target, stage, app, events, robot>>

\* however it ends, the finally clause clears the target.
EndNavigation ==
  /\ driving
  /\ driving' = FALSE
  /\ target' = "still"
  /\ UNCHANGED <<mode, command, stage, app, events, robot>>

\* The e-stop is the adapter's passive: the navigation goes on.  Either
\* request may come while the other one is under way.
Asks(c, op) ==
  /\ stage = "serving"
  /\ events < MaxEvents
  /\ Issue(c, op, "still")
  /\ UNCHANGED <<mode, target, driving, stage, app, events, robot>>

RequestRobotEstop   == Asks("robot_estop", "passive")

RequestEstop        == Asks("estop", "passive")

RequestRobotRelease == Asks("robot_estop_release", "standUp")

RequestRelease      == Asks("estop_release", "standUp")

\* The patrol's request publishes estop.triggered once the robot lies limp;
\* the logistics one raises an alert instead.
EstopReturns(c) ==
  /\ Returned(c)
  /\ events' = IF app = "patrol" /\ command[c].outcome = "ok"
               THEN events + 1 ELSE events
  /\ UNCHANGED <<target, driving, stage, app, robot>>

ReleaseReturns(c) ==
  /\ Returned(c)
  /\ UNCHANGED <<target, driving, stage, app, events, robot>>

\* An e-stop of another robot of the patrol: every heartbeat hears of it.
OtherRobotStopped ==
  /\ app = "patrol" /\ stage = "serving"
  /\ events < MaxEvents
  /\ events' = events + 1
  /\ UNCHANGED <<mode, command, target, driving, stage, app, robot>>

\* The bus calls the heartbeat's subscriber, one event at a time: it clears
\* the target and sends a zero move, if the adapter accepts one.
HandleEstop ==
  /\ events > 0 /\ Idle("handler")
  /\ events' = events - 1
  /\ target' = "still"
  /\ IF Accepts("move") THEN Issue("handler", "move", "still")
                        ELSE UNCHANGED command
  /\ UNCHANGED <<mode, driving, stage, app, robot>>

HandlerReturns ==
  /\ Returned("handler")
  /\ UNCHANGED <<target, driving, stage, app, events, robot>>

\* The heartbeat unsubscribes when its loop was joined; a call the bus had
\* prepared before is still made.
EstopUnheard ==
  /\ stage \in {"polling", "passivating", "down"}
  /\ events > 0 /\ Idle("handler")
  /\ events' = events - 1
  /\ UNCHANGED <<mode, command, target, driving, stage, app, robot>>

\* The vendor's firmware: the robot goes limp when no move reaches it for
\* three seconds, as when the adapter rejects them or nobody sends any.
Damp ==
  /\ robot # "limp"
  /\ ~HeartbeatRuns \/ mode \notin {"standing", "moving"}
  /\ \A c \in Callers : ~Idle(c) => command[c].op # "move"
  /\ robot' = "limp"
  /\ UNCHANGED <<mode, command, target, driving, stage, app, events>>

-----------------------------------------------------------------------------

RuntimeStep ==
  \/ RuntimeCommands \/ RuntimeReturns \/ RuntimeSkips
  \/ HeartbeatStops  \/ HeartbeatJoined \/ MonitorJoined

OperatorStep ==
  \/ RequestRobotEstop \/ RequestEstop
  \/ RequestRobotRelease \/ RequestRelease
  \/ \E c \in EstopRequests : EstopReturns(c)
  \/ \E c \in ReleaseRequests : ReleaseReturns(c)

EventStep ==
  OtherRobotStopped \/ HandleEstop \/ HandlerReturns \/ EstopUnheard

Next ==
  \/ RuntimeStep
  \/ BeginShutdown
  \/ HeartbeatSends \/ HeartbeatReturns
  \/ MonitorPolls   \/ MonitorReturns
  \/ BeginNavigation \/ Steer \/ EndNavigation
  \/ OperatorStep
  \/ EventStep
  \/ \E c \in Callers : CarryOut(c)
  \/ Damp

Spec == Init /\ [][Next]_vars

\* The loop resumes ready coroutines, the vendor's calls return, and the
\* firmware's timer expires.
Fairness ==
  /\ WF_vars(RuntimeStep)
  /\ WF_vars(HeartbeatSends) /\ WF_vars(HeartbeatReturns)
  /\ WF_vars(MonitorReturns)
  /\ WF_vars(HandlerReturns)
  /\ \A c \in EstopRequests : WF_vars(EstopReturns(c))
  /\ \A c \in ReleaseRequests : WF_vars(ReleaseReturns(c))
  /\ \A c \in Callers : WF_vars(CarryOut(c))
  /\ WF_vars(Damp)

FairSpec == Spec /\ Fairness

-----------------------------------------------------------------------------
(* Properties *)

CommandOf(c) ==
  CASE c = "runtime" -> IF stage \in CommandStages
                        THEN {StageCommand} ELSE {}
    [] c = "heartbeat" -> {"move"}
    [] c = "handler"   -> {"move"}
    [] c = "monitor"   -> {"check"}
    [] c \in EstopRequests   -> {"passive"}
    [] c \in ReleaseRequests -> {"standUp"}

\* Every variable keeps its type, and every caller awaits only its own kind
\* of command: the runtime the one of its present stage, so no answer is
\* taken for another step's.
TypeOK ==
  /\ mode \in Modes
  /\ command \in [Callers -> Commands \cup {NoCommand}]
  /\ \A c \in Callers : ~Idle(c) => command[c].op \in CommandOf(c)
  /\ target \in {"go", "still"}
  /\ driving \in BOOLEAN
  /\ stage \in { "connect", "passive", "autostand", "serving", "stopping",
                 "quieting", "joining", "polling", "passivating", "down" }
  /\ app \in {"logistics", "patrol"}
  /\ events \in Nat
  /\ robot \in {"limp", "still", "going"}

\* Shutdown leaves nothing behind: once it returned no command is under way,
\* so none can reach the robot after the last passive, and unless that last
\* call failed the robot lies limp and the adapter knows it.  Only the answer
\* to a patrol's e-stop may be late: it moves no robot, but its zero move may
\* leave "standing" in the adapter's mode.
\* (HeartbeatController.stop, _shutdown_registered_platforms)
ShutdownLeavesNothingUnderWay ==
  stage = "down" =>
    /\ \A c \in Callers \ {"handler"} : Idle(c)
    /\ "passive" \notin Faults => robot = "limp"
    /\ app = "logistics" =>
         /\ Idle("handler")
         /\ "passive" \notin Faults => mode \in {"passive", "disconnected"}

\* When no navigation is under way the robot does not keep walking, whatever
\* the races of heartbeat, e-stop, release and lost connection: zero moves or
\* the firmware's timer stop it.
RobotHalts == (robot = "going" /\ ~driving) ~> (robot # "going" \/ driving)

=============================================================================
