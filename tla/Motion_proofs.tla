---------------------------- MODULE Motion_proofs ----------------------------
(***************************************************************************)
(* What keeps the robots from moving when they must not: MotionControl,    *)
(* for every choice of the vendor calls that may fail, and ObstaclePolicy, *)
(* for any robots, routes, repeat limit and bus.                           *)
(*                                                                         *)
(* Of MotionControl, type correctness and the shutdown property.  The      *)
(* invariant says, stage by stage, whose commands may still be under way:  *)
(* each loop is joined before the next step of the shutdown begins, so the *)
(* last passive meets no other command than the answer to a patrol's       *)
(* e-stop, which leaves a limp robot limp.                                 *)
(***************************************************************************)
EXTENDS MotionControl, ObstaclePolicy, TLAPS

USE DEF Operators, EstopRequests, ReleaseRequests

\* Operators and navigations act only while the system serves.
ServedOnly ==
  stage # "serving" => ~driving /\ \A c \in Operators : Idle(c)

\* The loops are joined one after the other.
LoopsJoined ==
  /\ stage \in {"polling", "passivating", "down"} => Idle("heartbeat")
  /\ stage \in {"passivating", "down"} => Idle("monitor")

\* Only a call that may fail fails.
FailuresExpected ==
  \A c \in Callers :
    ~Idle(c) /\ command[c].outcome = "failed" => command[c].op \in Faults

\* A robot the adapter never reached lies limp, and is not standing up.
LimpWhileDisconnected ==
  mode = "disconnected" =>
    /\ robot = "limp"
    /\ \A c \in Callers : ~Idle(c) => command[c].op # "standUp"

\* No e-stop event is published in logistics.
NoEventsInLogistics == app = "logistics" => events = 0 /\ Idle("handler")

\* The last passive, once carried out, is the last command that moves the
\* robot.
LastPassive ==
  /\ /\ stage = "passivating"
     /\ ~Idle("runtime")
     /\ command["runtime"].outcome = "ok"
     => robot = "limp"
  /\ stage = "down" /\ "passive" \notin Faults =>
       /\ robot = "limp"
       /\ app = "logistics" => mode \in {"passive", "disconnected"}

IndInv ==
  /\ TypeOK
  /\ ServedOnly
  /\ LoopsJoined
  /\ FailuresExpected
  /\ LimpWhileDisconnected
  /\ NoEventsInLogistics
  /\ LastPassive

-----------------------------------------------------------------------------

LEMMA InitInv == ASSUME Init PROVE IndInv
<1> USE DEF Init, Idle
<1>1. \A c \in Callers : Idle(c)
      OBVIOUS
<1>2. TypeOK
      BY <1>1 DEF TypeOK, Modes
<1>3. ServedOnly /\ LoopsJoined
      BY <1>1 DEF ServedOnly, LoopsJoined, Callers
<1>4. /\ FailuresExpected /\ LimpWhileDisconnected
      /\ NoEventsInLogistics /\ LastPassive
      BY <1>1 DEF FailuresExpected, LimpWhileDisconnected,
                  NoEventsInLogistics, LastPassive, Callers
<1> QED BY <1>2, <1>3, <1>4 DEF IndInv

\* A caller issues a command of its kind while it may still issue any.
LEMMA IssueInv ==
  ASSUME IndInv, NEW c \in Callers, NEW op \in Operations,
         NEW velocity \in {"go", "still"},
         Issue(c, op, velocity), op \in CommandOf(c),
         c \in Operators => stage = "serving",
         c = "handler"   => app = "patrol",
         c = "heartbeat" => stage \notin {"polling", "passivating", "down"},
         c = "monitor"   => stage \notin {"passivating", "down"},
         target' \in {"go", "still"}, events' \in Nat,
         app = "logistics" => events' = events,
         UNCHANGED <<mode, driving, stage, app, robot>>
  PROVE  IndInv'
<1> DEFINE new == [op |-> op, velocity |-> velocity, outcome |-> "pending"]
<1> USE ConstantsAssumption DEF IndInv
<1>1. new \in Commands /\ new # NoCommand
      BY DEF Commands
<1>2. command' = [command EXCEPT ![c] = new]
      BY DEF Issue
<1>3. command' \in [Callers -> Commands \cup {NoCommand}]
      BY <1>1, <1>2 DEF TypeOK
<1>4. command'[c] = new
      BY <1>2 DEF TypeOK
<1>5. \A d \in Callers : d # c => command'[d] = command[d]
      BY <1>2 DEF TypeOK
<1>6. stage = "down" => c # "runtime"
      BY DEF CommandOf, CommandStages
<1>7. TypeOK'
  <2>1. \A d \in Callers : CommandOf(d)' = CommandOf(d)
        BY DEF CommandOf, CommandStages, StageCommand
  <2>2. \A d \in Callers : (~Idle(d))' => command'[d].op \in CommandOf(d)'
        BY <2>1, <1>4, <1>5 DEF TypeOK, Idle
  <2> QED BY <1>3, <2>2 DEF TypeOK
<1>8. ServedOnly' /\ LoopsJoined'
      BY <1>5 DEF ServedOnly, LoopsJoined, Idle, Callers
<1>9. FailuresExpected'
      BY <1>4, <1>5 DEF FailuresExpected, Idle
<1>10. LimpWhileDisconnected'
  <2>1. mode = "disconnected" => op # "standUp"
        BY DEF Issue, Accepts
  <2> QED BY <2>1, <1>4, <1>5 DEF LimpWhileDisconnected, Idle
<1>11. NoEventsInLogistics'
      BY <1>5 DEF NoEventsInLogistics, Idle, Callers
<1>12. LastPassive'
      BY <1>4, <1>5, <1>6 DEF LastPassive, Idle, Callers
<1> QED BY <1>7, <1>8, <1>9, <1>10, <1>11, <1>12

LEMMA ModeAfterType ==
  ASSUME TypeOK, NEW c \in Callers
  PROVE  /\ ModeAfter(c) \in Modes
         /\ ModeAfter(c) = "disconnected" => mode = "disconnected"
BY DEF TypeOK, ModeAfter, Modes

\* An answer that does not move the runtime on.
LEMMA ReturnInv ==
  ASSUME IndInv, NEW c \in Callers, c # "runtime", Returned(c),
         events' \in Nat, app = "logistics" => events' = events,
         UNCHANGED <<target, driving, stage, app, robot>>
  PROVE  IndInv'
<1> USE DEF IndInv
<1>1. /\ command' \in [Callers -> Commands \cup {NoCommand}]
      /\ command'[c] = NoCommand
      /\ \A d \in Callers : d # c => command'[d] = command[d]
      BY DEF Returned, TypeOK
<1>2. mode' \in Modes /\ (mode' = "disconnected" => mode = "disconnected")
      BY ModeAfterType DEF Returned
<1>3. TypeOK'
  <2>1. \A d \in Callers : CommandOf(d)' = CommandOf(d)
        BY DEF CommandOf, CommandStages, StageCommand
  <2>2. \A d \in Callers : (~Idle(d))' => command'[d].op \in CommandOf(d)'
        BY <2>1, <1>1 DEF TypeOK, Idle
  <2> QED BY <1>1, <1>2, <2>2 DEF TypeOK
<1>4. ServedOnly' /\ LoopsJoined' /\ FailuresExpected'
      BY <1>1 DEF ServedOnly, LoopsJoined, FailuresExpected, Idle, Callers
<1>5. LimpWhileDisconnected'
      BY <1>1, <1>2 DEF LimpWhileDisconnected, Idle
<1>6. NoEventsInLogistics'
      BY <1>1 DEF NoEventsInLogistics, Idle, Callers
<1>7. LastPassive'
  <2>1. stage = "down" => c = "handler"
        BY DEF Returned, ServedOnly, LoopsJoined, Callers
  <2>2. c = "handler" => app # "logistics"
        BY DEF Returned, NoEventsInLogistics
  <2> QED BY <2>1, <2>2, <1>1 DEF LastPassive, Idle, Callers
<1> QED BY <1>3, <1>4, <1>5, <1>6, <1>7

\* The vendor call reaches the robot, or fails.
LEMMA CarryOutInv ==
  ASSUME IndInv, NEW c \in Callers, CarryOut(c) PROVE IndInv'
<1> USE ConstantsAssumption DEF IndInv
<1>1. PICK outcome \in {"ok", "failed"} :
        /\ outcome = "failed" => command[c].op \in Faults
        /\ command' = [command EXCEPT ![c].outcome = outcome]
        /\ robot' = IF outcome = "ok" THEN RobotAfter(c) ELSE robot
      BY DEF CarryOut
<1>2. command[c] \in Commands /\ command[c] # NoCommand
      BY DEF CarryOut, TypeOK, Idle
<1>3. /\ command'[c] = [command[c] EXCEPT !.outcome = outcome]
      /\ command'[c] \in Commands
      /\ command'[c].op = command[c].op /\ command'[c].outcome = outcome
      /\ \A d \in Callers : d # c => command'[d] = command[d]
      /\ command' \in [Callers -> Commands \cup {NoCommand}]
      BY <1>1, <1>2 DEF TypeOK, Commands
<1>4. \A d \in Callers : Idle(d)' = Idle(d)
      BY <1>2, <1>3 DEF Idle
<1>5. UNCHANGED <<mode, target, driving, stage, app, events>>
      BY DEF CarryOut
<1>6. TypeOK'
  <2>1. \A d \in Callers : CommandOf(d)' = CommandOf(d)
        BY <1>5 DEF CommandOf, CommandStages, StageCommand
  <2>2. \A d \in Callers : (~Idle(d))' => command'[d].op \in CommandOf(d)'
    <3> SUFFICES ASSUME NEW d \in Callers, ~Idle(d)
                 PROVE  command'[d].op \in CommandOf(d)
        BY <2>1, <1>4
    <3>1. command'[d].op = command[d].op
          BY <1>3
    <3> QED BY <3>1 DEF TypeOK
  <2>3. robot' \in {"limp", "still", "going"}
        BY <1>1 DEF RobotAfter, TypeOK
  <2> QED BY <1>3, <1>5, <2>2, <2>3 DEF TypeOK
<1>7. ServedOnly' /\ LoopsJoined'
      BY <1>4, <1>5 DEF ServedOnly, LoopsJoined, Callers
<1>8. FailuresExpected'
      BY <1>1, <1>3, <1>4 DEF FailuresExpected
<1>9. LimpWhileDisconnected'
  <2>1. mode = "disconnected" /\ command[c].op # "standUp" => robot' = robot
                                \/ robot' = "limp"
        BY <1>1 DEF RobotAfter, LimpWhileDisconnected
  <2> QED BY <2>1, <1>2, <1>3, <1>4, <1>5
          DEF LimpWhileDisconnected, Idle
<1>10. NoEventsInLogistics'
      BY <1>4, <1>5 DEF NoEventsInLogistics, Callers
<1>11. LastPassive'
  <2>1. stage \in {"passivating", "down"} =>
          \/ c = "runtime" /\ stage = "passivating"
          \/ c = "handler"
        BY <1>2 DEF TypeOK, CommandOf, CommandStages, ServedOnly,
                    LoopsJoined, Idle, Callers
  <2>2. CASE c = "runtime" /\ stage = "passivating"
    <3>1. command[c].op = "passive"
          BY <1>2, <2>2 DEF TypeOK, CommandOf, CommandStages, StageCommand,
                            Idle, Callers
    <3> QED BY <3>1, <2>2, <1>1, <1>3, <1>5 DEF LastPassive, RobotAfter
  <2>3. CASE c = "handler"
    <3>1. command[c].op = "move"
          BY <1>2, <2>3 DEF TypeOK, CommandOf, Idle, Callers
    <3>2. robot = "limp" => robot' = "limp"
          BY <3>1, <1>1 DEF RobotAfter
    <3>3. command'["runtime"] = command["runtime"]
          BY <2>3, <1>3 DEF Callers
    <3> QED BY <3>2, <3>3, <1>5 DEF LastPassive, Idle
  <2>4. CASE stage \notin {"passivating", "down"}
        BY <2>4, <1>5 DEF LastPassive
  <2> QED BY <2>1, <2>2, <2>3, <2>4
<1> QED BY <1>6, <1>7, <1>8, <1>9, <1>10, <1>11

\* Steps that leave the commands and the robot alone: the runtime between two
\* commands, the navigator, and events nobody answers with a command.
LEMMA QuietInv ==
  ASSUME IndInv, TypeOK', ServedOnly', LoopsJoined', NoEventsInLogistics',
         LastPassive', UNCHANGED <<mode, command, robot>>
  PROVE  IndInv'
BY DEF IndInv, FailuresExpected, LimpWhileDisconnected, Idle

LEMMA NavigatorInv ==
  ASSUME IndInv, BeginNavigation \/ Steer \/ EndNavigation PROVE IndInv'
<1> USE DEF BeginNavigation, Steer, EndNavigation, IndInv
<1>1. UNCHANGED <<mode, command, stage, app, events, robot>>
      OBVIOUS
<1>2. TypeOK'
      BY <1>1 DEF TypeOK, CommandOf, CommandStages, StageCommand, Idle
<1>3. ServedOnly' /\ LoopsJoined' /\ NoEventsInLogistics' /\ LastPassive'
      BY <1>1 DEF ServedOnly, LoopsJoined, NoEventsInLogistics, LastPassive,
                  Idle
<1> QED BY <1>1, <1>2, <1>3, QuietInv

\* Events that the heartbeat does not answer, or answers with a command.
LEMMA EventInv ==
  ASSUME IndInv, EventStep PROVE IndInv'
<1> USE DEF IndInv
<1>1. CASE HandlerReturns
      BY <1>1, ReturnInv DEF HandlerReturns, Callers, TypeOK
<1>2. CASE HandleEstop /\ Accepts("move")
  <2>1. /\ Issue("handler", "move", "still") /\ events > 0
        /\ events' = events - 1 /\ target' = "still"
        /\ UNCHANGED <<mode, driving, stage, app, robot>>
        BY <1>2 DEF HandleEstop
  <2>2. app = "patrol"
        BY <2>1 DEF NoEventsInLogistics, TypeOK
  <2>3. events' \in Nat
        BY <2>1 DEF TypeOK
  <2> QED BY <2>1, <2>2, <2>3, IssueInv DEF Callers, Operations, CommandOf
<1>3. CASE \/ OtherRobotStopped \/ EstopUnheard
           \/ HandleEstop /\ ~Accepts("move")
  <2> USE <1>3 DEF OtherRobotStopped, EstopUnheard, HandleEstop
  <2>1. /\ UNCHANGED <<mode, command, driving, stage, app, robot>>
        /\ target' \in {"go", "still"}
        /\ events' \in Nat
        /\ app = "logistics" => events' = events
        BY DEF TypeOK, NoEventsInLogistics
  <2> HIDE <1>3
  <2>2. TypeOK'
        BY <2>1 DEF TypeOK, CommandOf, CommandStages, StageCommand, Idle
  <2>3. /\ ServedOnly' /\ LoopsJoined' /\ NoEventsInLogistics'
        /\ LastPassive'
        BY <2>1 DEF ServedOnly, LoopsJoined, NoEventsInLogistics,
                    LastPassive, Idle
  <2> QED BY <2>1, <2>2, <2>3, QuietInv
<1> QED BY <1>1, <1>2, <1>3 DEF EventStep

LEMMA ShutdownStepInv ==
  ASSUME IndInv,
         BeginShutdown \/ HeartbeatStops \/ HeartbeatJoined \/ MonitorJoined
  PROVE  IndInv'
<1> USE DEF BeginShutdown, HeartbeatStops, HeartbeatJoined, MonitorJoined,
            IndInv
<1>1. /\ UNCHANGED <<mode, command, driving, app, events, robot>>
      /\ target' \in {"go", "still"}
      /\ stage \notin CommandStages
      /\ stage' \in {"stopping", "quieting", "polling", "passivating"}
      BY DEF TypeOK, CommandStages
<1>2. Idle("runtime")
      BY <1>1 DEF TypeOK, CommandOf, Callers
<1>3. TypeOK'
  <2>1. \A d \in Callers : d # "runtime" => CommandOf(d)' = CommandOf(d)
        BY DEF CommandOf, Callers
  <2>2. \A d \in Callers : (~Idle(d))' => command'[d].op \in CommandOf(d)'
        BY <2>1, <1>1, <1>2 DEF TypeOK, Idle
  <2> QED BY <1>1, <2>2 DEF TypeOK
<1>4. ServedOnly' /\ LoopsJoined' /\ NoEventsInLogistics'
      BY <1>1 DEF ServedOnly, LoopsJoined, NoEventsInLogistics, Idle
<1>5. LastPassive'
      BY <1>1, <1>2 DEF LastPassive, Idle
<1> QED BY <1>1, <1>3, <1>4, <1>5, QuietInv

\* The runtime's next stage, after an answer or a rejection.
LEMMA StageAfterFacts ==
  ASSUME TypeOK, stage \in CommandStages, NEW ok \in BOOLEAN
  PROVE  /\ StageAfter(ok) \in {"passive", "autostand", "serving", "joining",
                                "down"}
         /\ StageAfter(ok) = "down" => stage = "passivating"
         /\ StageAfter(ok) = "joining" => stage = "quieting"
BY DEF StageAfter, CommandStages

LEMMA RuntimeMovesOnInv ==
  ASSUME IndInv, RuntimeReturns \/ RuntimeSkips PROVE IndInv'
<1> USE DEF IndInv
<1>1. PICK ok \in BOOLEAN : stage \in CommandStages /\ stage' = StageAfter(ok)
      BY DEF RuntimeReturns, RuntimeSkips
<1>2. /\ stage' \in {"passive", "autostand", "serving", "joining", "down"}
      /\ stage' = "down" => stage = "passivating"
      /\ stage' = "joining" => stage = "quieting"
      BY <1>1, StageAfterFacts
<1>3. /\ command' \in [Callers -> Commands \cup {NoCommand}]
      /\ command'["runtime"] = NoCommand
      /\ \A d \in Callers : d # "runtime" => command'[d] = command[d]
      BY DEF RuntimeReturns, RuntimeSkips, Returned, Idle, TypeOK, Callers
<1>4. mode' \in Modes /\ (mode' = "disconnected" => mode = "disconnected")
  <2>1. "runtime" \in Callers
        BY DEF Callers
  <2>2. CASE RuntimeReturns
        BY <2>1, <2>2, ModeAfterType DEF RuntimeReturns, Returned
  <2>3. CASE RuntimeSkips
        BY <2>3 DEF RuntimeSkips, TypeOK
  <2> QED BY <2>2, <2>3
<1>5. UNCHANGED <<target, driving, app, events, robot>>
      BY DEF RuntimeReturns, RuntimeSkips
<1>6. TypeOK'
  <2>1. \A d \in Callers : d # "runtime" => CommandOf(d)' = CommandOf(d)
        BY DEF CommandOf, Callers
  <2>2. \A d \in Callers : (~Idle(d))' => command'[d].op \in CommandOf(d)'
        BY <2>1, <1>3 DEF TypeOK, Idle
  <2> QED BY <1>2, <1>3, <1>4, <1>5, <2>2 DEF TypeOK
<1>7. ServedOnly' /\ LoopsJoined'
  <2>1. stage # "serving"
        BY <1>1 DEF CommandStages
  <2> QED BY <2>1, <1>2, <1>3, <1>5
          DEF ServedOnly, LoopsJoined, Idle, Callers
<1>8. FailuresExpected' /\ LimpWhileDisconnected' /\ NoEventsInLogistics'
      BY <1>3, <1>4, <1>5 DEF FailuresExpected, LimpWhileDisconnected,
                              NoEventsInLogistics, Idle, Callers
<1>9. LastPassive'
  <2>1. ASSUME stage = "passivating", RuntimeReturns, "passive" \notin Faults
        PROVE  robot = "limp" /\ mode' = "passive"
    <3>1. ~Idle("runtime") /\ command["runtime"] \in Commands
          BY <2>1 DEF RuntimeReturns, Returned, TypeOK, Idle, Callers
    <3>2. command["runtime"].op = "passive"
          BY <2>1, <3>1 DEF TypeOK, CommandOf, CommandStages, StageCommand,
                            Callers
    <3>3. command["runtime"].outcome = "ok"
          BY <2>1, <3>1, <3>2
          DEF RuntimeReturns, Returned, FailuresExpected, Commands, Callers
    <3> QED BY <2>1, <3>1, <3>2, <3>3
            DEF LastPassive, RuntimeReturns, Returned, ModeAfter
  <2>2. ASSUME stage = "passivating", RuntimeSkips
        PROVE  robot = "limp" /\ mode' = "disconnected"
        BY <2>2 DEF RuntimeSkips, Accepts, StageCommand,
                    LimpWhileDisconnected
  <2> QED BY <2>1, <2>2, <1>2, <1>3, <1>5 DEF LastPassive, Idle
<1> QED BY <1>6, <1>7, <1>8, <1>9

LEMMA DampInv ==
  ASSUME IndInv, Damp PROVE IndInv'
<1> USE DEF Damp, IndInv
<1>1. TypeOK'
      BY DEF TypeOK, CommandOf, CommandStages, StageCommand, Idle
<1>2. ServedOnly' /\ LoopsJoined' /\ FailuresExpected'
      BY DEF ServedOnly, LoopsJoined, FailuresExpected, Idle
<1>3. LimpWhileDisconnected' /\ NoEventsInLogistics' /\ LastPassive'
      BY DEF LimpWhileDisconnected, NoEventsInLogistics, LastPassive, Idle
<1> QED BY <1>1, <1>2, <1>3

-----------------------------------------------------------------------------

\* The operators' requests.
LEMMA AsksInv ==
  ASSUME IndInv, NEW c \in Operators, NEW op \in Operations, Asks(c, op),
         op \in CommandOf(c)
  PROVE  IndInv'
<1>1. c \in Callers /\ c \notin {"heartbeat", "handler", "monitor"}
      BY DEF Callers
<1> QED BY <1>1, IssueInv DEF Asks, IndInv, TypeOK

LEMMA RequestsInv ==
  ASSUME IndInv, \/ HeartbeatSends \/ MonitorPolls
                 \/ RequestRobotEstop   \/ RequestEstop
                 \/ RequestRobotRelease \/ RequestRelease
  PROVE  IndInv'
<1> USE DEF Operations, CommandOf
<1>1. CASE HeartbeatSends
  <2>1. /\ Issue("heartbeat", "move", target)
        /\ stage \notin {"polling", "passivating", "down"}
        /\ UNCHANGED <<mode, target, driving, stage, app, events, robot>>
        BY <1>1 DEF HeartbeatSends, HeartbeatRuns
  <2>2. target \in {"go", "still"} /\ events \in Nat
        BY DEF IndInv, TypeOK
  <2>3. "heartbeat" \in Callers /\ "heartbeat" \notin Operators
        BY DEF Callers
  <2> QED BY <2>1, <2>2, <2>3, IssueInv
<1>2. CASE MonitorPolls
  <2>1. /\ Issue("monitor", "check", "still")
        /\ stage \notin {"passivating", "down"}
        /\ UNCHANGED <<mode, target, driving, stage, app, events, robot>>
        BY <1>2 DEF MonitorPolls, MonitorRuns, HeartbeatRuns
  <2>2. target \in {"go", "still"} /\ events \in Nat
        BY DEF IndInv, TypeOK
  <2>3. "monitor" \in Callers /\ "monitor" \notin Operators
        BY DEF Callers
  <2> QED BY <2>1, <2>2, <2>3, IssueInv
<1>3. CASE RequestRobotEstop \/ RequestEstop
      BY <1>3, AsksInv DEF RequestRobotEstop, RequestEstop
<1>4. CASE RequestRobotRelease \/ RequestRelease
      BY <1>4, AsksInv DEF RequestRobotRelease, RequestRelease
<1> QED BY <1>1, <1>2, <1>3, <1>4

LEMMA AnswersInv ==
  ASSUME IndInv, \/ HeartbeatReturns \/ MonitorReturns
                 \/ \E c \in EstopRequests : EstopReturns(c)
                 \/ \E c \in ReleaseRequests : ReleaseReturns(c)
  PROVE  IndInv'
<1>1. CASE HeartbeatReturns
      BY <1>1, ReturnInv DEF HeartbeatReturns, Callers, IndInv, TypeOK
<1>2. CASE MonitorReturns
      BY <1>2, ReturnInv DEF MonitorReturns, Callers, IndInv, TypeOK
<1>3. ASSUME NEW c \in EstopRequests, EstopReturns(c) PROVE IndInv'
  <2>1. c \in Callers /\ c # "runtime"
        BY DEF Callers
  <2>2. events' \in Nat /\ (app = "logistics" => events' = events)
        BY <1>3 DEF EstopReturns, IndInv, TypeOK
  <2> QED BY <2>1, <2>2, <1>3, ReturnInv DEF EstopReturns
<1>4. ASSUME NEW c \in ReleaseRequests, ReleaseReturns(c) PROVE IndInv'
  <2>1. c \in Callers /\ c # "runtime"
        BY DEF Callers
  <2> QED BY <2>1, <1>4, ReturnInv DEF ReleaseReturns, IndInv, TypeOK
<1> QED BY <1>1, <1>2, <1>3, <1>4

LEMMA RuntimeCommandsInv ==
  ASSUME IndInv, RuntimeCommands PROVE IndInv'
<1>1. StageCommand \in Operations /\ StageCommand \in CommandOf("runtime")
      BY DEF RuntimeCommands, StageCommand, CommandOf, Operations
<1> QED BY <1>1, IssueInv
        DEF RuntimeCommands, Callers, IndInv, TypeOK

LEMMA NextInv == ASSUME IndInv, [Next]_vars PROVE IndInv'
<1>1. CASE UNCHANGED vars
      BY <1>1 DEF vars, IndInv, TypeOK, ServedOnly, LoopsJoined,
                  FailuresExpected, LimpWhileDisconnected,
                  NoEventsInLogistics, LastPassive,
                  Idle, CommandOf, CommandStages, StageCommand
<1>2. CASE RuntimeStep
      BY <1>2, RuntimeCommandsInv, RuntimeMovesOnInv, ShutdownStepInv
      DEF RuntimeStep
<1>3. CASE OperatorStep
      BY <1>3, RequestsInv, AnswersInv DEF OperatorStep
<1>4. CASE \E c \in Callers : CarryOut(c)
      BY <1>4, CarryOutInv
<1>5. CASE \/ HeartbeatSends \/ HeartbeatReturns
           \/ MonitorPolls \/ MonitorReturns
      BY <1>5, RequestsInv, AnswersInv
<1>6. CASE \/ BeginShutdown \/ BeginNavigation \/ Steer \/ EndNavigation
           \/ Damp
      BY <1>6, ShutdownStepInv, NavigatorInv, DampInv
<1>7. CASE EventStep
      BY <1>7, EventInv
<1> QED BY <1>1, <1>2, <1>3, <1>4, <1>5, <1>6, <1>7 DEF Next

\* The invariant holds in every reachable state.
THEOREM MotionInvariance == Spec => []IndInv
<1>1. Init => IndInv
      BY InitInv
<1>2. IndInv /\ [Next]_vars => IndInv'
      BY NextInv
<1> QED BY <1>1, <1>2, PTL DEF Spec

\* Every caller awaits only its own kind of command (TypeOK of
\* MotionControl), whichever vendor calls fail.
THEOREM MotionTypeCorrect == Spec => []TypeOK
<1>1. IndInv => TypeOK
      BY DEF IndInv
<1> QED BY <1>1, MotionInvariance, PTL

\* After shutdown no command is under way but the late answer to a patrol's
\* e-stop, and unless the last passive failed the robot lies limp
\* (shutdown_system, HeartbeatController.stop).
THEOREM ShutdownIsQuiet == Spec => []ShutdownLeavesNothingUnderWay
<1>1. IndInv => ShutdownLeavesNothingUnderWay
  <2> SUFFICES ASSUME IndInv, stage = "down"
               PROVE  /\ \A c \in Callers \ {"handler"} : Idle(c)
                      /\ "passive" \notin Faults => robot = "limp"
                      /\ app = "logistics" =>
                           /\ Idle("handler")
                           /\ "passive" \notin Faults =>
                                mode \in {"passive", "disconnected"}
      BY DEF ShutdownLeavesNothingUnderWay
  <2>1. Idle("runtime")
        BY DEF IndInv, TypeOK, CommandOf, CommandStages, Callers
  <2>2. \A c \in Operators : Idle(c)
        BY DEF IndInv, ServedOnly
  <2>3. Idle("heartbeat") /\ Idle("monitor")
        BY DEF IndInv, LoopsJoined
  <2> QED BY <2>1, <2>2, <2>3
          DEF Callers, IndInv, LastPassive, NoEventsInLogistics
<1> QED BY <1>1, MotionInvariance, PTL

-----------------------------------------------------------------------------
(***************************************************************************)
(* The safety properties of ObstaclePolicy for any robots, routes, repeat  *)
(* limit and bus.  The invariant says why they hold: a stable-clear task   *)
(* sleeps only while its robot is blocked, has last heard a clear and      *)
(* needs no human; a block that reached the repeat limit needs one; and a  *)
(* control loop suspends between its check and its command only on a route *)
(* that began before any state was known.                                  *)
(***************************************************************************)

\* A pending stable-clear belongs to a block the sensor may lift.
StableOnlyAfterClear(r) ==
  stable[r] => blocked[r] /\ ~requires[r] /\ heard[r] = "cleared"

\* A block that reached the limit requires a human.
LimitRequiresHuman(r) ==
  blocked[r] /\ count[r] >= RepeatLimit => requires[r]

\* A read that suspends happens on a blind route only.
ReadsBlindly(r) ==
  /\ Navigating(r) /\ ~known[r] => blind[r]
  /\ phase[r] = "reading" => blind[r]

RobotInv(r) ==
  /\ blocked[r] /\ ~blind[r] => ~moving[r]
  /\ Navigating(r) /\ heard[r] = "detected" => blocked[r]
  /\ ~Navigating(r) => ~moving[r] /\ ~stable[r] /\ ~blocked[r]
  /\ StableOnlyAfterClear(r)
  /\ LimitRequiresHuman(r)
  /\ ReadsBlindly(r)

ObstacleInv == ObstacleTypeOK /\ \A r \in Robots : RobotInv(r)

USE DEF StableOnlyAfterClear, LimitRequiresHuman, ReadsBlindly, Navigating

-----------------------------------------------------------------------------

LEMMA ObstacleInitInv == ASSUME ObstacleInit PROVE ObstacleInv
<1>1. bus \in Seq(Events) /\ Len(bus) <= BusCapacity
      BY PolicyAssumption DEF ObstacleInit
<1>2. /\ done \in [Robots -> 0..Waypoints]
      /\ count \in [Robots -> 0..RepeatLimit]
      BY PolicyAssumption DEF ObstacleInit
<1>3. ObstacleTypeOK
      BY <1>1, <1>2 DEF ObstacleInit, ObstacleTypeOK, Phases
<1>4. \A r \in Robots : RobotInv(r)
      BY DEF ObstacleInit, RobotInv
<1> QED BY <1>3, <1>4 DEF ObstacleInv

\* Appending to a bus that has room keeps its type.
LEMMA AppendType ==
  ASSUME ObstacleTypeOK, NEW e \in Events, Len(bus) < BusCapacity
  PROVE  /\ Append(bus, e) \in Seq(Events)
         /\ Len(Append(bus, e)) <= BusCapacity
BY PolicyAssumption DEF ObstacleTypeOK

LEMMA SensorStep ==
  ASSUME ObstacleInv,
         \/ \E on \in BOOLEAN : DetectorRuns(on) \/ DetectorPoll(on)
         \/ \E to \in Robots \cup {All} : ConfirmCleared(to)
  PROVE  ObstacleInv'
<1> USE DEF ObstacleInv
<1>1. UNCHANGED <<routeVars, policyVars, moving>>
      BY DEF DetectorRuns, DetectorPoll, ConfirmCleared
<1>2. \A r \in Robots : RobotInv(r)'
      BY <1>1 DEF RobotInv, routeVars, policyVars
<1>3. /\ detecting' \in BOOLEAN /\ seen' \in BOOLEAN
      /\ bus' \in Seq(Events) /\ Len(bus') <= BusCapacity
  <2>1. CASE \E on \in BOOLEAN : DetectorRuns(on)
        BY <2>1 DEF DetectorRuns, ObstacleTypeOK
  <2>2. ASSUME NEW on \in BOOLEAN, DetectorPoll(on)
        PROVE  /\ detecting' \in BOOLEAN /\ seen' \in BOOLEAN
               /\ bus' \in Seq(Events) /\ Len(bus') <= BusCapacity
    <3> DEFINE e == [kind |-> IF on THEN "detected" ELSE "cleared",
                     to   |-> All]
    <3>1. e \in Events
          BY DEF Events, Kinds
    <3>2. bus' = IF Len(bus) < BusCapacity THEN Append(bus, e) ELSE bus
          BY <2>2 DEF DetectorPoll, PublishNowait
    <3> QED BY <2>2, <3>1, <3>2, AppendType DEF DetectorPoll, ObstacleTypeOK
  <2>3. ASSUME NEW to \in Robots \cup {All}, ConfirmCleared(to)
        PROVE  /\ detecting' \in BOOLEAN /\ seen' \in BOOLEAN
               /\ bus' \in Seq(Events) /\ Len(bus') <= BusCapacity
    <3> DEFINE e == [kind |-> "manual", to |-> to]
    <3>1. e \in Events
          BY DEF Events, Kinds
    <3> QED BY <2>3, <3>1, AppendType DEF ConfirmCleared, ObstacleTypeOK
  <2> QED BY <2>1, <2>2, <2>3
<1>4. ObstacleTypeOK'
      BY <1>1, <1>3 DEF ObstacleTypeOK, routeVars, policyVars
<1> QED BY <1>2, <1>4

LEMMA DeliverStep ==
  ASSUME ObstacleInv, Deliver PROVE ObstacleInv'
<1> DEFINE e == Head(bus)
           rs == Concerned(e)
<1> USE DEF ObstacleInv
<1>1. e \in Events /\ bus' \in Seq(Events) /\ Len(bus') <= BusCapacity
      BY PolicyAssumption DEF Deliver, ObstacleTypeOK
<1>2. rs \subseteq Robots /\ \A r \in rs : phase[r] # "idle"
      BY DEF Concerned
<1>3. heard' = [r \in Robots |-> IF r \in rs THEN e.kind ELSE heard[r]]
      BY DEF Deliver
<1>4. UNCHANGED <<detecting, seen, routeVars>>
      BY DEF Deliver
<1>5. heard' \in [Robots -> Kinds \cup {"nothing"}]
      BY <1>1, <1>3 DEF Events, ObstacleTypeOK
<1>6. CASE e.kind = "detected"
  <2>1. Detected(rs)
        BY <1>6 DEF Deliver
  <2>2. ObstacleTypeOK'
        BY <1>1, <1>2, <1>4, <1>5, <2>1, PolicyAssumption
        DEF ObstacleTypeOK, Detected, ClockStarted, StableCancelled,
             TargetCleared,
            routeVars
  <2>3. \A r \in Robots : RobotInv(r)'
        BY <1>2, <1>3, <1>4, <1>6, <2>1, PolicyAssumption
        DEF ObstacleTypeOK, Detected, ClockStarted, StableCancelled,
             TargetCleared,
            routeVars, RobotInv
  <2> QED BY <2>2, <2>3
<1>7. CASE e.kind = "manual"
  <2>1. ClearedByHand(rs)
        BY <1>7 DEF Deliver
  <2>2. ObstacleTypeOK'
        BY <1>1, <1>2, <1>4, <1>5, <2>1
           DEF ObstacleTypeOK, ClearedByHand, routeVars
  <2>3. \A r \in Robots : RobotInv(r)'
        BY <1>2, <1>3, <1>4, <1>7, <2>1
        DEF ObstacleTypeOK, ClearedByHand, routeVars, RobotInv
  <2> QED BY <2>2, <2>3
<1>8. CASE e.kind = "cleared"
  <2>1. ClearedBySensor(rs)
        BY <1>8 DEF Deliver
  <2>2. /\ blocked' \in [Robots -> BOOLEAN]
        /\ stable' \in [Robots -> BOOLEAN]
        BY <2>1 DEF ObstacleTypeOK, ClearedBySensor
  <2>3. count' \in [Robots -> 0..RepeatLimit]
        BY <2>1, PolicyAssumption DEF ObstacleTypeOK, ClearedBySensor
  <2>4. ObstacleTypeOK'
        BY <1>1, <1>4, <1>5, <2>1, <2>2, <2>3
        DEF ObstacleTypeOK, ClearedBySensor, routeVars
  <2>5. \A r \in Robots : RobotInv(r)'
        BY <1>2, <1>3, <1>4, <1>8, <2>1, PolicyAssumption
        DEF ObstacleTypeOK, ClearedBySensor, SensorHeard, routeVars, RobotInv
  <2> QED BY <2>4, <2>5
<1> QED BY <1>1, <1>6, <1>7, <1>8 DEF Events, Kinds

LEMMA ClockStep ==
  ASSUME ObstacleInv, NEW r \in Robots,
         StableClear(r) \/ HoldAges(r) \/ FirstState(r)
  PROVE  ObstacleInv'
<1> USE DEF ObstacleInv, sensorVars, routeVars, policyVars
<1>1. CASE StableClear(r)
  <2>1. ObstacleTypeOK'
        BY <1>1 DEF StableClear, ObstacleTypeOK
  <2>2. \A q \in Robots : RobotInv(q)'
        BY <1>1 DEF StableClear, ObstacleTypeOK, RobotInv
  <2> QED BY <2>1, <2>2
<1>2. CASE HoldAges(r)
  <2>1. ObstacleTypeOK'
        BY <1>2 DEF HoldAges, ObstacleTypeOK
  <2>2. \A q \in Robots : RobotInv(q)'
        BY <1>2 DEF HoldAges, RobotInv
  <2> QED BY <2>1, <2>2
<1>3. CASE FirstState(r)
  <2>1. ObstacleTypeOK'
        BY <1>3 DEF FirstState, ObstacleTypeOK
  <2>2. \A q \in Robots : RobotInv(q)'
        BY <1>3 DEF FirstState, ObstacleTypeOK, RobotInv
  <2> QED BY <2>1, <2>2
<1> QED BY <1>1, <1>2, <1>3

LEMMA StartRouteStep ==
  ASSUME ObstacleInv, NEW r \in Robots, StartRoute(r) PROVE ObstacleInv'
<1> USE DEF ObstacleInv, sensorVars
<1>1. ObstacleTypeOK'
      BY PolicyAssumption DEF StartRoute, ObstacleTypeOK, Phases
<1>2. \A q \in Robots : RobotInv(q)'
      BY PolicyAssumption DEF StartRoute, ObstacleTypeOK, RobotInv
<1> QED BY <1>1, <1>2

LEMMA EndRouteStep ==
  ASSUME ObstacleInv, NEW r \in Robots, EndRoute(r) PROVE ObstacleInv'
<1> USE DEF ObstacleInv, sensorVars
<1>1. ObstacleTypeOK'
      BY DEF EndRoute, StableEnded, ObstacleTypeOK, Phases
<1>2. \A q \in Robots : RobotInv(q)'
      BY DEF EndRoute, StableEnded, ObstacleTypeOK, RobotInv
<1> QED BY <1>1, <1>2

LEMMA GoToStep ==
  ASSUME ObstacleInv, NEW r \in Robots, NEW p \in Phases \ {"idle"},
         phase[r] # "idle", p = "reading" => ~known[r], GoTo(r, p)
  PROVE  ObstacleInv'
<1> USE DEF ObstacleInv, sensorVars, policyVars
<1>1. ObstacleTypeOK'
      BY DEF GoTo, ObstacleTypeOK
<1>2. \A q \in Robots : RobotInv(q)'
      BY DEF GoTo, ObstacleTypeOK, RobotInv
<1> QED BY <1>1, <1>2

LEMMA SteerStep ==
  ASSUME ObstacleInv, NEW r \in Robots, phase[r] # "idle",
         ~blocked[r] \/ phase[r] = "reading", SteerRoute(r)
  PROVE  ObstacleInv'
<1> USE DEF ObstacleInv, sensorVars, policyVars
<1>1. ObstacleTypeOK'
      BY DEF SteerRoute, ObstacleTypeOK, Phases
<1>2. \A q \in Robots : RobotInv(q)'
      BY DEF SteerRoute, ObstacleTypeOK, RobotInv
<1> QED BY <1>1, <1>2

LEMMA ArriveStep ==
  ASSUME ObstacleInv, NEW r \in Robots, phase[r] # "idle", Arrive(r)
  PROVE  ObstacleInv'
<1> USE DEF ObstacleInv, sensorVars, policyVars
<1>1. ObstacleTypeOK'
      BY PolicyAssumption DEF Arrive, ObstacleTypeOK, Phases
<1>2. \A q \in Robots : RobotInv(q)'
      BY DEF Arrive, ObstacleTypeOK, RobotInv
<1> QED BY <1>1, <1>2

LEMMA PeopleStep ==
  ASSUME ObstacleInv, NEW r \in Robots, ConfirmHold(r) \/ CancelNavigation(r)
  PROVE  ObstacleInv'
<1> USE DEF ObstacleInv, sensorVars, policyVars
<1>1. ObstacleTypeOK'
      BY DEF ConfirmHold, CancelNavigation, ObstacleTypeOK
<1>2. CASE ConfirmHold(r)
  <2>1. \A q \in Robots : RobotInv(q)'
        BY <1>2 DEF ConfirmHold, RobotInv
  <2> QED BY <1>1, <2>1
<1>3. CASE CancelNavigation(r)
  <2>1. \A q \in Robots : moving'[q] => moving[q]
        BY <1>3 DEF CancelNavigation, ObstacleTypeOK
  <2>2. \A q \in Robots : RobotInv(q)'
        BY <1>3, <2>1 DEF CancelNavigation, RobotInv
  <2> QED BY <1>1, <2>2
<1> QED BY <1>2, <1>3

LEMMA ProgressStep ==
  ASSUME ObstacleInv, NEW r \in Robots, Progress(r) \/ DriveFails(r)
  PROVE  ObstacleInv'
<1>1. CASE Drive(r)
      BY <1>1, EndRouteStep, GoToStep, SteerStep, ArriveStep
      DEF Drive, Phases
<1>2. CASE ReadDone(r)
      BY <1>2, EndRouteStep, SteerStep, ArriveStep DEF ReadDone
<1>3. CASE WaitWhileBlocked(r)
      BY <1>3, EndRouteStep, GoToStep, SteerStep, ArriveStep
      DEF WaitWhileBlocked, Phases
<1>4. CASE Hold(r)
      BY <1>4, EndRouteStep, GoToStep DEF Hold, Phases
<1>5. CASE HeldUp(r)
      BY <1>5, EndRouteStep, GoToStep DEF HeldUp, Phases
<1>6. CASE Complete(r) \/ DriveFails(r)
      BY <1>6, EndRouteStep DEF Complete, DriveFails
<1> QED BY <1>1, <1>2, <1>3, <1>4, <1>5, <1>6 DEF Progress

LEMMA ObstacleStepInv ==
  ObstacleInv /\ [ObstacleNext]_obstacleVars => ObstacleInv'
<1> SUFFICES ASSUME ObstacleInv, [ObstacleNext]_obstacleVars PROVE ObstacleInv'
    OBVIOUS
<1>1. CASE Environment
      BY <1>1, SensorStep DEF Environment
<1>2. CASE Deliver
      BY <1>2, DeliverStep
<1>3. ASSUME NEW r \in Robots, Robot(r) PROVE ObstacleInv'
      BY <1>3, StartRouteStep, ProgressStep, ClockStep, PeopleStep DEF Robot
<1>4. CASE UNCHANGED obstacleVars
  <2>1. ObstacleTypeOK'
        BY <1>4 DEF ObstacleInv, ObstacleTypeOK, obstacleVars, sensorVars,
                        routeVars, policyVars
  <2>2. \A r \in Robots : RobotInv(r)'
        BY <1>4 DEF ObstacleInv, RobotInv, obstacleVars, sensorVars,
                        routeVars, policyVars
  <2> QED BY <2>1, <2>2 DEF ObstacleInv
<1> QED BY <1>1, <1>2, <1>3, <1>4 DEF ObstacleNext

THEOREM ObstacleInvariance == ObstacleSpec => []ObstacleInv
BY ObstacleInitInv, ObstacleStepInv, PTL DEF ObstacleSpec

-----------------------------------------------------------------------------

\* Every variable keeps its type, and the bus its bound.
THEOREM PolicyTypeCorrect == ObstacleSpec => []ObstacleTypeOK
<1>1. ObstacleInv => ObstacleTypeOK
      BY DEF ObstacleInv
<1> QED BY <1>1, ObstacleInvariance, PTL

\* A blocked robot stands still (navigator.py:526, 364), unless its route
\* began without a state.
THEOREM BlockedRobotsStand == ObstacleSpec => []BlockedMeansStill
<1>1. ObstacleInv => BlockedMeansStill
      BY DEF ObstacleInv, RobotInv, BlockedMeansStill
<1> QED BY <1>1, ObstacleInvariance, PTL

\* No stable-clear wait that began before a detection lifts its block.
THEOREM DetectionsHold == ObstacleSpec => []DetectionHoldsUntilClear
<1>1. ObstacleInv => DetectionHoldsUntilClear
      BY DEF ObstacleInv, RobotInv, DetectionHoldsUntilClear
<1> QED BY <1>1, ObstacleInvariance, PTL

\* Nothing of a route outlives it.
THEOREM RoutesEndClean == ObstacleSpec => []NothingOutlivesTheRoute
<1>1. ObstacleInv => NothingOutlivesTheRoute
      BY DEF ObstacleInv, RobotInv, NothingOutlivesTheRoute
<1> QED BY <1>1, ObstacleInvariance, PTL

\* The two together: a robot has a target velocity on its route only, and not
\* while blocked (navigator.py:526, 213).
THEOREM RobotsStand == ObstacleSpec => []RobotsStandWhenTheyMust
<1>1. BlockedMeansStill /\ NothingOutlivesTheRoute => RobotsStandWhenTheyMust
      BY DEF RobotsStandWhenTheyMust
<1> QED BY <1>1, BlockedRobotsStand, RoutesEndClean, PTL

\* One robot's part of RepeatsNeedAHuman.
HumanLifts(r) ==
  /\ blocked[r] /\ count[r] >= RepeatLimit
  /\ ~blocked'[r] /\ phase'[r] # "idle"
  => heard'[r] = "manual"

\* A sensor's clear never lifts a block that requires a human.
LEMMA DeliverLifts ==
  ASSUME ObstacleInv, Deliver, NEW r \in Robots PROVE HumanLifts(r)
<1> DEFINE e == Head(bus)
           rs == Concerned(e)
<1>1. e \in Events
      BY DEF Deliver, ObstacleInv, ObstacleTypeOK
<1>2. heard' = [q \in Robots |-> IF q \in rs THEN e.kind ELSE heard[q]]
      BY DEF Deliver
<1>3. requires[r] \/ ~(blocked[r] /\ count[r] >= RepeatLimit)
      BY DEF ObstacleInv, RobotInv
<1>4. CASE e.kind = "detected"
      BY <1>4 DEF Deliver, Detected, HumanLifts, ObstacleInv, ObstacleTypeOK
<1>5. CASE e.kind = "manual"
      BY <1>2, <1>5
         DEF Deliver, ClearedByHand, HumanLifts, ObstacleInv, ObstacleTypeOK
<1>6. CASE e.kind = "cleared"
      BY <1>3, <1>6
      DEF Deliver, ClearedBySensor, SensorHeard, HumanLifts, ObstacleInv,
          ObstacleTypeOK
<1> QED BY <1>1, <1>4, <1>5, <1>6 DEF Events, Kinds

LEMMA OtherStepsLiftNothing ==
  ASSUME ObstacleInv, NEW q \in Robots, Robot(q), NEW r \in Robots
  PROVE  HumanLifts(r)
<1> USE DEF ObstacleInv, ObstacleTypeOK, HumanLifts, policyVars
<1>1. CASE StartRoute(q)
      BY <1>1 DEF StartRoute, RobotInv
<1>2. CASE StableClear(q)
      BY <1>2 DEF StableClear, RobotInv
<1>3. CASE EndRoute(q)
      BY <1>3 DEF EndRoute
<1>4. CASE blocked' = blocked
      BY <1>4
<1>5. CASE Progress(q) \/ DriveFails(q)
  <2>1. EndRoute(q) \/ blocked' = blocked
        BY <1>5 DEF Progress, Drive, ReadDone, WaitWhileBlocked, Hold, HeldUp,
                    Complete, DriveFails, GoTo, SteerRoute, Arrive
  <2> QED BY <1>3, <1>4, <2>1
<1>6. CASE HoldAges(q) \/ FirstState(q) \/ ConfirmHold(q)
             \/ CancelNavigation(q)
      BY <1>4, <1>6 DEF HoldAges, FirstState, ConfirmHold, CancelNavigation
<1> QED BY <1>1, <1>2, <1>5, <1>6 DEF Robot

\* Beyond the repeat limit only a human lifts a block (navigator.py:571).
THEOREM OnlyHumansLiftRepeats == ObstacleSpec => RepeatsNeedAHuman
<1>1. ASSUME ObstacleInv, [ObstacleNext]_obstacleVars, NEW r \in Robots
      PROVE  HumanLifts(r)
  <2>1. CASE Environment \/ UNCHANGED obstacleVars
        BY <2>1 DEF Environment, DetectorRuns, DetectorPoll, ConfirmCleared,
                    HumanLifts, obstacleVars, policyVars
  <2>2. CASE Deliver
        BY <2>2, <1>1, DeliverLifts
  <2>3. CASE \E q \in Robots : Robot(q)
        BY <2>3, <1>1, OtherStepsLiftNothing
  <2> QED BY <1>1, <2>1, <2>2, <2>3 DEF ObstacleNext
<1>2. ObstacleInv /\ [ObstacleNext]_obstacleVars =>
        [\A r \in Robots :
           /\ blocked[r] /\ count[r] >= RepeatLimit
           /\ ~blocked'[r] /\ phase'[r] # "idle"
           => heard'[r] = "manual"]_obstacleVars
      BY <1>1 DEF HumanLifts
<1> QED BY <1>2, ObstacleInvariance, PTL DEF ObstacleSpec, RepeatsNeedAHuman

=============================================================================
