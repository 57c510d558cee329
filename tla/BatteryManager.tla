--------------------------- MODULE BatteryManager ---------------------------
(***************************************************************************)
(* The battery manager hears the crossings the state monitors announce.    *)
(* On a critical battery it enters charging mode and submits a dock task;  *)
(* when no robot is registered it pauses the dispatcher meanwhile, with    *)
(* the same flag the operator uses.  The bus waits while the dock task is  *)
(* being submitted; the operator and the state monitors do not.            *)
(***************************************************************************)
EXTENDS StateMonitor

VARIABLES
  managing, \* the battery manager is subscribed
  charging, \* _charging_mode
  docking,  \* the robot whose dock task is being submitted
  dock,     \* _dock_task_active
  paused,   \* Dispatcher._paused
  asked,    \* the operator's last request was a pause (history)
  missed    \* the last crossing announced was not heard (history)

managerVars == <<managing, charging, docking, dock, paused, asked>>
vars == <<robotVars, monitorVars, bus, managerVars, missed>>

TypeOK ==
  /\ MonitorTypeOK
  /\ managing \in BOOLEAN
  /\ charging \in [Robots -> BOOLEAN] /\ dock \in [Robots -> BOOLEAN]
  /\ docking \in Robots \cup {Nobody}
  /\ paused \in BOOLEAN /\ asked \in BOOLEAN
  /\ missed \in [Robots -> BOOLEAN]

Init ==
  /\ MonitorInit
  /\ managing = FALSE
  /\ charging = [r \in Robots |-> FALSE] /\ dock = [r \in Robots |-> FALSE]
  /\ docking = Nobody
  /\ paused = FALSE /\ asked = FALSE
  /\ missed = [r \in Robots |-> FALSE]

(***************************************************************************)
(* Polls.                                                                  *)
(***************************************************************************)
LinkChanges(r) == ChangeLink(r) /\ UNCHANGED <<managerVars, missed>>

BatteryChanges(r) == ChangeBattery(r) /\ UNCHANGED <<managerVars, missed>>

ReadLink(r) == ReadTheLink(r) /\ UNCHANGED <<managerVars, missed>>

Crossings == {"critical", "recharged"}

Crosses(r, pct) == Recharged(r, pct) \/ (pct = 0 /\ latch[r] # "critical")

FinishPoll(r) ==
  /\ FinishThePoll(r)
  /\ LET pct == BatteryRead(r) IN
       missed' = IF Crosses(r, pct)
                 THEN [missed EXCEPT ![r] = ~Fits(PollEvents(r, pct))]
                 ELSE missed
  /\ UNCHANGED managerVars

(***************************************************************************)
(* The manager.                                                            *)
(***************************************************************************)
StartBatteryManager ==
  /\ ~managing /\ managing' = TRUE
  /\ UNCHANGED <<robotVars, monitorVars, bus, charging, docking, dock, paused,
                 asked, missed>>

StopBatteryManager ==
  /\ managing /\ managing' = FALSE
  /\ UNCHANGED <<robotVars, monitorVars, bus, charging, docking, dock, paused,
                 asked, missed>>

PausesDispatcher == ~Registered

HandleBatteryCritical(r) ==
  IF charging[r] THEN UNCHANGED <<charging, docking, dock, paused>>
  ELSE /\ charging' = [charging EXCEPT ![r] = TRUE]
       /\ dock' = [dock EXCEPT ![r] = FALSE]
       /\ paused' = (paused \/ PausesDispatcher)
       /\ docking' = r

(* (mutant: a recharge ends charging mode and leaves the dispatcher be) *)
PauseForgotten == paused

PausedAfterRecharge == paused /\ ~PausesDispatcher

(* (mutant: a robot without an active dock task stays in charging mode) *)
RechargedDocked(r) ==
  /\ IF charging[r] /\ dock[r]
     THEN /\ paused' = PausedAfterRecharge
          /\ charging' = [charging EXCEPT ![r] = FALSE]
          /\ dock' = [dock EXCEPT ![r] = FALSE]
     ELSE UNCHANGED <<paused, charging, dock>>
  /\ UNCHANGED docking

HandleBatteryRecharged(r) ==
  /\ IF charging[r]
     THEN /\ paused' = PausedAfterRecharge
          /\ charging' = [charging EXCEPT ![r] = FALSE]
          /\ dock' = [dock EXCEPT ![r] = FALSE]
     ELSE UNCHANGED <<paused, charging, dock>>
  /\ UNCHANGED docking

Handle(event) ==
  IF ~managing \/ event.kind \notin Crossings
  THEN UNCHANGED <<charging, docking, dock, paused>>
  ELSE IF event.kind = "critical" THEN HandleBatteryCritical(Target(event))
  ELSE HandleBatteryRecharged(Target(event))

\* The bus loop delivers one event at a time, and waits for its handlers.
Deliver ==
  /\ bus # <<>> /\ docking = Nobody
  /\ bus' = Tail(bus)
  /\ Handle(Head(bus))
  /\ missed' = IF Head(bus).kind \in Crossings /\ ~managing
               THEN [missed EXCEPT ![Target(Head(bus))] = TRUE] ELSE missed
  /\ UNCHANGED <<robotVars, monitorVars, managing, asked>>

\* The dock task has priority 9999; the database takes 0, 1 and 2.
DockPriority == 9999
ValidPriorities == 0..2
DockTaskAccepted == DockPriority \in ValidPriorities

\* The submission ends.  Accepted, the dispatcher may run to dispatch the
\* dock task; refused, charging mode and the pause stay.
SubmitDockTask ==
  /\ docking # Nobody
  /\ IF DockTaskAccepted
     THEN /\ dock' = [dock EXCEPT ![docking] = TRUE]
          /\ paused' = (paused /\ ~PausesDispatcher)
     ELSE UNCHANGED <<dock, paused>>
  /\ docking' = Nobody
  /\ UNCHANGED <<robotVars, monitorVars, bus, managing, charging, asked,
                 missed>>

OperatorPauses ==
  /\ ~(paused /\ asked)
  /\ paused' = TRUE /\ asked' = TRUE
  /\ UNCHANGED <<robotVars, monitorVars, bus, managing, charging, docking,
                 dock, missed>>

OperatorResumes ==
  /\ paused \/ asked
  /\ paused' = FALSE /\ asked' = FALSE
  /\ UNCHANGED <<robotVars, monitorVars, bus, managing, charging, docking,
                 dock, missed>>

Poll(r) == ReadLink(r) \/ FinishPoll(r)

Next ==
  \/ \E r \in Robots : LinkChanges(r) \/ BatteryChanges(r) \/ Poll(r)
  \/ StartBatteryManager \/ StopBatteryManager
  \/ OperatorPauses \/ OperatorResumes
  \/ Deliver \/ SubmitDockTask

Spec == Init /\ [][Next]_vars

(***************************************************************************)
(* The polling loops, the bus loop and the submission keep running.        *)
(***************************************************************************)
Fairness ==
  /\ WF_vars(Deliver) /\ WF_vars(SubmitDockTask)
  /\ \A r \in Robots : WF_vars(Poll(r))

FairSpec == Spec /\ Fairness

-----------------------------------------------------------------------------
(* The battery manager is in charging mode exactly when the last crossing  *)
(* the state monitor announced was the critical one, unless that event was *)
(* lost: no order of polls and deliveries makes the two disagree.          *)
Pending(r) == {i \in 1..Len(bus) : bus[i].robot = r /\ bus[i].kind \in Crossings}

ChargingFollowsBattery ==
  \A r \in Robots :
    Pending(r) = {} /\ ~missed[r] => (charging[r] <=> latch[r] = "critical")

(* A paused dispatcher has someone who will resume it: the operator asked  *)
(* for the pause, or the battery manager is in charging mode for it.       *)
PauseHasAReason ==
  paused => asked \/ \E r \in Robots : PausesDispatcher /\ charging[r]

(* A robot that stays charged and connected leaves charging mode, unless   *)
(* the event of its recharge was lost.                                     *)
RechargeEndsCharging ==
  \A r \in Robots :
    <>[](link[r] /\ level[r] = 3 /\ managing) => <>[](~charging[r] \/ missed[r])
=============================================================================
