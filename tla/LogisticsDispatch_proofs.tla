---------------------- MODULE LogisticsDispatch_proofs ----------------------
(***************************************************************************)
(* Theorems about LogisticsDispatch, for any number of robots and tasks,   *)
(* any routes, any bus capacity and all the disturbances together.         *)
(*                                                                         *)
(* The inductive invariant IndInv is the conjunction of the parts below.   *)
(* The chain is: a robot has an active task exactly while its dispatch     *)
(* coroutine is past the selection, one coroutine at a time is inside the  *)
(* dispatch lock, and an active task is still "queued" only for that one;  *)
(* hence no second robot is given it.  A confirmation event is on the bus  *)
(* only for a gate a human confirmed, and a handler that finds its robot   *)
(* on another task finds it before its first arrival; hence no gate is     *)
(* passed unconfirmed.                                                     *)
(***************************************************************************)
EXTENDS LogisticsDispatch, SequenceTheorems, FiniteSetTheorems, TLAPS

ActiveWhileBusy ==
  \A r \in Robots : active[r] # NoTask <=> pc[r] \notin {"idle", "ready"}

OneMarks ==
  \A r1, r2 \in Robots : pc[r1] = "marking" /\ pc[r2] = "marking" => r1 = r2

QueuedOnlyWhileMarking ==
  \A r \in Robots :
    active[r] # NoTask =>
      /\ status[active[r]] # "none"
      /\ status[active[r]] = "queued" => pc[r] = "marking"

UnderWay == {"awaiting_load", "in_transit", "awaiting_unload"}

ArrivalCountedUnderWay ==
  \A r \in Robots :
    active[r] # NoTask /\ status[active[r]] \in UnderWay => holds[r] >= 1

EventsConfirmed ==
  \A i \in 1 .. Len(bus) :
    bus[i].kind \in Gates => <<bus[i].task, bus[i].kind>> \in confirmed

HandlingConfirmed ==
  handling # NoEvent /\ handling.kind \in Gates =>
    <<handling.task, handling.kind>> \in confirmed

UnloadConfirmed ==
  \A r \in Robots :
    unloadOk[r] => active[r] # NoTask /\ <<active[r], "unload">> \in confirmed

StaleHandlerHarmless ==
  (/\ handling # NoEvent
   /\ active[handling.robot] \notin {handling.task, NoTask})
  => /\ holds[handling.robot] = 0
     /\ status[active[handling.robot]] \notin UnderWay

IdleWhenStopped == mode = "stopped" => \A r \in Robots : pc[r] = "idle"

IndInv ==
  /\ TypeOK
  /\ ActiveWhileBusy
  /\ OneMarks
  /\ OneRobotPerTask
  /\ QueuedOnlyWhileMarking
  /\ ArrivalCountedUnderWay
  /\ EventsConfirmed
  /\ HandlingConfirmed
  /\ UnloadConfirmed
  /\ StaleHandlerHarmless
  /\ IdleWhenStopped

-----------------------------------------------------------------------------
(* The status table *)

\* Where each status can be reached from; nothing leads back to "queued".
LEMMA MoveFacts ==
  ASSUME NEW old, NEW new, CanMove(old, new)
  PROVE  /\ new \in TaskStatuses \ {"queued"}
         /\ old \notin TerminalStatuses \cup {"none"}
         /\ new = "awaiting_load"   => old = "dispatched"
         /\ new = "in_transit"      => old = "awaiting_load"
         /\ new = "awaiting_unload" => old = "in_transit"
         /\ new = "completed"       => old = "awaiting_unload"
BY DEF CanMove, AllowedTransitions, TaskStatuses, TerminalStatuses

LEMMA EventRobotType ==
  ASSUME NEW event \in Event
  PROVE  EventRobot(event) \in Robots
BY ConstantsAssumption DEF EventRobot, Event

-----------------------------------------------------------------------------
(* The invariant holds initially *)

LEMMA InitIndInv == Init => IndInv
<1> SUFFICES ASSUME Init PROVE IndInv
    OBVIOUS
<1>1. TypeOK
  <2>1. bus \in Seq(Event) /\ Len(bus) <= BusCapacity
        BY ConstantsAssumption DEF Init
  <2> QED BY <2>1 DEF Init, TypeOK
<1>2. ActiveWhileBusy /\ OneMarks /\ OneRobotPerTask /\ IdleWhenStopped
      BY DEF Init, ActiveWhileBusy, OneMarks, OneRobotPerTask, IdleWhenStopped
<1>3. QueuedOnlyWhileMarking /\ ArrivalCountedUnderWay /\ UnloadConfirmed
      BY DEF Init, QueuedOnlyWhileMarking, ArrivalCountedUnderWay,
             UnloadConfirmed
<1>4. EventsConfirmed /\ HandlingConfirmed /\ StaleHandlerHarmless
      BY DEF Init, EventsConfirmed, HandlingConfirmed, StaleHandlerHarmless
<1> QED BY <1>1, <1>2, <1>3, <1>4 DEF IndInv

-----------------------------------------------------------------------------
(* Steps of operators, watchdog and shutdown *)

LEMMA SubmitTaskInv ==
  ASSUME IndInv, NEW t \in Tasks, SubmitTask(t) PROVE IndInv'
<1> USE DEF IndInv, SubmitTask, dispatcherVars, coroutineVars, lifecycleVars,
            navigatorVars, busVars
<1>1. TypeOK'
      BY DEF TypeOK, TaskStatuses
<1>2. \A r \in Robots : active[r] # t
      BY ConstantsAssumption DEF QueuedOnlyWhileMarking
<1>3. ActiveWhileBusy' /\ OneMarks' /\ OneRobotPerTask' /\ IdleWhenStopped'
      BY DEF ActiveWhileBusy, OneMarks, OneRobotPerTask, IdleWhenStopped
<1>4. QueuedOnlyWhileMarking' /\ ArrivalCountedUnderWay' /\ UnloadConfirmed'
      BY <1>2 DEF TypeOK, QueuedOnlyWhileMarking, ArrivalCountedUnderWay,
                  UnloadConfirmed
<1>5. EventsConfirmed' /\ HandlingConfirmed'
      BY DEF EventsConfirmed, HandlingConfirmed
<1>6. StaleHandlerHarmless'
      BY <1>2 DEF TypeOK, PendingHandler, StaleHandlerHarmless, UnderWay
<1> QED BY <1>1, <1>3, <1>4, <1>5, <1>6

\* A task that ends, whoever ends it, while the robots' tables stay.
LEMMA TaskEndsInv ==
  ASSUME IndInv, NEW t \in Tasks, NEW new \in TerminalStatuses,
         status' = [status EXCEPT ![t] = new],
         UNCHANGED <<confirmed, dispatcherVars, coroutineVars, lifecycleVars,
                     navigatorVars, busVars>>
  PROVE  IndInv'
<1> USE DEF IndInv, dispatcherVars, coroutineVars, lifecycleVars,
            navigatorVars, busVars
<1>1. TypeOK'
      BY DEF TypeOK, TaskStatuses, TerminalStatuses
<1>2. \A a \in Tasks : \/ status'[a] = status[a]
                       \/ status'[a] \in TerminalStatuses
      BY DEF TypeOK
<1>3. ActiveWhileBusy' /\ OneMarks' /\ OneRobotPerTask' /\ IdleWhenStopped'
      BY DEF ActiveWhileBusy, OneMarks, OneRobotPerTask, IdleWhenStopped
<1>4. QueuedOnlyWhileMarking' /\ ArrivalCountedUnderWay' /\ UnloadConfirmed'
      BY <1>2 DEF TypeOK, QueuedOnlyWhileMarking, ArrivalCountedUnderWay,
                  UnloadConfirmed, TerminalStatuses, UnderWay
<1>5. EventsConfirmed' /\ HandlingConfirmed'
      BY DEF EventsConfirmed, HandlingConfirmed
<1>6. StaleHandlerHarmless'
      BY <1>2 DEF TypeOK, PendingHandler, StaleHandlerHarmless, UnderWay,
                  TerminalStatuses
<1> QED BY <1>1, <1>3, <1>4, <1>5, <1>6

LEMMA CancelTaskInv ==
  ASSUME IndInv, NEW t \in Tasks, CancelTask(t) PROVE IndInv'
BY TaskEndsInv DEF CancelTask, TerminalStatuses

LEMMA WatchdogInterruptInv ==
  ASSUME IndInv, NEW r \in Robots, WatchdogInterrupt(r) PROVE IndInv'
<1>1. active[r] \in Tasks
      BY DEF WatchdogInterrupt, IndInv, TypeOK
<1> QED BY <1>1, TaskEndsInv DEF WatchdogInterrupt, TerminalStatuses

LEMMA ConfirmInv ==
  ASSUME IndInv, NEW t \in Tasks, NEW gate \in Gates,
         NEW robot \in Robots \cup {NoRobot}, Confirm(t, gate, robot)
  PROVE  IndInv'
<1> DEFINE event == [kind |-> gate, task |-> t, robot |-> robot]
<1> USE DEF IndInv, Confirm, dispatcherVars, coroutineVars, lifecycleVars,
            navigatorVars
<1>1. event \in Event
      BY DEF Event
<1>2. bus' \in Seq(Event) /\ Len(bus') = Len(bus) + 1
      BY <1>1 DEF TypeOK
<1>3. TypeOK'
      BY <1>2, ConstantsAssumption DEF TypeOK
<1>4. ActiveWhileBusy' /\ OneMarks' /\ OneRobotPerTask' /\ IdleWhenStopped'
      BY DEF ActiveWhileBusy, OneMarks, OneRobotPerTask, IdleWhenStopped
<1>5. QueuedOnlyWhileMarking' /\ ArrivalCountedUnderWay' /\ UnloadConfirmed'
      BY DEF QueuedOnlyWhileMarking, ArrivalCountedUnderWay, UnloadConfirmed
<1>6. EventsConfirmed'
  <2>1. confirmed' = confirmed \cup {<<t, gate>>}
        OBVIOUS
  <2>2. bus'[Len(bus) + 1] = event
        BY DEF TypeOK
  <2>3. ASSUME NEW i \in 1 .. Len(bus'), i # Len(bus) + 1
        PROVE  i \in 1 .. Len(bus) /\ bus'[i] = bus[i]
        BY <1>2, <2>3 DEF TypeOK
  <2> HIDE DEF IndInv, Confirm
  <2> SUFFICES ASSUME NEW i \in 1 .. Len(bus'), bus'[i].kind \in Gates
               PROVE  <<bus'[i].task, bus'[i].kind>> \in confirmed'
      BY DEF EventsConfirmed
  <2>4. CASE i = Len(bus) + 1
        BY <2>1, <2>2, <2>4
  <2>5. CASE i # Len(bus) + 1
        BY <2>1, <2>3, <2>5 DEF EventsConfirmed, IndInv
  <2> QED BY <2>4, <2>5
<1>7. HandlingConfirmed' /\ StaleHandlerHarmless'
      BY DEF HandlingConfirmed, StaleHandlerHarmless
<1> QED BY <1>3, <1>4, <1>5, <1>6, <1>7

\* Steps that touch only the dispatcher's life cycle or the navigators.
LEMMA LifecycleInv ==
  ASSUME IndInv, TypeOK',
         mode' = "stopped" => \A r \in Robots : pc[r] = "idle",
         UNCHANGED <<status, confirmed, dispatcherVars, coroutineVars,
                     busVars>>
  PROVE  IndInv'
<1> USE DEF IndInv, dispatcherVars, coroutineVars, busVars
<1>1. ActiveWhileBusy' /\ OneMarks' /\ OneRobotPerTask' /\ IdleWhenStopped'
      BY DEF ActiveWhileBusy, OneMarks, OneRobotPerTask, IdleWhenStopped
<1>2. QueuedOnlyWhileMarking' /\ ArrivalCountedUnderWay' /\ UnloadConfirmed'
      BY DEF QueuedOnlyWhileMarking, ArrivalCountedUnderWay, UnloadConfirmed
<1>3. EventsConfirmed' /\ HandlingConfirmed' /\ StaleHandlerHarmless'
      BY DEF EventsConfirmed, HandlingConfirmed, StaleHandlerHarmless
<1> QED BY <1>1, <1>2, <1>3

LEMMA ShutdownInv ==
  ASSUME IndInv,
         \/ \E value \in BOOLEAN : SetPaused(value)
         \/ StopDispatcher
         \/ \E r \in Robots : CancelNavigation(r)
         \/ DispatcherStopped
  PROVE  IndInv'
<1> USE DEF IndInv, TypeOK, IdleWhenStopped, dispatcherVars, coroutineVars,
            lifecycleVars, navigatorVars, busVars
<1>1. CASE \E value \in BOOLEAN : SetPaused(value)
      BY <1>1, LifecycleInv DEF SetPaused
<1>2. CASE StopDispatcher
      BY <1>2, LifecycleInv DEF StopDispatcher
<1>3. CASE \E r \in Robots : CancelNavigation(r)
      BY <1>3, LifecycleInv DEF CancelNavigation
<1>4. CASE DispatcherStopped
      BY <1>4, LifecycleInv DEF DispatcherStopped
<1> QED BY <1>1, <1>2, <1>3, <1>4

LEMMA CrashAndRestartInv ==
  ASSUME IndInv, CrashAndRestart PROVE IndInv'
<1> USE DEF IndInv, CrashAndRestart
<1>1. TypeOK'
  <2>1. bus' \in Seq(Event) /\ Len(bus') <= BusCapacity
        BY ConstantsAssumption
  <2> QED BY <2>1 DEF TypeOK
<1>2. ActiveWhileBusy' /\ OneMarks' /\ OneRobotPerTask' /\ IdleWhenStopped'
      BY DEF ActiveWhileBusy, OneMarks, OneRobotPerTask, IdleWhenStopped
<1>3. QueuedOnlyWhileMarking' /\ ArrivalCountedUnderWay' /\ UnloadConfirmed'
      BY DEF QueuedOnlyWhileMarking, ArrivalCountedUnderWay, UnloadConfirmed
<1>4. EventsConfirmed' /\ HandlingConfirmed' /\ StaleHandlerHarmless'
      BY DEF EventsConfirmed, HandlingConfirmed, StaleHandlerHarmless
<1> QED BY <1>1, <1>2, <1>3, <1>4

-----------------------------------------------------------------------------
(* Steps of the dispatch coroutine *)

\* Before the choice of a task, and between the choice's mark and the route's
\* interpretation, only pc moves, with what the navigator keeps for itself.
Choosing == {"idle", "ready"}
OnTheWay == {"starting", "driving", "holding", "arrived", "judging", "aborted"}

LEMMA MovesOnInv ==
  ASSUME IndInv, TypeOK', NEW r \in Robots, NEW next,
         \/ pc[r] \in Choosing /\ next \in Choosing
         \/ pc[r] \in OnTheWay /\ next \in OnTheWay,
         pc' = [pc EXCEPT ![r] = next],
         mode = "stopped" => next = "idle",
         UNCHANGED <<status, confirmed, dispatcherVars, mode, handling>>,
         EventsConfirmed'
  PROVE  IndInv'
<1> USE DEF IndInv, dispatcherVars
<1>1. pc'[r] = next /\ \A q \in Robots \ {r} : pc'[q] = pc[q]
      BY DEF TypeOK
<1>2. ActiveWhileBusy' /\ OneMarks'
      BY <1>1 DEF ActiveWhileBusy, OneMarks, Choosing, OnTheWay
<1>3. OneRobotPerTask' /\ IdleWhenStopped'
      BY <1>1 DEF OneRobotPerTask, IdleWhenStopped, Choosing, OnTheWay
<1>4. QueuedOnlyWhileMarking'
      BY <1>1 DEF QueuedOnlyWhileMarking, ActiveWhileBusy, Choosing, OnTheWay
<1>5. ArrivalCountedUnderWay' /\ UnloadConfirmed'
      BY DEF ArrivalCountedUnderWay, UnloadConfirmed
<1>6. HandlingConfirmed' /\ StaleHandlerHarmless'
      BY DEF HandlingConfirmed, StaleHandlerHarmless
<1> QED BY <1>2, <1>3, <1>4, <1>5, <1>6

LEMMA ChoosingInv ==
  ASSUME IndInv, NEW r \in Robots, BeginDispatch(r) \/ SkipDispatch(r)
  PROVE  IndInv'
<1> USE DEF IndInv, TypeOK, Choosing, EventsConfirmed, dispatcherVars,
            lifecycleVars, navigatorVars, busVars
<1>1. CASE BeginDispatch(r)
      BY <1>1, MovesOnInv DEF BeginDispatch, LoopSchedules
<1>2. CASE SkipDispatch(r)
      BY <1>2, MovesOnInv DEF SkipDispatch
<1> QED BY <1>1, <1>2

LEMMA RouteInv ==
  ASSUME IndInv, NEW r \in Robots,
         \/ StartNavigation(r) \/ LeaveHold(r)     \/ FinishRoute(r)
         \/ CancelledExit(r)   \/ NavigationFault(r) \/ ReadTask(r)
  PROVE  IndInv'
<1> USE DEF IndInv, OnTheWay, EventsConfirmed, IdleWhenStopped, Navigating,
            dispatcherVars, lifecycleVars, navigatorVars, busVars
<1>1. ASSUME pc[r] \in OnTheWay PROVE mode # "stopped"
      BY <1>1
<1>2. CASE StartNavigation(r)
  <2>1. TypeOK'
        BY <1>2 DEF StartNavigation, TypeOK
  <2> QED BY <1>1, <1>2, <2>1, MovesOnInv DEF StartNavigation
<1>3. CASE LeaveHold(r)
  <2>1. TypeOK'
        BY <1>3 DEF LeaveHold, TypeOK
  <2> QED BY <1>1, <1>3, <2>1, MovesOnInv DEF LeaveHold
<1>4. CASE FinishRoute(r)
  <2>1. TypeOK'
        BY <1>4 DEF FinishRoute, TypeOK
  <2> QED BY <1>1, <1>4, <2>1, MovesOnInv DEF FinishRoute
<1>5. CASE CancelledExit(r)
  <2>1. TypeOK'
        BY <1>5 DEF CancelledExit, TypeOK
  <2> QED BY <1>1, <1>5, <2>1, MovesOnInv DEF CancelledExit
<1>6. CASE NavigationFault(r)
  <2>1. TypeOK'
        BY <1>6 DEF NavigationFault, TypeOK
  <2> QED BY <1>1, <1>6, <2>1, MovesOnInv DEF NavigationFault
<1>7. CASE ReadTask(r)
  <2>1. active[r] \in Tasks
        BY <1>7 DEF ReadTask, TypeOK, ActiveWhileBusy
  <2>2. TypeOK'
        BY <1>7, <2>1 DEF ReadTask, TypeOK
  <2> QED BY <1>1, <1>7, <2>2, MovesOnInv DEF ReadTask
<1> QED BY <1>2, <1>3, <1>4, <1>5, <1>6, <1>7

\* A dropped or appended arrival: no confirmation is added to the bus.
LEMMA ReachHoldInv ==
  ASSUME IndInv, NEW r \in Robots, ReachHold(r) PROVE IndInv'
<1> DEFINE event == [kind |-> "arrived", task |-> active[r], robot |-> r]
<1> USE DEF IndInv, ReachHold, dispatcherVars, lifecycleVars
<1>1. event \in Event /\ event.kind \notin Gates
      BY DEF Event, TypeOK, ActiveWhileBusy, Gates
<1>2. CASE Len(bus) < BusCapacity
  <2>1. bus' = Append(bus, event)
        BY <1>2 DEF PublishNowait
  <2>2. bus' \in Seq(Event) /\ Len(bus') = Len(bus) + 1 /\ Len(bus) \in Nat
        BY <1>1, <2>1 DEF TypeOK
  <2>3. TypeOK'
        BY <1>2, <2>2, ConstantsAssumption DEF TypeOK
  <2>4. EventsConfirmed'
    <3> SUFFICES ASSUME NEW i \in 1 .. Len(bus'), bus'[i].kind \in Gates
                 PROVE  <<bus'[i].task, bus'[i].kind>> \in confirmed'
        BY DEF EventsConfirmed
    <3>1. i # Len(bus) + 1
          BY <1>1, <2>1 DEF TypeOK
    <3>2. i \in 1 .. Len(bus) /\ bus'[i] = bus[i]
          BY <2>1, <2>2, <3>1 DEF TypeOK
    <3> QED BY <3>2 DEF EventsConfirmed
  <2> QED BY <2>3, <2>4, MovesOnInv DEF OnTheWay, IdleWhenStopped
<1>3. CASE ~(Len(bus) < BusCapacity)
  <2>1. bus' = bus
        BY <1>3 DEF PublishNowait
  <2>2. TypeOK' /\ EventsConfirmed'
        BY <2>1 DEF TypeOK, EventsConfirmed
  <2> QED BY <2>2, MovesOnInv DEF OnTheWay, IdleWhenStopped
<1> QED BY <1>2, <1>3

\* The robot leaves the choice with a queued task that no other robot has:
\* another robot's active task is queued only while that robot marks it, and
\* it would then hold the dispatch lock.
LEMMA SelectTaskInv ==
  ASSUME IndInv, NEW r \in Robots, NEW t \in Tasks, SelectTask(r, t)
  PROVE  IndInv'
<1> USE DEF IndInv, SelectTask, DispatchLockFree, QueuedTasks, lifecycleVars,
            navigatorVars, busVars
<1>1. TypeOK'
      BY DEF TypeOK
<1>2. /\ pc'[r] = "marking" /\ active'[r] = t
      /\ holds'[r] = 0 /\ unloadOk'[r] = FALSE
      /\ \A q \in Robots \ {r} : /\ pc'[q] = pc[q] /\ active'[q] = active[q]
                                 /\ holds'[q] = holds[q]
                                 /\ unloadOk'[q] = unloadOk[q]
      BY DEF TypeOK
<1>3. status[t] = "queued" /\ t # NoTask
      BY ConstantsAssumption
<1>4. \A q \in Robots : active[q] # t
      BY <1>3 DEF QueuedOnlyWhileMarking
<1>5. ActiveWhileBusy' /\ OneMarks'
      BY <1>2, <1>3 DEF ActiveWhileBusy, OneMarks
<1>6. OneRobotPerTask' /\ IdleWhenStopped'
      BY <1>2, <1>4 DEF OneRobotPerTask, IdleWhenStopped
<1>7. QueuedOnlyWhileMarking'
      BY <1>2, <1>3 DEF QueuedOnlyWhileMarking
<1>8. ArrivalCountedUnderWay' /\ UnloadConfirmed'
      BY <1>2, <1>3 DEF ArrivalCountedUnderWay, UnloadConfirmed, UnderWay
<1>9. EventsConfirmed' /\ HandlingConfirmed'
      BY DEF EventsConfirmed, HandlingConfirmed
<1>10. StaleHandlerHarmless'
      BY <1>2, <1>3 DEF StaleHandlerHarmless, TypeOK, PendingHandler, UnderWay
<1> QED BY <1>1, <1>5, <1>6, <1>7, <1>8, <1>9, <1>10

\* The end of a dispatch: the robot's task is left as it is or ended, and the
\* robot's tables are cleared.
LEMMA DispatchEndsInv ==
  ASSUME IndInv, NEW r \in Robots, NEW new, active[r] \in Tasks,
         new = status[active[r]] \/ new \in TerminalStatuses,
         status' = [status EXCEPT ![active[r]] = new],
         pc' = [pc EXCEPT ![r] = "idle"],
         judged' = judged \/ judged' = [judged EXCEPT ![r] = "none"],
         ForgetActiveTask(r),
         UNCHANGED <<confirmed, lifecycleVars, navigatorVars, busVars>>
  PROVE  IndInv'
<1> USE DEF IndInv, ForgetActiveTask, lifecycleVars, navigatorVars, busVars
<1>1. TypeOK'
      BY DEF TypeOK, TaskStatuses, TerminalStatuses
<1>2. /\ pc'[r] = "idle" /\ active'[r] = NoTask
      /\ unloadOk'[r] = FALSE
      /\ \A q \in Robots \ {r} : /\ pc'[q] = pc[q] /\ active'[q] = active[q]
                                 /\ holds'[q] = holds[q]
                                 /\ unloadOk'[q] = unloadOk[q]
      BY DEF TypeOK
<1>3. \A a \in Tasks : \/ status'[a] = status[a]
                       \/ status'[a] \in TerminalStatuses
      BY DEF TypeOK
<1>4. ActiveWhileBusy' /\ OneMarks'
      BY <1>2 DEF ActiveWhileBusy, OneMarks
<1>5. OneRobotPerTask' /\ IdleWhenStopped'
      BY <1>2 DEF OneRobotPerTask, IdleWhenStopped
<1>6. QueuedOnlyWhileMarking'
      BY <1>2, <1>3 DEF QueuedOnlyWhileMarking, TypeOK, TerminalStatuses
<1>7. ArrivalCountedUnderWay' /\ UnloadConfirmed'
      BY <1>2, <1>3 DEF ArrivalCountedUnderWay, UnloadConfirmed, TypeOK,
                        UnderWay, TerminalStatuses
<1>8. EventsConfirmed' /\ HandlingConfirmed'
      BY DEF EventsConfirmed, HandlingConfirmed
<1>9. StaleHandlerHarmless'
      BY <1>2, <1>3 DEF StaleHandlerHarmless, TypeOK, PendingHandler, UnderWay,
                        TerminalStatuses
<1> QED BY <1>1, <1>4, <1>5, <1>6, <1>7, <1>8, <1>9

LEMMA MarkDispatchedInv ==
  ASSUME IndInv, NEW r \in Robots, MarkDispatched(r) PROVE IndInv'
<1> DEFINE t == active[r]
<1> USE DEF IndInv, MarkDispatched, lifecycleVars, navigatorVars, busVars
<1>1. t \in Tasks
      BY DEF TypeOK, ActiveWhileBusy
<1>2. CASE ~CanMove(status[t], "dispatched")
  <2>1. status' = [status EXCEPT ![t] = status[t]]
        BY <1>2, <1>1 DEF TypeOK
  <2> QED BY <1>1, <1>2, <2>1, DispatchEndsInv
<1>3. CASE CanMove(status[t], "dispatched")
  <2> USE <1>3 DEF dispatcherVars
  <2>1. TypeOK'
        BY <1>1 DEF TypeOK, TaskStatuses
  <2>2. /\ pc'[r] = "starting" /\ status'[t] = "dispatched"
        /\ \A q \in Robots \ {r} : pc'[q] = pc[q]
        /\ \A a \in Tasks \ {t} : status'[a] = status[a]
        BY <1>1 DEF TypeOK
  <2>3. ActiveWhileBusy' /\ OneMarks' /\ OneRobotPerTask' /\ IdleWhenStopped'
        BY <2>2 DEF ActiveWhileBusy, OneMarks, OneRobotPerTask, IdleWhenStopped
  <2>4. QueuedOnlyWhileMarking'
        BY <1>1, <2>2 DEF QueuedOnlyWhileMarking, OneRobotPerTask, TypeOK
  <2>5. ArrivalCountedUnderWay' /\ UnloadConfirmed'
        BY <1>1, <2>2 DEF ArrivalCountedUnderWay, UnloadConfirmed, UnderWay,
                          TypeOK
  <2>6. EventsConfirmed' /\ HandlingConfirmed'
        BY DEF EventsConfirmed, HandlingConfirmed
  <2>7. StaleHandlerHarmless'
        BY <1>1, <2>2 DEF StaleHandlerHarmless, TypeOK, PendingHandler,
                          UnderWay
  <2> QED BY <2>1, <2>3, <2>4, <2>5, <2>6, <2>7
<1> QED BY <1>2, <1>3

LEMMA InterpretInv ==
  ASSUME IndInv, NEW r \in Robots, InterpretSuccess(r) \/ InterpretAbort(r)
  PROVE  IndInv'
<1> USE DEF TerminalStatuses
<1>1. CASE InterpretSuccess(r)
  <2>1. active[r] \in Tasks
        BY <1>1 DEF InterpretSuccess, IndInv, TypeOK, ActiveWhileBusy
  <2>2. \/ StatusAfterSuccess(r) = status[active[r]]
        \/ StatusAfterSuccess(r) \in TerminalStatuses
        BY DEF StatusAfterSuccess
  <2> QED BY <1>1, <2>1, <2>2, DispatchEndsInv DEF InterpretSuccess
<1>2. CASE InterpretAbort(r)
  <2> DEFINE new == IF status[active[r]] \in TerminalStatuses
                    THEN status[active[r]] ELSE "failed"
  <2>1. active[r] \in Tasks
        BY <1>2 DEF InterpretAbort, IndInv, TypeOK, ActiveWhileBusy
  <2>2. status' = [status EXCEPT ![active[r]] = new]
        BY <1>2, <2>1 DEF InterpretAbort, IndInv, TypeOK
  <2> QED BY <1>2, <2>1, <2>2, DispatchEndsInv DEF InterpretAbort
<1> QED BY <1>1, <1>2

-----------------------------------------------------------------------------
(* Steps of the event bus *)

LEMMA HeadOfBus ==
  ASSUME IndInv, bus # <<>>
  PROVE  /\ Head(bus) \in Event
         /\ Head(bus).kind \in Gates =>
              <<Head(bus).task, Head(bus).kind>> \in confirmed
         /\ Tail(bus) \in Seq(Event) /\ Len(Tail(bus)) <= BusCapacity
         /\ \A i \in 1 .. Len(Tail(bus)) :
              Tail(bus)[i].kind \in Gates =>
                <<Tail(bus)[i].task, Tail(bus)[i].kind>> \in confirmed
<1>1. bus \in Seq(Event) /\ Len(bus) \in Nat \ {0} /\ Len(bus) <= BusCapacity
      BY DEF IndInv, TypeOK
<1>2. Head(bus) = bus[1] /\ bus[1] \in Event
      BY <1>1
<1>3. /\ Tail(bus) \in Seq(Event) /\ Len(Tail(bus)) = Len(bus) - 1
      /\ \A i \in 1 .. Len(Tail(bus)) : Tail(bus)[i] = bus[i + 1]
      BY <1>1
<1>4. Len(Tail(bus)) <= BusCapacity
      BY <1>1, <1>3, ConstantsAssumption
<1>5. \A i \in 1 .. Len(Tail(bus)) : i + 1 \in 1 .. Len(bus)
      BY <1>1, <1>3
<1> QED BY <1>1, <1>2, <1>3, <1>4, <1>5 DEF IndInv, EventsConfirmed

LEMMA DeliverPastInv ==
  ASSUME IndInv, DeliverPast PROVE IndInv'
<1> USE DEF IndInv, DeliverPast, ReleaseHolds, dispatcherVars, coroutineVars,
            lifecycleVars
<1>1. TypeOK'
      BY HeadOfBus DEF TypeOK
<1>2. EventsConfirmed'
      BY HeadOfBus DEF EventsConfirmed
<1>3. ActiveWhileBusy' /\ OneMarks' /\ OneRobotPerTask' /\ IdleWhenStopped'
      BY DEF ActiveWhileBusy, OneMarks, OneRobotPerTask, IdleWhenStopped
<1>4. QueuedOnlyWhileMarking' /\ ArrivalCountedUnderWay' /\ UnloadConfirmed'
      BY DEF QueuedOnlyWhileMarking, ArrivalCountedUnderWay, UnloadConfirmed
<1>5. HandlingConfirmed' /\ StaleHandlerHarmless'
      BY DEF HandlingConfirmed, StaleHandlerHarmless
<1> QED BY <1>1, <1>2, <1>3, <1>4, <1>5

LEMMA DeliverBeginInv ==
  ASSUME IndInv, DeliverBegin PROVE IndInv'
<1> DEFINE event == Head(bus)
           robot == EventRobot(event)
<1> USE DEF IndInv, coroutineVars, lifecycleVars, navigatorVars
<1>1. /\ bus # <<>> /\ event \in Event /\ bus' = Tail(bus)
      /\ event.kind \in Gates => <<event.task, event.kind>> \in confirmed
      BY HeadOfBus DEF DeliverBegin
<1>2. robot \in Robots /\ event.task \in Tasks /\ active[robot] = event.task
      BY <1>1, EventRobotType DEF DeliverBegin, DispatcherConcerned, Event
<1>3. active[robot] # NoTask /\ status[event.task] \in TaskStatuses
      BY <1>2, ConstantsAssumption DEF QueuedOnlyWhileMarking, TypeOK
<1>4. handling' = [kind |-> event.kind, task |-> event.task, robot |-> robot,
                   seen |-> status[event.task],
                   wake |-> NavigatorsConcerned(event)]
      BY DEF DeliverBegin
<1>5. handling' \in PendingHandler
  <2>1. NavigatorsConcerned(event) \subseteq Robots
        BY ConstantsAssumption DEF NavigatorsConcerned
  <2>2. event.kind \in Gates \cup {"arrived"}
        BY <1>1 DEF Event
  <2> QED BY <1>2, <1>3, <1>4, <2>1, <2>2 DEF PendingHandler
<1>6. /\ \A q \in Robots : holds'[q] \in Nat /\ holds'[q] >= holds[q]
      /\ \A q \in Robots : unloadOk'[q] =>
             unloadOk[q] \/ (q = robot /\ event.kind = "unload")
      /\ holds' \in [Robots -> Nat] /\ unloadOk' \in [Robots -> BOOLEAN]
  <2>1. /\ holds' = [holds EXCEPT ![robot] =
                       IF event.kind = "arrived" THEN @ + 1 ELSE @]
        /\ unloadOk' = [unloadOk EXCEPT ![robot] = @ \/ event.kind = "unload"]
        BY DEF DeliverBegin
  <2>2. holds' \in [Robots -> Nat]
        BY <1>2, <2>1 DEF TypeOK
  <2>3. \A q \in Robots : holds'[q] >= holds[q]
        BY <1>2, <2>1 DEF TypeOK
  <2>4. unloadOk' \in [Robots -> BOOLEAN]
        BY <1>2, <2>1 DEF TypeOK
  <2>5. \A q \in Robots : unloadOk'[q] =>
             unloadOk[q] \/ (q = robot /\ event.kind = "unload")
    <3>1. \A q \in Robots \ {robot} : unloadOk'[q] = unloadOk[q]
          BY <2>1 DEF TypeOK
    <3>2. CASE event.kind = "unload"
          BY <3>1, <3>2
    <3>3. CASE event.kind # "unload"
          BY <2>1, <3>3 DEF TypeOK
    <3> QED BY <3>2, <3>3
  <2> QED BY <2>2, <2>3, <2>4, <2>5
<1>7. UNCHANGED <<status, confirmed, active, pc, mode>>
      BY DEF DeliverBegin
<1>8. TypeOK'
      BY <1>1, <1>5, <1>6, HeadOfBus DEF TypeOK, DeliverBegin
<1>9. ActiveWhileBusy' /\ OneMarks' /\ OneRobotPerTask' /\ IdleWhenStopped'
      BY <1>7 DEF ActiveWhileBusy, OneMarks, OneRobotPerTask, IdleWhenStopped
<1>10. QueuedOnlyWhileMarking'
      BY <1>7 DEF QueuedOnlyWhileMarking
<1>11. ArrivalCountedUnderWay'
      BY <1>6, <1>7 DEF ArrivalCountedUnderWay, TypeOK
<1>12. UnloadConfirmed'
      BY <1>1, <1>2, <1>3, <1>6, <1>7 DEF UnloadConfirmed, Gates
<1>13. EventsConfirmed'
      BY <1>1, <1>7, HeadOfBus DEF EventsConfirmed
<1>14. HandlingConfirmed' /\ StaleHandlerHarmless'
      BY <1>1, <1>2, <1>4, <1>7 DEF HandlingConfirmed, StaleHandlerHarmless
<1> QED BY <1>8, <1>9, <1>10, <1>11, <1>12, <1>13, <1>14

\* What a resuming handler can do to its robot's active task: a handler that
\* finds another task than its own changes nothing, and one that passes a gate
\* was called by the confirmation of that gate.
LEMMA HandlerMoves ==
  ASSUME IndInv, handling # NoEvent,
         active[handling.robot] # NoTask,
         CanMove(status[active[handling.robot]], HandlerTarget)
  PROVE  /\ handling.robot \in Robots
         /\ active[handling.robot] = handling.task
         /\ handling.task \in Tasks
         /\ HandlerTarget \in UnderWay => holds[handling.robot] >= 1
         /\ HandlerTarget = "in_transit" =>
              <<handling.task, "load">> \in confirmed
         /\ HandlerTarget = "completed" =>
              <<handling.task, "unload">> \in confirmed
<1> DEFINE r == handling.robot
           t == active[r]
<1> USE DEF IndInv
<1>1. handling \in PendingHandler /\ r \in Robots /\ t \in Tasks
      BY DEF TypeOK, PendingHandler
<1>2. holds[r] \in Nat
      BY <1>1 DEF TypeOK
<1>3. HandlerTarget = "awaiting_load" =>
        handling.kind = "arrived" /\ holds[r] = 1
      BY DEF HandlerTarget
<1>4. HandlerTarget = "awaiting_unload" =>
        handling.kind = "arrived" /\ holds[r] >= 2
      BY DEF HandlerTarget
<1>5. HandlerTarget = "in_transit" => handling.kind = "load"
      BY DEF HandlerTarget
<1>6. HandlerTarget = "completed" => handling.kind = "unload"
      BY DEF HandlerTarget
<1>7. HandlerTarget \in {"awaiting_load", "awaiting_unload", "in_transit",
                         "completed"}
  <2>1. HandlerTarget \in {"awaiting_load", "awaiting_unload", "in_transit",
                           "completed", "nothing"}
        BY DEF HandlerTarget
  <2>2. HandlerTarget # "nothing"
        BY MoveFacts DEF TaskStatuses
  <2> QED BY <2>1, <2>2
<1>8. /\ HandlerTarget = "in_transit" => status[t] = "awaiting_load"
      /\ HandlerTarget = "completed" => status[t] = "awaiting_unload"
      BY MoveFacts
<1>9. HandlerTarget \in UnderWay => holds[r] >= 1
      BY <1>1, <1>2, <1>3, <1>4, <1>8 DEF UnderWay, ArrivalCountedUnderWay
<1>10. t = handling.task
  <2> SUFFICES ASSUME t # handling.task PROVE FALSE
      OBVIOUS
  <2>1. holds[r] = 0 /\ status[t] \notin UnderWay
        BY DEF StaleHandlerHarmless
  <2> QED BY <1>2, <1>3, <1>4, <1>7, <1>8, <2>1 DEF UnderWay
<1>11. /\ HandlerTarget = "in_transit" =>
            <<handling.task, "load">> \in confirmed
       /\ HandlerTarget = "completed" =>
            <<handling.task, "unload">> \in confirmed
      BY <1>5, <1>6 DEF HandlingConfirmed, Gates
<1> QED BY <1>1, <1>9, <1>10, <1>11

LEMMA DeliverFinishInv ==
  ASSUME IndInv, DeliverFinish PROVE IndInv'
<1> DEFINE r == handling.robot
           t == active[r]
<1> USE DEF IndInv, dispatcherVars, coroutineVars, lifecycleVars
<1>1. handling # NoEvent /\ r \in Robots /\ handling' = NoEvent
      BY DEF DeliverFinish, TypeOK, PendingHandler
<1>2. UNCHANGED <<confirmed, active, holds, unloadOk, pc, mode, bus>>
      BY DEF DeliverFinish
<1>3. \A a \in Tasks : status'[a] # status[a] =>
        /\ a = t /\ t # NoTask /\ status'[a] = HandlerTarget
        /\ CanMove(status[t], HandlerTarget)
      BY <1>1 DEF DeliverFinish, TypeOK
<1>4. TypeOK'
  <2>1. status' \in [Tasks -> TaskStatuses \cup {"none"}]
    <3>1. CASE t # NoTask /\ CanMove(status[t], HandlerTarget)
          BY <3>1, MoveFacts DEF DeliverFinish, TypeOK
    <3>2. CASE ~(t # NoTask /\ CanMove(status[t], HandlerTarget))
          BY <3>2 DEF DeliverFinish, TypeOK
    <3> QED BY <3>1, <3>2
  <2> QED BY <2>1 DEF DeliverFinish, ReleaseHolds, TypeOK
<1>5. ActiveWhileBusy' /\ OneMarks' /\ OneRobotPerTask' /\ IdleWhenStopped'
      BY <1>2 DEF ActiveWhileBusy, OneMarks, OneRobotPerTask, IdleWhenStopped
<1>6. QueuedOnlyWhileMarking'
  <2>1. \A a \in Tasks : \/ status'[a] = status[a]
                         \/ status'[a] \in TaskStatuses \ {"queued"}
        BY <1>3, MoveFacts
  <2> QED BY <1>2, <2>1 DEF QueuedOnlyWhileMarking, TypeOK, TaskStatuses
<1>7. ArrivalCountedUnderWay'
  <2> SUFFICES ASSUME NEW q \in Robots, active[q] # NoTask,
                      status'[active[q]] \in UnderWay
               PROVE  holds[q] >= 1
      BY <1>2 DEF ArrivalCountedUnderWay
  <2>1. active[q] \in Tasks
        BY DEF TypeOK
  <2>2. CASE status'[active[q]] = status[active[q]]
        BY <2>2 DEF ArrivalCountedUnderWay
  <2>3. CASE status'[active[q]] # status[active[q]]
    <3>1. q = r
          BY <1>1, <1>3, <2>1, <2>3 DEF OneRobotPerTask
    <3> QED BY <1>1, <1>3, <2>1, <2>3, <3>1, HandlerMoves
  <2> QED BY <2>2, <2>3
<1>8. UnloadConfirmed' /\ EventsConfirmed'
      BY <1>2 DEF UnloadConfirmed, EventsConfirmed
<1>9. HandlingConfirmed' /\ StaleHandlerHarmless'
      BY <1>1 DEF HandlingConfirmed, StaleHandlerHarmless
<1> QED BY <1>4, <1>5, <1>6, <1>7, <1>8, <1>9

-----------------------------------------------------------------------------
(* The theorems *)

LEMMA NextIndInv == IndInv /\ [Next]_vars => IndInv'
<1> SUFFICES ASSUME IndInv, [Next]_vars PROVE IndInv'
    OBVIOUS
<1>1. CASE \E t \in Tasks : HumanStep(t)
      BY <1>1, SubmitTaskInv, CancelTaskInv, ConfirmInv
      DEF HumanStep, RestRequest, HmiAction
<1>2. CASE \E r \in Robots : DispatchStep(r)
      BY <1>2, ChoosingInv, SelectTaskInv, MarkDispatchedInv, RouteInv,
         ReachHoldInv, InterpretInv DEF DispatchStep
<1>3. CASE \E r \in Robots : NavigationFault(r)
      BY <1>3, RouteInv
<1>4. CASE BusStep
      BY <1>4, DeliverPastInv, DeliverBeginInv, DeliverFinishInv DEF BusStep
<1>5. CASE \E r \in Robots : WatchdogInterrupt(r)
      BY <1>5, WatchdogInterruptInv
<1>6. CASE \/ \E value \in BOOLEAN : SetPaused(value)
           \/ StopDispatcher
           \/ \E r \in Robots : CancelNavigation(r)
           \/ DispatcherStopped
      BY <1>6, ShutdownInv
<1>7. CASE CrashAndRestart
      BY <1>7, CrashAndRestartInv
<1>8. CASE UNCHANGED vars
  <2> USE <1>8 DEF vars, dispatcherVars, coroutineVars, lifecycleVars,
                   navigatorVars, busVars
  <2>1. TypeOK'
        BY DEF IndInv, TypeOK
  <2>2. mode' = "stopped" => \A r \in Robots : pc[r] = "idle"
        BY DEF IndInv, IdleWhenStopped
  <2> QED BY <2>1, <2>2, LifecycleInv
<1> QED BY <1>1, <1>2, <1>3, <1>4, <1>5, <1>6, <1>7, <1>8 DEF Next

THEOREM Invariance == Spec => []IndInv
BY InitIndInv, NextIndInv, PTL DEF Spec

\* Every variable keeps its type.
THEOREM TypeCorrect == Spec => []TypeOK
<1>1. IndInv => TypeOK
      BY DEF IndInv
<1> QED BY <1>1, Invariance, PTL

\* The dispatch lock is enough to keep two robots from carrying the same task,
\* whatever operators, watchdog, crashes and shutdown do to the statuses.
THEOREM RobotsNeverShareATask == Spec => []OneRobotPerTask
<1>1. IndInv => OneRobotPerTask
      BY DEF IndInv
<1> QED BY <1>1, Invariance, PTL

\* A robot that is under way carries a task that has left the queue.
THEOREM NoDriveForAQueuedTask == Spec => []DrivesOnlyDispatched
<1>1. IndInv => DrivesOnlyDispatched
      BY DEF IndInv, ActiveWhileBusy, QueuedOnlyWhileMarking,
             DrivesOnlyDispatched, Navigating
<1> QED BY <1>1, Invariance, PTL

\* The two together: a task leaves the queue once, for one robot, and before
\* that robot drives (dispatcher.py:411).
THEOREM TasksAreTakenOnce == Spec => []TasksTakenOnce
<1>1. OneRobotPerTask /\ DrivesOnlyDispatched => TasksTakenOnce
      BY DEF TasksTakenOnce
<1> QED BY <1>1, RobotsNeverShareATask, NoDriveForAQueuedTask, PTL

\* Dispatcher.stop returns only when every dispatch has ended, and none begins
\* afterwards.
THEOREM StopLeavesNothingRunning == Spec => []StoppedMeansStill
<1>1. IndInv => StoppedMeansStill
      BY DEF IndInv, ActiveWhileBusy, IdleWhenStopped, StoppedMeansStill
<1> QED BY <1>1, Invariance, PTL

\* The handler that resumes on another task than its own leaves it alone.
THEOREM HandlersMoveTheirOwnTask == Spec => HandlerMovesItsOwnTask
<1>1. IndInv /\ [Next]_vars =>
        [\A t \in Tasks : DeliverFinish /\ status'[t] # status[t] =>
                           t = handling.task]_vars
  <2> SUFFICES ASSUME IndInv, NEW t \in Tasks, DeliverFinish,
                      status'[t] # status[t]
               PROVE  t = handling.task
      OBVIOUS
  <2>1. /\ handling # NoEvent /\ t = active[handling.robot]
        /\ active[handling.robot] # NoTask
        /\ CanMove(status[active[handling.robot]], HandlerTarget)
        BY DEF DeliverFinish, IndInv, TypeOK, PendingHandler
  <2> QED BY <2>1, HandlerMoves
<1> QED BY <1>1, Invariance, PTL DEF Spec, HandlerMovesItsOwnTask

-----------------------------------------------------------------------------
(* Arrivals are not counted for another task *)

\* The arrivals of robot r on its way with task t that wait in a queue.
ArrivalOf(r, t) == [kind |-> "arrived", task |-> t, robot |-> r]

ArrivalsQueued(queue, r, t) ==
  { i \in 1 .. Len(queue) : queue[i] = ArrivalOf(r, t) }

Waiting == {"none", "queued"}

Starting == {"marking", "starting"}

ArrivalsHaveStarted ==
  \A i \in 1 .. Len(bus) :
    bus[i].kind = "arrived" =>
      bus[i].robot \in Robots /\ status[bus[i].task] \notin Waiting

StartsAfresh ==
  \A r \in Robots :
    pc[r] \in Starting =>
      /\ holds[r] = 0
      /\ \A i \in 1 .. Len(bus) :
           bus[i].kind = "arrived" => bus[i].task # active[r]

EachArrivalCountedOnce ==
  \A r \in Robots :
    Navigating(r) =>
      holds[r] + Cardinality(ArrivalsQueued(bus, r, active[r])) <= reached[r]

ArrivalInv ==
  /\ ArrivalsHaveStarted
  /\ StartsAfresh
  /\ EachArrivalCountedOnce

LEMMA ArrivalsFinite ==
  ASSUME NEW queue \in Seq(Event), NEW r, NEW t
  PROVE  /\ IsFiniteSet(ArrivalsQueued(queue, r, t))
         /\ Cardinality(ArrivalsQueued(queue, r, t)) \in Nat
<1>1. Len(queue) \in Nat
      OBVIOUS
<1>2. IsFiniteSet(1 .. Len(queue))
      BY <1>1, FS_Interval
<1>3. ArrivalsQueued(queue, r, t) \in SUBSET (1 .. Len(queue))
      BY DEF ArrivalsQueued
<1>4. IsFiniteSet(ArrivalsQueued(queue, r, t))
      BY <1>2, <1>3, FS_Subset
<1> QED BY <1>4, FS_CardinalityType

\* An event joins the queue: at most one arrival more, and that its own.
LEMMA ArrivalsAppended ==
  ASSUME NEW queue \in Seq(Event), NEW event \in Event, NEW r, NEW t
  PROVE  LET before == ArrivalsQueued(queue, r, t)
             after == ArrivalsQueued(Append(queue, event), r, t)
         IN /\ Cardinality(after) <= Cardinality(before) + 1
            /\ event # ArrivalOf(r, t) => after = before
<1> DEFINE longer == Append(queue, event)
           before == ArrivalsQueued(queue, r, t)
           after == ArrivalsQueued(longer, r, t)
           last == Len(queue) + 1
<1>1. /\ Len(queue) \in Nat /\ Len(longer) = last
      /\ longer[last] = event
      /\ \A i \in 1 .. Len(queue) : longer[i] = queue[i]
      OBVIOUS
<1> HIDE DEF longer
<1>2. \A i : i \in 1 .. last <=> i \in 1 .. Len(queue) \/ i = last
      BY <1>1
<1>3. \A i : i \in after <=>
        i \in before \/ (i = last /\ event = ArrivalOf(r, t))
      BY <1>1, <1>2 DEF ArrivalsQueued
<1>4. IsFiniteSet(before) /\ Cardinality(before) \in Nat
      BY ArrivalsFinite
<1> HIDE DEF before, after, last
<1>5. CASE event = ArrivalOf(r, t)
  <2>1. after = before \cup {last}
        BY <1>3, <1>5
  <2>2. Cardinality(before \cup {last}) <= Cardinality(before) + 1
    <3>1. Cardinality(before \cup {last}) =
            IF last \in before THEN Cardinality(before)
                               ELSE Cardinality(before) + 1
          BY <1>4, FS_AddElement, Zenon
    <3> QED BY <1>4, <3>1
  <2> QED BY <1>5, <2>1, <2>2 DEF before, after, longer
<1>6. CASE event # ArrivalOf(r, t)
  <2>1. after = before
        BY <1>3, <1>6
  <2>2. Cardinality(after) <= Cardinality(before) + 1
        BY <1>4, <2>1
  <2> QED BY <2>1, <2>2 DEF before, after, longer
<1> QED BY <1>5, <1>6

\* The first event leaves the queue: if it is an arrival, one less is left.
LEMMA ArrivalsOfTail ==
  ASSUME NEW queue \in Seq(Event), queue # <<>>, NEW r, NEW t
  PROVE  LET before == ArrivalsQueued(queue, r, t)
             after == ArrivalsQueued(Tail(queue), r, t)
         IN /\ Cardinality(after) <= Cardinality(before)
            /\ Head(queue) = ArrivalOf(r, t) =>
                 Cardinality(after) + 1 <= Cardinality(before)
<1> DEFINE rest == Tail(queue)
           before == ArrivalsQueued(queue, r, t)
           after == ArrivalsQueued(rest, r, t)
           shift == [i \in after |-> i + 1]
<1>1. /\ Len(queue) \in Nat /\ Len(rest) = Len(queue) - 1
      /\ \A i \in 1 .. Len(rest) : rest[i] = queue[i + 1]
      /\ rest \in Seq(Event) /\ Head(queue) = queue[1]
      /\ 1 \in 1 .. Len(queue)
      OBVIOUS
<1> HIDE DEF rest
<1>2. IsFiniteSet(before) /\ Cardinality(before) \in Nat
      BY ArrivalsFinite
<1>3. Cardinality(after) \in Nat
      BY <1>1, ArrivalsFinite
<1>4. \A i \in after : i \in 1 .. Len(rest) /\ i + 1 \in before \ {1}
  <2> SUFFICES ASSUME NEW i \in after
               PROVE  i \in 1 .. Len(rest) /\ i + 1 \in before \ {1}
      OBVIOUS
  <2>1. i \in 1 .. Len(rest) /\ rest[i] = ArrivalOf(r, t)
        BY DEF ArrivalsQueued
  <2>2. i + 1 \in 1 .. Len(queue) /\ i + 1 # 1
        BY <1>1, <2>1
  <2>3. queue[i + 1] = ArrivalOf(r, t)
        BY <1>1, <2>1
  <2> QED BY <2>1, <2>2, <2>3 DEF ArrivalsQueued
<1>5. 1 \in before <=> Head(queue) = ArrivalOf(r, t)
      BY <1>1 DEF ArrivalsQueued
<1> HIDE DEF before, after
<1>6. shift \in Injection(after, before \ {1})
  <2>1. shift \in [after -> before \ {1}]
        BY <1>4
  <2>2. \A i, k \in after : shift[i] = shift[k] => i = k
        BY <1>4
  <2> QED BY <2>1, <2>2 DEF Injection, IsInjective
<1>7. /\ IsFiniteSet(before \ {1})
      /\ Cardinality(before \ {1}) =
           IF 1 \in before THEN Cardinality(before) - 1
                           ELSE Cardinality(before)
      BY <1>2, FS_RemoveElement
<1> HIDE DEF shift
<1>8. Cardinality(after) <= Cardinality(before \ {1})
      BY <1>6, <1>7, FS_Injection
<1>9. /\ Cardinality(after) <= Cardinality(before)
      /\ Head(queue) = ArrivalOf(r, t) =>
           Cardinality(after) + 1 <= Cardinality(before)
      BY <1>2, <1>3, <1>5, <1>7, <1>8
<1> QED BY <1>9 DEF before, after, rest

LEMMA InitArrivalInv == Init => ArrivalInv
<1> SUFFICES ASSUME Init PROVE ArrivalInv
    OBVIOUS
<1>1. Len(bus) = 0
      BY DEF Init
<1>2. ArrivalsHaveStarted
      BY <1>1 DEF ArrivalsHaveStarted
<1>3. StartsAfresh /\ EachArrivalCountedOnce
      BY DEF Init, StartsAfresh, EachArrivalCountedOnce, Starting, Navigating
<1> QED BY <1>2, <1>3 DEF ArrivalInv

\* No event comes or goes, no task returns to the queue, and each robot's
\* route either goes on as it was or is over.
LEMMA BusRestsArrival ==
  ASSUME IndInv, ArrivalInv, bus' = bus,
         \A t \in Tasks :
           status[t] \notin Waiting => status'[t] \notin Waiting,
         \A r \in Robots :
           \/ pc'[r] \notin Starting \cup {"driving", "holding"}
           \/ /\ active'[r] = active[r] /\ holds'[r] = holds[r]
              /\ reached'[r] = reached[r]
              /\ pc'[r] \in Starting => pc[r] \in Starting
              /\ Navigating(r)' => Navigating(r)
  PROVE  ArrivalInv'
<1>1. bus \in Seq(Event)
      BY DEF IndInv, TypeOK
<1>2. ArrivalsHaveStarted'
  <2>1. \A i \in 1 .. Len(bus) : bus[i] \in Event
        BY <1>1
  <2>2. \A i \in 1 .. Len(bus) : bus[i].task \in Tasks
        BY <2>1 DEF Event
  <2> QED BY <2>2 DEF ArrivalInv, ArrivalsHaveStarted
<1>3. StartsAfresh'
      BY DEF ArrivalInv, StartsAfresh, Starting
<1>4. EachArrivalCountedOnce'
  <2> SUFFICES ASSUME NEW r \in Robots, Navigating(r)'
               PROVE  holds'[r]
                        + Cardinality(ArrivalsQueued(bus, r, active'[r]))
                        <= reached'[r]
      BY DEF EachArrivalCountedOnce
  <2>1. /\ active'[r] = active[r] /\ holds'[r] = holds[r]
        /\ reached'[r] = reached[r] /\ Navigating(r)
        BY DEF Navigating
  <2> QED BY <2>1 DEF ArrivalInv, EachArrivalCountedOnce
<1> QED BY <1>2, <1>3, <1>4 DEF ArrivalInv

LEMMA RequestArrival ==
  ASSUME IndInv, ArrivalInv, NEW t \in Tasks,
         SubmitTask(t) \/ CancelTask(t)
  PROVE  ArrivalInv'
<1>1. /\ UNCHANGED <<bus, pc, active, holds, reached>>
      /\ \A a \in Tasks : status[a] \notin Waiting => status'[a] \notin Waiting
      BY DEF SubmitTask, CancelTask, dispatcherVars, coroutineVars,
             navigatorVars, busVars, IndInv, TypeOK, Waiting
<1> QED BY <1>1, BusRestsArrival DEF Navigating

LEMMA LifecycleArrival ==
  ASSUME IndInv, ArrivalInv,
         \/ \E value \in BOOLEAN : SetPaused(value)
         \/ StopDispatcher
         \/ \E r \in Robots : CancelNavigation(r)
         \/ DispatcherStopped
         \/ UNCHANGED vars
  PROVE  ArrivalInv'
<1>1. UNCHANGED <<status, bus, pc, active, holds, reached>>
      BY DEF SetPaused, StopDispatcher, CancelNavigation, DispatcherStopped,
             dispatcherVars, coroutineVars, navigatorVars, busVars, vars
<1> QED BY <1>1, BusRestsArrival DEF Navigating

LEMMA WatchdogArrival ==
  ASSUME IndInv, ArrivalInv, NEW r \in Robots, WatchdogInterrupt(r)
  PROVE  ArrivalInv'
<1>1. /\ UNCHANGED <<bus, pc, active, holds, reached>>
      /\ \A a \in Tasks : status[a] \notin Waiting => status'[a] \notin Waiting
      BY DEF WatchdogInterrupt, dispatcherVars, coroutineVars,
             navigatorVars, busVars, IndInv, TypeOK, Waiting
<1> QED BY <1>1, BusRestsArrival DEF Navigating

LEMMA CrashArrival ==
  ASSUME IndInv, CrashAndRestart PROVE ArrivalInv'
<1>1. bus' = <<>> /\ \A r \in Robots : pc'[r] = "idle"
      BY DEF CrashAndRestart
<1>2. Len(bus') = 0
      BY <1>1
<1>3. ArrivalsHaveStarted'
      BY <1>2 DEF ArrivalsHaveStarted
<1>4. StartsAfresh' /\ EachArrivalCountedOnce'
      BY <1>1 DEF StartsAfresh, EachArrivalCountedOnce, Starting, Navigating
<1> QED BY <1>3, <1>4 DEF ArrivalInv

\* The coroutine goes on without a hold and without its tables.
LEMMA RouteArrival ==
  ASSUME IndInv, ArrivalInv, NEW r \in Robots,
         \/ BeginDispatch(r) \/ SkipDispatch(r) \/ LeaveHold(r)
         \/ FinishRoute(r) \/ CancelledExit(r) \/ NavigationFault(r)
         \/ ReadTask(r)
  PROVE  ArrivalInv'
<1>1. UNCHANGED <<status, bus, active, holds, reached>>
      BY DEF BeginDispatch, SkipDispatch, LeaveHold, FinishRoute,
             CancelledExit, NavigationFault, ReadTask, dispatcherVars,
             navigatorVars, busVars
<1>2. /\ \A q \in Robots \ {r} : pc'[q] = pc[q]
      /\ \/ pc'[r] \notin Starting \cup {"driving", "holding"}
         \/ pc'[r] = "driving" /\ pc[r] = "holding"
      BY DEF BeginDispatch, SkipDispatch, LeaveHold, FinishRoute,
             CancelledExit, NavigationFault, ReadTask, Starting, IndInv, TypeOK
<1>3. \A q \in Robots :
        \/ pc'[q] \notin Starting \cup {"driving", "holding"}
        \/ /\ pc'[q] \in Starting => pc[q] \in Starting
           /\ Navigating(q)' => Navigating(q)
      BY <1>2 DEF Navigating, Starting
<1> QED BY <1>1, <1>3, BusRestsArrival

\* The dispatch ends, or the task is marked and the robot may start.
LEMMA DispatchArrival ==
  ASSUME IndInv, ArrivalInv, NEW r \in Robots,
         MarkDispatched(r) \/ InterpretSuccess(r) \/ InterpretAbort(r)
  PROVE  ArrivalInv'
<1>1. UNCHANGED <<bus, reached>>
      BY DEF MarkDispatched, InterpretSuccess, InterpretAbort, navigatorVars,
             busVars
<1>2. /\ \A q \in Robots \ {r} : /\ pc'[q] = pc[q] /\ active'[q] = active[q]
                                 /\ holds'[q] = holds[q]
      /\ \/ pc'[r] = "idle"
         \/ /\ pc'[r] = "starting" /\ pc[r] = "marking"
            /\ active' = active /\ holds' = holds
      BY DEF MarkDispatched, InterpretSuccess, InterpretAbort,
             ForgetActiveTask, dispatcherVars, IndInv, TypeOK
<1>3. \A q \in Robots :
        \/ pc'[q] \notin Starting \cup {"driving", "holding"}
        \/ /\ active'[q] = active[q] /\ holds'[q] = holds[q]
           /\ pc'[q] \in Starting => pc[q] \in Starting
           /\ Navigating(q)' => Navigating(q)
      BY <1>2 DEF Navigating, Starting
<1>4. active[r] \in Tasks
      BY DEF MarkDispatched, InterpretSuccess, InterpretAbort, IndInv, TypeOK,
             ActiveWhileBusy
<1>5. \A a \in Tasks : status[a] \notin Waiting => status'[a] \notin Waiting
  <2>1. CASE MarkDispatched(r)
        BY <1>4, <2>1 DEF MarkDispatched, IndInv, TypeOK, Waiting
  <2>2. CASE InterpretSuccess(r)
        BY <1>4, <2>2
        DEF InterpretSuccess, StatusAfterSuccess, IndInv, TypeOK, Waiting
  <2>3. CASE InterpretAbort(r)
        BY <1>4, <2>3 DEF InterpretAbort, IndInv, TypeOK, Waiting
  <2> QED BY <2>1, <2>2, <2>3
<1> QED BY <1>1, <1>3, <1>5, BusRestsArrival

\* The handler resumes: a task that left the queue does not come back.
LEMMA DeliverFinishArrival ==
  ASSUME IndInv, ArrivalInv, DeliverFinish PROVE ArrivalInv'
<1>1. UNCHANGED <<bus, pc, active, holds, reached>>
      BY DEF DeliverFinish, dispatcherVars, coroutineVars
<1>2. \A a \in Tasks : status[a] \notin Waiting => status'[a] \notin Waiting
  <2> SUFFICES ASSUME NEW a \in Tasks, status[a] \notin Waiting
               PROVE  status'[a] \notin Waiting
      OBVIOUS
  <2>1. \/ status'[a] = status[a]
        \/ CanMove(status[a], HandlerTarget) /\ status'[a] = HandlerTarget
        BY DEF DeliverFinish, IndInv, TypeOK, PendingHandler
  <2>2. CASE CanMove(status[a], HandlerTarget) /\ status'[a] = HandlerTarget
        BY <2>2, MoveFacts DEF Waiting, TaskStatuses
  <2> QED BY <2>1, <2>2
<1> QED BY <1>1, <1>2, BusRestsArrival DEF Navigating

\* A task that is still queued has no arrival of anyone on the bus.
LEMMA SelectTaskArrival ==
  ASSUME IndInv, ArrivalInv, NEW r \in Robots, NEW t \in Tasks,
         SelectTask(r, t)
  PROVE  ArrivalInv'
<1>1. /\ pc'[r] = "marking" /\ active'[r] = t /\ holds'[r] = 0
      /\ \A q \in Robots \ {r} : /\ pc'[q] = pc[q] /\ active'[q] = active[q]
                                 /\ holds'[q] = holds[q]
      /\ UNCHANGED <<status, bus, reached>> /\ status[t] = "queued"
      BY DEF SelectTask, QueuedTasks, navigatorVars, busVars, IndInv, TypeOK
<1>2. ArrivalsHaveStarted'
      BY <1>1 DEF ArrivalInv, ArrivalsHaveStarted
<1>3. \A i \in 1 .. Len(bus) : bus[i].kind = "arrived" => bus[i].task # t
      BY <1>1 DEF ArrivalInv, ArrivalsHaveStarted, Waiting
<1>4. StartsAfresh'
      BY <1>1, <1>3 DEF ArrivalInv, StartsAfresh
<1>5. EachArrivalCountedOnce'
  <2> SUFFICES ASSUME NEW q \in Robots, Navigating(q)'
               PROVE  holds'[q]
                        + Cardinality(ArrivalsQueued(bus', q, active'[q]))
                        <= reached'[q]
      BY DEF EachArrivalCountedOnce
  <2>1. q # r
        BY <1>1 DEF Navigating
  <2>2. /\ active'[q] = active[q] /\ holds'[q] = holds[q]
        /\ bus' = bus /\ reached'[q] = reached[q] /\ Navigating(q)
        BY <1>1, <2>1 DEF Navigating
  <2> QED BY <2>2 DEF ArrivalInv, EachArrivalCountedOnce
<1> QED BY <1>2, <1>4, <1>5 DEF ArrivalInv

\* The count of holds starts at zero together with the navigator's.
LEMMA StartNavigationArrival ==
  ASSUME IndInv, ArrivalInv, NEW r \in Robots, StartNavigation(r)
  PROVE  ArrivalInv'
<1>1. /\ pc[r] = "starting" /\ pc'[r] = "driving" /\ reached'[r] = 0
      /\ \A q \in Robots \ {r} : pc'[q] = pc[q] /\ reached'[q] = reached[q]
      /\ UNCHANGED <<status, bus, active, holds>>
      BY DEF StartNavigation, dispatcherVars, busVars, IndInv, TypeOK
<1>2. ArrivalsHaveStarted'
      BY <1>1 DEF ArrivalInv, ArrivalsHaveStarted
<1>3. StartsAfresh'
      BY <1>1 DEF ArrivalInv, StartsAfresh, Starting
<1>4. ArrivalsQueued(bus, r, active[r]) = {}
      BY <1>1
      DEF ArrivalInv, StartsAfresh, Starting, ArrivalsQueued, ArrivalOf
<1>5. holds[r] + Cardinality(ArrivalsQueued(bus, r, active[r])) = 0
      BY <1>1, <1>4, FS_EmptySet DEF ArrivalInv, StartsAfresh, Starting
<1>6. EachArrivalCountedOnce'
  <2> SUFFICES ASSUME NEW q \in Robots, Navigating(q)'
               PROVE  holds[q]
                        + Cardinality(ArrivalsQueued(bus, q, active[q]))
                        <= reached'[q]
      BY <1>1 DEF EachArrivalCountedOnce
  <2>1. CASE q = r
        BY <1>1, <1>5, <2>1
  <2>2. CASE q # r
        BY <1>1, <2>2 DEF Navigating, ArrivalInv, EachArrivalCountedOnce
  <2> QED BY <2>1, <2>2
<1> QED BY <1>2, <1>3, <1>6 DEF ArrivalInv

\* A confirmation joins the queue.
LEMMA ConfirmArrival ==
  ASSUME IndInv, ArrivalInv, NEW t \in Tasks, NEW gate \in Gates,
         NEW robot \in Robots \cup {NoRobot}, Confirm(t, gate, robot)
  PROVE  ArrivalInv'
<1> DEFINE event == [kind |-> gate, task |-> t, robot |-> robot]
<1>1. /\ bus \in Seq(Event) /\ event \in Event /\ bus' = Append(bus, event)
      /\ gate # "arrived"
      /\ UNCHANGED <<status, pc, active, holds, reached>>
      BY DEF Confirm, IndInv, TypeOK, Event, Gates, dispatcherVars,
             coroutineVars, navigatorVars
<1>2. \A i \in 1 .. Len(bus') :
        bus'[i].kind = "arrived" => i \in 1 .. Len(bus) /\ bus'[i] = bus[i]
  <2> HIDE DEF event
  <2>1. /\ Len(bus) \in Nat /\ Len(bus') = Len(bus) + 1
        /\ bus'[Len(bus) + 1] = event
        /\ \A i \in 1 .. Len(bus) : bus'[i] = bus[i]
        BY <1>1
  <2>2. event.kind # "arrived"
        BY <1>1 DEF event
  <2> QED BY <2>1, <2>2
<1>3. ArrivalsHaveStarted'
      BY <1>1, <1>2 DEF ArrivalInv, ArrivalsHaveStarted
<1>4. StartsAfresh'
      BY <1>1, <1>2 DEF ArrivalInv, StartsAfresh
<1>5. EachArrivalCountedOnce'
  <2> SUFFICES ASSUME NEW q \in Robots, Navigating(q)
               PROVE  holds[q]
                        + Cardinality(ArrivalsQueued(bus', q, active[q]))
                        <= reached[q]
      BY <1>1 DEF EachArrivalCountedOnce, Navigating
  <2>1. event # ArrivalOf(q, active[q])
        BY <1>1 DEF ArrivalOf
  <2>2. ArrivalsQueued(bus', q, active[q]) = ArrivalsQueued(bus, q, active[q])
    <3> HIDE DEF event
    <3> QED BY <1>1, <2>1, ArrivalsAppended
  <2> QED BY <2>2 DEF ArrivalInv, EachArrivalCountedOnce
<1> QED BY <1>3, <1>4, <1>5 DEF ArrivalInv

\* An arrival is published, or dropped, when the navigator counts it; it is
\* of a task that no robot is about to start with.
LEMMA ReachHoldArrival ==
  ASSUME IndInv, ArrivalInv, NEW r \in Robots, ReachHold(r)
  PROVE  ArrivalInv'
<1> DEFINE event == ArrivalOf(r, active[r])
<1>1. /\ pc[r] = "driving" /\ pc'[r] = "holding"
      /\ reached[r] \in Nat /\ reached'[r] = reached[r] + 1
      /\ \A q \in Robots \ {r} : pc'[q] = pc[q] /\ reached'[q] = reached[q]
      /\ UNCHANGED <<status, active, holds>>
      BY DEF ReachHold, dispatcherVars, IndInv, TypeOK
<1>2. /\ active[r] \in Tasks /\ active[r] # NoTask
      /\ status[active[r]] \notin Waiting
      BY <1>1, ConstantsAssumption
      DEF IndInv, TypeOK, ActiveWhileBusy, QueuedOnlyWhileMarking, Waiting
<1>3. bus \in Seq(Event) /\ event \in Event
      BY <1>2 DEF IndInv, TypeOK, Event, ArrivalOf
<1>4. bus' = bus \/ bus' = Append(bus, event)
      BY DEF ReachHold, PublishNowait, ArrivalOf
<1>5. /\ event.kind = "arrived" /\ event.task = active[r]
      /\ event.robot = r
      BY DEF ArrivalOf
<1> HIDE DEF event
<1>6. \A i \in 1 .. Len(bus') :
        \/ i \in 1 .. Len(bus) /\ bus'[i] = bus[i]
        \/ bus'[i] = event
  <2>1. CASE bus' = bus
        BY <2>1
  <2>2. CASE bus' = Append(bus, event)
    <3>1. /\ Len(bus) \in Nat /\ Len(bus') = Len(bus) + 1
          /\ bus'[Len(bus) + 1] = event
          /\ \A i \in 1 .. Len(bus) : bus'[i] = bus[i]
          BY <1>3, <2>2
    <3> QED BY <3>1
  <2> QED BY <1>4, <2>1, <2>2
<1>7. ArrivalsHaveStarted'
      BY <1>1, <1>2, <1>5, <1>6 DEF ArrivalInv, ArrivalsHaveStarted
<1>8. StartsAfresh'
  <2> SUFFICES ASSUME NEW q \in Robots, pc'[q] \in Starting
               PROVE  /\ holds[q] = 0
                      /\ \A i \in 1 .. Len(bus') :
                           bus'[i].kind = "arrived" =>
                             bus'[i].task # active[q]
      BY <1>1 DEF StartsAfresh
  <2>1. q # r /\ pc[q] \in Starting
        BY <1>1 DEF Starting
  <2>2. active[q] # active[r]
        BY <1>2, <2>1 DEF IndInv, OneRobotPerTask
  <2> QED BY <1>5, <1>6, <2>1, <2>2 DEF ArrivalInv, StartsAfresh
<1>9. EachArrivalCountedOnce'
  <2> SUFFICES ASSUME NEW q \in Robots, Navigating(q)'
               PROVE  holds[q]
                        + Cardinality(ArrivalsQueued(bus', q, active[q]))
                        <= reached'[q]
      BY <1>1 DEF EachArrivalCountedOnce
  <2> DEFINE before == Cardinality(ArrivalsQueued(bus, q, active[q]))
             after == Cardinality(ArrivalsQueued(bus', q, active[q]))
  <2>1. Navigating(q)
        BY <1>1 DEF Navigating
  <2>2. holds[q] + before <= reached[q]
        BY <2>1 DEF ArrivalInv, EachArrivalCountedOnce
  <2>3. holds[q] \in Nat /\ reached[q] \in Nat /\ before \in Nat
        BY <1>3, ArrivalsFinite DEF IndInv, TypeOK
  <2>4. after \in Nat
    <3>1. bus' \in Seq(Event)
          BY <1>3, <1>4
    <3> QED BY <3>1, ArrivalsFinite
  <2>5. after <= before + 1 /\ (q # r => after = before)
    <3>1. CASE bus' = bus
          BY <2>3, <3>1
    <3>2. CASE bus' = Append(bus, event)
      <4>1. q # r => event # ArrivalOf(q, active[q])
            BY <1>5 DEF ArrivalOf
      <4> QED BY <1>3, <3>2, <4>1, ArrivalsAppended
    <3> QED BY <1>4, <3>1, <3>2
  <2> HIDE DEF before, after
  <2>6. holds[q] + after <= reached'[q]
    <3>1. CASE q = r
          BY <1>1, <2>2, <2>3, <2>4, <2>5, <3>1
    <3>2. CASE q # r
          BY <1>1, <2>2, <2>5, <3>2
    <3> QED BY <3>1, <3>2
  <2> QED BY <2>6 DEF after
<1> QED BY <1>7, <1>8, <1>9 DEF ArrivalInv

\* An event leaves the queue.
LEMMA TailArrival ==
  ASSUME IndInv, ArrivalInv, bus # <<>>, bus' = Tail(bus),
         UNCHANGED <<status, pc, active, reached>>,
         \A r \in Robots :
           \/ holds'[r] = holds[r]
           \/ /\ holds'[r] = holds[r] + 1
              /\ Head(bus) = ArrivalOf(r, active[r])
  PROVE  ArrivalInv'
<1>1. /\ bus \in Seq(Event) /\ bus' \in Seq(Event) /\ Len(bus) \in Nat
      /\ Head(bus) = bus[1] /\ 1 \in 1 .. Len(bus)
      /\ \A i \in 1 .. Len(bus') :
           i + 1 \in 1 .. Len(bus) /\ bus'[i] = bus[i + 1]
  <2>1. bus \in Seq(Event)
        BY DEF IndInv, TypeOK
  <2> QED BY <2>1
<1>2. ArrivalsHaveStarted'
      BY <1>1 DEF ArrivalInv, ArrivalsHaveStarted
<1>3. StartsAfresh'
  <2> SUFFICES ASSUME NEW r \in Robots, pc[r] \in Starting
               PROVE  /\ holds'[r] = 0
                      /\ \A i \in 1 .. Len(bus') :
                           bus'[i].kind = "arrived" =>
                             bus'[i].task # active[r]
      BY DEF StartsAfresh
  <2>1. /\ holds[r] = 0
        /\ \A i \in 1 .. Len(bus) :
             bus[i].kind = "arrived" => bus[i].task # active[r]
        BY DEF ArrivalInv, StartsAfresh
  <2>2. Head(bus) # ArrivalOf(r, active[r])
        BY <1>1, <2>1 DEF ArrivalOf
  <2> QED BY <1>1, <2>1, <2>2
<1>4. EachArrivalCountedOnce'
  <2> SUFFICES ASSUME NEW r \in Robots, Navigating(r)
               PROVE  holds'[r]
                        + Cardinality(ArrivalsQueued(bus', r, active[r]))
                        <= reached[r]
      BY DEF EachArrivalCountedOnce, Navigating
  <2> DEFINE before == Cardinality(ArrivalsQueued(bus, r, active[r]))
             after == Cardinality(ArrivalsQueued(bus', r, active[r]))
  <2>1. holds[r] + before <= reached[r]
        BY DEF ArrivalInv, EachArrivalCountedOnce
  <2>2. /\ holds[r] \in Nat /\ reached[r] \in Nat
        /\ before \in Nat /\ after \in Nat
        BY <1>1, ArrivalsFinite DEF IndInv, TypeOK
  <2>3. /\ after <= before
        /\ Head(bus) = ArrivalOf(r, active[r]) => after + 1 <= before
        BY <1>1, ArrivalsOfTail
  <2> HIDE DEF before, after
  <2>4. holds'[r] + after <= reached[r]
        BY <2>1, <2>2, <2>3
  <2> QED BY <2>4 DEF after
<1> QED BY <1>2, <1>3, <1>4 DEF ArrivalInv

LEMMA DeliverPastArrival ==
  ASSUME IndInv, ArrivalInv, DeliverPast PROVE ArrivalInv'
BY TailArrival DEF DeliverPast, dispatcherVars, coroutineVars

\* An arrival is counted for its own robot and its own task.
LEMMA DeliverBeginArrival ==
  ASSUME IndInv, ArrivalInv, DeliverBegin PROVE ArrivalInv'
<1> DEFINE event == Head(bus)
           robot == EventRobot(event)
<1>1. /\ bus # <<>> /\ bus' = Tail(bus) /\ event \in Event
      /\ UNCHANGED <<status, pc, active, reached>>
      /\ active[robot] = event.task
      /\ holds' = [holds EXCEPT ![robot] =
                     IF event.kind = "arrived" THEN @ + 1 ELSE @]
      BY HeadOfBus DEF DeliverBegin, DispatcherConcerned, coroutineVars,
                       navigatorVars
<1>2. ASSUME event.kind = "arrived"
      PROVE  event = ArrivalOf(robot, active[robot])
  <2>1. 1 \in 1 .. Len(bus) /\ event = bus[1]
        BY <1>1 DEF IndInv, TypeOK
  <2>2. event.robot \in Robots
        BY <1>2, <2>1 DEF ArrivalInv, ArrivalsHaveStarted
  <2>3. robot = event.robot
        BY <2>2, ConstantsAssumption DEF EventRobot
  <2> HIDE DEF robot
  <2> QED BY <1>1, <1>2, <2>3 DEF Event, ArrivalOf
<1>3. robot \in Robots
      BY <1>1, EventRobotType
<1> HIDE DEF event, robot
<1>4. \A r \in Robots :
        \/ holds'[r] = holds[r]
        \/ holds'[r] = holds[r] + 1 /\ event = ArrivalOf(r, active[r])
      BY <1>1, <1>2, <1>3 DEF IndInv, TypeOK
<1> QED BY <1>1, <1>4, TailArrival DEF event

LEMMA NextArrivalInv == IndInv /\ ArrivalInv /\ [Next]_vars => ArrivalInv'
<1> SUFFICES ASSUME IndInv, ArrivalInv, [Next]_vars PROVE ArrivalInv'
    OBVIOUS
<1>1. CASE \E t \in Tasks : HumanStep(t)
      BY <1>1, RequestArrival, ConfirmArrival
      DEF HumanStep, RestRequest, HmiAction
<1>2. CASE \E r \in Robots : DispatchStep(r)
      BY <1>2, RouteArrival, SelectTaskArrival, DispatchArrival,
         StartNavigationArrival, ReachHoldArrival DEF DispatchStep
<1>3. CASE \E r \in Robots : NavigationFault(r)
      BY <1>3, RouteArrival
<1>4. CASE BusStep
      BY <1>4, DeliverPastArrival, DeliverBeginArrival, DeliverFinishArrival
      DEF BusStep
<1>5. CASE \E r \in Robots : WatchdogInterrupt(r)
      BY <1>5, WatchdogArrival
<1>6. CASE CrashAndRestart
      BY <1>6, CrashArrival
<1>7. CASE \/ \E value \in BOOLEAN : SetPaused(value)
           \/ StopDispatcher
           \/ \E r \in Robots : CancelNavigation(r)
           \/ DispatcherStopped
           \/ UNCHANGED vars
      BY <1>7, LifecycleArrival
<1> QED BY <1>1, <1>2, <1>3, <1>4, <1>5, <1>6, <1>7 DEF Next

\* However late the bus delivers an arrival (_on_arrived_at_waypoint),
\* it is counted for the route it was made on or not at all.
THEOREM ArrivalsStayWithTheirRoute == Spec => []ArrivalsNotOvercounted
<1>1. IndInv /\ ArrivalInv => ArrivalsNotOvercounted
  <2> SUFFICES ASSUME IndInv, ArrivalInv, NEW r \in Robots, Navigating(r)
               PROVE  holds[r] <= reached[r]
      BY DEF ArrivalsNotOvercounted
  <2> DEFINE queued == Cardinality(ArrivalsQueued(bus, r, active[r]))
  <2>1. holds[r] \in Nat /\ reached[r] \in Nat /\ queued \in Nat
        BY ArrivalsFinite DEF IndInv, TypeOK
  <2>2. holds[r] + queued <= reached[r]
        BY DEF ArrivalInv, EachArrivalCountedOnce
  <2> HIDE DEF queued
  <2> QED BY <2>1, <2>2
<1>2. Spec => []ArrivalInv
      BY InitArrivalInv, NextArrivalInv, Invariance, PTL DEF Spec
<1> QED BY <1>1, <1>2, Invariance, PTL

-----------------------------------------------------------------------------
(* The refinement: every step is a step of TransportOrder or none at all *)

LEMMA OrderCanMove ==
  ASSUME NEW old, NEW new, CanMove(old, new)
  PROVE  Order!CanMove(old, new) /\ new \in Order!TaskStatuses
BY DEF CanMove, AllowedTransitions, Order!CanMove, Order!AllowedTransitions,
       Order!TaskStatuses

\* A status moved along the table, through a gate only if it is confirmed.
LEMMA OrderMove ==
  ASSUME NEW t \in Tasks, NEW new, CanMove(status[t], new),
         new = "in_transit" => <<t, "load">> \in confirmed,
         new = "completed" => <<t, "unload">> \in confirmed,
         status' = [status EXCEPT ![t] = new], UNCHANGED confirmed
  PROVE  Order!Next
<1>1. Order!Move(t, new)
      BY OrderCanMove DEF Order!Move, Order!GateOpen
<1> QED BY <1>1, OrderCanMove DEF Order!Next

LEMMA HumanStepOrder ==
  ASSUME NEW t \in Tasks, HumanStep(t) PROVE Order!Next
<1>1. CASE SubmitTask(t)
      BY <1>1 DEF SubmitTask, Order!Next, Order!Submit
<1>2. CASE CancelTask(t)
      BY <1>2, OrderMove DEF CancelTask
<1>3. ASSUME NEW gate \in Gates, NEW robot \in Robots \cup {NoRobot},
             Confirm(t, gate, robot)
      PROVE  Order!Next
  <2>1. Order!HumanConfirms(t, gate)
        BY <1>3 DEF Confirm, Order!HumanConfirms
  <2>2. gate \in Order!Gates
        BY DEF Gates, Order!Gates
  <2> QED BY <2>1, <2>2 DEF Order!Next
<1> QED BY <1>1, <1>2, <1>3 DEF HumanStep, RestRequest, HmiAction

LEMMA WatchdogInterruptOrder ==
  ASSUME IndInv, NEW r \in Robots, WatchdogInterrupt(r) PROVE Order!Next
<1>1. active[r] \in Tasks
      BY DEF WatchdogInterrupt, IndInv, TypeOK
<1> QED BY <1>1, OrderMove DEF WatchdogInterrupt

LEMMA MarkDispatchedOrder ==
  ASSUME IndInv, NEW r \in Robots, MarkDispatched(r)
  PROVE  Order!Next \/ UNCHANGED <<status, confirmed>>
<1>1. active[r] \in Tasks
      BY DEF MarkDispatched, IndInv, TypeOK, ActiveWhileBusy
<1> QED BY <1>1, OrderMove DEF MarkDispatched

\* A route's end completes a task only from awaiting_unload, and then either
\* the unloading of this task was confirmed or no arrival would be counted.
LEMMA InterpretSuccessOrder ==
  ASSUME IndInv, NEW r \in Robots, InterpretSuccess(r)
  PROVE  Order!Next \/ UNCHANGED <<status, confirmed>>
<1> DEFINE t == active[r]
           new == StatusAfterSuccess(r)
<1>1. t \in Tasks /\ t # NoTask /\ status[t] \in TaskStatuses
      BY ConstantsAssumption
      DEF InterpretSuccess, IndInv, TypeOK, ActiveWhileBusy,
          QueuedOnlyWhileMarking
<1>2. status' = [status EXCEPT ![t] = new] /\ UNCHANGED confirmed
      BY DEF InterpretSuccess
<1>3. CASE new = status[t]
      BY <1>1, <1>2, <1>3 DEF IndInv, TypeOK
<1>4. CASE new # status[t] /\ CanMove(status[t], "completed")
  <2>1. new = "completed" /\ status[t] = "awaiting_unload"
        BY <1>4, MoveFacts DEF StatusAfterSuccess
  <2>2. holds[r] # 0
        BY <1>1, <2>1 DEF IndInv, TypeOK, ArrivalCountedUnderWay, UnderWay
  <2>3. unloadOk[r]
        BY <1>4, <2>2 DEF StatusAfterSuccess
  <2>4. <<t, "unload">> \in confirmed
        BY <2>3 DEF IndInv, UnloadConfirmed
  <2> QED BY <1>1, <1>2, <1>4, <2>1, <2>4, OrderMove
<1>5. CASE new # status[t] /\ ~CanMove(status[t], "completed")
  <2>1. new = "failed" /\ status[t] \notin TerminalStatuses
        BY <1>5 DEF StatusAfterSuccess
  <2>2. CanMove(status[t], "failed")
        BY <1>1, <2>1
        DEF CanMove, AllowedTransitions, TaskStatuses, TerminalStatuses
  <2> QED BY <1>1, <1>2, <2>1, <2>2, OrderMove
<1> QED BY <1>3, <1>4, <1>5

LEMMA InterpretAbortOrder ==
  ASSUME IndInv, NEW r \in Robots, InterpretAbort(r)
  PROVE  Order!Next \/ UNCHANGED <<status, confirmed>>
<1> DEFINE t == active[r]
<1>1. t \in Tasks /\ status[t] \in TaskStatuses
      BY ConstantsAssumption
      DEF InterpretAbort, IndInv, TypeOK, ActiveWhileBusy,
          QueuedOnlyWhileMarking
<1>2. CASE status[t] \in TerminalStatuses
      BY <1>1, <1>2 DEF InterpretAbort, IndInv, TypeOK
<1>3. CASE status[t] \notin TerminalStatuses
  <2>1. CanMove(status[t], "failed")
        BY <1>1, <1>3
        DEF CanMove, AllowedTransitions, TaskStatuses, TerminalStatuses
  <2>2. status' = [status EXCEPT ![t] = "failed"] /\ UNCHANGED confirmed
        BY <1>1, <1>3 DEF InterpretAbort, IndInv, TypeOK
  <2> QED BY <1>1, <2>1, <2>2, OrderMove
<1> QED BY <1>2, <1>3

LEMMA DeliverFinishOrder ==
  ASSUME IndInv, DeliverFinish
  PROVE  Order!Next \/ UNCHANGED <<status, confirmed>>
<1> DEFINE t == active[handling.robot]
<1>1. handling # NoEvent /\ UNCHANGED confirmed
      BY DEF DeliverFinish
<1>2. CASE t # NoTask /\ CanMove(status[t], HandlerTarget)
  <2>1. status' = [status EXCEPT ![t] = HandlerTarget]
        BY <1>2 DEF DeliverFinish
  <2> QED BY <1>1, <1>2, <2>1, HandlerMoves, OrderMove
<1>3. CASE ~(t # NoTask /\ CanMove(status[t], HandlerTarget))
      BY <1>1, <1>3 DEF DeliverFinish
<1> QED BY <1>2, <1>3

LEMMA OrderStep ==
  IndInv /\ [Next]_vars => Order!Next \/ UNCHANGED <<status, confirmed>>
<1> SUFFICES ASSUME IndInv, [Next]_vars
             PROVE  Order!Next \/ UNCHANGED <<status, confirmed>>
    OBVIOUS
<1>1. CASE \E t \in Tasks : HumanStep(t)
      BY <1>1, HumanStepOrder
<1>2. ASSUME NEW r \in Robots, DispatchStep(r)
      PROVE  Order!Next \/ UNCHANGED <<status, confirmed>>
      BY <1>2, MarkDispatchedOrder, InterpretSuccessOrder, InterpretAbortOrder
      DEF DispatchStep, BeginDispatch, SkipDispatch, SelectTask,
          StartNavigation, ReachHold, LeaveHold, FinishRoute, CancelledExit,
          ReadTask
<1>3. CASE BusStep
      BY <1>3, DeliverFinishOrder DEF BusStep, DeliverPast, DeliverBegin
<1>4. CASE \E r \in Robots : WatchdogInterrupt(r)
      BY <1>4, WatchdogInterruptOrder
<1>5. CASE \/ \E r \in Robots : NavigationFault(r)
           \/ \E value \in BOOLEAN : SetPaused(value)
           \/ StopDispatcher
           \/ \E r \in Robots : CancelNavigation(r)
           \/ DispatcherStopped
           \/ CrashAndRestart
      BY <1>5 DEF NavigationFault, SetPaused, StopDispatcher, CancelNavigation,
                  DispatcherStopped, CrashAndRestart
<1>6. CASE UNCHANGED vars
      BY <1>6 DEF vars
<1> QED BY <1>1, <1>2, <1>3, <1>4, <1>5, <1>6 DEF Next

\* Whatever robots, operators, watchdog, crashes and shutdown do, each task
\* follows the status table and no gate is passed unconfirmed.
THEOREM Refinement == Spec => ImplementsTransportOrder
<1>1. Init => Order!Init
      BY DEF Init, Order!Init
<1>2. IndInv /\ [Next]_vars => [Order!Next]_<<status, confirmed>>
      BY OrderStep
<1> QED BY <1>1, <1>2, Invariance, PTL
        DEF Spec, ImplementsTransportOrder, Order!Spec, Order!orderVars

=============================================================================
