---------------------------- MODULE PatrolMission ----------------------------
(***************************************************************************)
(* The patrol application on a fleet of registered robots: cycle queue,    *)
(* scheduler, dispatcher and the supervisors' requests.                    *)
(*                                                                         *)
(* As in LogisticsDispatch a step is the code between two suspension       *)
(* points of the one asyncio loop; the state locks are never contended     *)
(* and suspend nobody.  Each robot has at most one dispatch coroutine (pc) *)
(* which chooses a cycle under the dispatch lock, marks it active, drives  *)
(* the route, records the result and returns to the dock.                  *)
(*                                                                         *)
(* Scheduler and dispatcher each keep a suspension flag, written by        *)
(* requests and by the dispatcher itself, and again when their events are  *)
(* delivered: bus holds the PATROL_SUSPENDED and PATROL_RESUMED events     *)
(* under way.  Time, routes, observations and other events are left out.   *)
(***************************************************************************)
EXTENDS Naturals, Sequences

CONSTANTS
  Robots,        \* the registered patrol robots
  MaxCycles,     \* bound: cycles ever submitted
  MaxFailures,   \* max_consecutive_failures
  Requests,      \* suspend or resume requests that may be under way together
  BusCapacity,   \* events the bus holds before a publisher waits
  Disturbances   \* what may go wrong in this run

DisturbanceKinds ==
  { "trigger",    \* supervisors trigger cycles besides the scheduler
    "fault",      \* a route is blocked, its robot lost, or it is unknown
    "database",   \* a query or a write of the queue fails
    "estop",      \* a robot's emergency stop
    "battery" }   \* the battery becomes critical and is recharged

ASSUME ConstantsAssumption ==
  /\ MaxCycles \in Nat
  /\ MaxFailures \in Nat \ {0}
  /\ BusCapacity \in Nat \ {0}
  /\ Disturbances \subseteq DisturbanceKinds

Cycles  == 1..MaxCycles     \* in the order of created_at
NoCycle == 0

Parts == {"scheduler", "dispatcher"}

VARIABLES
  status,      \* the database: status of every cycle
  bySchedule,  \* the database: the cycles triggered_by the schedule
  scheduler,   \* where PatrolScheduler.run_once is
  suspended,   \* the flag of each part
  inhibited,   \* PatrolScheduler: charging_inhibited
  pc,          \* where each robot's dispatch coroutine is
  active,      \* PatrolDispatcher._active_cycles
  failures,    \* PatrolDispatcher._consecutive_failures, up to MaxFailures
  request,     \* the suspend and resume requests under way
  bus,         \* suspension events in the event bus
  asked,       \* history: what was announced to the end last
  excused      \* history: a resume was answered after the limit was reached

databaseVars  == <<status, bySchedule>>
schedulerVars == <<scheduler, inhibited>>
dispatchVars  == <<pc, active, failures>>
historyVars   == <<asked, excused>>
vars == <<databaseVars, schedulerVars, dispatchVars, historyVars,
          suspended, request, bus>>

-----------------------------------------------------------------------------
(* The cycle queue *)

CycleStatuses == {"scheduled", "active", "completed", "failed", "suspended"}

TerminalStatuses == {"completed", "failed"}

\* (mutant: the table does not let an active cycle fail)
ActiveNeverFails(current) ==
  CASE current = "scheduled" -> {"active"}
    [] current = "active"    -> {"completed", "suspended"}
    [] current = "suspended" -> {"active", "failed"}
    [] OTHER                 -> {}

\* PatrolCycleStateMachine: the moves from each status.
AllowedTransitions(current) ==
  CASE current = "scheduled" -> {"active"}
    [] current = "active"    -> {"completed", "failed", "suspended"}
    [] current = "suspended" -> {"active", "failed"}
    [] OTHER                 -> {}

\* (mutant: a status is written without looking at the stored one)
WrittenBlindly(c, new) == TRUE

\* _transition_cycle reads, checks and writes under the queue's lock.
CanMove(c, new) == new \in AllowedTransitions(status[c])

Scheduled(c) == status[c] = "scheduled"

\* get_next_cycle
NextCycle(c) == Scheduled(c) /\ \A d \in Cycles : Scheduled(d) => c <= d

\* submit_cycle
Submit(c) ==
  /\ status[c] = "none"
  /\ \A d \in Cycles : status[d] = "none" => c <= d
  /\ status' = [status EXCEPT ![c] = "scheduled"]

\* (mutant: the scheduler looks at waiting cycles only)
NothingScheduled == \A c \in Cycles : ~Scheduled(c)

\* The counts of get_queue_status the scheduler looks at.
NothingOpen == \A c \in Cycles : status[c] \notin {"scheduled", "active"}

NoRequest == [kind |-> "resumed", stage |-> "none", waits |-> {}]

Init ==
  /\ status     = [c \in Cycles |-> "none"]
  /\ bySchedule = {}
  /\ scheduler  = "waiting"
  /\ suspended  = [p \in Parts |-> FALSE]
  /\ inhibited  = FALSE
  /\ pc         = [r \in Robots |-> "idle"]
  /\ active     = [r \in Robots |-> NoCycle]
  /\ failures   = 0
  /\ request    = [q \in Requests |-> NoRequest]
  /\ bus        = <<>>
  /\ asked      = "resumed"
  /\ excused    = FALSE

-----------------------------------------------------------------------------
(* The scheduler *)

\* One iteration reads the flags, then the queue's counts, then submits.
SchedulerWakes ==
  /\ scheduler = "waiting"
  /\ ~suspended["scheduler"]
  /\ ~inhibited
  /\ scheduler' = "counting"
  /\ UNCHANGED <<databaseVars, inhibited, dispatchVars, historyVars,
                 suspended, request, bus>>

SchedulerCounts ==
  /\ scheduler = "counting"
  /\ scheduler' = IF NothingOpen THEN "submitting" ELSE "waiting"
  /\ UNCHANGED <<databaseVars, inhibited, dispatchVars, historyVars,
                 suspended, request, bus>>

SchedulerSubmits ==
  /\ scheduler = "submitting"
  /\ \E c \in Cycles : Submit(c) /\ bySchedule' = bySchedule \cup {c}
  /\ scheduler' = "waiting"
  /\ UNCHANGED <<inhibited, dispatchVars, historyVars, suspended, request,
                 bus>>

\* run_once logs a query or an insertion that fails, and tries again later.
SchedulerFails ==
  /\ scheduler # "waiting"
  /\ "database" \in Disturbances
  /\ scheduler' = "waiting"
  /\ UNCHANGED <<databaseVars, inhibited, dispatchVars, historyVars,
                 suspended, request, bus>>

\* BATTERY_CRITICAL and BATTERY_RECHARGED are delivered in turn.
BatteryEvent ==
  /\ "battery" \in Disturbances
  /\ inhibited' = ~inhibited
  /\ UNCHANGED <<databaseVars, scheduler, dispatchVars, historyVars,
                 suspended, request, bus>>

\* POST /patrol/trigger
Trigger ==
  /\ "trigger" \in Disturbances
  /\ \E c \in Cycles : Submit(c)
  /\ UNCHANGED <<bySchedule, schedulerVars, dispatchVars, historyVars,
                 suspended, request, bus>>

-----------------------------------------------------------------------------
(* The dispatch coroutine of robot r *)

\* (mutant: every robot chooses its cycle without waiting for the others)
DispatchLockForgotten == TRUE

\* The dispatch lock is held from the choice of a cycle until it is marked.
DispatchLockFree == \A r \in Robots : pc[r] # "marking"

\* (mutant: the patrol is suspended one failure too late)
LimitPassed(count) == count > MaxFailures

LimitReached(count) == count >= MaxFailures

\* The coroutine of r returns; whoever awaits it stops waiting for it.
Returns(r) ==
  /\ pc'      = [pc EXCEPT ![r] = "idle"]
  /\ active'  = [active EXCEPT ![r] = NoCycle]
  /\ request' = [q \in Requests |->
                   [request[q] EXCEPT !.waits = @ \ {r}]]

\* _handle_cycle_failure counts the failure before it records it.
GivesUp(r) ==
  LET count == failures + 1 IN
  /\ pc' = [pc EXCEPT ![r] = IF LimitReached(count) THEN "tripping"
                                                   ELSE "recording"]
  /\ failures' = IF count > MaxFailures THEN MaxFailures ELSE count
  /\ excused' = FALSE

\* cancel_navigation of the routes of the given robots: it stops a route that
\* has begun; before it begins, or once it ended, it is forgotten.
Cancelled(robots) ==
  [r \in Robots |-> IF r \in robots /\ pc[r] = "driving" THEN "cancelled"
                                                        ELSE pc[r]]

\* (mutant: nothing is dispatched when one more failure reaches the limit)
BeginBelowLimit(r) ==
  /\ ~suspended["dispatcher"]
  /\ failures + 1 < MaxFailures
  /\ pc[r] = "idle"
  /\ pc' = [pc EXCEPT ![r] = "waiting"]
  /\ UNCHANGED <<databaseVars, schedulerVars, active, failures, historyVars,
                 suspended, request, bus>>

\* The polling loop starts a coroutine for every robot that has none.
BeginDispatch(r) ==
  /\ ~suspended["dispatcher"]
  /\ pc[r] = "idle"
  /\ pc' = [pc EXCEPT ![r] = "waiting"]
  /\ UNCHANGED <<databaseVars, schedulerVars, active, failures, historyVars,
                 suspended, request, bus>>

\* Nothing is scheduled, or the query fails.
SkipDispatch(r) ==
  /\ pc[r] = "waiting"
  /\ DispatchLockFree
  /\ NothingScheduled \/ "database" \in Disturbances
  /\ Returns(r)
  /\ UNCHANGED <<databaseVars, schedulerVars, failures, historyVars,
                 suspended, bus>>

\* Suspension is not looked at again once the coroutine runs.
ChooseCycle(r) ==
  /\ pc[r] = "waiting"
  /\ DispatchLockFree
  /\ \E c \in Cycles : NextCycle(c) /\ active' = [active EXCEPT ![r] = c]
  /\ pc' = [pc EXCEPT ![r] = "marking"]
  /\ UNCHANGED <<databaseVars, schedulerVars, failures, historyVars,
                 suspended, request, bus>>

MarkActive(r) ==
  /\ pc[r] = "marking"
  /\ CanMove(active[r], "active")
  /\ status' = [status EXCEPT ![active[r]] = "active"]
  /\ pc' = [pc EXCEPT ![r] = "starting"]
  /\ UNCHANGED <<bySchedule, schedulerVars, active, failures, historyVars,
                 suspended, request, bus>>

\* A failing write, or a refused one, counts as a failed cycle.
MarkFails(r) ==
  /\ pc[r] = "marking"
  /\ CanMove(active[r], "active") => "database" \in Disturbances
  /\ GivesUp(r)
  /\ UNCHANGED <<databaseVars, schedulerVars, active, asked, suspended,
                 request, bus>>

\* execute_route_by_id forgets a cancellation made before it begins.
StartRoute(r) ==
  /\ pc[r] = "starting"
  /\ pc' = [pc EXCEPT ![r] = "driving"]
  /\ UNCHANGED <<databaseVars, schedulerVars, active, failures, historyVars,
                 suspended, request, bus>>

\* The last waypoint is reached, and what was seen on the way observed.  A
\* cancellation after the last look at it changes nothing.
RouteSucceeds(r) ==
  /\ pc[r] \in {"driving", "cancelled"}
  /\ pc' = [pc EXCEPT ![r] = "succeeded"]
  /\ UNCHANGED <<databaseVars, schedulerVars, active, failures, historyVars,
                 suspended, request, bus>>

RouteFails(r) ==
  /\ \/ pc[r] = "cancelled"
     \/ pc[r] \in {"starting", "driving"} /\ "fault" \in Disturbances
  /\ GivesUp(r)
  /\ UNCHANGED <<databaseVars, schedulerVars, active, asked, suspended,
                 request, bus>>

\* The robot sets off for the dock as soon as the completion is recorded.
RecordCompletion(r) ==
  /\ pc[r] = "succeeded"
  /\ CanMove(active[r], "completed")
  /\ status' = [status EXCEPT ![active[r]] = "completed"]
  /\ pc' = [pc EXCEPT ![r] = "docking"]
  /\ failures' = 0
  /\ excused'  = FALSE
  /\ UNCHANGED <<bySchedule, schedulerVars, active, asked, suspended, request,
                 bus>>

CompletionFails(r) ==
  /\ pc[r] = "succeeded"
  /\ CanMove(active[r], "completed") => "database" \in Disturbances
  /\ GivesUp(r)
  /\ UNCHANGED <<databaseVars, schedulerVars, active, asked, suspended,
                 request, bus>>

\* The dock route ended, failed or was cancelled: only a warning.
EndDocking(r) ==
  /\ pc[r] = "docking"
  /\ Returns(r)
  /\ UNCHANGED <<databaseVars, schedulerVars, failures, historyVars,
                 suspended, bus>>

\* mark_failed may be refused -- a cycle whose mark_active failed is still
\* scheduled -- or fail: both are only logged.
RecordFailure(r) ==
  /\ pc[r] \in {"recording", "tripping"}
  /\ \/ /\ CanMove(active[r], "failed")
        /\ status' = [status EXCEPT ![active[r]] = "failed"]
     \/ /\ CanMove(active[r], "failed") => "database" \in Disturbances
        /\ UNCHANGED status
  /\ IF pc[r] = "tripping"
       THEN /\ pc' = [pc EXCEPT ![r] = "suspending"]
            /\ UNCHANGED <<active, request>>
       ELSE Returns(r)
  /\ UNCHANGED <<bySchedule, schedulerVars, failures, historyVars, suspended,
                 bus>>

\* PATROL_CYCLE_FAILED is published; at the limit the dispatcher suspends
\* itself, whatever happened meanwhile.
SuspendAtLimit(r) ==
  /\ pc[r] = "suspending"
  /\ suspended' = [suspended EXCEPT !["dispatcher"] = TRUE]
  /\ pc' = [pc EXCEPT ![r] = "announcing"]
  /\ UNCHANGED <<databaseVars, schedulerVars, active, failures, historyVars,
                 request, bus>>

AnnounceLimit(r) ==
  /\ pc[r] = "announcing"
  /\ Len(bus) < BusCapacity
  /\ bus'   = Append(bus, "suspended")
  /\ asked' = "suspended"
  /\ Returns(r)
  /\ UNCHANGED <<databaseVars, schedulerVars, failures, excused, suspended>>

\* ESTOP_TRIGGERED of a registered robot cancels its route, nothing else.
EstopDelivered(r) ==
  /\ "estop" \in Disturbances
  /\ active[r] # NoCycle
  /\ pc' = Cancelled({r})
  /\ UNCHANGED <<databaseVars, schedulerVars, active, failures, historyVars,
                 suspended, request, bus>>

-----------------------------------------------------------------------------
(* Requests and the bus *)

\* Scheduler and dispatcher change their flags at once.  The scheduler's event
\* is dropped when the bus is full; every other publisher waits.
SetsFlags(kind) ==
  LET value == (kind = "suspended") IN
  /\ suspended' = [suspended EXCEPT !["scheduler"]  = value,
                                    !["dispatcher"] = value]
  /\ bus' = IF suspended["scheduler"] # value /\ Len(bus) < BusCapacity
            THEN Append(bus, kind)
            ELSE bus

\* POST /patrol/suspend.  PatrolDispatcher.suspend cancels the routes and
\* awaits the coroutines, unless it is suspended already.
RequestSuspend(q) ==
  /\ request[q].stage = "none"
  /\ SetsFlags("suspended")
  /\ IF suspended["dispatcher"]
       THEN /\ request' = [request EXCEPT ![q] =
                  [kind |-> "suspended", stage |-> "answering", waits |-> {}]]
            /\ UNCHANGED pc
       ELSE /\ request' = [request EXCEPT ![q] =
                  [kind |-> "suspended", stage |-> "announcing",
                   waits |-> { r \in Robots : pc[r] # "idle" }]]
            /\ pc' = Cancelled(Robots)
  /\ UNCHANGED <<databaseVars, schedulerVars, active, failures, historyVars>>

\* POST /patrol/resume
RequestResume(q) ==
  /\ request[q].stage = "none"
  /\ SetsFlags("resumed")
  /\ request' = [request EXCEPT ![q] =
       [kind  |-> "resumed", waits |-> {},
        stage |-> IF suspended["dispatcher"] THEN "announcing"
                                             ELSE "answering"]]
  /\ UNCHANGED <<databaseVars, schedulerVars, dispatchVars, historyVars>>

\* (mutant: suspend waits until no robot has a coroutine, new ones included)
AnnounceWhenIdle(q) ==
  /\ request[q].stage = "announcing"
  /\ request[q].kind = "suspended" => \A r \in Robots : pc[r] = "idle"
  /\ Len(bus) < BusCapacity
  /\ bus' = Append(bus, request[q].kind)
  /\ request' = [request EXCEPT ![q].stage = "answering"]
  /\ UNCHANGED <<databaseVars, schedulerVars, dispatchVars, historyVars,
                 suspended>>

\* The dispatcher's own event, once the coroutines it awaits have returned.
Announce(q) ==
  /\ request[q].stage = "announcing"
  /\ request[q].waits = {}
  /\ Len(bus) < BusCapacity
  /\ bus' = Append(bus, request[q].kind)
  /\ request' = [request EXCEPT ![q].stage = "answering"]
  /\ UNCHANGED <<databaseVars, schedulerVars, dispatchVars, historyVars,
                 suspended>>

\* (mutant: the handler relies on the events of scheduler and dispatcher)
AnswerSilently(q) ==
  /\ request[q].stage = "answering"
  /\ asked'   = request[q].kind
  /\ excused' = (excused \/ (request[q].kind = "resumed"
                            /\ failures = MaxFailures))
  /\ request' = [request EXCEPT ![q] = NoRequest]
  /\ UNCHANGED <<databaseVars, schedulerVars, dispatchVars, suspended, bus>>

\* The REST handler publishes the event once more and answers.
Answer(q) ==
  /\ request[q].stage = "answering"
  /\ Len(bus) < BusCapacity
  /\ bus'     = Append(bus, request[q].kind)
  /\ asked'   = request[q].kind
  /\ excused' = (excused \/ (request[q].kind = "resumed"
                            /\ failures = MaxFailures))
  /\ request' = [request EXCEPT ![q] = NoRequest]
  /\ UNCHANGED <<databaseVars, schedulerVars, dispatchVars, suspended>>

\* Each handler sets its part's flag; neither suspends nor cancels a route.
Deliver ==
  /\ bus # <<>>
  /\ bus' = Tail(bus)
  /\ suspended' = [p \in Parts |-> Head(bus) = "suspended"]
  /\ UNCHANGED <<databaseVars, schedulerVars, dispatchVars, historyVars,
                 request>>

-----------------------------------------------------------------------------
(* The process *)

\* The process dies and is started again: only the database survives.
Crash ==
  /\ scheduler' = "waiting"
  /\ inhibited' = FALSE
  /\ suspended' = [p \in Parts |-> FALSE]
  /\ pc'        = [r \in Robots |-> "idle"]
  /\ active'    = [r \in Robots |-> NoCycle]
  /\ failures'  = 0
  /\ request'   = [q \in Requests |-> NoRequest]
  /\ bus'       = <<>>
  /\ asked'     = "resumed"
  /\ excused'   = FALSE
  /\ UNCHANGED databaseVars

-----------------------------------------------------------------------------

SchedulerStep ==
  SchedulerWakes \/ SchedulerCounts \/ SchedulerSubmits \/ SchedulerFails

TakeCycle(r) == SkipDispatch(r) \/ ChooseCycle(r)

DispatchStep(r) ==
  \/ BeginDispatch(r) \/ TakeCycle(r)
  \/ MarkActive(r) \/ MarkFails(r)
  \/ StartRoute(r) \/ RouteSucceeds(r) \/ RouteFails(r)
  \/ CompletionFails(r) \/ EndDocking(r)
  \/ RecordFailure(r) \/ SuspendAtLimit(r) \/ AnnounceLimit(r)

RequestStep(q) == Announce(q) \/ Answer(q)

\* The steps the watchdog does not hear of.
UnheardStep ==
  \/ SchedulerStep \/ BatteryEvent \/ Trigger
  \/ \E r \in Robots : DispatchStep(r) \/ EstopDelivered(r)
  \/ \E q \in Requests : \/ RequestSuspend(q) \/ RequestResume(q)
                         \/ RequestStep(q)

Next ==
  UnheardStep \/ (\E r \in Robots : RecordCompletion(r)) \/ Deliver \/ Crash

Spec == Init /\ [][Next]_vars

\* The loops poll for ever, routes end or time out, the bus delivers, and the
\* dispatch lock is first come, first served.
Fairness ==
  /\ WF_vars(SchedulerStep)
  /\ \A r \in Robots : /\ WF_vars(DispatchStep(r) \/ RecordCompletion(r))
                        /\ SF_vars(TakeCycle(r))
  /\ \A q \in Requests : WF_vars(RequestStep(q))
  /\ WF_vars(Deliver)

-----------------------------------------------------------------------------
(* Properties *)

Request == [kind : {"suspended", "resumed"},
            stage : {"none", "announcing", "answering"},
            waits : SUBSET Robots]

\* Every variable keeps its type.
TypeOK ==
  /\ status \in [Cycles -> CycleStatuses \cup {"none"}]
  /\ bySchedule \subseteq Cycles
  /\ scheduler \in {"waiting", "counting", "submitting"}
  /\ suspended \in [Parts -> BOOLEAN]
  /\ inhibited \in BOOLEAN
  /\ pc \in [Robots -> {"idle", "waiting", "marking", "starting", "driving",
                        "cancelled", "succeeded", "docking",
                        "recording", "tripping", "suspending",
                        "announcing"}]
  /\ active \in [Robots -> Cycles \cup {NoCycle}]
  /\ \A r \in Robots : active[r] = NoCycle <=> pc[r] \in {"idle", "waiting"}
  /\ failures \in 0..MaxFailures
  /\ request \in [Requests -> Request]
  /\ bus \in Seq({"suspended", "resumed"}) /\ Len(bus) <= BusCapacity
  /\ asked \in {"suspended", "resumed"}
  /\ excused \in BOOLEAN

\* Where a robot records and announces that its cycle failed.
GivingUp == {"recording", "tripping", "suspending", "announcing"}

\* No two robots set off with the same cycle: reading the next cycle and
\* marking it active are separate database calls, and only the dispatch lock
\* around them keeps a second robot away.  (A robot whose mark_active failed
\* has given up and is recording that.)
OneRobotPerCycle ==
  \A r1, r2 \in Robots :
    /\ r1 # r2
    /\ active[r1] # NoCycle
    /\ pc[r1] \notin GivingUp /\ pc[r2] \notin GivingUp
    => active[r1] # active[r2]

\* "No concurrent cycles": the scheduler never adds a cycle while one of its
\* own is waiting or under way, although it counts the cycles and submits in
\* separate calls, and whatever supervisors trigger in between.
OneScheduledCycleOpen ==
  \A c, d \in bySchedule :
    {status[c], status[d]} \subseteq {"scheduled", "active"} => c = d

\* No suspension or resumption is being carried out.
Settled ==
  /\ \A q \in Requests : request[q].stage = "none"
  /\ \A r \in Robots : pc[r] # "announcing"

\* Once every event is delivered, scheduler and dispatcher agree,
\* and on what was asked for by the request that was answered last or by the
\* failure limit after it: no event that was still queued undoes it.
LastAnswerHolds ==
  Settled /\ bus = <<>> =>
    \A p \in Parts : suspended[p] = (asked = "suspended")

\* Once the limit of consecutive failures was reached the dispatcher stays
\* suspended until a supervisor resumes or a cycle completes, whatever other
\* robots and events do meanwhile.
FailureLimitHolds ==
  /\ Settled /\ bus = <<>>
  /\ \A r \in Robots : pc[r] \notin GivingUp
  /\ failures = MaxFailures
  /\ ~excused
  => suspended["dispatcher"]

\* The cycle a robot is under way with, from the mark to the route's result.
UnderWay == {"starting", "driving", "cancelled", "succeeded"}

Carries ==
  [r \in Robots |-> IF pc[r] \in UnderWay THEN active[r] ELSE NoCycle]

\* The application keeps the promise of PatrolOrder, whatever fails and
\* whoever asks: cycles are taken in the order they were submitted, each once
\* and by one robot, completed only by that robot, and final once they ended
\* -- a robot that gives up late, after another robot took and finished the
\* same cycle, does not rewrite the result.
Order == INSTANCE PatrolOrder
           WITH Robots <- Robots, MaxCycles <- MaxCycles, status <- status,
                bySchedule <- bySchedule, carries <- Carries
ImplementsPatrolOrder == Order!Spec

\* A suspend request is answered although it awaits the coroutines of all
\* robots, one of which may be about to forget the cancellation.
RequestsAnswered ==
  \A q \in Requests : request[q].stage # "none" ~> request[q].stage = "none"

=============================================================================
