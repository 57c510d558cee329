------------------------ MODULE PatrolMission_proofs ------------------------
(***************************************************************************)
(* Theorems about PatrolMission, for any number of robots, cycles and      *)
(* requests, any bus capacity, any failure limit and all the disturbances  *)
(* together.                                                               *)
(*                                                                         *)
(* Each part of the inductive invariant below carries one safety           *)
(* property: the dispatch lock and the statuses that never lead back to    *)
(* "scheduled" keep cycles apart; the scheduler's loop submits alone; the  *)
(* last event on the bus is the one that was asked for last; and a limit   *)
(* that was reached is announced by the robot that reached it.             *)
(***************************************************************************)
EXTENDS PatrolMission, SequenceTheorems, TLAPS

\* A cycle of the schedule is in the database.
ScheduleSubmitted == \A c \in bySchedule : status[c] # "none"

\* No code moves a cycle to "suspended".
NeverSuspended == \A c \in Cycles : status[c] # "suspended"

\* Between the counts and the submission nothing of the schedule opens.
SubmitsAlone ==
  scheduler = "submitting" =>
    \A c \in bySchedule : status[c] \notin {"scheduled", "active"}

OneMarks ==
  \A r1, r2 \in Robots : pc[r1] = "marking" /\ pc[r2] = "marking" => r1 = r2

\* A robot that set off, and did not give up, left the queue with its cycle.
MarkedBeyondQueue ==
  \A r \in Robots :
    /\ active[r] # NoCycle
    /\ pc[r] \notin GivingUp \cup {"marking"}
    => status[active[r]] \notin {"none", "scheduled"}

\* The bus ends with what was asked for last, or delivered it.
BusEndsAsAsked ==
  Settled =>
    /\ bus # <<>> => bus[Len(bus)] = asked
    /\ bus = <<>> => \A p \in Parts : suspended[p] = (asked = "suspended")

\* A limit that was reached is being announced, or was.
LimitAnnounced ==
  failures = MaxFailures /\ ~excused =>
    \/ \E r \in Robots : pc[r] \in {"tripping", "suspending", "announcing"}
    \/ asked = "suspended"

-----------------------------------------------------------------------------
(* The operators *)

LEMMA MoveFacts ==
  ASSUME NEW c, NEW new, CanMove(c, new)
  PROVE  /\ new \in CycleStatuses \ {"scheduled"}
         /\ status[c] \notin TerminalStatuses \cup {"none"}
         /\ status[c] # "suspended" =>
              status[c] = (IF new = "active" THEN "scheduled" ELSE "active")
BY DEF CanMove, AllowedTransitions, CycleStatuses, TerminalStatuses

LEMMA CyclesPositive ==
  /\ Cycles \subseteq Nat
  /\ NoCycle \notin Cycles
BY ConstantsAssumption DEF Cycles, NoCycle

\* What a suspension event does to the end of the bus.
LEMMA AppendFacts ==
  ASSUME NEW kind \in {"suspended", "resumed"},
         bus \in Seq({"suspended", "resumed"})
  PROVE  /\ Append(bus, kind) \in Seq({"suspended", "resumed"})
         /\ Append(bus, kind) # <<>>
         /\ Len(Append(bus, kind)) = Len(bus) + 1
         /\ Append(bus, kind)[Len(Append(bus, kind))] = kind
         /\ Len(bus) < BusCapacity => Len(Append(bus, kind)) <= BusCapacity
<1>1. /\ Append(bus, kind) \in Seq({"suspended", "resumed"})
      /\ Append(bus, kind) # <<>>
      /\ Len(Append(bus, kind)) = Len(bus) + 1
      /\ Append(bus, kind)[Len(bus) + 1] = kind
      BY AppendProperties
<1>2. Len(bus) \in Nat /\ BusCapacity \in Nat
      BY LenProperties, ConstantsAssumption
<1>3. Len(bus) < BusCapacity => Len(bus) + 1 <= BusCapacity
      BY <1>2
<1> QED BY <1>1, <1>3, Zenon

LEMMA GivesUpFacts ==
  ASSUME NEW r \in Robots, failures \in 0 .. MaxFailures, GivesUp(r)
  PROVE  /\ failures' \in 0 .. MaxFailures
         /\ excused' = FALSE
         /\ \/ pc' = [pc EXCEPT ![r] = "tripping"]
            \/ /\ pc' = [pc EXCEPT ![r] = "recording"]
               /\ failures' # MaxFailures
<1> DEFINE count == failures + 1
<1>1. /\ pc' = [pc EXCEPT ![r] = IF count >= MaxFailures THEN "tripping"
                                                        ELSE "recording"]
      /\ failures' = IF count > MaxFailures THEN MaxFailures ELSE count
      /\ excused' = FALSE
      BY DEF GivesUp, LimitReached
<1>2. failures \in Nat /\ MaxFailures \in Nat \ {0}
      BY ConstantsAssumption
<1>3. failures' \in 0 .. MaxFailures
      BY <1>1, <1>2
<1>4. CASE count >= MaxFailures
      BY <1>1, <1>3, <1>4
<1>5. CASE ~(count >= MaxFailures)
  <2>1. failures' # MaxFailures
        BY <1>1, <1>2, <1>5
  <2> QED BY <1>1, <1>3, <1>5, <2>1
<1> QED BY <1>4, <1>5

LEMMA TailFacts ==
  ASSUME bus \in Seq({"suspended", "resumed"}), bus # <<>>
  PROVE  /\ Tail(bus) \in Seq({"suspended", "resumed"})
         /\ Head(bus) \in {"suspended", "resumed"}
         /\ Len(Tail(bus)) = Len(bus) - 1
         /\ Tail(bus) # <<>> => Tail(bus)[Len(Tail(bus))] = bus[Len(bus)]
         /\ Tail(bus) = <<>> => Head(bus) = bus[Len(bus)]
<1> DEFINE Kinds == {"suspended", "resumed"}
<1>1. /\ Tail(bus) \in Seq(Kinds)
      /\ Head(bus) \in Kinds
      /\ Len(Tail(bus)) = Len(bus) - 1
      /\ \A i \in 1 .. Len(Tail(bus)) : Tail(bus)[i] = bus[i + 1]
      BY HeadTailProperties
<1>2. /\ Len(bus) \in Nat \ {0}
      /\ Len(Tail(bus)) + 1 = Len(bus)
  <2>1. Len(bus) \in Nat \ {0}
        BY EmptySeq
  <2> QED BY <1>1, <2>1
<1>3. ASSUME Tail(bus) # <<>>
      PROVE  Tail(bus)[Len(Tail(bus))] = bus[Len(bus)]
  <2>1. Len(Tail(bus)) \in 1 .. Len(Tail(bus))
        BY <1>1, <1>2, <1>3, EmptySeq
  <2>2. Tail(bus)[Len(Tail(bus))] = bus[Len(Tail(bus)) + 1]
        BY <1>1, <2>1
  <2> QED BY <1>2, <2>2, Zenon
<1>4. ASSUME Tail(bus) = <<>>
      PROVE  Head(bus) = bus[Len(bus)]
  <2>1. Len(Tail(bus)) = 0
        BY <1>4, EmptySeq, Zenon
  <2>2. Len(bus) = 0 + 1
        BY <1>2, <2>1, Zenon
  <2> QED BY <2>2
<1> QED BY <1>1, <1>3, <1>4

-----------------------------------------------------------------------------
(* Type correctness *)

LEMMA InitTypeOK == Init => TypeOK
<1> SUFFICES ASSUME Init PROVE TypeOK
    OBVIOUS
<1> USE ConstantsAssumption, CyclesPositive DEF Init
<1>1. bus \in Seq({"suspended", "resumed"}) /\ Len(bus) <= BusCapacity
      OBVIOUS
<1>2. request \in [Requests -> Request]
      BY DEF NoRequest, Request
<1>3. status \in [Cycles -> CycleStatuses \cup {"none"}]
      OBVIOUS
<1>4. /\ suspended \in [Parts -> BOOLEAN]
      /\ active \in [Robots -> Cycles \cup {NoCycle}]
      /\ \A r \in Robots :
           active[r] = NoCycle <=> pc[r] \in {"idle", "waiting"}
      OBVIOUS
<1>5. failures \in 0 .. MaxFailures
      OBVIOUS
<1> QED BY <1>1, <1>2, <1>3, <1>4, <1>5 DEF TypeOK

LEMMA ReturnsType ==
  ASSUME TypeOK, NEW r \in Robots, pc[r] # "idle", Returns(r)
  PROVE  /\ request' \in [Requests -> Request]
         /\ pc' = [pc EXCEPT ![r] = "idle"]
         /\ active' = [active EXCEPT ![r] = NoCycle]
         /\ \A q \in Requests : request'[q].stage = request[q].stage
BY DEF TypeOK, Returns, Request

\* The steps that end the coroutine of a robot.
LEMMA EndTypeOK ==
  ASSUME TypeOK, NEW r \in Robots,
         \/ SkipDispatch(r) \/ EndDocking(r)
         \/ RecordFailure(r) \/ SuspendAtLimit(r) \/ AnnounceLimit(r)
  PROVE  TypeOK'
<1> USE ConstantsAssumption, CyclesPositive
    DEF TypeOK, databaseVars, schedulerVars, historyVars
<1>1. CASE SkipDispatch(r)
      BY <1>1, ReturnsType DEF SkipDispatch
<1>2. CASE EndDocking(r)
      BY <1>2, ReturnsType DEF EndDocking
<1>3. CASE RecordFailure(r)
  <2>1. status' \in [Cycles -> CycleStatuses \cup {"none"}]
        BY <1>3 DEF RecordFailure, CycleStatuses
  <2>2. CASE pc[r] = "tripping"
        BY <1>3, <2>1, <2>2 DEF RecordFailure
  <2>3. CASE pc[r] = "recording"
        BY <1>3, <2>1, <2>3, ReturnsType DEF RecordFailure
  <2> QED BY <1>3, <2>2, <2>3 DEF RecordFailure
<1>4. CASE AnnounceLimit(r)
  <2>1. bus' \in Seq({"suspended", "resumed"}) /\ Len(bus') <= BusCapacity
        BY <1>4, AppendFacts DEF AnnounceLimit
  <2> QED BY <1>4, <2>1, ReturnsType DEF AnnounceLimit
<1>5. CASE SuspendAtLimit(r)
      BY <1>5 DEF SuspendAtLimit
<1> QED BY <1>1, <1>2, <1>3, <1>4, <1>5

\* The other steps of a robot.
LEMMA RobotTypeOK ==
  ASSUME TypeOK, NEW r \in Robots,
         DispatchStep(r) \/ RecordCompletion(r) \/ EstopDelivered(r)
  PROVE  TypeOK'
<1> USE ConstantsAssumption, CyclesPositive
    DEF TypeOK, databaseVars, schedulerVars, historyVars
<1>1. CASE BeginDispatch(r) \/ ChooseCycle(r)
      BY <1>1 DEF BeginDispatch, ChooseCycle
<1>2. CASE MarkActive(r)
      BY <1>2 DEF MarkActive, CycleStatuses
<1>3. CASE MarkFails(r) \/ RouteFails(r) \/ CompletionFails(r)
  <2>1. GivesUp(r) /\ pc[r] \notin {"idle", "waiting"}
        BY <1>3 DEF MarkFails, RouteFails, CompletionFails
  <2>2. failures' \in 0 .. MaxFailures /\ excused' \in BOOLEAN
        BY <2>1, GivesUpFacts
  <2>3. /\ pc' \in [Robots -> {"idle", "waiting", "marking", "starting",
                     "driving", "cancelled", "succeeded", "docking",
                     "recording", "tripping", "suspending", "announcing"}]
        /\ pc'[r] \in {"tripping", "recording"}
        /\ \A s \in Robots \ {r} : pc'[s] = pc[s]
        BY <2>1, GivesUpFacts
  <2> QED BY <1>3, <2>1, <2>2, <2>3 DEF MarkFails, RouteFails, CompletionFails
<1>4. CASE StartRoute(r) \/ RouteSucceeds(r) \/ RecordCompletion(r)
  <2>1. CASE StartRoute(r)
        BY <2>1 DEF StartRoute
  <2>2. CASE RouteSucceeds(r)
        BY <2>2 DEF RouteSucceeds
  <2>3. CASE RecordCompletion(r)
    <3>1. status' \in [Cycles -> CycleStatuses \cup {"none"}]
          BY <2>3 DEF RecordCompletion, CycleStatuses
    <3>2. failures' \in 0 .. MaxFailures
      <4>1. failures' = 0
            BY <2>3 DEF RecordCompletion
      <4>2. 0 \in 0 .. MaxFailures
            OBVIOUS
      <4> QED BY <4>1, <4>2, Zenon
    <3>3. excused' \in BOOLEAN
          BY <2>3, Zenon DEF RecordCompletion
    <3>4. /\ pc' = [pc EXCEPT ![r] = "docking"]
          /\ pc[r] = "succeeded" /\ active' = active
          BY <2>3 DEF RecordCompletion
    <3>5. /\ pc' \in [Robots -> {"idle", "waiting", "marking", "starting",
                       "driving", "cancelled", "succeeded", "docking",
                       "recording", "tripping", "suspending", "announcing"}]
          /\ \A s \in Robots :
               active'[s] = NoCycle <=> pc'[s] \in {"idle", "waiting"}
          BY <3>4
    <3>6. UNCHANGED <<bySchedule, scheduler, inhibited, active, asked,
                      suspended, request, bus>>
          BY <2>3 DEF RecordCompletion
    <3> QED BY <3>1, <3>2, <3>3, <3>5, <3>6
  <2> QED BY <1>4, <2>1, <2>2, <2>3
<1>5. CASE EstopDelivered(r)
  <2>1. /\ DOMAIN pc' = Robots
        /\ \A s \in Robots :
             pc'[s] = pc[s] \/ (pc[s] = "driving" /\ pc'[s] = "cancelled")
        BY <1>5 DEF EstopDelivered, Cancelled
  <2>2. pc' = [s \in Robots |-> pc'[s]]
        BY <1>5 DEF EstopDelivered, Cancelled
  <2>3. UNCHANGED <<status, bySchedule, scheduler, inhibited, active, failures,
                    asked, excused, suspended, request, bus>>
        BY <1>5 DEF EstopDelivered
  <2>4. /\ pc' \in [Robots -> {"idle", "waiting", "marking", "starting",
                     "driving", "cancelled", "succeeded", "docking",
                     "recording", "tripping", "suspending", "announcing"}]
        /\ \A s \in Robots :
             active'[s] = NoCycle <=> pc'[s] \in {"idle", "waiting"}
        BY <2>1, <2>2, <2>3
  <2> QED BY <2>3, <2>4
<1> QED BY <1>1, <1>2, <1>3, <1>4, <1>5, EndTypeOK
        DEF DispatchStep, TakeCycle

LEMMA RequestTypeOK ==
  ASSUME TypeOK, NEW q \in Requests,
         RequestSuspend(q) \/ RequestResume(q) \/ RequestStep(q)
  PROVE  TypeOK'
<1> USE ConstantsAssumption DEF TypeOK, databaseVars, schedulerVars,
        dispatchVars, historyVars
<1>1. ASSUME NEW kind \in {"suspended", "resumed"}, SetsFlags(kind)
      PROVE  /\ suspended' \in [Parts -> BOOLEAN]
             /\ bus' \in Seq({"suspended", "resumed"})
             /\ Len(bus') <= BusCapacity
  <2>1. suspended' \in [Parts -> BOOLEAN]
        BY <1>1 DEF SetsFlags
  <2>2. CASE bus' = Append(bus, kind) /\ Len(bus) < BusCapacity
        BY <2>1, <2>2, AppendFacts, Zenon
  <2>3. CASE bus' = bus
        BY <2>1, <2>3
  <2> QED BY <1>1, <2>2, <2>3 DEF SetsFlags
<1>2. CASE RequestSuspend(q)
  <2>1. /\ suspended' \in [Parts -> BOOLEAN]
        /\ bus' \in Seq({"suspended", "resumed"})
        /\ Len(bus') <= BusCapacity
        BY <1>1, <1>2 DEF RequestSuspend
  <2>2. request' \in [Requests -> Request]
        BY <1>2 DEF RequestSuspend, Request
  <2>3. UNCHANGED <<status, bySchedule, scheduler, inhibited, active, failures,
                    asked, excused>>
        BY <1>2 DEF RequestSuspend
  <2> QED BY <1>2, <2>1, <2>2, <2>3 DEF RequestSuspend, Cancelled
<1>3. CASE RequestResume(q)
  <2>1. /\ suspended' \in [Parts -> BOOLEAN]
        /\ bus' \in Seq({"suspended", "resumed"})
        /\ Len(bus') <= BusCapacity
        BY <1>1, <1>3 DEF RequestResume
  <2>2. request' \in [Requests -> Request]
        BY <1>3 DEF RequestResume, Request
  <2> QED BY <1>3, <2>1, <2>2 DEF RequestResume
<1>4. CASE RequestStep(q)
  <2>1. request[q].kind \in {"suspended", "resumed"}
        BY DEF Request
  <2>2. /\ bus' \in Seq({"suspended", "resumed"})
        /\ Len(bus') <= BusCapacity
    <3>1. bus' = Append(bus, request[q].kind) /\ Len(bus) < BusCapacity
          BY <1>4 DEF RequestStep, Announce, Answer
    <3> QED BY <2>1, <3>1, AppendFacts, Zenon
  <2>3. request' \in [Requests -> Request]
    <3>1. CASE Announce(q)
          BY <3>1 DEF Announce, Request
    <3>2. CASE Answer(q)
          BY <3>2 DEF Answer, Request, NoRequest
    <3> QED BY <1>4, <3>1, <3>2 DEF RequestStep
  <2> QED BY <1>4, <2>1, <2>2, <2>3 DEF RequestStep, Announce, Answer
<1> QED BY <1>2, <1>3, <1>4

LEMMA OtherTypeOK ==
  ASSUME TypeOK, SchedulerStep \/ BatteryEvent \/ Trigger \/ Deliver \/ Crash
  PROVE  TypeOK'
<1> USE ConstantsAssumption, CyclesPositive DEF TypeOK, databaseVars,
        schedulerVars, dispatchVars, historyVars
<1>1. CASE SchedulerWakes \/ SchedulerCounts \/ SchedulerFails
           \/ BatteryEvent
      BY <1>1 DEF SchedulerWakes, SchedulerCounts, SchedulerFails,
                  BatteryEvent
<1>2. CASE SchedulerSubmits \/ Trigger
      BY <1>2 DEF SchedulerSubmits, Trigger, Submit, CycleStatuses
<1>3. CASE Deliver
  <2>1. bus' \in Seq({"suspended", "resumed"}) /\ Len(bus') <= BusCapacity
    <3>1. Len(bus) \in Nat /\ Len(Tail(bus)) = Len(bus) - 1
          BY <1>3, TailFacts, LenProperties DEF Deliver
    <3> QED BY <1>3, <3>1, TailFacts DEF Deliver
  <2>2. suspended' \in [Parts -> BOOLEAN]
        BY <1>3 DEF Deliver
  <2> QED BY <1>3, <2>1, <2>2 DEF Deliver
<1>4. CASE Crash
  <2>1. bus' \in Seq({"suspended", "resumed"}) /\ Len(bus') <= BusCapacity
        BY <1>4 DEF Crash
  <2>2. request' \in [Requests -> Request]
        BY <1>4 DEF Crash, NoRequest, Request
  <2>3. /\ suspended' \in [Parts -> BOOLEAN]
        /\ active' \in [Robots -> Cycles \cup {NoCycle}]
        /\ \A r \in Robots :
             active'[r] = NoCycle <=> pc'[r] \in {"idle", "waiting"}
        BY <1>4 DEF Crash
  <2>4. failures' \in 0 .. MaxFailures
        BY <1>4 DEF Crash
  <2> QED BY <1>4, <2>1, <2>2, <2>3, <2>4 DEF Crash
<1> QED BY <1>1, <1>2, <1>3, <1>4 DEF SchedulerStep

LEMMA NextTypeOK == TypeOK /\ [Next]_vars => TypeOK'
<1> SUFFICES ASSUME TypeOK, [Next]_vars PROVE TypeOK'
    OBVIOUS
<1>1. CASE Next
      BY <1>1, RobotTypeOK, RequestTypeOK, OtherTypeOK DEF Next, UnheardStep
<1>2. CASE UNCHANGED vars
      BY <1>2 DEF vars, databaseVars, schedulerVars, dispatchVars,
                  historyVars, TypeOK
<1> QED BY <1>1, <1>2

\* Every variable keeps its type, and a robot has an active cycle exactly
\* while its dispatch coroutine is past the choice of one.
THEOREM TypeCorrect == Spec => []TypeOK
BY InitTypeOK, NextTypeOK, PTL DEF Spec

-----------------------------------------------------------------------------
(* The database *)

\* The scheduler goes on, and submits only after it found nothing open.
SchedulerGoesOn ==
  scheduler' = "submitting" => scheduler = "submitting" \/ NothingOpen

CycleSubmitted ==
  \E c \in Cycles :
    /\ Submit(c)
    /\ scheduler' # "submitting" \/ scheduler' = scheduler
    /\ \/ bySchedule' = bySchedule
       \/ scheduler = "submitting" /\ scheduler' = "waiting"
          /\ bySchedule' = bySchedule \cup {c}

CycleMoved ==
  \E c \in Cycles, new \in {"active", "completed", "failed"} :
    /\ CanMove(c, new)
    /\ status' = [status EXCEPT ![c] = new]
    /\ UNCHANGED <<bySchedule, scheduler>>

\* What a step may do to the database.
LEMMA DatabaseSteps ==
  ASSUME TypeOK, [Next]_vars
  PROVE  \/ UNCHANGED <<status, bySchedule>> /\ SchedulerGoesOn
         \/ CycleSubmitted
         \/ CycleMoved
<1> DEFINE Kept == UNCHANGED <<status, bySchedule>> /\ SchedulerGoesOn
<1>1. CASE SchedulerStep
  <2>1. CASE SchedulerWakes \/ SchedulerCounts \/ SchedulerFails
        BY <2>1 DEF SchedulerWakes, SchedulerCounts, SchedulerFails,
                    SchedulerGoesOn, databaseVars
  <2>2. CASE SchedulerSubmits
        BY <2>2 DEF SchedulerSubmits, CycleSubmitted
  <2> QED BY <1>1, <2>1, <2>2 DEF SchedulerStep
<1>2. CASE Trigger
      BY <1>2 DEF Trigger, CycleSubmitted, schedulerVars
<1>3. CASE BatteryEvent \/ Deliver \/ Crash
      BY <1>3 DEF BatteryEvent, Deliver, Crash, SchedulerGoesOn,
                  databaseVars, schedulerVars
<1>4. ASSUME NEW q \in Requests,
             RequestSuspend(q) \/ RequestResume(q) \/ RequestStep(q)
      PROVE  Kept
      BY <1>4 DEF RequestSuspend, RequestResume, RequestStep, Announce,
                  Answer, SchedulerGoesOn, databaseVars, schedulerVars
<1>5. ASSUME NEW r \in Robots,
             DispatchStep(r) \/ RecordCompletion(r) \/ EstopDelivered(r)
      PROVE  Kept \/ CycleMoved
  <2>1. pc[r] \notin {"idle", "waiting"} => active[r] \in Cycles
        BY DEF TypeOK
  <2>2. CASE MarkActive(r) \/ RecordCompletion(r)
        BY <2>1, <2>2 DEF MarkActive, RecordCompletion, CycleMoved,
                          schedulerVars
  <2>3. CASE RecordFailure(r)
        BY <2>1, <2>3 DEF RecordFailure, CycleMoved, SchedulerGoesOn,
                          schedulerVars
  <2>4. CASE BeginDispatch(r) \/ TakeCycle(r) \/ EndDocking(r)
             \/ SuspendAtLimit(r) \/ AnnounceLimit(r)
             \/ EstopDelivered(r)
        BY <2>4 DEF BeginDispatch, TakeCycle, SkipDispatch, ChooseCycle,
                    EndDocking, SuspendAtLimit, AnnounceLimit, EstopDelivered,
                    SchedulerGoesOn, databaseVars, schedulerVars
  <2>5. CASE MarkFails(r) \/ StartRoute(r) \/ RouteSucceeds(r)
             \/ RouteFails(r) \/ CompletionFails(r)
        BY <2>5 DEF MarkFails, StartRoute, RouteSucceeds, RouteFails,
                    CompletionFails, SchedulerGoesOn, databaseVars,
                    schedulerVars
  <2> QED BY <1>5, <2>2, <2>3, <2>4, <2>5 DEF DispatchStep
<1>6. CASE UNCHANGED vars
      BY <1>6 DEF vars, databaseVars, schedulerVars, SchedulerGoesOn
<1> QED BY <1>1, <1>2, <1>3, <1>4, <1>5, <1>6 DEF Next, UnheardStep

\* No status leads back to the queue, and none to "suspended".
LEMMA StatusFacts ==
  ASSUME TypeOK, NeverSuspended, [Next]_vars, NEW c \in Cycles
  PROVE  /\ status'[c] = "scheduled" => status[c] \in {"none", "scheduled"}
         /\ status'[c] = "none" => status[c] = "none"
         /\ status'[c] # "suspended"
         /\ status[c] \in TerminalStatuses => status'[c] = status[c]
<1>1. CASE UNCHANGED <<status, bySchedule>>
      BY <1>1 DEF NeverSuspended
<1>2. CASE CycleSubmitted
      BY <1>2 DEF CycleSubmitted, Submit, NeverSuspended, TypeOK,
                  TerminalStatuses
<1>3. CASE CycleMoved
      BY <1>3, MoveFacts DEF CycleMoved, NeverSuspended, TypeOK
<1> QED BY <1>1, <1>2, <1>3, DatabaseSteps

LEMMA ScheduleInv ==
  ASSUME TypeOK, ScheduleSubmitted, NeverSuspended, SubmitsAlone,
         OneScheduledCycleOpen, [Next]_vars
  PROVE  /\ ScheduleSubmitted'
         /\ NeverSuspended'
         /\ SubmitsAlone'
         /\ OneScheduledCycleOpen'
<1> USE DEF ScheduleSubmitted, SubmitsAlone, OneScheduledCycleOpen
<1>1. NeverSuspended'
      BY StatusFacts DEF NeverSuspended, Cycles
<1>2. bySchedule \subseteq Cycles
      BY DEF TypeOK
<1>3. CASE UNCHANGED <<status, bySchedule>> /\ SchedulerGoesOn
      BY <1>1, <1>2, <1>3 DEF SchedulerGoesOn, NothingOpen
<1>4. CASE CycleSubmitted
  <2>1. PICK c \in Cycles :
          /\ Submit(c)
          /\ scheduler' # "submitting" \/ scheduler' = scheduler
          /\ \/ bySchedule' = bySchedule
             \/ scheduler = "submitting" /\ scheduler' = "waiting"
                /\ bySchedule' = bySchedule \cup {c}
        BY <1>4 DEF CycleSubmitted
  <2>2. /\ status'[c] = "scheduled"
        /\ c \notin bySchedule
        /\ \A d \in Cycles \ {c} : status'[d] = status[d]
        BY <2>1 DEF Submit, TypeOK
  <2>3. CASE bySchedule' = bySchedule
        BY <1>1, <1>2, <2>1, <2>2, <2>3
  <2>4. CASE /\ scheduler = "submitting" /\ scheduler' = "waiting"
             /\ bySchedule' = bySchedule \cup {c}
        BY <1>1, <1>2, <2>2, <2>4
  <2> QED BY <2>1, <2>3, <2>4
<1>5. CASE CycleMoved
  <2>1. PICK c \in Cycles, new \in {"active", "completed", "failed"} :
          /\ CanMove(c, new)
          /\ status' = [status EXCEPT ![c] = new]
          /\ UNCHANGED <<bySchedule, scheduler>>
        BY <1>5 DEF CycleMoved
  <2>2. /\ status'[c] = new
        /\ status[c] \in {"scheduled", "active"}
        /\ \A d \in Cycles \ {c} : status'[d] = status[d]
        BY <2>1, MoveFacts DEF TypeOK, NeverSuspended
  <2> QED BY <1>1, <1>2, <2>1, <2>2
<1> QED BY <1>3, <1>4, <1>5, DatabaseSteps

\* A cycle that completed or failed stays as it is, whichever robots give up
\* on it later (PatrolCycleStateMachine).
TerminalIsFinal ==
  [][\A c \in Cycles :
       status[c] \in TerminalStatuses => status'[c] = status[c]]_vars

\* No late mark_failed rewrites the result of another robot.
THEOREM ResultsAreFinal == Spec => TerminalIsFinal
<1>1. Init => NeverSuspended
      BY DEF Init, NeverSuspended
<1>2. TypeOK /\ NeverSuspended /\ [Next]_vars => NeverSuspended'
      BY StatusFacts DEF NeverSuspended, Cycles
<1>3. TypeOK /\ NeverSuspended /\ [Next]_vars =>
        [\A c \in Cycles :
           status[c] \in TerminalStatuses => status'[c] = status[c]]_vars
      BY StatusFacts DEF Cycles
<1> QED BY <1>1, <1>2, <1>3, InitTypeOK, NextTypeOK, PTL
        DEF Spec, TerminalIsFinal

\* The scheduler never adds a cycle while one of its own is open.
THEOREM SchedulerNeverDoubles == Spec => []OneScheduledCycleOpen
<1> DEFINE Inv == /\ TypeOK /\ ScheduleSubmitted /\ NeverSuspended
                  /\ SubmitsAlone /\ OneScheduledCycleOpen
<1>1. Init => Inv
      BY InitTypeOK DEF Init, ScheduleSubmitted, NeverSuspended,
                        SubmitsAlone, OneScheduledCycleOpen
<1>2. Inv /\ [Next]_vars => Inv'
      BY NextTypeOK, ScheduleInv
<1> QED BY <1>1, <1>2, PTL DEF Spec

-----------------------------------------------------------------------------
(* The dispatch lock *)

\* How a step moves the coroutines, the robots' own steps apart.
LEMMA RoutesCancelled ==
  ASSUME TypeOK,
         (\E r \in Robots : EstopDelivered(r)) \/
         (\E q \in Requests : RequestSuspend(q) \/ RequestResume(q)
                              \/ RequestStep(q)) \/
         SchedulerStep \/ BatteryEvent \/ Trigger \/ Deliver
         \/ UNCHANGED vars
  PROVE  /\ active' = active
         /\ \A r \in Robots :
              pc'[r] = pc[r] \/ (pc[r] = "driving" /\ pc'[r] = "cancelled")
<1>1. CASE \E r \in Robots : EstopDelivered(r)
      BY <1>1 DEF EstopDelivered, Cancelled, dispatchVars
<1>2. CASE \E q \in Requests : RequestSuspend(q)
      BY <1>2 DEF RequestSuspend, Cancelled
<1>3. CASE \E q \in Requests : RequestResume(q) \/ RequestStep(q)
      BY <1>3 DEF RequestResume, RequestStep, Announce, Answer, dispatchVars
<1>4. CASE SchedulerStep \/ BatteryEvent \/ Trigger \/ Deliver
           \/ UNCHANGED vars
      BY <1>4 DEF SchedulerStep, SchedulerWakes, SchedulerCounts,
                  SchedulerSubmits, SchedulerFails, BatteryEvent, Trigger,
                  Deliver, dispatchVars, vars
<1> QED BY <1>1, <1>2, <1>3, <1>4

\* How the coroutine of r moves by itself.
CoroutineMoves(r) ==
  /\ \A s \in Robots \ {r} : pc'[s] = pc[s] /\ active'[s] = active[s]
  /\ \/ pc'[r] \in {"idle", "waiting"} /\ active'[r] = NoCycle
     \/ /\ pc[r] = "waiting" /\ pc'[r] = "marking" /\ DispatchLockFree
        /\ NextCycle(active'[r]) /\ UNCHANGED status
     \/ /\ pc[r] = "marking" /\ pc'[r] = "starting"
        /\ active'[r] = active[r] /\ status'[active[r]] = "active"
     \/ /\ pc[r] \notin {"idle", "waiting"}
        /\ pc'[r] \in GivingUp /\ active'[r] = active[r]
     \/ /\ pc[r] \notin GivingUp \cup {"idle", "waiting", "marking"}
        /\ pc'[r] \notin {"idle", "waiting", "marking"}
        /\ active'[r] = active[r]

LEMMA CoroutineSteps ==
  ASSUME TypeOK, NEW r \in Robots, DispatchStep(r) \/ RecordCompletion(r)
  PROVE  CoroutineMoves(r)
<1> USE DEF CoroutineMoves, TypeOK
<1>1. CASE BeginDispatch(r)
      BY <1>1 DEF BeginDispatch
<1>2. CASE SkipDispatch(r) \/ EndDocking(r) \/ AnnounceLimit(r)
      BY <1>2 DEF SkipDispatch, EndDocking, AnnounceLimit, Returns
<1>3. CASE ChooseCycle(r)
      BY <1>3 DEF ChooseCycle, NextCycle, databaseVars
<1>4. CASE MarkActive(r)
      BY <1>4, CyclesPositive DEF MarkActive
<1>5. CASE MarkFails(r) \/ RouteFails(r) \/ CompletionFails(r)
  <2>1. GivesUp(r) /\ pc[r] \notin {"idle", "waiting"} /\ active' = active
        BY <1>5 DEF MarkFails, RouteFails, CompletionFails
  <2>2. /\ pc'[r] \in {"tripping", "recording"}
        /\ \A s \in Robots \ {r} : pc'[s] = pc[s]
        BY <2>1, GivesUpFacts
  <2> QED BY <2>1, <2>2 DEF GivingUp
<1>6. CASE StartRoute(r) \/ RouteSucceeds(r) \/ RecordCompletion(r)
      BY <1>6 DEF StartRoute, RouteSucceeds, RecordCompletion, GivingUp
<1>7. CASE RecordFailure(r) \/ SuspendAtLimit(r)
      BY <1>7 DEF RecordFailure, SuspendAtLimit, Returns, GivingUp
<1> QED BY <1>1, <1>2, <1>3, <1>4, <1>5, <1>6, <1>7
        DEF DispatchStep, TakeCycle

LEMMA LockInv ==
  ASSUME TypeOK, NeverSuspended, OneMarks, MarkedBeyondQueue,
         OneRobotPerCycle, [Next]_vars
  PROVE  OneMarks' /\ MarkedBeyondQueue' /\ OneRobotPerCycle'
<1> USE DEF OneMarks, MarkedBeyondQueue, OneRobotPerCycle, GivingUp
<1>1. \A c \in Cycles :
        status[c] \notin {"none", "scheduled"} =>
          status'[c] \notin {"none", "scheduled"}
      BY StatusFacts DEF Cycles
<1>2. ASSUME active' = active,
             \A r \in Robots : pc'[r] = pc[r] \/
                               (pc[r] = "driving" /\ pc'[r] = "cancelled")
      PROVE  OneMarks' /\ MarkedBeyondQueue' /\ OneRobotPerCycle'
  <2>1. /\ \A r \in Robots : active[r] # NoCycle => active[r] \in Cycles
        /\ \A r \in Robots : /\ pc'[r] = "marking" <=> pc[r] = "marking"
                             /\ pc'[r] \in GivingUp <=> pc[r] \in GivingUp
        BY <1>2 DEF TypeOK
  <2>2. OneMarks' /\ OneRobotPerCycle'
        BY <1>2, <2>1
  <2>3. MarkedBeyondQueue'
        BY <1>1, <1>2, <2>1
  <2> QED BY <2>2, <2>3
<1>3. ASSUME NEW r \in Robots, DispatchStep(r) \/ RecordCompletion(r)
      PROVE  OneMarks' /\ MarkedBeyondQueue' /\ OneRobotPerCycle'
  <2>1. CoroutineMoves(r)
        BY <1>3, CoroutineSteps
  <2>2. \A s \in Robots : active[s] # NoCycle => active[s] \in Cycles
        BY DEF TypeOK
  <2>3. OneMarks'
        BY <2>1 DEF CoroutineMoves, DispatchLockFree
  <2>4. MarkedBeyondQueue'
        BY <1>1, <2>1, <2>2 DEF CoroutineMoves
  <2>5. OneRobotPerCycle'
    <3>1. CASE pc'[r] = "marking" /\ Scheduled(active'[r])
               /\ DispatchLockFree
          BY <2>1, <2>2, <3>1 DEF CoroutineMoves, DispatchLockFree, Scheduled
    <3>2. CASE active'[r] \in {NoCycle, active[r]}
               /\ (pc'[r] \in GivingUp \cup {"idle", "waiting"}
                   \/ pc[r] \notin GivingUp)
          BY <2>1, <2>2, <3>2 DEF CoroutineMoves
    <3> QED BY <2>1, <3>1, <3>2 DEF CoroutineMoves, NextCycle
  <2> QED BY <2>3, <2>4, <2>5
<1>4. CASE Crash
      BY <1>4 DEF Crash
<1> QED BY <1>2, <1>3, <1>4, RoutesCancelled DEF Next, UnheardStep

\* No two robots set off with the same cycle.
THEOREM RobotsNeverShareACycle == Spec => []OneRobotPerCycle
<1> DEFINE Inv == /\ TypeOK /\ NeverSuspended
                  /\ OneMarks /\ MarkedBeyondQueue /\ OneRobotPerCycle
<1>1. Init => Inv
      BY InitTypeOK DEF Init, NeverSuspended, OneMarks, MarkedBeyondQueue,
                        OneRobotPerCycle
<1>2. Inv /\ [Next]_vars => Inv'
      BY NextTypeOK, LockInv, StatusFacts DEF NeverSuspended, Cycles
<1> QED BY <1>1, <1>2, PTL DEF Spec

-----------------------------------------------------------------------------
(* The event bus *)

\* Nothing of what BusEndsAsAsked is about changes.
BusKept ==
  /\ UNCHANGED <<bus, suspended, asked>>
  /\ \A q \in Requests : request'[q].stage = request[q].stage
  /\ \A r \in Robots : pc[r] = "announcing" => pc'[r] = "announcing"

LEMMA RobotsKeepBus ==
  ASSUME TypeOK, NEW r \in Robots,
         DispatchStep(r) \/ RecordCompletion(r) \/ EstopDelivered(r)
  PROVE  BusKept \/ pc'[r] = "announcing" \/ AnnounceLimit(r)
<1> USE DEF BusKept, TypeOK, historyVars
<1>1. CASE BeginDispatch(r) \/ ChooseCycle(r) \/ MarkActive(r)
           \/ StartRoute(r) \/ RouteSucceeds(r) \/ RecordCompletion(r)
      BY <1>1 DEF BeginDispatch, ChooseCycle, MarkActive, StartRoute,
                  RouteSucceeds, RecordCompletion
<1>2. CASE MarkFails(r) \/ RouteFails(r) \/ CompletionFails(r)
      BY <1>2 DEF MarkFails, RouteFails, CompletionFails, GivesUp
<1>3. CASE SkipDispatch(r) \/ EndDocking(r)
      BY <1>3, ReturnsType DEF SkipDispatch, EndDocking
<1>4. CASE RecordFailure(r)
  <2>1. CASE pc[r] = "tripping"
        BY <1>4, <2>1 DEF RecordFailure
  <2>2. CASE pc[r] = "recording"
        BY <1>4, <2>2, ReturnsType DEF RecordFailure
  <2> QED BY <1>4, <2>1, <2>2 DEF RecordFailure
<1>5. CASE EstopDelivered(r)
      BY <1>5 DEF EstopDelivered, Cancelled
<1>6. CASE SuspendAtLimit(r)
      BY <1>6 DEF SuspendAtLimit
<1> QED BY <1>1, <1>2, <1>3, <1>4, <1>5, <1>6 DEF DispatchStep, TakeCycle

LEMMA BusInv ==
  ASSUME TypeOK, BusEndsAsAsked, [Next]_vars
  PROVE  BusEndsAsAsked'
<1> USE DEF BusEndsAsAsked
<1>1. CASE BusKept
      BY <1>1 DEF BusKept, Settled
<1>2. ASSUME NEW kind \in {"suspended", "resumed"},
             bus' = Append(bus, kind), asked' = kind
      PROVE  BusEndsAsAsked'
  <2>1. bus' # <<>> /\ bus'[Len(bus')] = kind
        BY <1>2, AppendFacts, Zenon DEF TypeOK
  <2> QED BY <1>2, <2>1
<1>3. ASSUME NEW r \in Robots,
             DispatchStep(r) \/ RecordCompletion(r) \/ EstopDelivered(r)
      PROVE  BusEndsAsAsked'
  <2>1. CASE pc'[r] = "announcing"
        BY <2>1 DEF Settled
  <2>2. CASE AnnounceLimit(r)
        BY <1>2, <2>2 DEF AnnounceLimit
  <2> QED BY <1>1, <1>3, <2>1, <2>2, RobotsKeepBus
<1>4. ASSUME NEW q \in Requests,
             RequestSuspend(q) \/ RequestResume(q) \/ Announce(q)
      PROVE  BusEndsAsAsked'
  <2>1. request'[q].stage # "none"
        BY <1>4 DEF RequestSuspend, RequestResume, Announce, TypeOK, Request
  <2> QED BY <2>1 DEF Settled
<1>5. ASSUME NEW q \in Requests, Answer(q)
      PROVE  BusEndsAsAsked'
  <2>1. request[q].kind \in {"suspended", "resumed"}
        BY DEF TypeOK, Request
  <2> QED BY <1>2, <1>5, <2>1 DEF Answer
<1>6. CASE Deliver
  <2>1. /\ bus # <<>> /\ bus' = Tail(bus)
        /\ \A p \in Parts : suspended'[p] = (Head(bus) = "suspended")
        /\ UNCHANGED <<pc, request, asked>>
        BY <1>6 DEF Deliver, dispatchVars, historyVars
  <2>2. Settled' => Settled
        BY <2>1 DEF Settled
  <2>3. /\ bus' # <<>> => bus'[Len(bus')] = bus[Len(bus)]
        /\ bus' = <<>> => Head(bus) = bus[Len(bus)]
        BY <2>1, TailFacts, Zenon DEF TypeOK
  <2> QED BY <2>1, <2>2, <2>3
<1>7. CASE Crash
      BY <1>7 DEF Crash, Parts
<1>8. CASE SchedulerStep \/ BatteryEvent \/ Trigger \/ UNCHANGED vars
  <2>1. BusKept
        BY <1>8 DEF SchedulerStep, SchedulerWakes, SchedulerCounts,
                    SchedulerSubmits, SchedulerFails, BatteryEvent, Trigger,
                    BusKept, dispatchVars, historyVars, vars
  <2> QED BY <1>1, <2>1
<1> QED BY <1>3, <1>4, <1>5, <1>6, <1>7, <1>8
        DEF Next, UnheardStep, RequestStep

\* Whatever events were queued, scheduler and dispatcher end up as the request
\* answered last asked for.
THEOREM TheLastAnswerHolds == Spec => []LastAnswerHolds
<1>1. Init => BusEndsAsAsked
      BY DEF Init, BusEndsAsAsked, Parts
<1>2. TypeOK /\ BusEndsAsAsked /\ [Next]_vars => BusEndsAsAsked'
      BY BusInv
<1>3. BusEndsAsAsked => LastAnswerHolds
      BY DEF BusEndsAsAsked, LastAnswerHolds
<1> QED BY <1>1, <1>2, <1>3, InitTypeOK, NextTypeOK, PTL DEF Spec

-----------------------------------------------------------------------------
(* The failure limit *)

\* Nothing of what LimitAnnounced is about gets worse.
LimitKept ==
  /\ UNCHANGED <<failures, excused, asked>>
  /\ \A r \in Robots : pc[r] \in {"tripping", "suspending", "announcing"} =>
                         pc'[r] \in {"tripping", "suspending", "announcing"}

LEMMA LimitInv ==
  ASSUME TypeOK, LimitAnnounced, [Next]_vars
  PROVE  LimitAnnounced'
<1> USE DEF LimitAnnounced
<1>1. CASE LimitKept
      BY <1>1 DEF LimitKept
<1>2. ASSUME NEW r \in Robots,
             DispatchStep(r) \/ RecordCompletion(r) \/ EstopDelivered(r)
      PROVE  LimitAnnounced'
  <2>1. CASE BeginDispatch(r) \/ ChooseCycle(r) \/ MarkActive(r)
             \/ StartRoute(r) \/ RouteSucceeds(r)
    <3>1. LimitKept
          BY <2>1 DEF BeginDispatch, ChooseCycle, MarkActive, StartRoute,
                      RouteSucceeds, LimitKept, TypeOK, historyVars
    <3> QED BY <1>1, <3>1
  <2>2. CASE MarkFails(r) \/ RouteFails(r) \/ CompletionFails(r)
    <3>1. GivesUp(r) /\ failures \in 0 .. MaxFailures
          BY <2>2 DEF MarkFails, RouteFails, CompletionFails, TypeOK
    <3>2. failures' # MaxFailures \/ pc' = [pc EXCEPT ![r] = "tripping"]
          BY <3>1, GivesUpFacts
    <3>3. failures' # MaxFailures \/ pc'[r] = "tripping"
          BY <3>2 DEF TypeOK
    <3> QED BY <3>3
  <2>3. CASE SkipDispatch(r) \/ EndDocking(r)
    <3>1. LimitKept
          BY <2>3, ReturnsType DEF SkipDispatch, EndDocking, LimitKept,
                                   TypeOK, historyVars
    <3> QED BY <1>1, <3>1
  <2>4. CASE RecordFailure(r)
    <3>1. LimitKept
      <4>1. CASE pc[r] = "tripping"
            BY <2>4, <4>1 DEF RecordFailure, LimitKept, TypeOK, historyVars
      <4>2. CASE pc[r] = "recording"
            BY <2>4, <4>2, ReturnsType
               DEF RecordFailure, LimitKept, TypeOK, historyVars
      <4> QED BY <2>4, <4>1, <4>2 DEF RecordFailure
    <3> QED BY <1>1, <3>1
  <2>5. CASE AnnounceLimit(r)
        BY <2>5 DEF AnnounceLimit
  <2>6. CASE SuspendAtLimit(r)
    <3>1. LimitKept
          BY <2>6 DEF SuspendAtLimit, LimitKept, TypeOK, historyVars
    <3> QED BY <1>1, <3>1
  <2>7. CASE RecordCompletion(r)
        BY <2>7, ConstantsAssumption DEF RecordCompletion
  <2>8. CASE EstopDelivered(r)
    <3>1. LimitKept
          BY <2>8 DEF EstopDelivered, Cancelled, LimitKept, historyVars
    <3> QED BY <1>1, <3>1
  <2> QED BY <1>2, <2>1, <2>2, <2>3, <2>4, <2>5, <2>6, <2>7, <2>8
          DEF DispatchStep, TakeCycle
<1>3. ASSUME NEW q \in Requests, Answer(q)
      PROVE  LimitAnnounced'
  <2>1. request[q].kind \in {"suspended", "resumed"}
        BY DEF TypeOK, Request
  <2>2. asked' = request[q].kind /\ failures' = failures
        BY <1>3 DEF Answer, dispatchVars
  <2>3. request[q].kind = "resumed" /\ failures = MaxFailures => excused'
        BY <1>3, Zenon DEF Answer
  <2> QED BY <2>1, <2>2, <2>3
<1>4. CASE Crash
      BY <1>4, ConstantsAssumption DEF Crash
<1>5. ASSUME NEW q \in Requests,
             RequestSuspend(q) \/ RequestResume(q) \/ Announce(q)
      PROVE  LimitKept
      BY <1>5 DEF RequestSuspend, RequestResume, Announce, Cancelled,
                  LimitKept, dispatchVars, historyVars
<1>6. CASE SchedulerStep \/ BatteryEvent \/ Trigger \/ Deliver
           \/ UNCHANGED vars
  <2>1. LimitKept
        BY <1>6 DEF SchedulerStep, SchedulerWakes, SchedulerCounts,
                    SchedulerSubmits, SchedulerFails, BatteryEvent, Trigger,
                    Deliver, LimitKept, dispatchVars, historyVars, vars
  <2> QED BY <1>1, <2>1
<1> QED BY <1>1, <1>2, <1>3, <1>4, <1>5, <1>6
        DEF Next, UnheardStep, RequestStep

\* Once the failure limit was reached the dispatcher stays suspended until a
\* supervisor resumes or a cycle completes.
THEOREM TheFailureLimitHolds == Spec => []FailureLimitHolds
<1> DEFINE Inv == TypeOK /\ BusEndsAsAsked /\ LimitAnnounced
<1>1. Init => Inv
      BY InitTypeOK, ConstantsAssumption
         DEF Init, BusEndsAsAsked, LimitAnnounced, Parts
<1>2. Inv /\ [Next]_vars => Inv'
      BY NextTypeOK, BusInv, LimitInv
<1>3. Inv => FailureLimitHolds
  <2> SUFFICES ASSUME Inv, Settled, bus = <<>>, failures = MaxFailures,
                      ~excused,
                      \A r \in Robots : pc[r] \notin GivingUp
               PROVE  suspended["dispatcher"]
      BY DEF FailureLimitHolds
  <2>1. asked = "suspended"
        BY DEF LimitAnnounced, GivingUp
  <2> QED BY <2>1 DEF BusEndsAsAsked, Parts
<1> QED BY <1>1, <1>2, <1>3, PTL DEF Spec

-----------------------------------------------------------------------------
(* The refinement: every step is a step of PatrolOrder or none at all *)

\* Cycles are numbered as they were submitted.
QueueInOrder ==
  \A c, d \in Cycles : status[c] = "none" /\ status[d] # "none" => d < c

\* A cycle that is being marked is still the head of the queue.
MarksTheFirst ==
  \A r \in Robots :
    pc[r] = "marking" =>
      /\ status[active[r]] # "none"
      /\ Scheduled(active[r]) =>
           \A d \in Cycles : Scheduled(d) => active[r] <= d

OrderInv ==
  /\ TypeOK
  /\ ScheduleSubmitted /\ NeverSuspended /\ SubmitsAlone
  /\ OneScheduledCycleOpen
  /\ OneMarks /\ MarkedBeyondQueue /\ OneRobotPerCycle
  /\ QueueInOrder /\ MarksTheFirst

LEMMA InitOrderInv == Init => OrderInv
<1> SUFFICES ASSUME Init PROVE OrderInv
    OBVIOUS
<1>1. ScheduleSubmitted /\ NeverSuspended /\ SubmitsAlone
      BY DEF Init, ScheduleSubmitted, NeverSuspended, SubmitsAlone
<1>2. OneScheduledCycleOpen /\ OneMarks /\ MarkedBeyondQueue
      /\ OneRobotPerCycle
      BY DEF Init, OneScheduledCycleOpen, OneMarks, MarkedBeyondQueue,
             OneRobotPerCycle
<1>3. QueueInOrder /\ MarksTheFirst
      BY DEF Init, QueueInOrder, MarksTheFirst
<1> QED BY <1>1, <1>2, <1>3, InitTypeOK DEF OrderInv

LEMMA QueueInOrderInv ==
  ASSUME TypeOK, NeverSuspended, QueueInOrder, [Next]_vars
  PROVE  QueueInOrder'
<1>1. CASE CycleSubmitted
  <2>1. PICK c \in Cycles : Submit(c)
        BY <1>1 DEF CycleSubmitted
  <2>2. /\ status'[c] = "scheduled"
        /\ \A d \in Cycles \ {c} : status'[d] = status[d]
        /\ \A d \in Cycles : status[d] = "none" => c <= d
        BY <2>1 DEF Submit, TypeOK
  <2>3. \A d \in Cycles : d \in Nat
        BY CyclesPositive
  <2> SUFFICES ASSUME NEW b \in Cycles, NEW d \in Cycles,
                      status'[b] = "none", status'[d] # "none"
               PROVE  d < b
      BY DEF QueueInOrder, Cycles
  <2>4. b # c /\ status[b] = "none"
        BY <2>2
  <2>5. CASE d = c
        BY <2>2, <2>3, <2>4, <2>5
  <2>6. CASE d # c
        BY <2>2, <2>4, <2>6 DEF QueueInOrder
  <2> QED BY <2>5, <2>6
<1>2. CASE \A c \in Cycles : (status'[c] = "none") = (status[c] = "none")
      BY <1>2 DEF QueueInOrder, Cycles
<1>3. CASE UNCHANGED <<status, bySchedule>>
      BY <1>2, <1>3
<1>4. CASE CycleMoved
  <2>1. PICK c \in Cycles, new \in {"active", "completed", "failed"} :
          CanMove(c, new) /\ status' = [status EXCEPT ![c] = new]
        BY <1>4 DEF CycleMoved
  <2>2. status[c] # "none" /\ status'[c] # "none"
        BY <2>1, MoveFacts DEF TypeOK
  <2> QED BY <1>2, <2>1, <2>2 DEF TypeOK
<1> QED BY <1>1, <1>3, <1>4, DatabaseSteps

\* While a robot marks, the queue only loses cycles or grows at its end.
LEMMA HeadStays ==
  ASSUME OrderInv, [Next]_vars, NEW r \in Robots, pc[r] = "marking"
  PROVE  /\ status'[active[r]] # "none"
         /\ status'[active[r]] = "scheduled" =>
              \A d \in Cycles : status'[d] = "scheduled" => active[r] <= d
<1> DEFINE c == active[r]
<1>1. c \in Cycles
      BY DEF OrderInv, TypeOK
<1>2. /\ status[c] # "none"
      /\ status[c] = "scheduled" =>
           \A d \in Cycles : status[d] = "scheduled" => c <= d
      BY DEF OrderInv, MarksTheFirst, Scheduled
<1> HIDE DEF c
<1>3. status'[c] # "none"
      BY <1>1, <1>2, StatusFacts DEF OrderInv
<1>4. ASSUME status'[c] = "scheduled",
             NEW d \in Cycles, status'[d] = "scheduled"
      PROVE  c <= d
  <2>1. /\ status[c] = "scheduled"
        /\ status[d] \in {"none", "scheduled"}
        BY <1>1, <1>2, <1>4, StatusFacts DEF OrderInv
  <2>2. CASE status[d] = "scheduled"
        BY <1>2, <2>1, <2>2
  <2>3. CASE status[d] = "none"
    <3>1. c < d
          BY <1>1, <1>2, <2>3 DEF OrderInv, QueueInOrder
    <3> QED BY <1>1, <3>1, CyclesPositive
  <2> QED BY <2>1, <2>2, <2>3
<1> QED BY <1>3, <1>4 DEF c

LEMMA MarksTheFirstInv ==
  ASSUME OrderInv, [Next]_vars
  PROVE  MarksTheFirst'
<1> SUFFICES ASSUME NEW r \in Robots, pc'[r] = "marking"
             PROVE  /\ status'[active'[r]] # "none"
                    /\ status'[active'[r]] = "scheduled" =>
                         \A d \in Cycles :
                           status'[d] = "scheduled" => active'[r] <= d
    BY DEF MarksTheFirst, Scheduled, Cycles
<1>1. CASE pc[r] = "marking" /\ active'[r] = active[r]
      BY <1>1, HeadStays
<1>2. CASE NextCycle(active'[r]) /\ UNCHANGED status
      BY <1>2 DEF NextCycle, Scheduled
<1>3. CASE \E q \in Robots : DispatchStep(q) \/ RecordCompletion(q)
  <2>1. PICK q \in Robots : CoroutineMoves(q)
        BY <1>3, CoroutineSteps DEF OrderInv
  <2> QED BY <1>1, <1>2, <2>1 DEF CoroutineMoves, GivingUp
<1>4. CASE Crash
      BY <1>4 DEF Crash
<1>5. CASE ~Crash
           /\ ~(\E q \in Robots : DispatchStep(q) \/ RecordCompletion(q))
  <2>1. /\ active' = active
        /\ pc'[r] = pc[r] \/ (pc[r] = "driving" /\ pc'[r] = "cancelled")
        BY <1>5, RoutesCancelled DEF OrderInv, Next, UnheardStep
  <2> QED BY <1>1, <2>1
<1> QED BY <1>3, <1>4, <1>5

LEMMA NextOrderInv == OrderInv /\ [Next]_vars => OrderInv'
<1> SUFFICES ASSUME OrderInv, [Next]_vars PROVE OrderInv'
    OBVIOUS
<1>1. TypeOK'
      BY NextTypeOK DEF OrderInv
<1>2. ScheduleSubmitted' /\ NeverSuspended' /\ SubmitsAlone'
      /\ OneScheduledCycleOpen'
      BY ScheduleInv DEF OrderInv
<1>3. OneMarks' /\ MarkedBeyondQueue' /\ OneRobotPerCycle'
      BY LockInv DEF OrderInv
<1>4. QueueInOrder' /\ MarksTheFirst'
      BY QueueInOrderInv, MarksTheFirstInv DEF OrderInv
<1> QED BY <1>1, <1>2, <1>3, <1>4 DEF OrderInv

\* What a robot carries changes only with its own coroutine.
LEMMA CarriesKept ==
  ASSUME TypeOK,
         \A r \in Robots :
           \/ pc'[r] = pc[r] /\ active'[r] = active[r]
           \/ pc[r] \notin UnderWay /\ pc'[r] \notin UnderWay
           \/ /\ pc[r] \in UnderWay /\ pc'[r] \in UnderWay
              /\ active'[r] = active[r]
  PROVE  Carries' = Carries
BY DEF Carries

LEMMA CarriesPutDown ==
  ASSUME TypeOK, NEW r \in Robots, pc'[r] \notin UnderWay,
         \A q \in Robots \ {r} : pc'[q] = pc[q] /\ active'[q] = active[q]
  PROVE  Carries' = [Carries EXCEPT ![r] = NoCycle]
BY DEF Carries

\* Somebody submits.
LEMMA SubmitOrder ==
  ASSUME OrderInv, Trigger \/ SchedulerSubmits
  PROVE  Order!Next
<1>1. PICK c \in Cycles :
        /\ Submit(c)
        /\ \/ bySchedule' = bySchedule
           \/ scheduler = "submitting" /\ bySchedule' = bySchedule \cup {c}
      BY DEF Trigger, SchedulerSubmits
<1>2. Carries' = Carries
      BY DEF Trigger, SchedulerSubmits, dispatchVars, Carries
<1>3. c \in Order!Cycles
      BY DEF Cycles, Order!Cycles
<1>4. Order!Submit(c)
      BY <1>1, <1>2 DEF Submit, Order!Submit, Order!Cycles, Cycles
<1>5. CASE bySchedule' = bySchedule
      BY <1>3, <1>4, <1>5 DEF Order!Next, Order!SupervisorSubmits
<1>6. CASE scheduler = "submitting" /\ bySchedule' = bySchedule \cup {c}
  <2>1. \A d \in bySchedule : status[d] \notin Order!Open
        BY <1>6 DEF OrderInv, SubmitsAlone, Order!Open
  <2>2. Order!ScheduleSubmits(c)
        BY <1>4, <1>6, <2>1 DEF Order!ScheduleSubmits
  <2> QED BY <1>3, <2>2 DEF Order!Next
<1> QED BY <1>1, <1>5, <1>6

\* The head of the queue is taken by a robot that carries nothing, and no
\* other robot carries that cycle.
LEMMA MarkActiveOrder ==
  ASSUME OrderInv, NEW r \in Robots, MarkActive(r)
  PROVE  Order!Next
<1> DEFINE c == active[r]
<1>1. /\ pc[r] = "marking" /\ CanMove(c, "active")
      /\ status' = [status EXCEPT ![c] = "active"]
      /\ pc' = [pc EXCEPT ![r] = "starting"]
      /\ UNCHANGED <<bySchedule, active>>
      BY DEF MarkActive
<1>2. c \in Cycles /\ c # NoCycle
      BY <1>1, CyclesPositive DEF OrderInv, TypeOK
<1>3. status[c] = "scheduled"
      BY <1>1, <1>2, MoveFacts DEF OrderInv, NeverSuspended
<1>4. \A d \in Cycles : status[d] = "scheduled" => c <= d
      BY <1>1, <1>3 DEF OrderInv, MarksTheFirst, Scheduled
<1>5. \A q \in Robots : Carries[q] # c
      BY <1>1, <1>2, <1>3
      DEF OrderInv, MarkedBeyondQueue, Carries, UnderWay, GivingUp
<1>6. Carries[r] = NoCycle
      BY <1>1 DEF Carries, UnderWay
<1>7. Carries' = [Carries EXCEPT ![r] = c]
      BY <1>1 DEF Carries, UnderWay, OrderInv, TypeOK
<1> HIDE DEF c
<1>8. Order!Take(r, c)
      BY <1>1, <1>3, <1>4, <1>5, <1>6, <1>7
      DEF Order!Take, Order!IsFirst, Order!Cycles, Cycles, Order!NoCycle,
          NoCycle
<1> QED BY <1>2, <1>8 DEF Order!Next, Order!Cycles, Cycles

LEMMA RecordCompletionOrder ==
  ASSUME OrderInv, NEW r \in Robots, RecordCompletion(r)
  PROVE  Order!Next
<1> DEFINE c == active[r]
<1>1. /\ pc[r] = "succeeded" /\ CanMove(c, "completed")
      /\ status' = [status EXCEPT ![c] = "completed"]
      /\ pc' = [pc EXCEPT ![r] = "docking"]
      /\ UNCHANGED <<bySchedule, active>>
      BY DEF RecordCompletion
<1>2. c \in Cycles
      BY <1>1 DEF OrderInv, TypeOK
<1>3. status[c] = "active"
      BY <1>1, <1>2, MoveFacts DEF OrderInv, NeverSuspended
<1>4. Carries[r] = c
      BY <1>1 DEF Carries, UnderWay
<1>5. pc'[r] \notin UnderWay
      BY <1>1 DEF UnderWay, OrderInv, TypeOK
<1>6. Carries' = [Carries EXCEPT ![r] = NoCycle]
      BY <1>1, <1>5, CarriesPutDown DEF OrderInv, TypeOK
<1> HIDE DEF c
<1>7. Order!Complete(r, c)
      BY <1>1, <1>3, <1>4, <1>6 DEF Order!Complete, Order!NoCycle, NoCycle
<1> QED BY <1>2, <1>7 DEF Order!Next, Order!Cycles, Cycles

\* Robots put their cycles down, or carry on: the database is left alone.
LEMMA PutDownOrder ==
  ASSUME NEW robots \in SUBSET Robots,
         UNCHANGED <<status, bySchedule>>,
         Carries' = [r \in Robots |-> IF r \in robots THEN NoCycle
                                                     ELSE Carries[r]]
  PROVE  Order!Next
<1>1. Order!PutDown(robots)
      BY DEF Order!PutDown, Order!NoCycle, NoCycle
<1> QED BY <1>1 DEF Order!Next

LEMMA GiveUpOrder ==
  ASSUME OrderInv, NEW r \in Robots,
         MarkFails(r) \/ RouteFails(r) \/ CompletionFails(r)
  PROVE  Order!Next
<1>1. GivesUp(r) /\ UNCHANGED <<status, bySchedule, active>>
      BY DEF MarkFails, RouteFails, CompletionFails, databaseVars
<1>2. /\ pc'[r] \notin UnderWay
      /\ \A q \in Robots \ {r} : pc'[q] = pc[q]
      BY <1>1, GivesUpFacts DEF OrderInv, TypeOK, UnderWay
<1>3. Carries' = [Carries EXCEPT ![r] = NoCycle]
      BY <1>1, <1>2, CarriesPutDown DEF OrderInv
<1>4. Carries' = [q \in Robots |-> IF q \in {r} THEN NoCycle ELSE Carries[q]]
      BY <1>3 DEF Carries
<1> QED BY <1>1, <1>4, PutDownOrder

\* Whoever else may be driving it, an active cycle may be recorded as failed.
LEMMA RecordFailureOrder ==
  ASSUME OrderInv, NEW r \in Robots, RecordFailure(r)
  PROVE  Order!Next \/ UNCHANGED <<status, bySchedule, Carries>>
<1> DEFINE c == active[r]
<1>1. /\ pc[r] \notin UnderWay /\ pc'[r] \notin UnderWay
      /\ \A q \in Robots \ {r} : pc'[q] = pc[q] /\ active'[q] = active[q]
      /\ bySchedule' = bySchedule
      BY DEF RecordFailure, Returns, UnderWay, OrderInv, TypeOK
<1>2. Carries' = Carries
      BY <1>1, CarriesKept DEF OrderInv
<1>3. c \in Cycles
      BY DEF RecordFailure, OrderInv, TypeOK
<1>4. CASE /\ CanMove(c, "failed")
           /\ status' = [status EXCEPT ![c] = "failed"]
  <2>1. status[c] = "active"
        BY <1>3, <1>4, MoveFacts DEF OrderInv, NeverSuspended
  <2> HIDE DEF c
  <2>2. Order!Fail(c)
        BY <1>1, <1>2, <1>4, <2>1 DEF Order!Fail
  <2> QED BY <1>3, <2>2 DEF Order!Next, Order!Cycles, Cycles
<1> QED BY <1>1, <1>2, <1>4 DEF RecordFailure

LEMMA CrashOrder ==
  ASSUME Crash PROVE Order!Next
<1>1. UNCHANGED <<status, bySchedule>> /\ \A r \in Robots : pc'[r] = "idle"
      BY DEF Crash, databaseVars
<1>2. Carries' = [r \in Robots |-> IF r \in Robots THEN NoCycle
                                                  ELSE Carries[r]]
      BY <1>1 DEF Carries, UnderWay
<1> QED BY <1>1, <1>2, PutDownOrder

\* The coroutine goes on, with its cycle or without.
LEMMA CoroutineOrder ==
  ASSUME OrderInv, NEW r \in Robots,
         \/ BeginDispatch(r) \/ TakeCycle(r) \/ StartRoute(r)
         \/ RouteSucceeds(r) \/ EndDocking(r) \/ SuspendAtLimit(r)
         \/ AnnounceLimit(r)
  PROVE  UNCHANGED <<status, bySchedule, Carries>>
<1>1. UNCHANGED <<status, bySchedule>>
      BY DEF BeginDispatch, TakeCycle, SkipDispatch, ChooseCycle, StartRoute,
             RouteSucceeds, EndDocking, SuspendAtLimit, AnnounceLimit,
             databaseVars
<1>2. \A q \in Robots \ {r} : pc'[q] = pc[q] /\ active'[q] = active[q]
      BY DEF BeginDispatch, TakeCycle, SkipDispatch, ChooseCycle, StartRoute,
             RouteSucceeds, EndDocking, SuspendAtLimit, AnnounceLimit, Returns,
             OrderInv, TypeOK
<1>3. CASE BeginDispatch(r) \/ TakeCycle(r) \/ EndDocking(r)
           \/ SuspendAtLimit(r) \/ AnnounceLimit(r)
  <2>1. pc[r] \notin UnderWay /\ pc'[r] \notin UnderWay
        BY <1>3 DEF BeginDispatch, TakeCycle, SkipDispatch, ChooseCycle,
                    EndDocking, SuspendAtLimit, AnnounceLimit, Returns,
                    UnderWay, OrderInv, TypeOK
  <2> QED BY <1>1, <1>2, <2>1, CarriesKept DEF OrderInv
<1>4. CASE StartRoute(r) \/ RouteSucceeds(r)
  <2>1. /\ pc[r] \in UnderWay /\ pc'[r] \in UnderWay
        /\ active'[r] = active[r]
        BY <1>4 DEF StartRoute, RouteSucceeds, UnderWay, OrderInv, TypeOK
  <2> QED BY <1>1, <1>2, <2>1, CarriesKept DEF OrderInv
<1> QED BY <1>3, <1>4

LEMMA SurroundingsOrder ==
  ASSUME OrderInv,
         \/ SchedulerWakes \/ SchedulerCounts \/ SchedulerFails
         \/ BatteryEvent \/ Deliver \/ UNCHANGED vars
         \/ \E r \in Robots : EstopDelivered(r)
         \/ \E q \in Requests : RequestSuspend(q) \/ RequestResume(q)
                                \/ RequestStep(q)
  PROVE  UNCHANGED <<status, bySchedule, Carries>>
<1>1. UNCHANGED <<status, bySchedule>>
      BY DEF SchedulerWakes, SchedulerCounts, SchedulerFails, BatteryEvent,
             Deliver, vars, EstopDelivered, RequestSuspend, RequestResume,
             RequestStep, Announce, Answer, databaseVars
<1>2. /\ active' = active
      /\ \A r \in Robots :
           pc'[r] = pc[r] \/ (pc[r] = "driving" /\ pc'[r] = "cancelled")
      BY RoutesCancelled DEF OrderInv, SchedulerStep
<1>3. Carries' = Carries
      BY <1>2, CarriesKept DEF OrderInv, UnderWay
<1> QED BY <1>1, <1>3

LEMMA OrderStep ==
  OrderInv /\ [Next]_vars =>
    Order!Next \/ UNCHANGED <<status, bySchedule, Carries>>
<1> SUFFICES ASSUME OrderInv, [Next]_vars
             PROVE  Order!Next \/ UNCHANGED <<status, bySchedule, Carries>>
    OBVIOUS
<1>1. CASE SchedulerStep \/ Trigger
      BY <1>1, SubmitOrder, SurroundingsOrder DEF SchedulerStep
<1>2. ASSUME NEW r \in Robots, DispatchStep(r)
      PROVE  Order!Next \/ UNCHANGED <<status, bySchedule, Carries>>
      BY <1>2, MarkActiveOrder, GiveUpOrder, RecordFailureOrder,
         CoroutineOrder DEF DispatchStep
<1>3. CASE \E r \in Robots : RecordCompletion(r)
      BY <1>3, RecordCompletionOrder
<1>4. CASE \/ BatteryEvent \/ Deliver \/ UNCHANGED vars
           \/ \E r \in Robots : EstopDelivered(r)
           \/ \E q \in Requests : RequestSuspend(q) \/ RequestResume(q)
                                  \/ RequestStep(q)
      BY <1>4, SurroundingsOrder
<1>5. CASE Crash
      BY <1>5, CrashOrder
<1> QED BY <1>1, <1>2, <1>3, <1>4, <1>5 DEF Next, UnheardStep

\* Cycle queue, scheduler, dispatcher and supervisors together keep the
\* promise of PatrolOrder: first come, first served, one robot a cycle, and
\* a result that stands.
THEOREM PatrolRefinement == Spec => ImplementsPatrolOrder
<1>1. Init => Order!Init
  <2> SUFFICES ASSUME Init PROVE Order!Init
      OBVIOUS
  <2>1. Carries = [r \in Robots |-> NoCycle]
        BY DEF Init, Carries, UnderWay
  <2> QED BY <2>1 DEF Init, Order!Init, Order!Cycles, Cycles, Order!NoCycle,
                      NoCycle
<1>2. OrderInv /\ [Next]_vars => [Order!Next]_(Order!orderVars)
      BY OrderStep DEF Order!orderVars
<1> QED BY <1>1, <1>2, InitOrderInv, NextOrderInv, PTL
        DEF Spec, ImplementsPatrolOrder, Order!Spec

=============================================================================
