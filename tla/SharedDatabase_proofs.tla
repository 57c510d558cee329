------------------------ MODULE SharedDatabase_proofs ------------------------
(***************************************************************************)
(* The safety properties of SharedDatabase for any tasks, routes and       *)
(* callers, and any number of crashes and failures.                        *)
(*                                                                         *)
(* For the tasks the invariant says that whoever works on one holds the    *)
(* queue's lock, that what it is about to write is a move of what the disk *)
(* has and of what the connection sees, that the connection is never       *)
(* behind the disk, and that the disk has what is about to be answered.    *)
(* For the routes it says that of an undisputed route one caller at most   *)
(* writes what the store and the file have.                                *)
(***************************************************************************)
EXTENDS SharedDatabase, TLAPS

TaskValues == TaskStatuses \cup {"absent"}

TaskTypes ==
  \A t \in Tasks : disk[t] \in TaskValues /\ view[t] \in TaskValues

\* Whoever works on a task holds the lock.
LockHeld == \A c \in Callers : op[c].row \in Tasks => lock = c

\* The connection has what the disk has, or what became of it.
ViewAhead == \A t \in Tasks : view[t] \in After[disk[t]]

\* What a caller is about to do to a task.
TaskStep(c, t) ==
  /\ op[c].to \in TaskStatuses
  /\ op[c].stage = "inserting" => op[c].to = "queued"
  /\ op[c].stage = "updating" =>
       op[c].to \in After[view[t]] /\ op[c].to \in After[disk[t]]
  /\ op[c].stage = "confirming" => disk[t] = view[t]

TasksInHand ==
  \A c \in Callers, t \in Tasks : op[c].row = t => TaskStep(c, t)

TaskInv ==
  TaskTypes /\ LockHeld /\ ViewAhead /\ TasksInHand /\ AnsweredIsDurable

IndInv == TypeOK /\ TaskInv

USE DEF TaskValues

-----------------------------------------------------------------------------

(* What a status becomes: by no move, by two, by one that the queue        *)
(* allows.                                                                 *)
LEMMA AfterItself == ASSUME NEW s \in TaskValues PROVE s \in After[s]
BY DEF After, TaskStatuses, RowValues

LEMMA AfterAgain ==
  ASSUME NEW s \in TaskValues, NEW u \in After[s], NEW v \in After[u]
  PROVE  v \in After[s]
<1>1. CASE s = "absent"
      BY <1>1 DEF After, TaskStatuses, RowValues
<1>2. CASE s = "queued"
      BY <1>2 DEF After, TaskStatuses, RowValues
<1>3. CASE s = "dispatched"
      BY <1>3 DEF After, TaskStatuses, RowValues
<1>4. CASE s = "awaiting_load"
      BY <1>4 DEF After, TaskStatuses, RowValues
<1>5. CASE s \in {"in_transit", "awaiting_unload"}
      BY <1>5 DEF After, TaskStatuses, RowValues
<1>6. CASE s \in {"completed", "failed", "cancelled"}
      BY <1>6 DEF After, TaskStatuses, RowValues
<1> QED BY <1>1, <1>2, <1>3, <1>4, <1>5, <1>6 DEF TaskStatuses

LEMMA AfterMove ==
  ASSUME NEW s \in TaskStatuses, NEW new, CanMove(s, new)
  PROVE  new \in After[s] /\ new \in TaskStatuses
BY DEF CanMove, AllowedTransitions, After, TaskStatuses, RowValues

LEMMA AfterAbsent ==
  /\ \A s \in TaskValues : s \in After["absent"]
  /\ \A s \in TaskValues : "absent" \in After[s] => s = "absent"
BY DEF After, TaskStatuses, RowValues

-----------------------------------------------------------------------------

LEMMA Distinct ==
  /\ Nobody \notin Callers /\ Nobody \notin Rows
  /\ \A t \in Tasks : t \notin Routes /\ t \in Rows
  /\ \A n \in Routes : n \in Rows
  /\ TaskStatuses \subseteq RowValues /\ Contents \subseteq RowValues
  /\ "absent" \in RowValues /\ Saved \subseteq RowValues
  /\ "queued" \in TaskStatuses
BY DatabaseAssumption
DEF Nobody, Rows, RowValues, Saved, TaskStatuses

LEMMA InitInv == ASSUME Init PROVE IndInv
<1>1. TypeOK
      BY Distinct DEF Init, TypeOK, Saved
<1>2. TaskTypes /\ LockHeld /\ TasksInHand
      BY Distinct DEF Init, TaskTypes, LockHeld, TasksInHand, Idle, Rows
<1>3. ViewAhead /\ AnsweredIsDurable
      BY AfterAbsent DEF Init, ViewAhead, AnsweredIsDurable, Rows
<1> QED BY <1>1, <1>2, <1>3 DEF IndInv, TaskInv

\* A call that goes on is one of a row.
LEMMA InProgress ==
  ASSUME TypeOK, NEW c \in Callers, op[c].stage # "idle"
  PROVE  op[c] \in Operations
BY DEF TypeOK, Idle

\* A caller that begins to work on a task finds nobody else at one.
LEMMA BeginTaskStep ==
  ASSUME IndInv, NEW c \in Callers, NEW t \in Tasks,
         NEW to \in TaskStatuses, NEW stage \in {"reading", "inserting"},
         stage = "inserting" => to = "queued",
         Free(c), LockFree, lock' = c, Begins(c, t, to, stage),
         UNCHANGED <<disk, view, store, file, unread, answered, disputed>>
  PROVE  IndInv'
<1> USE DEF IndInv, TaskInv
<1>1. [row |-> t, to |-> to, stage |-> stage, open |-> TRUE] \in Operations
      BY Distinct DEF Operations, Stages
<1>2. op' = [op EXCEPT ![c] = [row |-> t, to |-> to, stage |-> stage,
                               open |-> TRUE]]
      BY DEF Begins
<1>3. TypeOK'
      BY <1>1, <1>2 DEF TypeOK
<1>4. \A d \in Callers : op[d].row \notin Tasks
      BY Distinct DEF LockHeld, LockFree
<1>5. LockHeld' /\ TasksInHand'
      BY <1>2, <1>4 DEF LockHeld, TasksInHand, TaskStep, TypeOK
<1>6. TaskTypes' /\ ViewAhead' /\ AnsweredIsDurable'
      BY DEF TaskTypes, ViewAhead, AnsweredIsDurable
<1> QED BY <1>3, <1>5, <1>6

LEMMA ReadTaskStep ==
  ASSUME IndInv, NEW c \in Callers, ReadTask(c) PROVE IndInv'
<1> USE DEF IndInv, TaskInv
<1>1. op[c] \in Operations
      BY InProgress DEF ReadTask
<1>2. PICK t \in Tasks : op[c].row = t
      BY DEF ReadTask
<1>3. TypeOK'
      BY <1>1, Distinct
      DEF ReadTask, TypeOK, Operations, Stages, Released
<1>4. TaskTypes' /\ ViewAhead' /\ AnsweredIsDurable'
      BY DEF ReadTask, TaskTypes, ViewAhead, AnsweredIsDurable
<1>5. ASSUME CanMove(view[t], op[c].to),
             op' = [op EXCEPT ![c].stage = "updating"], UNCHANGED lock
      PROVE  LockHeld' /\ TasksInHand'
  <2>1. view[t] \in TaskStatuses
        BY <1>5 DEF CanMove, AllowedTransitions, TaskTypes
  <2>2. op[c].to \in After[view[t]]
        BY <1>5, <2>1, AfterMove
  <2>3. op[c].to \in After[disk[t]]
        BY <2>2, AfterAgain DEF TaskTypes, ViewAhead
  <2>4. LockHeld'
        BY <1>1, <1>5 DEF LockHeld, TypeOK, Operations
  <2>5. op'[c].row = t /\ op'[c].to = op[c].to /\ op'[c].stage = "updating"
        BY <1>1, <1>2, <1>5 DEF TypeOK, Operations
  <2>6. UNCHANGED <<disk, view>>
        BY DEF ReadTask
  <2>7. TaskStep(c, t)'
        BY <1>2, <2>2, <2>3, <2>5, <2>6 DEF TasksInHand, TaskStep
  <2>8. \A d \in Callers : d # c => op'[d] = op[d]
        BY <1>5 DEF TypeOK
  <2>9. \A u \in Tasks : op'[c].row = u => u = t
        BY <2>5
  <2>10. TasksInHand'
        BY <2>6, <2>7, <2>8, <2>9 DEF TasksInHand, TaskStep
  <2> QED BY <2>4, <2>10
<1>6. ASSUME op' = [op EXCEPT ![c] = Idle], lock' = Released(c)
      PROVE  LockHeld' /\ TasksInHand'
  <2>1. \A d \in Callers : IF d = c THEN op'[d] = Idle ELSE op'[d] = op[d]
        BY <1>6 DEF TypeOK
  <2>2. Idle.row \notin Tasks
        BY Distinct DEF Idle, Rows
  <2>3. UNCHANGED <<disk, view>>
        BY DEF ReadTask
  <2> QED BY <1>6, <2>1, <2>2, <2>3
          DEF LockHeld, TasksInHand, TaskStep, Released
<1>7. LockHeld' /\ TasksInHand'
      BY <1>2, <1>5, <1>6 DEF ReadTask
<1> QED BY <1>3, <1>4, <1>7

\* A step that is none of the tasks' business.
LEMMA TasksUntouched ==
  ASSUME IndInv, UNCHANGED <<disk, lock, answered>>,
         \A t \in Tasks : view'[t] = view[t],
         \A c \in Callers : op'[c] = op[c] \/ op'[c].row \notin Tasks
  PROVE  TaskInv'
<1> USE DEF IndInv, TaskInv
<1>1. TaskTypes' /\ ViewAhead' /\ AnsweredIsDurable'
      BY DEF TaskTypes, ViewAhead, AnsweredIsDurable
<1>2. LockHeld' /\ TasksInHand'
      BY DEF LockHeld, TasksInHand, TaskStep
<1> QED BY <1>1, <1>2

\* What a step of a caller on a route leaves of the others.
LEMMA RouteStoreStep ==
  ASSUME IndInv, NEW n \in Routes,
         \/ \E c \in Callers, v \in Contents :
              UpsertRoute(c, n, v) \/ UpsertRouteUnsaved(c, n, v)
         \/ \E v \in Contents : AppendWaypoint(n, v)
                                \/ SetRoutePlaceholder(n, v)
         \/ \E c \in Callers : PersistLoadedRoute(c, n)
  PROVE  IndInv'
<1> USE DEF IndInv
<1>1. CASE \E v \in Contents : \/ AppendWaypoint(n, v)
                               \/ SetRoutePlaceholder(n, v)
                               \/ \E c \in Callers :
                                    UpsertRouteUnsaved(c, n, v)
  <2>1. UNCHANGED <<disk, view, op, lock, unread, answered>>
        BY <1>1 DEF AppendWaypoint, SetRoutePlaceholder, ReplacesFile,
                    UpsertRouteUnsaved
  <2>2. TypeOK'
        BY <1>1, <2>1
        DEF AppendWaypoint, SetRoutePlaceholder, ReplacesFile,
            UpsertRouteUnsaved, TypeOK, Saved
  <2> QED BY <2>1, <2>2, TasksUntouched
<1>2. ASSUME NEW c \in Callers, NEW v \in Saved, BeginsRoute(c, n, v),
             UNCHANGED <<disk, view, lock, answered>>,
             store' \in [Routes -> Saved], file' \in [Routes -> Saved],
             unread' \subseteq Routes
      PROVE  IndInv'
  <2> DEFINE rec == [row |-> n, to |-> v, stage |-> "reading", open |-> TRUE]
  <2>1. op' = [op EXCEPT ![c] = rec]
        BY <1>2 DEF BeginsRoute, Begins
  <2>2. rec \in Operations
        BY Distinct DEF Operations, Stages
  <2>3. TypeOK'
        BY <1>2, <2>1, <2>2 DEF TypeOK, BeginsRoute, Overlapped
  <2>4. \A d \in Callers : op'[d] = op[d] \/ op'[d].row \notin Tasks
        BY <2>1, Distinct DEF TypeOK
  <2> QED BY <1>2, <2>3, <2>4, TasksUntouched
<1>3. CASE \E c \in Callers, v \in Contents : UpsertRoute(c, n, v)
      BY <1>2, <1>3 DEF UpsertRoute, SaveRoutes, TypeOK, Saved
<1>4. CASE \E c \in Callers : PersistLoadedRoute(c, n)
      BY <1>2, <1>4 DEF PersistLoadedRoute, TypeOK
<1> QED BY <1>1, <1>3, <1>4

LEMMA ReadRouteStep ==
  ASSUME IndInv, NEW c \in Callers, ReadRoute(c) PROVE IndInv'
<1> USE DEF IndInv
<1>1. op[c] \in Operations /\ op[c].row \in Routes
      BY InProgress DEF ReadRoute
<1>2. PICK stage \in Stages : op' = [op EXCEPT ![c].stage = stage]
      BY DEF ReadRoute, StageAfterRead, Stages
<1>3. op'[c].row = op[c].row /\ \A d \in Callers : d # c => op'[d] = op[d]
      BY <1>1, <1>2 DEF TypeOK, Operations
<1>4. TypeOK'
      BY <1>1, <1>2 DEF ReadRoute, TypeOK, Operations
<1> QED BY <1>1, <1>3, <1>4, TasksUntouched, Distinct DEF ReadRoute

\* A statement on a row changes that row alone.
LEMMA Statement ==
  ASSUME TypeOK, NEW c \in Callers, Insert(c) \/ Update(c)
  PROVE  /\ op[c] \in Operations
         /\ view' \in [Rows -> RowValues]
         /\ \A x \in Rows : x # op[c].row => view'[x] = view[x]
         /\ view'[op[c].row] \in {view[op[c].row], op[c].to}
<1>1. op[c] \in Operations
      BY InProgress DEF Insert, Update
<1> QED BY <1>1 DEF Insert, Update, TypeOK, Operations

LEMMA WriteRouteStep ==
  ASSUME IndInv, NEW c \in Callers, WriteRoute(c) PROVE IndInv'
<1> USE DEF IndInv
<1>1. op[c] \in Operations /\ op[c].row \in Routes
      BY Statement DEF WriteRoute
<1>2. op'[c].row = op[c].row /\ \A d \in Callers : d # c => op'[d] = op[d]
      BY <1>1 DEF WriteRoute, Executed, TypeOK, Operations
<1>3. \A t \in Tasks : view'[t] = view[t]
      BY <1>1, Statement, Distinct DEF WriteRoute
<1>4. TypeOK'
      BY <1>1, Statement
      DEF WriteRoute, Executed, TypeOK, Operations, Stages
<1> QED BY <1>1, <1>2, <1>3, <1>4, TasksUntouched, Distinct
        DEF WriteRoute, Executed

LEMMA WriteTaskStep ==
  ASSUME IndInv, NEW c \in Callers, CreateTask(c) \/ UpdateTaskStatus(c)
  PROVE  IndInv'
<1> USE DEF IndInv, TaskInv
<1>1. op[c] \in Operations /\ op[c].row \in Tasks
      BY Statement DEF CreateTask, UpdateTaskStatus
<1>2. PICK t \in Tasks : op[c].row = t
      BY <1>1
<1>3. op' = [op EXCEPT ![c].stage = "committing"]
      BY DEF CreateTask, UpdateTaskStatus, Executed
<1>4. /\ op'[c].row = t /\ op'[c].stage = "committing"
      /\ op'[c].to = op[c].to
      /\ \A d \in Callers : d # c => op'[d] = op[d]
      BY <1>1, <1>2, <1>3 DEF TypeOK, Operations
<1>5. TypeOK'
      BY <1>1, <1>3, Statement
      DEF CreateTask, UpdateTaskStatus, Executed, TypeOK, Operations, Stages
<1>6. /\ UNCHANGED <<disk, lock, answered>>
      /\ \A u \in Tasks : u # t => view'[u] = view[u]
      BY <1>2, Statement, Distinct
      DEF CreateTask, UpdateTaskStatus, Executed
<1>7. view'[t] \in {view[t], op[c].to} /\ op[c].to \in TaskStatuses
      BY <1>2, Statement
      DEF CreateTask, UpdateTaskStatus, TasksInHand, TaskStep
<1>8. view'[t] \in After[disk[t]]
  <2>1. CASE CreateTask(c)
    <3>1. view[t] = "absent"
          BY <1>2, <2>1 DEF CreateTask, Insert
    <3>2. disk[t] = "absent"
          BY <3>1, AfterAbsent DEF ViewAhead, TaskTypes
    <3> QED BY <1>7, <3>1, <3>2, AfterAbsent
  <2>2. CASE UpdateTaskStatus(c)
        BY <1>2, <1>7, <2>2
        DEF UpdateTaskStatus, Update, TasksInHand, TaskStep, ViewAhead
  <2> QED BY <2>1, <2>2
<1>9. TaskTypes' /\ ViewAhead' /\ AnsweredIsDurable'
      BY <1>6, <1>7, <1>8 DEF TaskTypes, ViewAhead, AnsweredIsDurable
<1>10. LockHeld'
      BY <1>1, <1>4, <1>6 DEF LockHeld
<1>11. \A d \in Callers : d # c => op[d].row \notin Tasks
      BY <1>1 DEF LockHeld
<1>12. TasksInHand'
      BY <1>2, <1>4, <1>7, <1>11 DEF TasksInHand, TaskStep
<1> QED BY <1>5, <1>9, <1>10, <1>12

\* A commit, whoever makes it, publishes what all callers wrote.
LEMMA CommitStep ==
  ASSUME IndInv, disk' = view, UNCHANGED <<view, lock, answered>>,
         \A c \in Callers :
           \/ op'[c] = op[c]
           \/ /\ op'[c].row = op[c].row /\ op'[c].to = op[c].to
              /\ op'[c].stage = "confirming"
  PROVE  TaskInv'
<1> USE DEF IndInv, TaskInv
<1>1. TaskTypes' /\ LockHeld'
      BY DEF TaskTypes, LockHeld
<1>2. ViewAhead'
      BY AfterItself DEF ViewAhead, TaskTypes
<1>3. ASSUME NEW t \in Tasks PROVE disk'[t] \in After[answered'[t]]
  <2>1. answered[t] \in TaskValues
        BY DEF TypeOK
  <2> QED BY <2>1, AfterAgain DEF AnsweredIsDurable, ViewAhead
<1>4. TasksInHand'
      BY DEF TasksInHand, TaskStep
<1> QED BY <1>1, <1>2, <1>3, <1>4 DEF AnsweredIsDurable

LEMMA CallerCommits ==
  ASSUME IndInv, NEW c \in Callers, Commit(c) PROVE IndInv'
<1> USE DEF IndInv
<1>1. op[c] \in Operations
      BY InProgress DEF Commit
<1>2. op' = [op EXCEPT ![c].stage = "confirming"]
      BY DEF Commit
<1>3. /\ op'[c].row = op[c].row /\ op'[c].to = op[c].to
      /\ op'[c].stage = "confirming"
      /\ \A d \in Callers : d # c => op'[d] = op[d]
      BY <1>1, <1>2 DEF TypeOK, Operations
<1>4. TypeOK'
      BY <1>1, <1>2 DEF Commit, Committed, TypeOK, Operations, Stages
<1> QED BY <1>3, <1>4, CommitStep DEF Commit, Committed

LEMMA OthersCommit ==
  ASSUME IndInv, LogTelemetry \/ LogEvent \/ Initialize PROVE IndInv'
<1> USE DEF IndInv
<1>1. CommitsForAll
      BY DEF LogTelemetry, LogEvent, Initialize
<1>2. TypeOK'
      BY <1>1 DEF CommitsForAll, TypeOK
<1> QED BY <1>1, <1>2, CommitStep DEF CommitsForAll

\* A caller that is done, or gives up, lets go of the lock.
LEMMA DoneStep ==
  ASSUME IndInv, NEW c \in Callers, op' = [op EXCEPT ![c] = Idle],
         lock' = Released(c), UNCHANGED <<disk, view>>,
         AnsweredIsDurable'
  PROVE  TaskInv'
<1> USE DEF IndInv, TaskInv
<1>1. \A d \in Callers : IF d = c THEN op'[d] = Idle ELSE op'[d] = op[d]
      BY DEF TypeOK
<1>2. Idle.row \notin Tasks
      BY Distinct DEF Idle, Rows
<1>3. TaskTypes' /\ ViewAhead'
      BY DEF TaskTypes, ViewAhead
<1>4. LockHeld' /\ TasksInHand'
      BY <1>1, <1>2 DEF LockHeld, TasksInHand, TaskStep, Released
<1> QED BY <1>3, <1>4

LEMMA FailStep ==
  ASSUME IndInv, NEW c \in Callers, Fail(c) PROVE IndInv'
<1> USE DEF IndInv
<1>1. lock' = Released(c)
      BY DEF Fail
<1>2. TypeOK'
      BY <1>1 DEF Fail, TypeOK, Released
<1>3. AnsweredIsDurable'
      BY DEF Fail, TaskInv, AnsweredIsDurable
<1> QED BY <1>1, <1>2, <1>3, DoneStep DEF Fail

LEMMA ConfirmStep ==
  ASSUME IndInv, NEW c \in Callers, Confirm(c) PROVE IndInv'
<1> USE DEF IndInv, TaskInv
<1>1. TypeOK'
      BY DEF Confirm, TypeOK, Released, TaskTypes
<1>2. ASSUME NEW t \in Tasks PROVE disk'[t] \in After[answered'[t]]
  <2>1. CASE op[c].row = t
    <3>1. disk[t] = view[t] /\ answered'[t] = view[t] /\ disk' = disk
          BY <2>1 DEF Confirm, TasksInHand, TaskStep
    <3> QED BY <3>1, AfterItself DEF TaskTypes
  <2>2. CASE op[c].row # t
        BY <2>2 DEF Confirm, AnsweredIsDurable
  <2> QED BY <2>1, <2>2
<1>3. AnsweredIsDurable'
      BY <1>2 DEF AnsweredIsDurable
<1> QED BY <1>1, <1>3, DoneStep DEF Confirm

LEMMA CloseStep ==
  ASSUME IndInv, Close PROVE IndInv'
<1> USE DEF IndInv, TaskInv
<1>1. op' = [c \in Callers |-> IF op[c].stage = "committing"
                               THEN [op[c] EXCEPT !.open = FALSE] ELSE op[c]]
      BY DEF Close
<1>2. ASSUME NEW c \in Callers
      PROVE  /\ op'[c] \in Operations \cup {Idle}
             /\ op'[c].row = op[c].row /\ op'[c].to = op[c].to
             /\ op'[c].stage = op[c].stage
  <2>1. CASE op[c].stage = "committing"
    <3>1. op[c] \in Operations
          BY <2>1, InProgress
    <3> QED BY <1>1, <2>1, <3>1 DEF Operations
  <2>2. CASE op[c].stage # "committing"
        BY <1>1, <2>2 DEF TypeOK
  <2> QED BY <2>1, <2>2
<1>3. op' \in [Callers -> Operations \cup {Idle}]
      BY <1>1, <1>2
<1>4. TypeOK'
      BY <1>3 DEF Close, TypeOK
<1>5. view' = disk /\ UNCHANGED <<disk, lock, answered>>
      BY DEF Close
<1>6. TaskTypes' /\ LockHeld' /\ AnsweredIsDurable'
      BY <1>2, <1>5 DEF TaskTypes, LockHeld, AnsweredIsDurable
<1>7. ViewAhead'
      BY <1>5, AfterItself DEF TaskTypes, ViewAhead
<1>8. TasksInHand'
      BY <1>2, <1>5 DEF TasksInHand, TaskStep
<1> QED BY <1>4, <1>6, <1>7, <1>8

LEMMA CrashStep ==
  ASSUME IndInv, Crash PROVE IndInv'
<1> USE DEF IndInv, TaskInv
<1>1. TypeOK'
      BY DEF Crash, TypeOK, LoadedRoutes
<1>2. \A c \in Callers : op'[c] = Idle /\ Idle.row \notin Tasks
      BY Distinct DEF Crash, Idle, Rows
<1>3. LockHeld' /\ TasksInHand'
      BY <1>2 DEF LockHeld, TasksInHand
<1>4. TaskTypes' /\ AnsweredIsDurable'
      BY DEF Crash, TaskTypes, AnsweredIsDurable
<1>5. ViewAhead'
      BY AfterItself DEF Crash, TaskTypes, ViewAhead
<1> QED BY <1>1, <1>3, <1>4, <1>5

LEMMA StepInv == IndInv /\ [Next]_vars => IndInv'
<1> SUFFICES ASSUME IndInv, [Next]_vars PROVE IndInv'
    OBVIOUS
<1>1. ASSUME NEW c \in Callers, NEW t \in Tasks, SubmitTask(c, t)
      PROVE  IndInv'
      BY <1>1, BeginTaskStep, Distinct DEF SubmitTask
<1>2. ASSUME NEW c \in Callers, NEW t \in Tasks,
             NEW new \in TaskStatuses \ {"queued"}, TransitionTask(c, t, new)
      PROVE  IndInv'
      BY <1>2, BeginTaskStep DEF TransitionTask
<1>3. ASSUME NEW n \in Routes,
             \/ \E c \in Callers, v \in Contents :
                  UpsertRoute(c, n, v) \/ UpsertRouteUnsaved(c, n, v)
             \/ \E v \in Contents : AppendWaypoint(n, v)
                                    \/ SetRoutePlaceholder(n, v)
             \/ \E c \in Callers : PersistLoadedRoute(c, n)
      PROVE  IndInv'
      BY <1>3, RouteStoreStep
<1>4. ASSUME NEW c \in Callers, Caller(c) PROVE IndInv'
      BY <1>4, ReadTaskStep, ReadRouteStep, WriteTaskStep, WriteRouteStep,
         CallerCommits, ConfirmStep, FailStep DEF Caller
<1>5. CASE LogTelemetry \/ LogEvent \/ Initialize \/ Close \/ Crash
      BY <1>5, OthersCommit, CloseStep, CrashStep
<1>6. CASE UNCHANGED vars
  <2>1. TypeOK'
        BY <1>6 DEF vars, IndInv, TypeOK
  <2> QED BY <1>6, <2>1, TasksUntouched DEF vars, IndInv
<1> QED BY <1>1, <1>2, <1>3, <1>4, <1>5, <1>6 DEF Next

LEMMA Invariant == Spec => []IndInv
BY InitInv, StepInv, PTL DEF Spec

\* Every variable keeps its type.
THEOREM DatabaseTypeCorrect == Spec => []TypeOK
<1>1. IndInv => TypeOK
      BY DEF IndInv
<1> QED BY <1>1, Invariant, PTL

\* What was answered is on the disk, or what became of it (database.py:278).
THEOREM AnswersAreDurable == Spec => []AnsweredIsDurable
<1>1. IndInv => AnsweredIsDurable
      BY DEF IndInv, TaskInv
<1> QED BY <1>1, Invariant, PTL

-----------------------------------------------------------------------------
(* Tasks go forward.                                                       *)

Forward(t) ==
  /\ disk'[t] \in After[disk[t]]
  /\ view'[t] \in After[view[t]] \cup {disk[t]}

LEMMA WritesGoForward ==
  ASSUME IndInv, NEW c \in Callers, CreateTask(c) \/ UpdateTaskStatus(c),
         NEW t \in Tasks
  PROVE  Forward(t)
<1> USE DEF IndInv, TaskInv, Forward
<1>1. disk' = disk /\ disk[t] \in After[disk[t]]
      BY AfterItself DEF CreateTask, UpdateTaskStatus, Executed, TaskTypes
<1>2. CASE op[c].row # t
      BY <1>1, <1>2, AfterItself, Statement, Distinct
      DEF CreateTask, UpdateTaskStatus, TaskTypes
<1>3. CASE op[c].row = t /\ CreateTask(c)
  <2>1. view[t] = "absent" /\ op[c].to \in TaskValues
        BY <1>3 DEF CreateTask, Insert, TasksInHand, TaskStep
  <2>2. view'[t] \in {view[t], op[c].to}
        BY <1>3, Statement DEF CreateTask
  <2> QED BY <1>1, <2>1, <2>2, AfterAbsent
<1>4. CASE op[c].row = t /\ UpdateTaskStatus(c)
  <2>1. view'[t] \in {view[t], op[c].to}
        BY <1>4, Statement DEF UpdateTaskStatus
  <2>2. op[c].to \in After[view[t]]
        BY <1>4 DEF UpdateTaskStatus, Update, TasksInHand, TaskStep
  <2> QED BY <1>1, <2>1, <2>2, AfterItself DEF TaskTypes
<1> QED BY <1>2, <1>3, <1>4

LEMMA OthersGoForward ==
  ASSUME IndInv, NEW t \in Tasks,
         disk'[t] \in {disk[t], view[t]}, view'[t] \in {view[t], disk[t]}
  PROVE  Forward(t)
BY AfterItself DEF IndInv, TaskInv, TaskTypes, ViewAhead, Forward

\* Statuses go forward on the disk and for the connection, crashes and
\* overlapping callers notwithstanding (queue.py:315).
THEOREM TasksNeverGoBack == Spec => TasksGoForward
<1>1. ASSUME IndInv, [Next]_vars, NEW t \in Tasks PROVE Forward(t)
  <2>1. CASE \E c \in Callers : CreateTask(c) \/ UpdateTaskStatus(c)
        BY <1>1, <2>1, WritesGoForward
  <2>2. ASSUME NEW c \in Callers, WriteRoute(c) PROVE Forward(t)
    <3>1. disk'[t] = disk[t] /\ view'[t] = view[t]
          BY <1>1, <2>2, Statement, Distinct
          DEF WriteRoute, Executed, IndInv
    <3> QED BY <1>1, <3>1, OthersGoForward
  <2>3. CASE \E c \in Callers : \/ ReadTask(c) \/ ReadRoute(c) \/ Commit(c)
                                \/ Confirm(c) \/ Fail(c)
    <3>1. disk' \in {disk, view} /\ view' = view
          BY <2>3 DEF ReadTask, ReadRoute, Commit, Committed, Confirm, Fail
    <3> QED BY <1>1, <3>1, OthersGoForward
  <2>4. CASE \/ LogTelemetry \/ LogEvent \/ Initialize \/ Close \/ Crash
             \/ UNCHANGED vars
    <3>1. disk' \in {disk, view} /\ view' \in {disk, view}
          BY <2>4 DEF LogTelemetry, LogEvent, Initialize, CommitsForAll,
                      Close, Crash, vars
    <3> QED BY <1>1, <3>1, OthersGoForward
  <2>5. CASE \/ \E c \in Callers, u \in Tasks :
                  \/ SubmitTask(c, u)
                  \/ \E new \in TaskStatuses : TransitionTask(c, u, new)
             \/ \E n \in Routes, v \in Contents :
                  \/ AppendWaypoint(n, v) \/ SetRoutePlaceholder(n, v)
                  \/ \E c \in Callers : \/ UpsertRoute(c, n, v)
                                        \/ UpsertRouteUnsaved(c, n, v)
             \/ \E n \in Routes, c \in Callers : PersistLoadedRoute(c, n)
    <3>1. UNCHANGED <<disk, view>>
          BY <2>5 DEF SubmitTask, TransitionTask, AppendWaypoint, UpsertRoute,
                      SetRoutePlaceholder, UpsertRouteUnsaved,
                      PersistLoadedRoute
    <3> QED BY <1>1, <3>1, OthersGoForward
  <2> QED BY <1>1, <2>1, <2>2, <2>3, <2>4, <2>5 DEF Next, Caller
<1>2. IndInv /\ [Next]_vars =>
        [\A t \in Tasks :
           /\ disk'[t] \in After[disk[t]]
           /\ view'[t] \in After[view[t]] \cup {disk[t]}]_vars
      BY <1>1 DEF Forward
<1> QED BY <1>2, Invariant, PTL DEF Spec, TasksGoForward

-----------------------------------------------------------------------------
(* Routes agree.                                                           *)

WorksOn(c, n) == op[c].row = n

\* A route that the database has, or will have, is in the file and so in the
\* store; one that is loaded and not yet written is nobody's work.
RouteKnown(n) ==
  /\ \/ view[n] # "absent" \/ disk[n] # "absent"
     \/ \E c \in Callers : WorksOn(c, n)
     => file[n] # "absent"
  /\ file[n] # "absent" => store[n] # "absent"
  /\ n \in unread =>
       /\ file[n] # "absent" /\ store[n] = file[n]
       /\ \A c \in Callers : ~WorksOn(c, n)

\* Who works on an undisputed route is alone, and writes what the store has.
RouteStep(c, n) ==
  /\ \A d \in Callers : WorksOn(d, n) => d = c
  /\ op[c].to = store[n]
  /\ op[c].stage = "committing" /\ op[c].open =>
       view[n] \in {op[c].to, "absent"}
  /\ op[c].stage = "confirming" =>
       disk[n] = view[n] /\ view[n] \in {op[c].to, "absent"}

Undisputed(n) == n \notin unread /\ ~disputed[n]

RouteSettled(n) ==
  Undisputed(n) =>
    /\ file[n] = store[n]
    /\ \A c \in Callers : WorksOn(c, n) => RouteStep(c, n)
    /\ (\A c \in Callers : ~WorksOn(c, n)) =>
         disk[n] = store[n] /\ view[n] = store[n]

RouteInv == \A n \in Routes : RouteKnown(n) /\ RouteSettled(n)

USE DEF WorksOn

RouteOK(n) == RouteKnown(n) /\ RouteSettled(n)

LEMMA InitRoutes == ASSUME Init PROVE RouteInv
<1>1. \A n \in Routes : n \in Rows /\ Idle.row # n
      BY Distinct DEF Idle
<1> QED BY <1>1 DEF Init, RouteInv, RouteKnown, RouteSettled, Undisputed

\* A step that leaves a route alone, but for the callers that go on with it.
LEMMA RouteFrame ==
  ASSUME NEW n \in Routes, RouteOK(n),
         view'[n] = view[n], disk'[n] = disk[n], store'[n] = store[n],
         file'[n] = file[n], n \in unread' <=> n \in unread,
         disputed'[n] = disputed[n],
         \A c \in Callers :
           IF WorksOn(c, n)
           THEN \/ op'[c] = op[c]
                \/ /\ op'[c].row = n /\ op'[c].to = op[c].to
                   /\ op'[c].stage \notin {"committing", "confirming"}
           ELSE op'[c].row # n
  PROVE  RouteOK(n)'
<1> USE DEF RouteOK
<1>1. \A c \in Callers : WorksOn(c, n)' <=> WorksOn(c, n)
      OBVIOUS
<1>2. RouteKnown(n)'
      BY <1>1 DEF RouteKnown
<1>3. RouteSettled(n)'
      BY <1>1 DEF RouteSettled, Undisputed, RouteStep
<1> QED BY <1>2, <1>3

\* The queue's callers leave the routes alone.
LEMMA TaskStepsKeepRoutes ==
  ASSUME IndInv, NEW n \in Routes, RouteOK(n), NEW c \in Callers,
         \/ \E t \in Tasks : \/ SubmitTask(c, t)
                             \/ \E new \in TaskStatuses :
                                  TransitionTask(c, t, new)
         \/ ReadTask(c) \/ CreateTask(c) \/ UpdateTaskStatus(c)
  PROVE  RouteOK(n)'
<1> USE DEF IndInv
<1>1. Idle.row # n /\ n \notin Tasks /\ n \in Rows
      BY Distinct DEF Idle
<1>2. op[c].row # n
      BY <1>1 DEF SubmitTask, TransitionTask, Free, ReadTask, CreateTask,
                  UpdateTaskStatus
<1>3. /\ UNCHANGED <<disk, store, file, unread, disputed>>
      /\ view'[n] = view[n]
  <2>1. CASE CreateTask(c) \/ UpdateTaskStatus(c)
        BY <1>1, <1>2, <2>1, Statement
        DEF CreateTask, UpdateTaskStatus, Executed
  <2>2. CASE ~(CreateTask(c) \/ UpdateTaskStatus(c))
        BY <2>2 DEF SubmitTask, TransitionTask, ReadTask
  <2> QED BY <2>1, <2>2
<1>4. \A d \in Callers : d # c => op'[d] = op[d]
      BY DEF SubmitTask, TransitionTask, Begins, ReadTask, CreateTask,
             UpdateTaskStatus, Executed, TypeOK
<1>5. op'[c].row # n
  <2>1. CASE \E t \in Tasks : \/ SubmitTask(c, t)
                              \/ \E new \in TaskStatuses :
                                   TransitionTask(c, t, new)
        BY <1>1, <2>1 DEF SubmitTask, TransitionTask, Begins, TypeOK
  <2>2. CASE ReadTask(c)
    <3>1. op[c] \in Operations
          BY <2>2, InProgress DEF ReadTask
    <3> QED BY <1>1, <1>2, <2>2, <3>1 DEF ReadTask, TypeOK, Operations
  <2>3. CASE CreateTask(c) \/ UpdateTaskStatus(c)
    <3>1. op[c] \in Operations
          BY <2>3, Statement DEF CreateTask, UpdateTaskStatus
    <3> QED BY <1>2, <2>3, <3>1
            DEF CreateTask, UpdateTaskStatus, Executed, TypeOK, Operations
  <2> QED BY <2>1, <2>2, <2>3
<1> QED BY <1>2, <1>3, <1>4, <1>5, RouteFrame

\* A route is saved, or loaded: who begins is alone, or the route disputed.
LEMMA BeginRouteStep ==
  ASSUME IndInv, RouteInv, NEW n \in Routes, NEW m \in Routes,
         NEW c \in Callers, NEW v \in Saved,
         \/ UpsertRoute(c, m, v) /\ v \in Contents
         \/ PersistLoadedRoute(c, m) /\ v = store[m]
  PROVE  RouteOK(n)'
<1> USE DEF IndInv, RouteOK
<1>1. RouteOK(n) /\ RouteOK(m)
      BY DEF RouteInv
<1>2. BeginsRoute(c, m, v) /\ Free(c)
      BY DEF UpsertRoute, PersistLoadedRoute
<1> DEFINE rec == [row |-> m, to |-> v, stage |-> "reading", open |-> TRUE]
<1>3. \A d \in Callers : IF d = c THEN op'[d] = rec ELSE op'[d] = op[d]
      BY <1>2 DEF BeginsRoute, Begins, TypeOK
<1>4. op[c].row # n /\ op[c].row # m
      BY <1>2, Distinct DEF Free, Idle
<1>5. UNCHANGED <<view, disk>>
      BY DEF UpsertRoute, PersistLoadedRoute
<1>6. disputed'[n] = IF n = m THEN Overlapped(m) ELSE disputed[n]
      BY <1>2 DEF BeginsRoute, TypeOK
<1>7. /\ file'[n] # "absent" => store'[n] # "absent"
      /\ Undisputed(n)' => file'[n] = store'[n]
      /\ n # m => store'[n] = store[n]
      /\ n = m => store'[n] = v
      /\ file[n] # "absent" \/ n = m => file'[n] # "absent"
  <2>1. CASE UpsertRoute(c, m, v) /\ v \in Contents
        BY <1>1, <2>1, DatabaseAssumption
        DEF UpsertRoute, SaveRoutes, TypeOK, RouteKnown
  <2>2. CASE PersistLoadedRoute(c, m) /\ v = store[m]
        BY <1>1, <1>6, <2>2
        DEF PersistLoadedRoute, RouteKnown, RouteSettled, Undisputed
  <2> QED BY <2>1, <2>2
<1>8. n \in unread' => n \in unread /\ n # m /\ UNCHANGED <<file, store>>
      BY DEF UpsertRoute, PersistLoadedRoute
<1>9. RouteKnown(n)'
      BY <1>1, <1>3, <1>5, <1>7, <1>8 DEF RouteKnown
<1>10. CASE n = m
  <2>1. Undisputed(n)' => \A d \in Callers : op[d].row # n
        BY <1>6, <1>10 DEF Undisputed, Overlapped
  <2>2. RouteSettled(n)'
        BY <1>3, <1>7, <1>10, <2>1 DEF RouteSettled, RouteStep
  <2> QED BY <1>9, <2>2
<1>11. CASE n # m
  <2>1. n \in unread' <=> n \in unread
        BY <1>11 DEF UpsertRoute, PersistLoadedRoute
  <2>2. Undisputed(n)' => Undisputed(n)
        BY <1>6, <1>11, <2>1 DEF Undisputed
  <2>3. \A d \in Callers : WorksOn(d, n)' <=> WorksOn(d, n)
        BY <1>3, <1>4, <1>11
  <2>4. \A d \in Callers : WorksOn(d, n) => op'[d] = op[d]
        BY <1>3, <1>4
  <2>5. RouteSettled(n)'
        BY <1>1, <1>5, <1>7, <1>11, <2>2, <2>3, <2>4
        DEF RouteSettled, RouteStep
  <2> QED BY <1>9, <2>5
<1> QED BY <1>10, <1>11

\* A file that is changed behind the store's back, or cannot be written.
LEMMA DisputeStep ==
  ASSUME IndInv, RouteInv, NEW n \in Routes, NEW m \in Routes,
         NEW v \in Contents,
         \/ AppendWaypoint(m, v) \/ SetRoutePlaceholder(m, v)
         \/ \E c \in Callers : UpsertRouteUnsaved(c, m, v)
  PROVE  RouteOK(n)'
<1> USE DEF IndInv, RouteOK
<1>1. RouteOK(n) /\ RouteOK(m)
      BY DEF RouteInv
<1>2. UNCHANGED <<disk, view, op, unread>> /\ unread = {}
      BY DEF AppendWaypoint, SetRoutePlaceholder, ReplacesFile,
             UpsertRouteUnsaved
<1>3. disputed'[n] = (disputed[n] \/ n = m)
      BY DEF AppendWaypoint, SetRoutePlaceholder, ReplacesFile,
             UpsertRouteUnsaved, TypeOK
<1>4. /\ file[n] # "absent" => file'[n] # "absent"
      /\ file'[n] # "absent" => store'[n] # "absent"
      /\ n # m => file'[n] = file[n] /\ store'[n] = store[n]
      BY <1>1, DatabaseAssumption
      DEF AppendWaypoint, SetRoutePlaceholder, ReplacesFile,
          UpsertRouteUnsaved, TypeOK, RouteKnown
<1>5. RouteKnown(n)'
      BY <1>1, <1>2, <1>4 DEF RouteKnown
<1>6. RouteSettled(n)'
      BY <1>1, <1>2, <1>3, <1>4 DEF RouteSettled, Undisputed, RouteStep
<1> QED BY <1>5, <1>6

LEMMA ReadRouteKeeps ==
  ASSUME IndInv, NEW n \in Routes, RouteOK(n), NEW c \in Callers,
         ReadRoute(c)
  PROVE  RouteOK(n)'
<1> USE DEF IndInv
<1>1. op[c] \in Operations
      BY InProgress DEF ReadRoute
<1>2. PICK stage \in {"inserting", "updating"} :
        op' = [op EXCEPT ![c].stage = stage]
      BY DEF ReadRoute, StageAfterRead
<1>3. /\ op'[c].row = op[c].row /\ op'[c].to = op[c].to
      /\ op'[c].stage = stage
      /\ \A d \in Callers : d # c => op'[d] = op[d]
      BY <1>1, <1>2 DEF TypeOK, Operations
<1> QED BY <1>2, <1>3, RouteFrame DEF ReadRoute

LEMMA WriteRouteKeeps ==
  ASSUME IndInv, NEW n \in Routes, RouteOK(n), NEW c \in Callers,
         WriteRoute(c)
  PROVE  RouteOK(n)'
<1> USE DEF IndInv, RouteOK
<1>1. /\ op[c] \in Operations /\ n \in Rows
      /\ op[c].row # n => view'[n] = view[n]
      BY Statement, Distinct DEF WriteRoute
<1>2. op' = [op EXCEPT ![c].stage = "committing"]
      BY DEF WriteRoute, Executed
<1>3. /\ op'[c].row = op[c].row /\ op'[c].to = op[c].to
      /\ op'[c].stage = "committing"
      /\ \A d \in Callers : d # c => op'[d] = op[d]
      BY <1>1, <1>2 DEF TypeOK, Operations
<1>4. UNCHANGED <<disk, store, file, unread, disputed>>
      BY DEF WriteRoute, Executed
<1>5. CASE op[c].row # n
      BY <1>1, <1>3, <1>4, <1>5, RouteFrame
<1>6. CASE op[c].row = n
  <2>1. view'[n] \in {op[c].to, "absent"}
        BY <1>1, <1>6 DEF WriteRoute, Insert, Update, TypeOK
  <2>2. \A d \in Callers : WorksOn(d, n)' <=> WorksOn(d, n)
        BY <1>3
  <2>3. RouteKnown(n)'
        BY <1>4, <1>6, <2>2 DEF RouteKnown
  <2>4. RouteSettled(n)'
        BY <1>3, <1>4, <1>6, <2>1, <2>2
        DEF RouteSettled, Undisputed, RouteStep
  <2> QED BY <2>3, <2>4
<1> QED BY <1>5, <1>6

\* Whoever commits: what was written of a route and is not confirmed yet is
\* what the store has.
LEMMA CommitKeepsRoutes ==
  ASSUME NEW n \in Routes, RouteOK(n), disk' = view,
         UNCHANGED <<view, store, file, unread, disputed>>,
         \A c \in Callers :
           \/ op'[c] = op[c]
           \/ /\ op'[c].row = op[c].row /\ op'[c].to = op[c].to
              /\ op'[c].stage = "confirming"
              /\ op[c].stage = "committing" /\ op[c].open
  PROVE  RouteOK(n)'
<1> USE DEF RouteOK
<1>1. \A c \in Callers : WorksOn(c, n)' <=> WorksOn(c, n)
      OBVIOUS
<1>2. RouteKnown(n)'
      BY <1>1 DEF RouteKnown
<1>3. RouteSettled(n)'
      BY <1>1 DEF RouteSettled, Undisputed, RouteStep
<1> QED BY <1>2, <1>3

LEMMA AnyCommitKeepsRoutes ==
  ASSUME IndInv, NEW n \in Routes, RouteOK(n),
         \/ \E c \in Callers : Commit(c)
         \/ LogTelemetry \/ LogEvent \/ Initialize
  PROVE  RouteOK(n)'
<1> USE DEF IndInv
<1>1. ASSUME NEW c \in Callers, Commit(c) PROVE RouteOK(n)'
  <2>1. op[c] \in Operations
        BY <1>1, InProgress DEF Commit
  <2>2. /\ op'[c].row = op[c].row /\ op'[c].to = op[c].to
        /\ op'[c].stage = "confirming"
        /\ \A d \in Callers : d # c => op'[d] = op[d]
        BY <1>1, <2>1 DEF Commit, TypeOK, Operations
  <2> QED BY <1>1, <2>2, CommitKeepsRoutes DEF Commit, Committed
<1>2. CASE LogTelemetry \/ LogEvent \/ Initialize
      BY <1>2, CommitKeepsRoutes
      DEF LogTelemetry, LogEvent, Initialize, CommitsForAll
<1> QED BY <1>1, <1>2

\* Who confirms leaves the route as the store has it; who fails, disputed.
LEMMA EndKeepsRoutes ==
  ASSUME IndInv, NEW n \in Routes, RouteOK(n), NEW c \in Callers,
         Confirm(c) \/ Fail(c)
  PROVE  RouteOK(n)'
<1> USE DEF IndInv, RouteOK
<1>1. /\ \A d \in Callers : IF d = c THEN op'[d] = Idle ELSE op'[d] = op[d]
      /\ Idle.row # n
      BY Distinct DEF Confirm, Fail, TypeOK, Idle
<1>2. UNCHANGED <<disk, view, store, file, unread>>
      BY DEF Confirm, Fail
<1>3. CASE op[c].row # n
  <2>1. disputed'[n] = disputed[n]
        BY <1>3 DEF Confirm, Fail, TypeOK
  <2> QED BY <1>1, <1>2, <1>3, <2>1, RouteFrame
<1>4. RouteKnown(n)'
      BY <1>1, <1>2 DEF RouteKnown
<1>5. CASE op[c].row = n /\ Fail(c)
  <2>1. disputed'[n]
        BY <1>5 DEF Fail, TypeOK
  <2> QED BY <1>4, <2>1 DEF RouteSettled, Undisputed
<1>6. CASE op[c].row = n /\ Confirm(c)
  <2>1. disputed' = disputed /\ view[n] # "absent"
        BY <1>6 DEF Confirm
  <2>2. op[c].stage = "confirming"
        BY <1>6 DEF Confirm
  <2>3. RouteSettled(n)'
        BY <1>1, <1>2, <1>6, <2>1, <2>2
        DEF RouteSettled, Undisputed, RouteStep
  <2> QED BY <1>4, <2>3
<1> QED BY <1>3, <1>5, <1>6

LEMMA CloseKeepsRoutes ==
  ASSUME IndInv, NEW n \in Routes, RouteOK(n), Close PROVE RouteOK(n)'
<1> USE DEF IndInv, RouteOK
<1>1. ASSUME NEW c \in Callers
      PROVE  /\ op'[c].row = op[c].row /\ op'[c].to = op[c].to
             /\ op'[c].stage = op[c].stage
             /\ op'[c].stage = "committing" => ~op'[c].open
  <2>1. CASE op[c].stage = "committing"
    <3>1. op[c] \in Operations
          BY <2>1, InProgress
    <3> QED BY <2>1, <3>1 DEF Close, Operations
  <2>2. CASE op[c].stage # "committing"
        BY <2>2 DEF Close
  <2> QED BY <2>1, <2>2
<1>2. view' = disk /\ UNCHANGED <<disk, store, file, unread, disputed>>
      BY DEF Close
<1>3. \A c \in Callers : WorksOn(c, n)' <=> WorksOn(c, n)
      BY <1>1
<1>4. RouteKnown(n)'
      BY <1>2, <1>3 DEF RouteKnown
<1>5. RouteSettled(n)'
      BY <1>1, <1>2, <1>3 DEF RouteSettled, Undisputed, RouteStep
<1> QED BY <1>4, <1>5

LEMMA CrashKeepsRoutes ==
  ASSUME NEW n \in Routes, RouteOK(n), Crash PROVE RouteOK(n)'
<1> USE DEF RouteOK
<1>1. \A c \in Callers : op'[c].row # n
      BY Distinct DEF Crash, Idle
<1>2. /\ view' = disk /\ store' = file /\ UNCHANGED <<disk, file>>
      /\ n \in unread' <=> file[n] # "absent"
      BY DEF Crash, LoadedRoutes
<1>3. RouteKnown(n)'
      BY <1>1, <1>2 DEF RouteKnown
<1>4. RouteSettled(n)'
      BY <1>1, <1>2 DEF RouteKnown, RouteSettled, Undisputed
<1> QED BY <1>3, <1>4

LEMMA StepRoutes == IndInv /\ RouteInv /\ [Next]_vars => RouteInv'
<1> SUFFICES ASSUME IndInv, RouteInv, [Next]_vars, NEW n \in Routes
             PROVE  RouteOK(n)'
    BY DEF RouteInv, RouteOK
<1>1. RouteOK(n)
      BY DEF RouteInv, RouteOK
<1>2. CASE \E c \in Callers :
             \/ \E t \in Tasks : \/ SubmitTask(c, t)
                                 \/ \E new \in TaskStatuses :
                                      TransitionTask(c, t, new)
             \/ ReadTask(c) \/ CreateTask(c) \/ UpdateTaskStatus(c)
      BY <1>1, <1>2, TaskStepsKeepRoutes
<1>3. CASE \E c \in Callers, m \in Routes :
             \/ \E v \in Contents : UpsertRoute(c, m, v)
             \/ PersistLoadedRoute(c, m)
  <2>1. \A m \in Routes : store[m] \in Saved
        BY DEF IndInv, TypeOK
  <2> QED BY <1>3, <2>1, BeginRouteStep DEF Saved
<1>4. CASE \E m \in Routes, v \in Contents :
             \/ AppendWaypoint(m, v) \/ SetRoutePlaceholder(m, v)
             \/ \E c \in Callers : UpsertRouteUnsaved(c, m, v)
      BY <1>4, DisputeStep
<1>5. CASE \E c \in Callers : \/ ReadRoute(c) \/ WriteRoute(c) \/ Commit(c)
                              \/ Confirm(c) \/ Fail(c)
      BY <1>1, <1>5, ReadRouteKeeps, WriteRouteKeeps, AnyCommitKeepsRoutes,
         EndKeepsRoutes
<1>6. CASE LogTelemetry \/ LogEvent \/ Initialize \/ Close \/ Crash
      BY <1>1, <1>6, AnyCommitKeepsRoutes, CloseKeepsRoutes,
         CrashKeepsRoutes
<1>7. CASE UNCHANGED vars
      BY <1>1, <1>7
      DEF vars, RouteOK, RouteKnown, RouteSettled, RouteStep, Undisputed
<1> QED BY <1>2, <1>3, <1>4, <1>5, <1>6, <1>7 DEF Next, Caller

\* Store, file and database agree about a route that nobody is writing and
\* whose last write was not disputed (route_store.py:449).
THEOREM RoutesComeToAgree == Spec => []RoutesAgree
<1>1. ASSUME RouteInv PROVE RoutesAgree
      BY <1>1 DEF RouteInv, RouteSettled, Undisputed, RoutesAgree, Overlapped
<1>2. Init => RouteInv
      BY InitRoutes
<1> QED BY <1>1, <1>2, Invariant, StepRoutes, PTL DEF Spec

=============================================================================
