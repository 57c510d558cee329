--------------------------- MODULE SharedDatabase ---------------------------
(***************************************************************************)
(* One SQLite connection serves every coroutine of the process.  Each call *)
(* of it is a step of its own, done by the connection's thread, and        *)
(* between the statement and the commit of one caller other callers run    *)
(* theirs: whoever commits, commits what all of them wrote, and nobody     *)
(* rolls back.  The task queue orders the callers that move a task by a    *)
(* lock; telemetry, alerts and routes are written without one.             *)
(*                                                                         *)
(* The rows are the tasks, by their status, and the routes, by their       *)
(* contents.  A crash loses what was not committed; so does closing the    *)
(* connection, which the next call opens again.  The routes are kept in    *)
(* memory and in a file as well, which a start of the process reads.       *)
(***************************************************************************)
EXTENDS Naturals, TaskStatus

CONSTANTS
  Tasks,
  Routes,   \* names of routes
  Contents, \* what a route may be
  Callers   \* coroutines that use the database

ASSUME DatabaseAssumption ==
  /\ Tasks \cap Routes = {}
  /\ TaskStatuses \cap Contents = {}
  /\ "absent" \notin TaskStatuses \cup Contents
  /\ "nobody" \notin Callers \cup Tasks \cup Routes

VARIABLES
  disk,     \* what was committed
  view,     \* what the connection sees
  op,       \* what each caller is doing
  lock,     \* holder of TaskQueue._lock
  store,    \* RouteStore._routes
  file,     \* the routes file
  unread,   \* loaded routes whose write to the database has not begun
  answered, \* status in the last answer about a task (history)
  disputed  \* the last write of a route overlapped another, failed, or was
            \* not the store's (history)

vars == <<disk, view, op, lock, store, file, unread, answered, disputed>>

Nobody == "nobody"
Rows == Tasks \cup Routes
RowValues == TaskStatuses \cup Contents \cup {"absent"}
Saved == Contents \cup {"absent"}
Stages == {"reading", "inserting", "updating", "committing", "confirming"}
Operations == [row : Rows, to : RowValues, stage : Stages, open : BOOLEAN]
Idle == [row |-> Nobody, to |-> "absent", stage |-> "idle", open |-> TRUE]

TypeOK ==
  /\ disk \in [Rows -> RowValues] /\ view \in [Rows -> RowValues]
  /\ op \in [Callers -> Operations \cup {Idle}]
  /\ lock \in Callers \cup {Nobody}
  /\ store \in [Routes -> Saved] /\ file \in [Routes -> Saved]
  /\ unread \subseteq Routes
  /\ answered \in [Tasks -> TaskStatuses \cup {"absent"}]
  /\ disputed \in [Routes -> BOOLEAN]

Init ==
  /\ disk = [x \in Rows |-> "absent"] /\ view = disk
  /\ op = [c \in Callers |-> Idle]
  /\ lock = Nobody
  /\ store = [n \in Routes |-> "absent"] /\ file = store
  /\ unread = {}
  /\ answered = [t \in Tasks |-> "absent"]
  /\ disputed = [n \in Routes |-> FALSE]

Free(c) == op[c] = Idle

Begins(c, x, to, stage) ==
  op' = [op EXCEPT
           ![c] = [row |-> x, to |-> to, stage |-> stage, open |-> TRUE]]

\* The lock is released on every way out of the queue's critical section.
Released(c) == IF lock = c THEN Nobody ELSE lock

(***************************************************************************)
(* The task queue.                                                         *)
(***************************************************************************)
(* (mutant: the queue has no lock) *)
LockForgotten == TRUE

LockFree == lock = Nobody

SubmitTask(c, t) ==
  /\ Free(c) /\ LockFree
  /\ view[t] = "absent" /\ answered[t] = "absent"
  /\ lock' = c
  /\ Begins(c, t, "queued", "inserting")
  /\ UNCHANGED <<disk, view, store, file, unread, answered, disputed>>

TransitionTask(c, t, new) ==
  /\ Free(c) /\ LockFree
  /\ view[t] # "absent"
  /\ lock' = c
  /\ Begins(c, t, new, "reading")
  /\ UNCHANGED <<disk, view, store, file, unread, answered, disputed>>

\* get_task and _validate_transition.
ReadTask(c) ==
  /\ op[c].stage = "reading" /\ op[c].row \in Tasks
  /\ IF CanMove(view[op[c].row], op[c].to)
     THEN /\ op' = [op EXCEPT ![c].stage = "updating"]
          /\ UNCHANGED lock
     ELSE /\ op' = [op EXCEPT ![c] = Idle]
          /\ lock' = Released(c)
  /\ UNCHANGED <<disk, view, store, file, unread, answered, disputed>>

(***************************************************************************)
(* The route store.  Memory and file change without a suspension; the      *)
(* write to the database follows, and only warns when it fails.            *)
(***************************************************************************)
Overlapped(n) == \E c \in Callers : op[c].row = n

BeginsRoute(c, n, v) ==
  /\ Begins(c, n, v, "reading")
  /\ disputed' = [disputed EXCEPT ![n] = Overlapped(n)]

SaveRoutes == file' = store'

UpsertRoute(c, n, v) ==
  /\ Free(c) /\ unread = {}
  /\ store' = [store EXCEPT ![n] = v]
  /\ SaveRoutes
  /\ BeginsRoute(c, n, v)
  /\ UNCHANGED <<disk, view, lock, unread, answered>>

\* The file cannot be written: the caller has an error and the database
\* nothing, but the route stays in memory.
UpsertRouteUnsaved(c, n, v) ==
  /\ Free(c) /\ unread = {}
  /\ store' = [store EXCEPT ![n] = v]
  /\ disputed' = [disputed EXCEPT ![n] = TRUE]
  /\ UNCHANGED <<disk, view, op, lock, file, unread, answered>>

\* Commissioning replaces the routes file, and neither memory nor database
\* hears of it before the next start, or ever if a route is saved before.
ReplacesFile(n, v) ==
  /\ unread = {}
  /\ file[n] \notin {"absent", v}
  /\ file' = [file EXCEPT ![n] = v]
  /\ disputed' = [disputed EXCEPT ![n] = TRUE]

AppendWaypoint(n, v) ==
  /\ ReplacesFile(n, v)
  /\ UNCHANGED <<disk, view, op, lock, store, unread, answered>>

SetRoutePlaceholder(n, v) ==
  /\ ReplacesFile(n, v)
  /\ UNCHANGED <<disk, view, op, lock, store, unread, answered>>

\* load writes the routes it read to the database, before the process
\* serves requests.
PersistLoadedRoute(c, n) ==
  /\ Free(c) /\ n \in unread
  /\ unread' = unread \ {n}
  /\ BeginsRoute(c, n, store[n])
  /\ UNCHANGED <<disk, view, lock, store, file, answered>>

(* (mutant: a route that the database has is left as it is) *)
StageAfterReadKeeps(n) ==
  IF view[n] = "absent" THEN "inserting" ELSE "confirming"

StageAfterRead(n) == IF view[n] = "absent" THEN "inserting" ELSE "updating"

ReadRoute(c) ==
  /\ op[c].stage = "reading" /\ op[c].row \in Routes
  /\ op' = [op EXCEPT ![c].stage = StageAfterRead(op[c].row)]
  /\ UNCHANGED <<disk, view, lock, store, file, unread, answered, disputed>>

(***************************************************************************)
(* The connection.                                                         *)
(***************************************************************************)
Executed(c) ==
  /\ op' = [op EXCEPT ![c].stage = "committing"]
  /\ UNCHANGED <<disk, lock, store, file, unread, answered, disputed>>

\* The statement has no effect when the row is there: it fails.
Insert(c) ==
  /\ op[c].stage = "inserting" /\ view[op[c].row] = "absent"
  /\ view' = [view EXCEPT ![op[c].row] = op[c].to]

\* Nor when the row is not there, but then it does not fail.
Update(c) ==
  /\ op[c].stage = "updating"
  /\ view' = IF view[op[c].row] = "absent"
             THEN view ELSE [view EXCEPT ![op[c].row] = op[c].to]

CreateTask(c) == op[c].row \in Tasks /\ Insert(c) /\ Executed(c)

UpdateTaskStatus(c) == op[c].row \in Tasks /\ Update(c) /\ Executed(c)

WriteRoute(c) ==
  op[c].row \in Routes /\ (Insert(c) \/ Update(c)) /\ Executed(c)

(* (mutant: success is answered before the commit) *)
CommitForgotten == disk

Committed == view

Commit(c) ==
  /\ op[c].stage = "committing" /\ op[c].open
  /\ disk' = Committed
  /\ op' = [op EXCEPT ![c].stage = "confirming"]
  /\ UNCHANGED <<view, lock, store, file, unread, answered, disputed>>

\* Any call may fail, or its caller be cancelled while it waits; what was
\* executed stays in the open transaction.
Fail(c) ==
  /\ op[c].stage \in Stages
  /\ op' = [op EXCEPT ![c] = Idle]
  /\ disputed' = [n \in Routes |-> disputed[n] \/ op[c].row = n]
  /\ lock' = Released(c)
  /\ UNCHANGED <<disk, view, store, file, unread, answered>>

\* The row is read again and is the answer.
Confirm(c) ==
  /\ op[c].stage = "confirming" /\ view[op[c].row] # "absent"
  /\ answered' = [t \in Tasks |-> IF op[c].row = t THEN view[t]
                                                   ELSE answered[t]]
  /\ op' = [op EXCEPT ![c] = Idle]
  /\ lock' = Released(c)
  /\ UNCHANGED <<disk, view, store, file, unread, disputed>>

\* A commit by a caller whose own row is not modelled.
CommitsForAll ==
  /\ disk' = view
  /\ UNCHANGED <<view, op, lock, store, file, unread, answered, disputed>>

\* The state monitors, between two polls.
LogTelemetry == disk # view /\ CommitsForAll

\* The alert manager, with each alert.
LogEvent == disk # view /\ CommitsForAll

\* The queues at their first call, the alert manager with each alert.
Initialize == disk # view /\ CommitsForAll

\* A commit under way has the closed connection in hand; every other call
\* opens a new one.
Close ==
  /\ view' = disk
  /\ op' = [c \in Callers |-> IF op[c].stage = "committing"
                              THEN [op[c] EXCEPT !.open = FALSE]
                              ELSE op[c]]
  /\ <<view, op>>' # <<view, op>>
  /\ UNCHANGED <<disk, lock, store, file, unread, answered, disputed>>

\* The routes file as the next process reads it: a route that is not in it
\* is unknown, and the database is not asked.
LoadedRoutes == file

\* The process dies between two steps; the next one reads the routes file.
Crash ==
  /\ view' = disk
  /\ op' = [c \in Callers |-> Idle]
  /\ lock' = Nobody
  /\ store' = LoadedRoutes
  /\ unread' = {n \in Routes : LoadedRoutes[n] # "absent"}
  /\ disputed' = [n \in Routes |-> FALSE]
  /\ UNCHANGED <<disk, file, answered>>

Caller(c) ==
  \/ ReadTask(c) \/ ReadRoute(c)
  \/ CreateTask(c) \/ UpdateTaskStatus(c) \/ WriteRoute(c)
  \/ Commit(c) \/ Confirm(c) \/ Fail(c)

Next ==
  \/ \E c \in Callers :
       \/ \E t \in Tasks : SubmitTask(c, t)
       \/ \E t \in Tasks, new \in TaskStatuses \ {"queued"} :
            TransitionTask(c, t, new)
       \/ \E n \in Routes, v \in Contents :
            UpsertRoute(c, n, v) \/ UpsertRouteUnsaved(c, n, v)
       \/ \E n \in Routes : PersistLoadedRoute(c, n)
       \/ Caller(c)
  \/ \E n \in Routes, v \in Contents :
       AppendWaypoint(n, v) \/ SetRoutePlaceholder(n, v)
  \/ LogTelemetry \/ LogEvent \/ Initialize
  \/ Close \/ Crash

Spec == Init /\ [][Next]_vars

-----------------------------------------------------------------------------
(* What a status becomes by some number of allowed moves.                  *)
After ==
  [s \in RowValues |->
     CASE s = "absent"          -> TaskStatuses \cup {"absent"}
       [] s = "queued"          -> TaskStatuses
       [] s = "dispatched"      -> TaskStatuses \ {"queued"}
       [] s = "awaiting_load"   -> TaskStatuses \ {"queued", "dispatched"}
       [] s = "in_transit"      -> {"in_transit", "awaiting_unload",
                                    "completed", "failed"}
       [] s = "awaiting_unload" -> {"awaiting_unload", "completed", "failed"}
       [] OTHER                 -> {s}]

(* A task's status that was answered, and announced on the bus, is on the  *)
(* disk, or one that the task has moved to since: no crash, failure of     *)
(* another caller or closing of the connection takes it back.  (Of routes  *)
(* nothing of the kind holds: their write to the database may fail under a *)
(* positive answer.)                                                       *)
AnsweredIsDurable ==
  \A t \in Tasks : disk[t] \in After[answered[t]]

(* A task only goes forward: on the disk through every crash and every     *)
(* commit that publishes another's statement, and for the connection along *)
(* the moves the queue allows, however many callers move it at once, but   *)
(* for the loss of what was not committed.                                 *)
TasksGoForward ==
  [][\A t \in Tasks :
       /\ disk'[t] \in After[disk[t]]
       /\ view'[t] \in After[view[t]] \cup {disk[t]}]_vars

(* Once its writers are done, the database has the route that the store    *)
(* has and that the next start will read, unless the last write overlapped *)
(* another of the same route, failed, or was made behind the store's back. *)
RoutesAgree ==
  \A n \in Routes \ unread :
    ~Overlapped(n) /\ ~disputed[n] => disk[n] = store[n] /\ file[n] = store[n]

=============================================================================
