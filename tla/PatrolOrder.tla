----------------------------- MODULE PatrolOrder -----------------------------
(***************************************************************************)
(* What the patrol application promises about its cycles, whichever robot, *)
(* supervisor or schedule moves them along: each is submitted once, taken  *)
(* from the head of the queue by one robot that carries nothing else,      *)
(* completed by that robot only, and never changed once it ended.  The     *)
(* schedule adds no cycle while one of its own is open.                    *)
(*                                                                         *)
(* A robot that gives up puts its cycle down before the failure is         *)
(* recorded; the record may never be made, so that an active cycle nobody  *)
(* carries is possible, and with it the failure of a cycle that another    *)
(* robot has taken in the meantime.                                        *)
(*                                                                         *)
(* No scheduler, dispatcher, lock or event appears here.  PatrolMission is *)
(* shown to implement this specification.                                  *)
(***************************************************************************)
EXTENDS Naturals

CONSTANTS Robots, MaxCycles

VARIABLES
  status,      \* the stored status of every cycle, or "none"
  bySchedule,  \* the cycles the schedule submitted
  carries      \* the cycle each robot is under way with

orderVars == <<status, bySchedule, carries>>

Cycles  == 1..MaxCycles
NoCycle == 0

Open == {"scheduled", "active"}

Init ==
  /\ status     = [c \in Cycles |-> "none"]
  /\ bySchedule = {}
  /\ carries    = [r \in Robots |-> NoCycle]

\* Cycles are numbered as they come.
Submit(c) ==
  /\ status[c] = "none"
  /\ \A d \in Cycles : status[d] = "none" => c <= d
  /\ status' = [status EXCEPT ![c] = "scheduled"]
  /\ UNCHANGED carries

SupervisorSubmits(c) == Submit(c) /\ UNCHANGED bySchedule

ScheduleSubmits(c) ==
  /\ Submit(c)
  /\ \A d \in bySchedule : status[d] \notin Open
  /\ bySchedule' = bySchedule \cup {c}

IsFirst(c) ==
  /\ status[c] = "scheduled"
  /\ \A d \in Cycles : status[d] = "scheduled" => c <= d

Take(r, c) ==
  /\ IsFirst(c)
  /\ status' = [status EXCEPT ![c] = "active"]
  /\ carries[r] = NoCycle
  /\ \A q \in Robots : carries[q] # c
  /\ carries' = [carries EXCEPT ![r] = c]
  /\ UNCHANGED bySchedule

\* A robot gives up, or the process dies and every robot forgets its cycle:
\* the cycles stay as they are.
PutDown(robots) ==
  /\ UNCHANGED <<status, bySchedule>>
  /\ carries' = [r \in Robots |-> IF r \in robots THEN NoCycle ELSE carries[r]]

Complete(r, c) ==
  /\ status[c] = "active"
  /\ status' = [status EXCEPT ![c] = "completed"]
  /\ carries[r] = c
  /\ carries' = [carries EXCEPT ![r] = NoCycle]
  /\ UNCHANGED bySchedule

Fail(c) ==
  /\ status[c] = "active"
  /\ status' = [status EXCEPT ![c] = "failed"]
  /\ UNCHANGED <<bySchedule, carries>>

Next ==
  \/ \E robots \in SUBSET Robots : PutDown(robots)
  \/ \E c \in Cycles : SupervisorSubmits(c) \/ ScheduleSubmits(c) \/ Fail(c)
  \/ \E r \in Robots, c \in Cycles : Take(r, c) \/ Complete(r, c)

Spec == Init /\ [][Next]_orderVars

=============================================================================
