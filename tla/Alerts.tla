------------------------------- MODULE Alerts -------------------------------
(***************************************************************************)
(* How the supervisors learn of an alert.  It is raised as an event on the *)
(* bus, by a request that stops or releases a robot, or by a provisioning  *)
(* job's thread.  The alert router keeps the latest alerts in a list,      *)
(* where supervisors find and acknowledge them, and writes the serious     *)
(* ones to the audit log; the alert manager and the WebSocket broker push  *)
(* alerts to the connected clients, one after the other.                   *)
(*                                                                         *)
(* The event loop runs everything but the provisioning threads, which      *)
(* share the router's list with it under a lock.  Stations and roles of    *)
(* clients, persistence in the database and email are left out, and a      *)
(* write to the audit log succeeds.                                        *)
(***************************************************************************)
EXTENDS Naturals, Sequences, SequencesExt

CONSTANTS
  Events,       \* alerts raised on the bus; each alert is raised once
  Requests,     \* alerts raised by requests that stop or release a robot
  Threaded,     \* alerts raised by provisioning threads
  Clients,      \* browser connections
  Actors,       \* who acknowledges
  MaxAlerts,    \* alerts the router keeps
  Severity,     \* of each alert
  SystemAlerts, \* alerts whose event is SYSTEM_ALERT
  About,        \* the robot of each alert, or that it names none
  Watching      \* the robot each client asked for, or that it asked for none

Ids == Events \cup Requests \cup Threaded

Severities == {"info", "warning", "error", "critical"}
AnyRobot == "any"

ASSUME AlertsAssumption ==
  /\ MaxAlerts \in Nat \ {0}
  /\ Severity \in [Ids -> Severities] /\ SystemAlerts \subseteq Events
  /\ DOMAIN About = Ids /\ DOMAIN Watching = Clients
  /\ "bus" \notin Ids /\ "nobody" \notin Actors \cup Ids

VARIABLES
  raised,    \* alerts raised so far
  queue,     \* events waiting on the bus
  handling,  \* event the bus loop is at, and which subscriber
  alerts,    \* AlertRouter._alerts, oldest first
  holding,   \* what the loop and a thread do under the router's lock
  audited,   \* alerts in the audit log
  connected, \* WebSocketBroker._clients
  broadcast, \* clients each broadcast has yet to send to
  owed,      \* alerts raised while the client was connected (history)
  accepted   \* acknowledgements answered with success (history)

vars == <<raised, queue, handling, alerts, holding, audited, connected,
          broadcast, owed, accepted>>

Nobody == "nobody"
Bus == "bus"
Loop == "loop"
Thread == "thread"
Broadcasts == Requests \cup {Bus}
Quiet == [at |-> "none", id |-> Nobody]
Released == [op |-> "none", id |-> Nobody, index |-> 0, actor |-> Nobody]
NotSending == [phase |-> "idle", left |-> {}]
Records == [id : Ids, by : Actors \cup {Nobody}]
Holds == [op : {"none", "routing", "emitting", "acknowledging"},
          id : Ids \cup {Nobody}, index : Nat, actor : Actors \cup {Nobody}]
Listed == {alerts[i].id : i \in DOMAIN alerts}

TypeOK ==
  /\ raised \subseteq Ids /\ audited \subseteq Ids
  /\ queue \in Seq(Ids) /\ IsInjective(queue)
  /\ handling \in [at : {"none", "router", "manager", "broker"},
                   id : Ids \cup {Nobody}]
  /\ alerts \in Seq(Records) /\ Len(alerts) <= MaxAlerts + 1
  /\ holding \in [{Loop, Thread} -> Holds]
  /\ connected \subseteq Clients
  /\ broadcast \in [Broadcasts -> [phase : {"idle", "scheduled", "sending"},
                                   left : SUBSET Clients]]
  /\ owed \in [Clients -> SUBSET Ids]
  /\ accepted \subseteq Ids \X Actors

Init ==
  /\ raised = {} /\ queue = <<>> /\ handling = Quiet
  /\ alerts = <<>> /\ audited = {}
  /\ holding = [p \in {Loop, Thread} |-> Released]
  /\ connected = {}
  /\ broadcast = [b \in Broadcasts |-> NotSending]
  /\ owed = [c \in Clients |-> {}]
  /\ accepted = {}

(***************************************************************************)
(* Whom an alert is for.                                                   *)
(***************************************************************************)
ShouldSend(c, id) ==
  AnyRobot \in {About[id], Watching[c]} \/ About[id] = Watching[c]

\* AlertMessage knows no "error": the manager refuses such an alert.
Acceptable(id) == Severity[id] # "error"

ByManager(id) == id \in SystemAlerts /\ Acceptable(id)

Owe(id, clients) ==
  owed' = [c \in Clients |->
             IF c \in clients THEN owed[c] \cup {id} ELSE owed[c]]

(***************************************************************************)
(* The router's list, under its lock.  While the event loop is in there it *)
(* does nothing else.                                                      *)
(***************************************************************************)
LoopFree == holding[Loop] = Released

(* (mutant: the list is changed without the lock) *)
NoLock(p) == holding[p] = Released

LockFree(p) == \A q \in {Loop, Thread} : holding[q] = Released

\* _store_alert appends, and then cuts the list.
BeginStore(p, op, id) ==
  /\ LockFree(p)
  /\ alerts' = Append(alerts, [id |-> id, by |-> Nobody])
  /\ holding' = [holding EXCEPT ![p] = [Released EXCEPT !.op = op, !.id = id]]

Cut(s) == IF Len(s) > MaxAlerts THEN SubSeq(s, 2, Len(s)) ELSE s

Stored(p) ==
  /\ alerts' = Cut(alerts)
  /\ holding' = [holding EXCEPT ![p] = Released]

\* The audit log only grows, and forgets nothing.
AuditEvent(id) == audited \cup {id}

\* Requests and jobs write to it themselves, before they raise the alert.
AppendAuditEvent(id) == audited' = AuditEvent(id)

\* The router writes what is more than information.
WriteAuditEvent(id) ==
  audited' = IF Severity[id] = "info" THEN audited ELSE AuditEvent(id)

(***************************************************************************)
(* Broadcasts: the clients connected at its start, one send at a time.  A  *)
(* client that one send fails for is lost for every other send too: it is  *)
(* disconnected here and not at the end of the broadcast.                  *)
(***************************************************************************)
Opens(b, clients) ==
  broadcast' = [broadcast EXCEPT
                 ![b] = [phase |-> "sending", left |-> clients]]

Message(b) == IF b = Bus THEN handling.id ELSE b

SendJson(b, c) ==
  /\ LoopFree /\ c \in broadcast[b].left /\ c \in connected
  /\ owed' = [owed EXCEPT ![c] = @ \ {Message(b)}]
  /\ broadcast' = [broadcast EXCEPT ![b].left = @ \ {c}]
  /\ UNCHANGED <<raised, queue, handling, alerts, holding, audited,
                 connected, accepted>>

(* (mutant: the first send that fails ends the broadcast) *)
GivesUp(b, c) == {}

SkipsFailed(b, c) == broadcast[b].left \ {c}

Forgets(c) ==
  /\ connected' = connected \ {c}
  /\ owed' = [owed EXCEPT ![c] = {}]

SendFails(b, c) ==
  /\ LoopFree /\ c \in broadcast[b].left
  /\ broadcast' = [broadcast EXCEPT ![b].left = SkipsFailed(b, c)]
  /\ Forgets(c)
  /\ UNCHANGED <<raised, queue, handling, alerts, holding, audited,
                 accepted>>

\* The bus goes on to the next subscriber, a task is over.
EndBroadcast(b) ==
  /\ LoopFree /\ broadcast[b].phase = "sending" /\ broadcast[b].left = {}
  /\ broadcast' = [broadcast EXCEPT ![b] = NotSending]
  /\ handling' = IF b # Bus THEN handling
                 ELSE IF handling.at = "manager"
                      THEN [handling EXCEPT !.at = "broker"] ELSE Quiet
  /\ UNCHANGED <<raised, queue, alerts, holding, audited, connected, owed,
                 accepted>>

(***************************************************************************)
(* Events on the bus.                                                      *)
(***************************************************************************)
PublishEvent(id) ==
  /\ LoopFree /\ id \in Events \ raised
  /\ raised' = raised \cup {id}
  /\ queue' = Append(queue, id)
  /\ Owe(id, {c \in connected : ByManager(id) \/ ShouldSend(c, id)})
  /\ UNCHANGED <<handling, alerts, holding, audited, connected, broadcast,
                 accepted>>

\* The router subscribed before the manager, and subscribers to all events
\* come last.
(* (mutant: the subscribers to all events come first) *)
FirstIsBroker(id) == "broker"

FirstSubscriber(id) == "router"

AfterRouter(id) == IF id \in SystemAlerts THEN "manager" ELSE "broker"

TakeEvent ==
  /\ LoopFree /\ handling = Quiet /\ queue # <<>>
  /\ handling' = [at |-> FirstSubscriber(Head(queue)), id |-> Head(queue)]
  /\ queue' = Tail(queue)
  /\ UNCHANGED <<raised, alerts, holding, audited, connected, broadcast,
                 owed, accepted>>

RouterHandlesEvent ==
  /\ LoopFree /\ handling.at = "router"
  /\ BeginStore(Loop, "routing", handling.id)
  /\ UNCHANGED <<raised, queue, handling, audited, connected, broadcast,
                 owed, accepted>>

EventStored ==
  /\ holding[Loop].op = "routing"
  /\ Stored(Loop)
  /\ WriteAuditEvent(handling.id)
  /\ handling' = [handling EXCEPT !.at = AfterRouter(handling.id)]
  /\ UNCHANGED <<raised, queue, connected, broadcast, owed, accepted>>

\* The manager raises for a severity it does not know: the bus logs that.
ManagerRefuses ==
  /\ LoopFree /\ handling.at = "manager"
  /\ ~Acceptable(handling.id)
  /\ handling' = [handling EXCEPT !.at = "broker"]
  /\ UNCHANGED <<raised, queue, alerts, holding, audited, connected,
                 broadcast, owed, accepted>>

ManagerBroadcasts ==
  /\ LoopFree /\ handling.at = "manager" /\ broadcast[Bus] = NotSending
  /\ Acceptable(handling.id)
  /\ Opens(Bus, connected)
  /\ UNCHANGED <<raised, queue, handling, alerts, holding, audited,
                 connected, owed, accepted>>

BrokerForwards ==
  /\ LoopFree /\ handling.at = "broker" /\ broadcast[Bus] = NotSending
  /\ Opens(Bus, {c \in connected : ShouldSend(c, handling.id)})
  /\ UNCHANGED <<raised, queue, handling, alerts, holding, audited,
                 connected, owed, accepted>>

(***************************************************************************)
(* emit_alert: by a request of the loop, once the robot was stopped or     *)
(* released, or by a provisioning thread, which finds no running loop and  *)
(* sends nothing.                                                          *)
(***************************************************************************)
EmitFromRequest(id) ==
  /\ LoopFree /\ id \in Requests \ raised
  /\ AppendAuditEvent(id)
  /\ raised' = raised \cup {id}
  /\ BeginStore(Loop, "emitting", id)
  /\ Owe(id, connected)
  /\ UNCHANGED <<queue, handling, connected, broadcast, accepted>>

\* The task that broadcasts starts some time later.
ScheduleBroadcast(id) ==
  broadcast' = [broadcast EXCEPT ![id].phase = "scheduled"]

RequestStored ==
  /\ holding[Loop].op = "emitting"
  /\ Stored(Loop)
  /\ WriteAuditEvent(holding[Loop].id)
  /\ ScheduleBroadcast(holding[Loop].id)
  /\ UNCHANGED <<raised, queue, handling, connected, owed, accepted>>

BroadcastAlert(id) ==
  /\ LoopFree /\ broadcast[id].phase = "scheduled"
  /\ Opens(id, connected)
  /\ UNCHANGED <<raised, queue, handling, alerts, holding, audited,
                 connected, owed, accepted>>

EmitFromThread(id) ==
  /\ id \in Threaded \ raised /\ holding[Thread] = Released
  /\ AppendAuditEvent(id)
  /\ raised' = raised \cup {id}
  /\ BeginStore(Thread, "emitting", id)
  /\ UNCHANGED <<queue, handling, connected, broadcast, owed, accepted>>

ThreadStored ==
  /\ holding[Thread].op = "emitting"
  /\ Stored(Thread)
  /\ WriteAuditEvent(holding[Thread].id)
  /\ UNCHANGED <<raised, queue, handling, connected, broadcast, owed,
                 accepted>>

(***************************************************************************)
(* Clients and acknowledgements.                                           *)
(***************************************************************************)
Connect(c) ==
  /\ LoopFree /\ c \notin connected
  /\ \A b \in Broadcasts : c \notin broadcast[b].left
  /\ connected' = connected \cup {c}
  /\ UNCHANGED <<raised, queue, handling, alerts, holding, audited,
                 broadcast, owed, accepted>>

Disconnect(c) ==
  /\ LoopFree /\ c \in connected
  /\ Forgets(c)
  /\ UNCHANGED <<raised, queue, handling, alerts, holding, audited,
                 broadcast, accepted>>

\* The alert is looked up, and then replaced at the index found.
FindAlert(id, o) ==
  /\ LoopFree /\ LockFree(Loop)
  /\ \E i \in DOMAIN alerts :
       /\ alerts[i] = [id |-> id, by |-> Nobody]
       /\ holding' = [holding EXCEPT
            ![Loop] = [op |-> "acknowledging", id |-> id, index |-> i,
                       actor |-> o]]
  /\ UNCHANGED <<raised, queue, handling, alerts, audited, connected,
                 broadcast, owed, accepted>>

Acknowledge ==
  LET h == holding[Loop] IN
  /\ h.op = "acknowledging"
  /\ alerts' = [i \in DOMAIN alerts |->
                  IF i = h.index THEN [id |-> h.id, by |-> h.actor]
                  ELSE alerts[i]]
  /\ holding' = [holding EXCEPT ![Loop] = Released]
  /\ accepted' = accepted \cup {<<h.id, h.actor>>}
  /\ UNCHANGED <<raised, queue, handling, audited, connected, broadcast,
                 owed>>

BusStep ==
  \/ TakeEvent \/ RouterHandlesEvent \/ EventStored
  \/ ManagerRefuses \/ ManagerBroadcasts \/ BrokerForwards

BroadcastStep(b) ==
  \/ \E c \in Clients : SendJson(b, c) \/ SendFails(b, c)
  \/ EndBroadcast(b)

Next ==
  \/ BusStep
  \/ \E b \in Broadcasts : BroadcastStep(b)
  \/ \E id \in Ids :
       \/ PublishEvent(id) \/ EmitFromRequest(id) \/ EmitFromThread(id)
       \/ \E o \in Actors : FindAlert(id, o)
  \/ \E id \in Requests : BroadcastAlert(id)
  \/ RequestStored \/ ThreadStored \/ Acknowledge
  \/ \E c \in Clients : Connect(c) \/ Disconnect(c)

\* The loop runs what is ready, and a send returns or raises: the server
\* pings its clients and closes the connection of one that is gone.
Fairness ==
  /\ WF_vars(BusStep) /\ WF_vars(RequestStored) /\ WF_vars(ThreadStored)
  /\ WF_vars(Acknowledge)
  /\ \A b \in Broadcasts : WF_vars(BroadcastStep(b))
  /\ \A id \in Requests : WF_vars(BroadcastAlert(id))

Spec == Init /\ [][Next]_vars /\ Fairness

(***************************************************************************)
(* Properties.                                                             *)
(***************************************************************************)
\* What the clients are being shown is on record: in the router's list,
\* where it can be acknowledged, unless the list is full of later alerts,
\* and in the audit log when a person or a job caused it or it is more than
\* information.
ShownIsOnRecord ==
  \A b \in Broadcasts : broadcast[b].phase = "sending" =>
    /\ Message(b) \in Listed \/ Len(alerts) >= MaxAlerts
    /\ Severity[Message(b)] # "info" \/ b \in Requests =>
         Message(b) \in audited

\* One who was told that an alert is acknowledged is the one it names.
Stands(a) ==
  IF a.by = Nobody
  THEN \A o \in Actors : <<a.id, o>> \notin accepted
  ELSE {o \in Actors : <<a.id, o>> \in accepted} = {a.by}

\* Whatever is stored, cut off and acknowledged at once: no alert is listed
\* twice, each is acknowledged by the one who was told so, and by nobody
\* else.
AcknowledgementsStand ==
  /\ \A i, k \in DOMAIN alerts : alerts[i].id = alerts[k].id => i = k
  /\ \A i \in DOMAIN alerts : Stands(alerts[i])

\* A client that is connected when an alert is raised, on the bus or by a
\* request, is shown it unless it disconnects: as each alert is raised
\* once, what a client is owed is used up at last.
EveryClientIsTold ==
  \A c \in Clients : owed[c] # {} ~> owed[c] = {}

=============================================================================
