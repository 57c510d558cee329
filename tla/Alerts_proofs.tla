---------------------------- MODULE Alerts_proofs ----------------------------
(***************************************************************************)
(* The router's list for any alerts, clients and sizes.  The invariant     *)
(* says that the loop and a thread are never in the list together, that an *)
(* alert not yet stored is neither listed nor acknowledged, and that the   *)
(* index an acknowledgement has found is still that alert's.               *)
(***************************************************************************)
EXTENDS Alerts, SequenceTheorems, TLAPS

Processes == {Loop, Thread}

Exclusive == holding[Loop] = Released \/ holding[Thread] = Released

\* Only a list that is being appended to is longer than the router allows.
Storing(p) == holding[p].op \in {"routing", "emitting"}
SizeKept == Len(alerts) <= MaxAlerts \/ \E p \in Processes : Storing(p)

\* What a step that is under way names.
WorkNamed ==
  /\ handling.at # "none" => handling.id \in Ids
  /\ \A p \in Processes : holding[p].op # "none" => holding[p].id \in Ids
  /\ holding[Loop].op = "routing" =>
       handling.at = "router" /\ handling.id = holding[Loop].id

\* An alert waits to be raised, on the bus, or at the router's door.
Waits(id) ==
  \/ id \notin raised
  \/ \E k \in 1..Len(queue) : queue[k] = id
  \/ /\ handling.at = "router" /\ handling.id = id
     /\ holding[Loop].op # "routing"

Fresh(id) ==
  /\ \A i \in 1..Len(alerts) : alerts[i].id # id
  /\ \A o \in Actors : <<id, o>> \notin accepted

WaitingAreFresh == \A id \in Ids : Waits(id) => Fresh(id)

QueueIsRaised ==
  /\ \A k \in 1..Len(queue) : queue[k] \in raised
  /\ handling.at = "router" =>
       /\ handling.id \in raised
       /\ \A k \in 1..Len(queue) : queue[k] # handling.id

\* What an acknowledgement found is still there.
FoundStays ==
  holding[Loop].op = "acknowledging" =>
    /\ holding[Loop].index \in 1..Len(alerts)
    /\ alerts[holding[Loop].index] = [id |-> holding[Loop].id, by |-> Nobody]
    /\ holding[Loop].actor \in Actors

Core ==
  /\ Exclusive /\ SizeKept /\ WorkNamed
  /\ QueueIsRaised /\ WaitingAreFresh
  /\ FoundStays /\ AcknowledgementsStand

IndInv == TypeOK /\ Core

\* A stored alert leaves the list only when the list is full.
Kept(id) ==
  \/ \E i \in 1..Len(alerts) : alerts[i].id = id
  \/ Len(alerts) >= MaxAlerts

\* What is on record when: the loop's newest alert is the last of the list,
\* subscribers after the router and broadcasts know stored alerts only.
Recorded ==
  /\ holding[Loop].op \in {"routing", "emitting"} =>
       /\ Len(alerts) > 0 /\ alerts[Len(alerts)].id = holding[Loop].id
       /\ holding[Loop].op = "emitting" => holding[Loop].id \in audited
  /\ handling.at \in {"manager", "broker"} =>
       /\ Kept(handling.id)
       /\ Severity[handling.id] # "info" => handling.id \in audited
  /\ broadcast[Bus].phase # "idle" => handling.at \in {"manager", "broker"}
  /\ \A b \in Requests :
       broadcast[b].phase # "idle" => Kept(b) /\ b \in audited

-----------------------------------------------------------------------------
(* The router's list.                                                      *)

LEMMA LoopIsNotThread == Loop # Thread
BY DEF Loop, Thread

\* An alert that is stored is the last of the list, and unacknowledged.
LEMMA AppendFacts ==
  ASSUME TypeOK, AcknowledgementsStand, NEW id \in Ids, Fresh(id),
         alerts' = Append(alerts, [id |-> id, by |-> Nobody]),
         UNCHANGED accepted
  PROVE  /\ alerts' \in Seq(Records) /\ Len(alerts') = Len(alerts) + 1
         /\ \A i \in 1..Len(alerts) : alerts'[i] = alerts[i]
         /\ AcknowledgementsStand'
         /\ \A j \in Ids : j # id /\ Fresh(j) => Fresh(j)'
<1> DEFINE new == [id |-> id, by |-> Nobody]
<1>1. /\ alerts \in Seq(Records) /\ Len(alerts) \in Nat
      /\ new \in Records /\ new.id = id /\ new.by = Nobody
      BY DEF TypeOK, Records
<1> HIDE DEF new
<1>2. alerts' = Append(alerts, new)
      BY DEF new
<1>3. /\ alerts' \in Seq(Records) /\ Len(alerts') = Len(alerts) + 1
      /\ \A i \in 1..Len(alerts) : alerts'[i] = alerts[i]
      /\ alerts'[Len(alerts) + 1] = new
      BY <1>1, <1>2, AppendProperties
<1>4. /\ DOMAIN alerts = 1..Len(alerts) /\ DOMAIN alerts' = 1..Len(alerts')
      /\ \A i \in 1..Len(alerts') :
           i \in 1..Len(alerts) \/ i = Len(alerts) + 1
      BY <1>1, <1>3
<1>5. \A i, k \in 1..Len(alerts') : alerts'[i].id = alerts'[k].id => i = k
      BY <1>1, <1>3, <1>4 DEF AcknowledgementsStand, Fresh
<1>6. ASSUME NEW i \in 1..Len(alerts') PROVE Stands(alerts[i])'
  <2>1. CASE i \in 1..Len(alerts)
    <3>1. Stands(alerts[i]) /\ alerts'[i] = alerts[i]
          BY <1>3, <1>4, <2>1 DEF AcknowledgementsStand
    <3> QED BY <3>1 DEF Stands
  <2>2. CASE i = Len(alerts) + 1
    <3>1. alerts'[i].id = id /\ alerts'[i].by = Nobody
          BY <1>1, <1>3, <2>2
    <3>2. \A o \in Actors : <<id, o>> \notin accepted
          BY DEF Fresh
    <3> QED BY <3>1, <3>2 DEF Stands
  <2> QED BY <1>4, <2>1, <2>2
<1>7. AcknowledgementsStand'
      BY <1>4, <1>5, <1>6 DEF AcknowledgementsStand
<1>8. ASSUME NEW j \in Ids, j # id, Fresh(j) PROVE Fresh(j)'
      BY <1>1, <1>3, <1>4, <1>8 DEF Fresh
<1> QED BY <1>3, <1>7, <1>8

\* Cutting the list takes its oldest alert at most.
LEMMA CutFacts ==
  ASSUME TypeOK, AcknowledgementsStand, alerts' = Cut(alerts),
         UNCHANGED accepted
  PROVE  /\ alerts' \in Seq(Records) /\ Len(alerts') <= MaxAlerts
         /\ AcknowledgementsStand'
         /\ \A j \in Ids : Fresh(j) => Fresh(j)'
<1>1. /\ alerts \in Seq(Records) /\ Len(alerts) \in Nat
      /\ Len(alerts) <= MaxAlerts + 1 /\ MaxAlerts \in Nat \ {0}
      BY AlertsAssumption DEF TypeOK
<1>2. \E d \in {0, 1} :
        /\ alerts' \in Seq(Records) /\ Len(alerts') = Len(alerts) - d
        /\ Len(alerts') <= MaxAlerts
        /\ \A i \in 1..Len(alerts') : alerts'[i] = alerts[i + d]
  <2>1. CASE Len(alerts) > MaxAlerts
    <3>1. alerts' = SubSeq(alerts, 2, Len(alerts))
          BY <2>1 DEF Cut
    <3>2. /\ SubSeq(alerts, 2, Len(alerts)) \in Seq(Records)
          /\ Len(SubSeq(alerts, 2, Len(alerts))) = Len(alerts) - 1
          /\ \A i \in 1..Len(alerts) - 1 :
               SubSeq(alerts, 2, Len(alerts))[i] = alerts[i + 1]
          BY <1>1, <2>1
    <3> QED BY <1>1, <3>1, <3>2
  <2>2. CASE ~(Len(alerts) > MaxAlerts)
    <3>1. alerts' = alerts
          BY <2>2 DEF Cut
    <3> QED BY <1>1, <2>2, <3>1
  <2> QED BY <2>1, <2>2
<1>3. PICK d \in {0, 1} :
        /\ alerts' \in Seq(Records) /\ Len(alerts') = Len(alerts) - d
        /\ Len(alerts') <= MaxAlerts
        /\ \A i \in 1..Len(alerts') : alerts'[i] = alerts[i + d]
      BY <1>2
<1>4. /\ DOMAIN alerts = 1..Len(alerts) /\ DOMAIN alerts' = 1..Len(alerts')
      /\ \A i \in 1..Len(alerts') : i + d \in 1..Len(alerts)
      BY <1>1, <1>3
<1>5. \A i, k \in 1..Len(alerts') : alerts'[i].id = alerts'[k].id => i = k
  <2> SUFFICES ASSUME NEW i \in 1..Len(alerts'), NEW k \in 1..Len(alerts'),
                      alerts'[i].id = alerts'[k].id
               PROVE  i = k
      OBVIOUS
  <2>1. i + d \in DOMAIN alerts /\ k + d \in DOMAIN alerts
        BY <1>4
  <2>2. alerts[i + d].id = alerts[k + d].id
        BY <1>3
  <2>3. i + d = k + d
        BY <2>1, <2>2, Zenon DEF AcknowledgementsStand
  <2> QED BY <1>1, <1>3, <2>3
<1>6. ASSUME NEW i \in 1..Len(alerts') PROVE Stands(alerts[i])'
  <2>1. Stands(alerts[i + d]) /\ alerts'[i] = alerts[i + d]
        BY <1>3, <1>4 DEF AcknowledgementsStand
  <2> QED BY <2>1 DEF Stands
<1>7. AcknowledgementsStand'
      BY <1>4, <1>5, <1>6 DEF AcknowledgementsStand
<1>8. ASSUME NEW j \in Ids, Fresh(j) PROVE Fresh(j)'
      BY <1>3, <1>4, <1>8 DEF Fresh
<1> QED BY <1>3, <1>7, <1>8

-----------------------------------------------------------------------------
(* The initial states.                                                     *)

LEMMA InitInv == Init => IndInv
<1> SUFFICES ASSUME Init
             PROVE  IndInv
    OBVIOUS
<1> USE DEF Init
<1>1. /\ Released \in Holds /\ Released.op = "none"
      /\ NotSending \in [phase : {"idle", "scheduled", "sending"},
                         left : SUBSET Clients]
      /\ Quiet \in [at : {"none", "router", "manager", "broker"},
                    id : Ids \cup {Nobody}]
      BY DEF Released, Holds, NotSending, Quiet
<1>2. /\ queue \in Seq(Ids) /\ alerts \in Seq(Records)
      /\ Len(queue) = 0 /\ Len(alerts) = 0
      /\ DOMAIN queue = {} /\ DOMAIN alerts = {}
      /\ 1..Len(queue) = {} /\ 1..Len(alerts) = {}
      OBVIOUS
<1>3. TypeOK
      BY <1>1, <1>2, AlertsAssumption DEF TypeOK, IsInjective
<1>4. holding[Loop] = Released /\ holding[Thread] = Released
      OBVIOUS
<1>5. Exclusive /\ SizeKept /\ WorkNamed /\ QueueIsRaised /\ FoundStays
      BY <1>1, <1>2, <1>4, AlertsAssumption
         DEF Exclusive, SizeKept, WorkNamed, QueueIsRaised, FoundStays,
             Quiet, Processes
<1>6. WaitingAreFresh /\ AcknowledgementsStand
      BY <1>2 DEF WaitingAreFresh, Fresh, AcknowledgementsStand
<1> QED BY <1>3, <1>5, <1>6 DEF IndInv, Core

-----------------------------------------------------------------------------
(* Steps that leave the list, the bus and the lock alone.                  *)

\* Who is connected and who is being sent what is none of the list's
\* business; a subscriber hands on an event that was stored.
LEMMA Undisturbed ==
  ASSUME IndInv, UNCHANGED <<raised, queue, alerts, holding, accepted>>,
         \/ handling' = handling
         \/ /\ LoopFree /\ handling'.at # "router"
            /\ handling'.at # "none" => handling'.id \in Ids
  PROVE  Core'
<1>1. /\ Exclusive /\ SizeKept /\ WorkNamed /\ QueueIsRaised
      /\ WaitingAreFresh /\ FoundStays /\ AcknowledgementsStand
      BY DEF IndInv, Core
<1>2. Exclusive' /\ SizeKept' /\ FoundStays' /\ AcknowledgementsStand'
      BY <1>1 DEF Exclusive, SizeKept, FoundStays, AcknowledgementsStand,
                  Stands, Storing
<1>3. WorkNamed' /\ QueueIsRaised'
      BY <1>1 DEF WorkNamed, QueueIsRaised, LoopFree, Released, Processes
<1>4. ASSUME NEW id \in Ids, Waits(id)' PROVE Fresh(id)'
  <2>1. Waits(id)
        BY <1>4 DEF Waits
  <2> QED BY <1>1, <2>1 DEF WaitingAreFresh, Fresh
<1> QED BY <1>2, <1>3, <1>4 DEF Core, WaitingAreFresh

LEMMA BroadcastStepInv ==
  ASSUME IndInv, NEW b \in Broadcasts, BroadcastStep(b)
  PROVE  IndInv'
<1>0. TypeOK /\ WorkNamed
      BY DEF IndInv, Core
<1>1. ASSUME NEW c \in Clients, SendJson(b, c) PROVE IndInv'
  <2>1. TypeOK'
        BY <1>0, <1>1 DEF TypeOK, SendJson
  <2>2. Core'
        BY <1>1, Undisturbed DEF SendJson
  <2> QED BY <2>1, <2>2 DEF IndInv
<1>2. ASSUME NEW c \in Clients, SendFails(b, c) PROVE IndInv'
  <2>1. TypeOK'
        BY <1>0, <1>2 DEF TypeOK, SendFails, SkipsFailed, Forgets
  <2>2. Core'
        BY <1>2, Undisturbed DEF SendFails
  <2> QED BY <2>1, <2>2 DEF IndInv
<1>3. CASE EndBroadcast(b)
  <2>1. /\ handling' \in [at : {"none", "router", "manager", "broker"},
                          id : Ids \cup {Nobody}]
        /\ \/ handling' = handling
           \/ /\ handling'.at # "router"
              /\ handling'.at # "none" => handling'.id \in Ids
    <3>1. CASE b # Bus
          BY <1>0, <1>3, <3>1 DEF EndBroadcast, TypeOK
    <3>2. CASE b = Bus /\ handling.at = "manager"
      <4>1. handling' = [handling EXCEPT !.at = "broker"]
            BY <1>3, <3>2 DEF EndBroadcast
      <4> QED BY <1>0, <3>2, <4>1 DEF TypeOK, WorkNamed
    <3>3. CASE b = Bus /\ handling.at # "manager"
      <4>1. handling' = Quiet
            BY <1>3, <3>3 DEF EndBroadcast
      <4> QED BY <4>1 DEF Quiet
    <3> QED BY <3>1, <3>2, <3>3
  <2>2. NotSending \in [phase : {"idle", "scheduled", "sending"},
                        left : SUBSET Clients]
        BY DEF NotSending
  <2>3. TypeOK'
        BY <1>0, <1>3, <2>1, <2>2 DEF TypeOK, EndBroadcast
  <2>4. Core'
        BY <1>3, <2>1, Undisturbed DEF EndBroadcast
  <2> QED BY <2>3, <2>4 DEF IndInv
<1> QED BY <1>1, <1>2, <1>3 DEF BroadcastStep

LEMMA ClientStepInv ==
  ASSUME IndInv,
         \/ \E c \in Clients : Connect(c) \/ Disconnect(c)
         \/ \E id \in Requests : BroadcastAlert(id)
         \/ ManagerBroadcasts \/ BrokerForwards
  PROVE  IndInv'
<1>1. /\ UNCHANGED <<raised, queue, handling, alerts, holding, audited,
                     accepted>>
      /\ TypeOK
      BY DEF Connect, Disconnect, BroadcastAlert, ManagerBroadcasts,
             BrokerForwards, IndInv
<1>2. /\ connected' \subseteq Clients
      /\ owed' \in [Clients -> SUBSET Ids]
      /\ broadcast' \in [Broadcasts ->
                            [phase : {"idle", "scheduled", "sending"},
                             left : SUBSET Clients]]
      BY <1>1 DEF TypeOK, Connect, Disconnect, BroadcastAlert,
                  ManagerBroadcasts, BrokerForwards, Forgets, Opens
<1>3. TypeOK'
      BY <1>1, <1>2 DEF TypeOK
<1> QED BY <1>1, <1>3, Undisturbed DEF IndInv

LEMMA ManagerRefusesInv == IndInv /\ ManagerRefuses => IndInv'
<1> SUFFICES ASSUME IndInv, ManagerRefuses
             PROVE  IndInv'
    OBVIOUS
<1>1. TypeOK /\ WorkNamed
      BY DEF IndInv, Core
<1>2. handling' = [handling EXCEPT !.at = "broker"]
      BY DEF ManagerRefuses
<1>3. /\ handling' \in [at : {"none", "router", "manager", "broker"},
                        id : Ids \cup {Nobody}]
      /\ handling'.at = "broker" /\ handling'.id = handling.id
      BY <1>1, <1>2 DEF TypeOK
<1>4. handling.at = "manager" /\ LoopFree
      BY DEF ManagerRefuses
<1>5. handling'.id \in Ids
      BY <1>1, <1>3, <1>4 DEF WorkNamed
<1>6. TypeOK'
      BY <1>1, <1>3 DEF TypeOK, ManagerRefuses
<1> QED BY <1>3, <1>4, <1>5, <1>6, Undisturbed DEF IndInv, ManagerRefuses

-----------------------------------------------------------------------------
(* The bus.                                                                *)

LEMMA PublishInv ==
  ASSUME IndInv, NEW id \in Ids, PublishEvent(id)
  PROVE  IndInv'
<1>1. /\ TypeOK /\ Exclusive /\ SizeKept /\ WorkNamed /\ QueueIsRaised
      /\ WaitingAreFresh /\ FoundStays /\ AcknowledgementsStand
      BY DEF IndInv, Core
<1>2. /\ queue \in Seq(Ids) /\ Len(queue) \in Nat /\ IsInjective(queue)
      /\ id \notin raised /\ raised' = raised \cup {id}
      /\ queue' = Append(queue, id)
      /\ UNCHANGED <<handling, alerts, holding, audited, connected,
                     broadcast, accepted>>
      BY <1>1 DEF TypeOK, PublishEvent
<1>3. /\ queue' \in Seq(Ids) /\ Len(queue') = Len(queue) + 1
      /\ DOMAIN queue' = 1..Len(queue') /\ DOMAIN queue = 1..Len(queue)
      /\ \A k \in 1..Len(queue) : queue'[k] = queue[k]
      /\ queue'[Len(queue) + 1] = id
      /\ \A k \in 1..Len(queue') :
           k \in 1..Len(queue) \/ k = Len(queue) + 1
      BY <1>2, AppendProperties
<1>4. \A k \in 1..Len(queue) : queue[k] \in raised
      BY <1>1 DEF QueueIsRaised
<1>5. IsInjective(queue')
      BY <1>2, <1>3, <1>4 DEF IsInjective
<1>6. owed' \in [Clients -> SUBSET Ids]
      BY <1>1 DEF TypeOK, PublishEvent, Owe
<1>7. TypeOK'
      BY <1>1, <1>2, <1>3, <1>5, <1>6 DEF TypeOK
<1>8. QueueIsRaised'
      BY <1>1, <1>2, <1>3, <1>4 DEF QueueIsRaised
<1>9. ASSUME NEW j \in Ids, Waits(j)' PROVE Fresh(j)'
  <2>1. Waits(j)
    <3>1. CASE j = id
          BY <1>2, <3>1 DEF Waits
    <3>2. CASE j # id
          BY <1>2, <1>3, <1>9, <3>2 DEF Waits
    <3> QED BY <3>1, <3>2
  <2> QED BY <1>1, <1>2, <2>1 DEF WaitingAreFresh, Fresh
<1>10. /\ Exclusive' /\ SizeKept' /\ WorkNamed' /\ FoundStays'
       /\ AcknowledgementsStand'
      BY <1>1, <1>2 DEF Exclusive, SizeKept, WorkNamed, FoundStays,
                        AcknowledgementsStand, Stands, Storing
<1> QED BY <1>7, <1>8, <1>9, <1>10 DEF IndInv, Core, WaitingAreFresh

LEMMA TakeEventInv == IndInv /\ TakeEvent => IndInv'
<1> SUFFICES ASSUME IndInv, TakeEvent
             PROVE  IndInv'
    OBVIOUS
<1>1. /\ TypeOK /\ Exclusive /\ SizeKept /\ WorkNamed /\ QueueIsRaised
      /\ WaitingAreFresh /\ FoundStays /\ AcknowledgementsStand
      BY DEF IndInv, Core
<1>2. /\ queue \in Seq(Ids) /\ queue # <<>> /\ IsInjective(queue)
      /\ queue' = Tail(queue) /\ LoopFree
      /\ handling' = [at |-> "router", id |-> Head(queue)]
      /\ UNCHANGED <<raised, alerts, holding, audited, connected, broadcast,
                     owed, accepted>>
      BY <1>1 DEF TypeOK, TakeEvent, FirstSubscriber
<1>3. /\ Head(queue) \in Ids /\ Head(queue) = queue[1]
      /\ Len(queue) \in Nat \ {0}
      /\ queue' \in Seq(Ids) /\ Len(queue') = Len(queue) - 1
      /\ \A k \in 1..Len(queue') : queue'[k] = queue[k + 1]
      BY <1>2, HeadTailProperties
<1>4. /\ DOMAIN queue' = 1..Len(queue') /\ DOMAIN queue = 1..Len(queue)
      /\ \A k \in 1..Len(queue') : k + 1 \in 1..Len(queue)
      /\ 1 \in 1..Len(queue)
      BY <1>2, <1>3
<1>5. IsInjective(queue')
  <2> SUFFICES ASSUME NEW a \in 1..Len(queue'), NEW b \in 1..Len(queue'),
                      queue'[a] = queue'[b]
               PROVE  a = b
      BY <1>4 DEF IsInjective
  <2>1. a + 1 = b + 1
        BY <1>2, <1>3, <1>4 DEF IsInjective
  <2> QED BY <1>3, <2>1
<1>6. \A k \in 1..Len(queue') : queue'[k] # queue[1]
  <2> SUFFICES ASSUME NEW k \in 1..Len(queue'), queue'[k] = queue[1]
               PROVE  FALSE
      OBVIOUS
  <2>1. k + 1 = 1
        BY <1>2, <1>3, <1>4 DEF IsInjective
  <2> QED BY <1>3, <2>1
<1>7. TypeOK'
      BY <1>1, <1>2, <1>3, <1>5 DEF TypeOK
<1>8. QueueIsRaised'
      BY <1>1, <1>2, <1>3, <1>4, <1>6 DEF QueueIsRaised
<1>9. ASSUME NEW j \in Ids, Waits(j)' PROVE Fresh(j)'
  <2>1. Waits(j)
        BY <1>2, <1>3, <1>4, <1>9 DEF Waits
  <2> QED BY <1>1, <1>2, <2>1 DEF WaitingAreFresh, Fresh
<1>10. WorkNamed'
      BY <1>1, <1>2, <1>3 DEF WorkNamed, LoopFree, Released
<1>11. Exclusive' /\ SizeKept' /\ FoundStays' /\ AcknowledgementsStand'
      BY <1>1, <1>2 DEF Exclusive, SizeKept, FoundStays,
                        AcknowledgementsStand, Stands, Storing
<1> QED BY <1>7, <1>8, <1>9, <1>10, <1>11 DEF IndInv, Core, WaitingAreFresh

-----------------------------------------------------------------------------
(* Storing an alert: it is appended, and then the list is cut.             *)

\* Whoever begins is alone in the list, which is no longer than allowed.
LEMMA AloneInTheList ==
  ASSUME TypeOK, SizeKept, NEW p \in Processes, LockFree(p)
  PROVE  /\ holding[Loop] = Released /\ holding[Thread] = Released
         /\ Len(alerts) <= MaxAlerts
<1>1. holding[Loop] = Released /\ holding[Thread] = Released
      BY DEF LockFree
<1> QED BY <1>1 DEF SizeKept, Storing, Released, Processes

LEMMA BeginStoreInv ==
  ASSUME IndInv, NEW p \in Processes, NEW op \in {"routing", "emitting"},
         NEW id \in Ids, Fresh(id), BeginStore(p, op, id),
         UNCHANGED <<queue, handling, accepted>>,
         \/ /\ id \notin raised /\ raised' = raised \cup {id}
            /\ op = "emitting"
         \/ /\ UNCHANGED raised
            /\ p = Loop /\ op = "routing"
            /\ handling.at = "router" /\ handling.id = id
  PROVE  /\ Core' /\ alerts' \in Seq(Records)
         /\ Len(alerts') <= MaxAlerts + 1
         /\ holding' \in [{Loop, Thread} -> Holds]
<1>1. /\ TypeOK /\ Exclusive /\ SizeKept /\ WorkNamed /\ QueueIsRaised
      /\ WaitingAreFresh /\ FoundStays /\ AcknowledgementsStand
      BY DEF IndInv, Core
<1>2. /\ holding[Loop] = Released /\ holding[Thread] = Released
      /\ Len(alerts) <= MaxAlerts
      BY <1>1, AloneInTheList DEF BeginStore
<1>3. /\ alerts' \in Seq(Records) /\ Len(alerts') = Len(alerts) + 1
      /\ AcknowledgementsStand'
      /\ \A j \in Ids : j # id /\ Fresh(j) => Fresh(j)'
      BY <1>1, AppendFacts DEF BeginStore
<1>4. Len(alerts') <= MaxAlerts + 1
      BY <1>1, <1>2, <1>3, AlertsAssumption DEF TypeOK
<1> DEFINE hold == [Released EXCEPT !.op = op, !.id = id]
<1>5. /\ hold \in Holds /\ hold.op = op /\ hold.id = id
      BY DEF Released, Holds
<1>6. /\ holding' = [holding EXCEPT ![p] = hold]
      /\ holding \in [{Loop, Thread} -> Holds]
      BY <1>1 DEF BeginStore, TypeOK
<1> HIDE DEF hold
<1>7. /\ holding' \in [{Loop, Thread} -> Holds]
      /\ holding'[p] = hold
      /\ \A q \in {Loop, Thread} : q # p => holding'[q] = Released
      BY <1>2, <1>5, <1>6 DEF Processes
<1>8. Exclusive' /\ SizeKept'
      BY <1>5, <1>7, LoopIsNotThread
         DEF Exclusive, SizeKept, Storing, Processes
<1>9. WorkNamed'
      BY <1>1, <1>5, <1>7, LoopIsNotThread
         DEF WorkNamed, Processes, Released
<1>10. FoundStays'
      BY <1>5, <1>7, LoopIsNotThread DEF FoundStays, Processes, Released
<1>11. QueueIsRaised'
      BY <1>1 DEF QueueIsRaised
<1>12. ASSUME NEW j \in Ids, Waits(j)' PROVE Fresh(j)'
  <2>1. j # id
    <3>1. CASE raised' = raised \cup {id} /\ id \notin raised
          BY <1>1, <1>12, <3>1 DEF Waits, QueueIsRaised
    <3>2. CASE /\ p = Loop /\ op = "routing"
               /\ handling.at = "router" /\ handling.id = id
               /\ UNCHANGED raised
      <4>1. holding'[Loop].op = "routing"
            BY <1>5, <1>7, <3>2
      <4> QED BY <1>1, <1>12, <3>2, <4>1 DEF Waits, QueueIsRaised
    <3> QED BY <3>1, <3>2
  <2>2. Waits(j)
        BY <1>2, <1>12, <2>1 DEF Waits, Released
  <2> QED BY <1>1, <1>3, <2>1, <2>2 DEF WaitingAreFresh
<1> QED BY <1>3, <1>4, <1>7, <1>8, <1>9, <1>10, <1>11, <1>12
        DEF Core, WaitingAreFresh

LEMMA StoredInv ==
  ASSUME IndInv, NEW p \in Processes, Storing(p), Stored(p),
         UNCHANGED <<raised, queue, accepted>>,
         \/ /\ holding[p].op = "emitting" /\ handling' = handling
         \/ /\ p = Loop /\ holding[p].op = "routing"
            /\ handling'.at \in {"manager", "broker"}
            /\ handling'.id = handling.id
  PROVE  /\ Core' /\ alerts' \in Seq(Records)
         /\ Len(alerts') <= MaxAlerts + 1
         /\ holding' \in [{Loop, Thread} -> Holds]
<1>1. /\ TypeOK /\ Exclusive /\ SizeKept /\ WorkNamed /\ QueueIsRaised
      /\ WaitingAreFresh /\ FoundStays /\ AcknowledgementsStand
      BY DEF IndInv, Core
<1>2. Released.op = "none" /\ Released \in Holds
      BY DEF Released, Holds
<1>3. /\ alerts' \in Seq(Records) /\ Len(alerts') <= MaxAlerts
      /\ AcknowledgementsStand'
      /\ \A j \in Ids : Fresh(j) => Fresh(j)'
      BY <1>1, CutFacts DEF Stored
<1>4. Len(alerts') <= MaxAlerts + 1 /\ SizeKept'
      BY <1>3, AlertsAssumption DEF SizeKept
<1>5. /\ holding' = [holding EXCEPT ![p] = Released]
      /\ holding \in [{Loop, Thread} -> Holds]
      /\ holding[p] # Released
      BY <1>1, <1>2 DEF Stored, TypeOK, Storing
<1>6. \A q \in {Loop, Thread} : holding'[q] = Released
      BY <1>1, <1>5 DEF Exclusive, Processes
<1>7. holding' \in [{Loop, Thread} -> Holds]
      BY <1>2, <1>5 DEF Processes
<1>8. Exclusive' /\ FoundStays'
      BY <1>2, <1>6 DEF Exclusive, FoundStays
<1>9. WorkNamed'
  <2>1. handling'.at # "none" => handling'.id \in Ids
        BY <1>1 DEF WorkNamed, Processes
  <2> QED BY <1>2, <1>6, <2>1 DEF WorkNamed, Processes
<1>10. QueueIsRaised'
      BY <1>1 DEF QueueIsRaised
<1>11. ASSUME NEW j \in Ids, Waits(j)' PROVE Fresh(j)'
  <2>1. CASE holding[p].op = "emitting" /\ handling' = handling
    <3>1. holding[Loop].op # "routing"
      <4>1. CASE p = Loop
            BY <2>1, <4>1
      <4>2. CASE p = Thread
            BY <1>1, <1>2, <1>5, <4>2 DEF Exclusive
      <4> QED BY <4>1, <4>2 DEF Processes
    <3>2. Waits(j)
          BY <1>11, <2>1, <3>1 DEF Waits
    <3> QED BY <1>1, <1>3, <3>2 DEF WaitingAreFresh
  <2>2. CASE handling'.at \in {"manager", "broker"}
    <3>1. Waits(j)
          BY <1>11, <2>2 DEF Waits
    <3> QED BY <1>1, <1>3, <3>1 DEF WaitingAreFresh
  <2> QED BY <2>1, <2>2
<1> QED BY <1>3, <1>4, <1>7, <1>8, <1>9, <1>10, <1>11
        DEF Core, WaitingAreFresh

\* The router's own steps, and those of emit_alert.
LEMMA StoringStepInv ==
  ASSUME IndInv,
         \/ RouterHandlesEvent \/ EventStored
         \/ \E id \in Ids : EmitFromRequest(id) \/ EmitFromThread(id)
         \/ RequestStored \/ ThreadStored
  PROVE  IndInv'
<1>1. /\ TypeOK /\ Exclusive /\ SizeKept /\ WorkNamed /\ QueueIsRaised
      /\ WaitingAreFresh
      BY DEF IndInv, Core
<1>2. Loop \in Processes /\ Thread \in Processes
      BY DEF Processes
<1>3. Released.op = "none"
      BY DEF Released
<1>4. CASE RouterHandlesEvent
  <2>1. /\ handling.at = "router" /\ handling.id \in Ids
        /\ holding[Loop].op # "routing"
        BY <1>1, <1>3, <1>4 DEF RouterHandlesEvent, LoopFree, WorkNamed
  <2>2. Fresh(handling.id)
        BY <1>1, <2>1 DEF WaitingAreFresh, Waits
  <2>3. /\ Core' /\ alerts' \in Seq(Records)
        /\ Len(alerts') <= MaxAlerts + 1
        /\ holding' \in [{Loop, Thread} -> Holds]
        BY <1>2, <1>4, <2>1, <2>2, BeginStoreInv DEF RouterHandlesEvent
  <2> QED BY <1>1, <1>4, <2>3 DEF IndInv, TypeOK, RouterHandlesEvent
<1>5. CASE EventStored
  <2>1. /\ holding[Loop].op = "routing" /\ handling.at = "router"
        /\ handling.id \in Ids
        BY <1>1, <1>5 DEF EventStored, WorkNamed
  <2>2. /\ handling' = [handling EXCEPT !.at = AfterRouter(handling.id)]
        /\ AfterRouter(handling.id) \in {"manager", "broker"}
        BY <1>5 DEF EventStored, AfterRouter
  <2>3. /\ handling' \in [at : {"none", "router", "manager", "broker"},
                          id : Ids \cup {Nobody}]
        /\ handling'.at \in {"manager", "broker"}
        /\ handling'.id = handling.id
        BY <1>1, <2>2 DEF TypeOK
  <2>4. /\ Core' /\ alerts' \in Seq(Records)
        /\ Len(alerts') <= MaxAlerts + 1
        /\ holding' \in [{Loop, Thread} -> Holds]
        BY <1>2, <1>5, <2>1, <2>3, StoredInv DEF EventStored, Storing
  <2>5. audited' \subseteq Ids
        BY <1>1, <1>5, <2>1
           DEF EventStored, WriteAuditEvent, AuditEvent, TypeOK
  <2> QED BY <1>1, <1>5, <2>3, <2>4, <2>5 DEF IndInv, TypeOK, EventStored
<1>6. ASSUME NEW id \in Ids, NEW p \in Processes, id \notin raised,
             AppendAuditEvent(id), raised' = raised \cup {id},
             BeginStore(p, "emitting", id),
             UNCHANGED <<queue, handling, connected, broadcast, accepted>>,
             owed' \in [Clients -> SUBSET Ids]
      PROVE  IndInv'
  <2>1. Fresh(id)
        BY <1>1, <1>6 DEF WaitingAreFresh, Waits
  <2>2. /\ Core' /\ alerts' \in Seq(Records)
        /\ Len(alerts') <= MaxAlerts + 1
        /\ holding' \in [{Loop, Thread} -> Holds]
        BY <1>6, <2>1, BeginStoreInv
  <2>3. audited' \subseteq Ids /\ raised' \subseteq Ids
        BY <1>1, <1>6 DEF AppendAuditEvent, AuditEvent, TypeOK
  <2> QED BY <1>1, <1>6, <2>2, <2>3 DEF IndInv, TypeOK
<1>7. ASSUME NEW id \in Ids, EmitFromRequest(id) PROVE IndInv'
  <2>1. owed' \in [Clients -> SUBSET Ids]
        BY <1>1, <1>7 DEF EmitFromRequest, Owe, TypeOK
  <2> QED BY <1>2, <1>6, <1>7, <2>1 DEF EmitFromRequest
<1>8. ASSUME NEW id \in Ids, EmitFromThread(id) PROVE IndInv'
  <2>1. owed' \in [Clients -> SUBSET Ids]
        BY <1>1, <1>8 DEF EmitFromThread, TypeOK
  <2> QED BY <1>2, <1>6, <1>8, <2>1 DEF EmitFromThread
<1>9. ASSUME NEW p \in Processes, holding[p].op = "emitting", Stored(p),
             WriteAuditEvent(holding[p].id),
             UNCHANGED <<raised, queue, handling, connected, owed, accepted>>,
             broadcast' \in [Broadcasts ->
                               [phase : {"idle", "scheduled", "sending"},
                                left : SUBSET Clients]]
      PROVE  IndInv'
  <2>1. /\ Core' /\ alerts' \in Seq(Records)
        /\ Len(alerts') <= MaxAlerts + 1
        /\ holding' \in [{Loop, Thread} -> Holds]
        BY <1>9, StoredInv DEF Storing
  <2>2. audited' \subseteq Ids
        BY <1>1, <1>9 DEF WriteAuditEvent, AuditEvent, TypeOK, WorkNamed
  <2> QED BY <1>1, <1>9, <2>1, <2>2 DEF IndInv, TypeOK
<1>10. CASE RequestStored
  <2>1. broadcast' \in [Broadcasts ->
                          [phase : {"idle", "scheduled", "sending"},
                           left : SUBSET Clients]]
    <3> DEFINE id == holding[Loop].id
               States == [phase : {"idle", "scheduled", "sending"},
                          left : SUBSET Clients]
    <3>1. /\ broadcast \in [Broadcasts -> States]
          /\ broadcast' = [broadcast EXCEPT ![id].phase = "scheduled"]
          BY <1>1, <1>10 DEF RequestStored, ScheduleBroadcast, TypeOK
    <3>2. \A b \in Broadcasts :
            [broadcast[b] EXCEPT !.phase = "scheduled"] \in States
          BY <3>1
    <3> HIDE DEF id, States
    <3>3. broadcast' \in [Broadcasts -> States]
          BY <3>1, <3>2
    <3> QED BY <3>3 DEF States
  <2> QED BY <1>2, <1>9, <1>10, <2>1 DEF RequestStored
<1>11. CASE ThreadStored
      BY <1>1, <1>2, <1>9, <1>11 DEF ThreadStored, TypeOK
<1> QED BY <1>4, <1>5, <1>7, <1>8, <1>10, <1>11

-----------------------------------------------------------------------------
(* Acknowledgements.                                                       *)

LEMMA FindAlertInv ==
  ASSUME IndInv, NEW id \in Ids, NEW o \in Actors, FindAlert(id, o)
  PROVE  IndInv'
<1>1. /\ TypeOK /\ Exclusive /\ SizeKept /\ WorkNamed /\ QueueIsRaised
      /\ WaitingAreFresh /\ AcknowledgementsStand
      BY DEF IndInv, Core
<1>2. /\ UNCHANGED <<raised, queue, handling, alerts, audited, connected,
                     broadcast, owed, accepted>>
      /\ holding[Loop] = Released /\ holding[Thread] = Released
      /\ Len(alerts) <= MaxAlerts
      BY <1>1, AloneInTheList DEF FindAlert, Processes
<1>3. PICK i \in DOMAIN alerts :
        /\ alerts[i] = [id |-> id, by |-> Nobody]
        /\ holding' = [holding EXCEPT
             ![Loop] = [op |-> "acknowledging", id |-> id, index |-> i,
                        actor |-> o]]
      BY DEF FindAlert
<1>4. i \in 1..Len(alerts) /\ i \in Nat
      BY <1>1, <1>3 DEF TypeOK
<1> DEFINE hold == [op |-> "acknowledging", id |-> id, index |-> i,
                    actor |-> o]
<1>5. /\ hold \in Holds /\ hold.op = "acknowledging" /\ hold.id = id
      /\ hold.index = i /\ hold.actor = o
      BY <1>4 DEF Holds
<1>6. /\ holding' = [holding EXCEPT ![Loop] = hold]
      /\ holding \in [{Loop, Thread} -> Holds]
      BY <1>1, <1>3 DEF TypeOK
<1> HIDE DEF hold
<1>7. /\ holding' \in [{Loop, Thread} -> Holds]
      /\ holding'[Loop] = hold /\ holding'[Thread] = Released
      BY <1>2, <1>5, <1>6, LoopIsNotThread
<1>8. TypeOK'
      BY <1>1, <1>2, <1>7 DEF TypeOK
<1>9. Exclusive' /\ SizeKept' /\ QueueIsRaised'
      BY <1>1, <1>2, <1>7 DEF Exclusive, SizeKept, QueueIsRaised
<1>10. WorkNamed'
      BY <1>1, <1>2, <1>5, <1>7 DEF WorkNamed, Processes, Released
<1>11. FoundStays'
      BY <1>2, <1>3, <1>4, <1>5, <1>7 DEF FoundStays
<1>12. ASSUME NEW j \in Ids, Waits(j)' PROVE Fresh(j)'
  <2>1. Waits(j)
        BY <1>2, <1>5, <1>7, <1>12 DEF Waits, Released
  <2> QED BY <1>1, <1>2, <2>1 DEF WaitingAreFresh, Fresh
<1>13. AcknowledgementsStand'
      BY <1>1, <1>2 DEF AcknowledgementsStand, Stands
<1> QED BY <1>8, <1>9, <1>10, <1>11, <1>12, <1>13
        DEF IndInv, Core, WaitingAreFresh

LEMMA AcknowledgeInv == IndInv /\ Acknowledge => IndInv'
<1> SUFFICES ASSUME IndInv, Acknowledge
             PROVE  IndInv'
    OBVIOUS
<1> DEFINE n == holding[Loop].index
           id == holding[Loop].id
           o == holding[Loop].actor
<1>1. /\ TypeOK /\ Exclusive /\ SizeKept /\ WorkNamed /\ QueueIsRaised
      /\ WaitingAreFresh /\ FoundStays /\ AcknowledgementsStand
      BY DEF IndInv, Core
<1>2. /\ alerts \in Seq(Records) /\ Len(alerts) \in Nat
      /\ DOMAIN alerts = 1..Len(alerts)
      /\ Len(alerts) <= MaxAlerts + 1
      /\ holding \in [{Loop, Thread} -> Holds]
      BY <1>1 DEF TypeOK
<1>3. /\ holding[Loop].op = "acknowledging"
      /\ alerts' = [i \in 1..Len(alerts) |->
                      IF i = n THEN [id |-> id, by |-> o] ELSE alerts[i]]
      /\ holding' = [holding EXCEPT ![Loop] = Released]
      /\ accepted' = accepted \cup {<<id, o>>}
      /\ UNCHANGED <<raised, queue, handling, audited, connected, broadcast,
                     owed>>
      BY <1>2 DEF Acknowledge
<1>4. /\ n \in 1..Len(alerts) /\ o \in Actors /\ id \in Ids
      /\ alerts[n] = [id |-> id, by |-> Nobody]
      BY <1>1, <1>3 DEF FoundStays, WorkNamed, Processes
<1>5. /\ Released.op = "none" /\ Released \in Holds
      /\ holding[Loop] # Released
      BY <1>3 DEF Released, Holds
<1>6. /\ holding' \in [{Loop, Thread} -> Holds]
      /\ holding'[Loop] = Released /\ holding'[Thread] = Released
      BY <1>1, <1>2, <1>3, <1>5, LoopIsNotThread DEF Exclusive
<1> HIDE DEF n, id, o
<1>7. [id |-> id, by |-> o] \in Records
      BY <1>4 DEF Records
<1>8. /\ alerts' \in Seq(Records) /\ Len(alerts') = Len(alerts)
      /\ DOMAIN alerts' = 1..Len(alerts)
      /\ \A i \in 1..Len(alerts) :
           alerts'[i] = IF i = n THEN [id |-> id, by |-> o] ELSE alerts[i]
  <2>1. alerts' \in [1..Len(alerts) -> Records]
        BY <1>2, <1>3, <1>7, ElementOfSeq
  <2> QED BY <1>2, <1>3, <2>1
<1>9. \A i \in 1..Len(alerts) : alerts'[i].id = alerts[i].id
      BY <1>4, <1>8
<1>10. accepted' \subseteq Ids \X Actors
      BY <1>1, <1>3, <1>4 DEF TypeOK
<1>11. TypeOK'
      BY <1>1, <1>2, <1>3, <1>6, <1>8, <1>10 DEF TypeOK
<1>12. /\ Exclusive' /\ WorkNamed' /\ QueueIsRaised' /\ FoundStays'
      BY <1>1, <1>3, <1>5, <1>6
         DEF Exclusive, WorkNamed, QueueIsRaised, FoundStays, Processes
<1>13. SizeKept'
  <2>1. Len(alerts) <= MaxAlerts
        BY <1>1, <1>3, <1>5 DEF SizeKept, Storing, Exclusive, Processes
  <2> QED BY <1>8, <2>1 DEF SizeKept
<1>14. ASSUME NEW j \in Ids, Waits(j)' PROVE Fresh(j)'
  <2>1. Waits(j)
        BY <1>3, <1>14 DEF Waits
  <2>2. Fresh(j)
        BY <1>1, <2>1 DEF WaitingAreFresh
  <2>3. j # id
        BY <1>4, <2>2 DEF Fresh
  <2> QED BY <1>3, <1>8, <1>9, <2>2, <2>3 DEF Fresh
<1>15. AcknowledgementsStand'
  <2>1. \A i, k \in DOMAIN alerts' : alerts'[i].id = alerts'[k].id => i = k
        BY <1>1, <1>2, <1>8, <1>9 DEF AcknowledgementsStand
  <2>2. ASSUME NEW i \in 1..Len(alerts) PROVE Stands(alerts[i])'
    <3>1. Stands(alerts[i])
          BY <1>1, <1>2 DEF AcknowledgementsStand
    <3>2. CASE i = n
      <4>1. alerts'[i].id = id /\ alerts'[i].by = o
            BY <1>8, <3>2
      <4>2. \A u \in Actors : <<id, u>> \notin accepted
            BY <1>4, <3>1, <3>2 DEF Stands
      <4>3. {u \in Actors : <<id, u>> \in accepted'} = {o}
            BY <1>3, <1>4, <4>2
      <4>4. o # Nobody
            BY <1>4, AlertsAssumption DEF Nobody
      <4> QED BY <4>1, <4>3, <4>4 DEF Stands
    <3>3. CASE i # n
      <4>1. alerts'[i] = alerts[i]
            BY <1>8, <3>3
      <4>2. alerts[i].id # id
            BY <1>1, <1>2, <1>4, <3>3 DEF AcknowledgementsStand
      <4>3. \A u \in Actors :
              <<alerts[i].id, u>> \in accepted' <=>
                <<alerts[i].id, u>> \in accepted
            BY <1>3, <4>2
      <4> QED BY <3>1, <4>1, <4>3 DEF Stands
    <3> QED BY <3>2, <3>3
  <2> QED BY <1>8, <2>1, <2>2 DEF AcknowledgementsStand
<1> QED BY <1>11, <1>12, <1>13, <1>14, <1>15 DEF IndInv, Core, WaitingAreFresh

-----------------------------------------------------------------------------
(* What is shown is on record.                                             *)

\* Appending to the list, or giving its alerts another name of who
\* acknowledged them, keeps what it keeps; so does cutting it, and the
\* alert that was appended last is cut off by no step of its own.
LEMMA KeptStays ==
  ASSUME TypeOK, alerts' \in Seq(Records),
         \/ /\ Len(alerts') >= Len(alerts)
            /\ \A i \in 1..Len(alerts) : alerts'[i].id = alerts[i].id
         \/ alerts' = Cut(alerts)
  PROVE  /\ \A j \in Ids : Kept(j) => Kept(j)'
         /\ \A j \in Ids :
              Len(alerts) > 0 /\ alerts[Len(alerts)].id = j => Kept(j)'
<1>1. /\ alerts \in Seq(Records) /\ Len(alerts) \in Nat
      /\ Len(alerts') \in Nat /\ Len(alerts) <= MaxAlerts + 1
      /\ MaxAlerts \in Nat \ {0}
      BY AlertsAssumption DEF TypeOK
<1>2. CASE /\ Len(alerts') >= Len(alerts)
           /\ \A i \in 1..Len(alerts) : alerts'[i].id = alerts[i].id
  <2>1. \A i \in 1..Len(alerts) : i \in 1..Len(alerts')
        BY <1>1, <1>2
  <2>2. Len(alerts) > 0 => Len(alerts) \in 1..Len(alerts)
        BY <1>1
  <2> QED BY <1>1, <1>2, <2>1, <2>2 DEF Kept
<1>3. CASE alerts' = Cut(alerts) /\ Len(alerts) > MaxAlerts
  <2>1. alerts' = SubSeq(alerts, 2, Len(alerts))
        BY <1>3 DEF Cut
  <2>2. Len(SubSeq(alerts, 2, Len(alerts))) = Len(alerts) - 1
        BY <1>1, <1>3
  <2>3. Len(alerts') >= MaxAlerts
        BY <1>1, <1>3, <2>1, <2>2
  <2> QED BY <2>3 DEF Kept
<1>4. CASE alerts' = Cut(alerts) /\ ~(Len(alerts) > MaxAlerts)
  <2>1. alerts' = alerts
        BY <1>4 DEF Cut
  <2>2. Len(alerts) > 0 => Len(alerts) \in 1..Len(alerts)
        BY <1>1
  <2> QED BY <2>1, <2>2 DEF Kept
<1> QED BY <1>2, <1>3, <1>4

LEMMA RecordedInit == Init => Recorded
<1> SUFFICES ASSUME Init
             PROVE  Recorded
    OBVIOUS
<1>1. /\ holding[Loop].op = "none" /\ handling.at = "none"
      /\ \A b \in Broadcasts : broadcast[b].phase = "idle"
      BY DEF Init, Released, Quiet, NotSending
<1> QED BY <1>1 DEF Recorded, Broadcasts

\* Steps of the bus, of broadcasts and of clients: the list, the lock and
\* the audit log stay as they are.
LEMMA RecordedUndisturbed ==
  ASSUME IndInv, Recorded, UNCHANGED <<alerts, holding, audited>>,
         \/ \E b \in Broadcasts : BroadcastStep(b)
         \/ TakeEvent \/ ManagerRefuses \/ ManagerBroadcasts \/ BrokerForwards
         \/ \E id \in Requests : BroadcastAlert(id)
         \/ UNCHANGED <<handling, broadcast>>
  PROVE  Recorded'
<1> DEFINE States == [phase : {"idle", "scheduled", "sending"},
                      left : SUBSET Clients]
<1>1. /\ broadcast \in [Broadcasts -> States]
      /\ handling \in [at : {"none", "router", "manager", "broker"},
                       id : Ids \cup {Nobody}]
      /\ Bus \in Broadcasts /\ Bus \notin Requests
      /\ \A b \in Requests : b \in Broadcasts
      BY AlertsAssumption DEF IndInv, TypeOK, Broadcasts, Bus, Ids
<1>2. \A j : Kept(j)' <=> Kept(j)
      BY DEF Kept
<1>3. ASSUME \/ handling' = handling
             \/ handling'.at \notin {"manager", "broker"}
             \/ /\ handling.at \in {"manager", "broker"}
                /\ handling'.id = handling.id,
             broadcast'[Bus].phase # "idle" =>
               handling'.at \in {"manager", "broker"},
             \A b \in Requests :
               broadcast'[b].phase # "idle" => broadcast[b].phase # "idle"
      PROVE  Recorded'
      BY <1>2, <1>3 DEF Recorded
<1>4. ASSUME NEW b \in Broadcasts, BroadcastStep(b) PROVE Recorded'
  <2>1. CASE EndBroadcast(b)
    <3>1. /\ broadcast' = [broadcast EXCEPT ![b] = NotSending]
          /\ NotSending.phase = "idle" /\ broadcast[b].phase = "sending"
          BY <2>1 DEF EndBroadcast, NotSending
    <3>2. \A c \in Broadcasts :
            broadcast'[c].phase # "idle" => c # b /\ broadcast[c].phase # "idle"
          BY <1>1, <3>1
    <3>3. CASE b # Bus
      <4>1. handling' = handling
            BY <2>1, <3>3 DEF EndBroadcast
      <4> QED BY <1>1, <1>3, <3>2, <4>1 DEF Recorded
    <3>4. CASE b = Bus
      <4>1. handling.at \in {"manager", "broker"}
            BY <3>1, <3>4 DEF Recorded
      <4>2. \/ handling'.at \notin {"manager", "broker"}
            \/ handling'.id = handling.id
            BY <1>1, <2>1, <3>4 DEF EndBroadcast, Quiet
      <4> QED BY <1>1, <1>3, <3>2, <3>4, <4>1, <4>2
    <3> QED BY <3>3, <3>4
  <2>2. ASSUME NEW c \in Clients, SendJson(b, c) \/ SendFails(b, c)
        PROVE  Recorded'
    <3>1. /\ \A d \in Broadcasts : broadcast'[d].phase = broadcast[d].phase
          /\ handling' = handling
          BY <1>1, <2>2 DEF SendJson, SendFails
    <3> QED BY <1>1, <1>3, <3>1 DEF Recorded
  <2> QED BY <1>4, <2>1, <2>2 DEF BroadcastStep
<1>5. CASE TakeEvent
  <2>1. broadcast[Bus].phase = "idle" /\ broadcast' = broadcast
        BY <1>5 DEF TakeEvent, Recorded, Quiet
  <2>2. handling'.at = "router"
        BY <1>5 DEF TakeEvent, FirstSubscriber
  <2> QED BY <1>3, <2>1, <2>2
<1>6. CASE ManagerRefuses
  <2>1. /\ handling.at = "manager" /\ handling'.at = "broker"
        /\ handling'.id = handling.id /\ broadcast' = broadcast
        BY <1>1, <1>6 DEF ManagerRefuses
  <2> QED BY <1>3, <2>1
<1>7. ASSUME ManagerBroadcasts \/ BrokerForwards PROVE Recorded'
  <2>1. /\ handling' = handling /\ handling.at \in {"manager", "broker"}
        /\ \A b \in Requests : broadcast'[b] = broadcast[b]
        BY <1>1, <1>7 DEF ManagerBroadcasts, BrokerForwards, Opens
  <2> QED BY <1>3, <2>1
<1>8. ASSUME NEW id \in Requests, BroadcastAlert(id) PROVE Recorded'
  <2>1. /\ handling' = handling /\ broadcast[id].phase = "scheduled"
        /\ \A b \in Broadcasts : b # id => broadcast'[b] = broadcast[b]
        BY <1>1, <1>8 DEF BroadcastAlert, Opens
  <2>2. \A b \in Requests :
          broadcast'[b].phase # "idle" => broadcast[b].phase # "idle"
        BY <1>1, <2>1
  <2>3. broadcast'[Bus] = broadcast[Bus]
        BY <1>1, <2>1
  <2> QED BY <1>3, <2>1, <2>2, <2>3 DEF Recorded
<1>9. CASE UNCHANGED <<handling, broadcast>>
      BY <1>3, <1>9 DEF Recorded
<1> QED BY <1>4, <1>5, <1>6, <1>7, <1>8, <1>9

LEMMA RecordedBegins ==
  ASSUME IndInv, Recorded, NEW p \in Processes, NEW id \in Ids,
         NEW op \in {"routing", "emitting"}, BeginStore(p, op, id),
         audited \subseteq audited', op = "emitting" => id \in audited',
         UNCHANGED <<handling, broadcast>>
  PROVE  Recorded'
<1>1. /\ TypeOK /\ SizeKept
      /\ holding \in [{Loop, Thread} -> Holds]
      BY DEF IndInv, Core, TypeOK
<1>2. holding[Loop] = Released /\ Released.op = "none"
      BY <1>1, AloneInTheList DEF BeginStore, Released
<1> DEFINE new == [id |-> id, by |-> Nobody]
           hold == [Released EXCEPT !.op = op, !.id = id]
<1>3. /\ alerts \in Seq(Records) /\ new \in Records /\ new.id = id
      /\ alerts' = Append(alerts, new) /\ Len(alerts) \in Nat
      BY <1>1 DEF TypeOK, Records, BeginStore
<1>4. /\ holding' = [holding EXCEPT ![p] = hold]
      /\ hold.op = op /\ hold.id = id
      BY DEF BeginStore, Released
<1> HIDE DEF new, hold
<1>5. /\ alerts' \in Seq(Records) /\ Len(alerts') = Len(alerts) + 1
      /\ \A i \in 1..Len(alerts) : alerts'[i] = alerts[i]
      /\ alerts'[Len(alerts')].id = id /\ Len(alerts') > 0
      BY <1>3, AppendProperties
<1>6. \A j \in Ids : Kept(j) => Kept(j)'
      BY <1>1, <1>3, <1>5, KeptStays
<1>7. \/ holding'[Loop].op = op /\ holding'[Loop].id = id
      \/ holding'[Loop].op = "none"
      BY <1>1, <1>2, <1>4 DEF Processes
<1>8. /\ handling.at # "none" => handling.id \in Ids
      /\ \A b \in Requests : b \in Ids
      BY DEF IndInv, Core, WorkNamed, Ids
<1>9. handling'.at \in {"manager", "broker"} =>
        /\ Kept(handling.id)'
        /\ Severity[handling.id] # "info" => handling.id \in audited'
      BY <1>6, <1>8 DEF Recorded
<1>10. \A b \in Requests :
         broadcast'[b].phase # "idle" => Kept(b)' /\ b \in audited'
      BY <1>6, <1>8 DEF Recorded
<1> QED BY <1>5, <1>7, <1>9, <1>10 DEF Recorded

LEMMA RecordedEnds ==
  ASSUME IndInv, Recorded, EventStored \/ RequestStored \/ ThreadStored
  PROVE  Recorded'
<1>1. /\ TypeOK /\ WorkNamed /\ Exclusive /\ AcknowledgementsStand
      /\ Loop \in Processes /\ Thread \in Processes
      /\ handling \in [at : {"none", "router", "manager", "broker"},
                       id : Ids \cup {Nobody}]
      /\ holding \in [{Loop, Thread} -> Holds]
      BY DEF IndInv, Core, TypeOK, Processes
<1>2. Released.op = "none"
      BY DEF Released
<1>3. PICK p \in Processes :
        /\ holding[p].op \in {"routing", "emitting"}
        /\ Stored(p) /\ WriteAuditEvent(holding[p].id)
      BY <1>1 DEF EventStored, RequestStored, ThreadStored, WorkNamed
<1>4. holding'[Loop].op = "none"
      BY <1>1, <1>2, <1>3, LoopIsNotThread
         DEF Stored, Exclusive, Processes
<1>5. alerts' = Cut(alerts) /\ alerts' \in Seq(Records)
      BY <1>1, <1>3, CutFacts DEF Stored, EventStored, RequestStored,
                                  ThreadStored
<1>6. /\ \A j \in Ids : Kept(j) => Kept(j)'
      /\ \A j \in Ids :
           Len(alerts) > 0 /\ alerts[Len(alerts)].id = j => Kept(j)'
      BY <1>1, <1>5, KeptStays
<1>7. /\ handling.at # "none" => handling.id \in Ids
      /\ \A b \in Requests : b \in Ids /\ b \in Broadcasts
      /\ Bus \in Broadcasts /\ Bus \notin Ids
      BY <1>1, AlertsAssumption DEF WorkNamed, Ids, Broadcasts, Bus
<1>8. audited \subseteq audited'
      BY <1>3 DEF WriteAuditEvent, AuditEvent
<1>9. CASE EventStored
  <2>1. /\ handling' = [handling EXCEPT !.at = AfterRouter(handling.id)]
        /\ AfterRouter(handling.id) \in {"manager", "broker"}
        BY <1>9 DEF EventStored, AfterRouter
  <2>2. /\ handling'.id = handling.id
        /\ handling'.at \in {"manager", "broker"}
        BY <1>1, <2>1
  <2>3. \A j \in Ids : j = handling.id => Kept(j)'
        BY <1>1, <1>6, <1>9 DEF Recorded, EventStored, WorkNamed
  <2>4. handling.id \in Ids
        BY <1>1, <1>9 DEF EventStored, WorkNamed
  <2>5. Severity[handling.id] # "info" => handling.id \in audited'
        BY <1>9 DEF EventStored, WriteAuditEvent, AuditEvent
  <2>6. \A b \in Requests :
          broadcast'[b].phase # "idle" => Kept(b)' /\ b \in audited'
        BY <1>6, <1>7, <1>8, <1>9 DEF Recorded, EventStored
  <2>7. Kept(handling.id)'
        BY <2>2, <2>3, <2>4
  <2> QED BY <1>4, <2>2, <2>5, <2>6, <2>7 DEF Recorded
<1>10. ASSUME handling' = handling, broadcast'[Bus] = broadcast[Bus],
              \A b \in Requests :
                \/ broadcast'[b] = broadcast[b]
                \/ Kept(b)' /\ b \in audited'
       PROVE  Recorded'
  <2>1. handling'.at \in {"manager", "broker"} =>
          /\ Kept(handling.id)'
          /\ Severity[handling.id] # "info" => handling.id \in audited'
        BY <1>6, <1>7, <1>8, <1>10 DEF Recorded
  <2>2. \A b \in Requests :
          broadcast'[b].phase # "idle" => Kept(b)' /\ b \in audited'
        BY <1>6, <1>7, <1>8, <1>10 DEF Recorded
  <2> QED BY <1>4, <1>10, <2>1, <2>2 DEF Recorded
<1>11. CASE RequestStored
  <2> DEFINE id == holding[Loop].id
             States == [phase : {"idle", "scheduled", "sending"},
                        left : SUBSET Clients]
  <2>1. /\ id \in Ids /\ id \in audited'
        /\ \A j \in Ids : j = id => Kept(j)'
        BY <1>1, <1>6, <1>8, <1>11 DEF Recorded, RequestStored, WorkNamed
  <2>2. /\ broadcast \in [Broadcasts -> States]
        /\ broadcast' = [broadcast EXCEPT ![id].phase = "scheduled"]
        BY <1>1, <1>11 DEF RequestStored, ScheduleBroadcast, TypeOK
  <2> HIDE DEF id, States
  <2>3. \A b \in Broadcasts : b # id => broadcast'[b] = broadcast[b]
        BY <2>2
  <2>4. handling' = handling
        BY <1>11 DEF RequestStored
  <2> QED BY <1>7, <1>10, <2>1, <2>3, <2>4
<1>12. CASE ThreadStored
      BY <1>10, <1>12 DEF ThreadStored
<1> QED BY <1>9, <1>11, <1>12

LEMMA RecordedStep == IndInv /\ Recorded /\ [Next]_vars => Recorded'
<1> SUFFICES ASSUME IndInv, Recorded, [Next]_vars
             PROVE  Recorded'
    OBVIOUS
<1>1. /\ TypeOK /\ WorkNamed /\ FoundStays
      /\ holding \in [{Loop, Thread} -> Holds]
      /\ Loop \in Processes /\ Thread \in Processes
      BY DEF IndInv, Core, TypeOK, Processes
<1>2. CASE RouterHandlesEvent
  <2>1. handling.id \in Ids
        BY <1>1, <1>2 DEF RouterHandlesEvent, WorkNamed
  <2> QED BY <1>1, <1>2, <2>1, RecordedBegins DEF RouterHandlesEvent
<1>3. ASSUME NEW id \in Ids, EmitFromRequest(id) \/ EmitFromThread(id)
      PROVE  Recorded'
  <2>1. audited \subseteq audited' /\ id \in audited'
        BY <1>3 DEF EmitFromRequest, EmitFromThread, AppendAuditEvent,
                    AuditEvent
  <2> QED BY <1>1, <1>3, <2>1, RecordedBegins
             DEF EmitFromRequest, EmitFromThread
<1>4. ASSUME NEW id \in Ids, NEW o \in Actors, FindAlert(id, o)
      PROVE  Recorded'
  <2>1. /\ UNCHANGED <<handling, alerts, audited, broadcast>>
        /\ holding'[Loop].op = "acknowledging"
        BY <1>1, <1>4 DEF FindAlert
  <2>2. \A j : Kept(j)' <=> Kept(j)
        BY <2>1 DEF Kept
  <2> QED BY <2>1, <2>2 DEF Recorded
<1>5. CASE Acknowledge
  <2>1. /\ UNCHANGED <<handling, audited, broadcast>>
        /\ holding'[Loop].op = "none"
        BY <1>1, <1>5 DEF Acknowledge, Released
  <2>2. /\ alerts' \in Seq(Records) /\ Len(alerts') = Len(alerts)
        /\ \A i \in 1..Len(alerts) : alerts'[i].id = alerts[i].id
    <3> DEFINE h == holding[Loop]
    <3>1. alerts \in Seq(Records) /\ DOMAIN alerts = 1..Len(alerts)
          BY <1>1 DEF TypeOK
    <3>2. /\ h.index \in 1..Len(alerts) /\ alerts[h.index].id = h.id
          /\ [id |-> h.id, by |-> h.actor] \in Records
          BY <1>1, <1>5 DEF FoundStays, Acknowledge, WorkNamed, Records
    <3>3. alerts' = [i \in 1..Len(alerts) |->
                       IF i = h.index THEN [id |-> h.id, by |-> h.actor]
                       ELSE alerts[i]]
          BY <1>5, <3>1 DEF Acknowledge
    <3> HIDE DEF h
    <3>4. alerts' \in [1..Len(alerts) -> Records]
          BY <3>1, <3>2, <3>3, ElementOfSeq
    <3> QED BY <3>1, <3>2, <3>3, <3>4
  <2>3. \A j \in Ids : Kept(j) => Kept(j)'
    <3>1. Len(alerts') >= Len(alerts)
          BY <1>1, <2>2 DEF TypeOK
    <3> QED BY <1>1, <2>2, <3>1, KeptStays
  <2>4. /\ handling.at # "none" => handling.id \in Ids
        /\ \A b \in Requests : b \in Ids
        BY <1>1 DEF WorkNamed, Ids
  <2> QED BY <2>1, <2>3, <2>4 DEF Recorded
<1>6. ASSUME NEW id \in Ids, PublishEvent(id) PROVE Recorded'
      BY <1>6, RecordedUndisturbed DEF PublishEvent
<1>7. ASSUME NEW c \in Clients, Connect(c) \/ Disconnect(c) PROVE Recorded'
      BY <1>7, RecordedUndisturbed DEF Connect, Disconnect
<1>8. ASSUME NEW b \in Broadcasts, BroadcastStep(b) PROVE Recorded'
  <2>1. UNCHANGED <<alerts, holding, audited>>
        BY <1>8 DEF BroadcastStep, SendJson, SendFails, EndBroadcast
  <2> QED BY <1>8, <2>1, RecordedUndisturbed
<1>9. CASE TakeEvent \/ ManagerRefuses \/ ManagerBroadcasts \/ BrokerForwards
  <2>1. UNCHANGED <<alerts, holding, audited>>
        BY <1>9 DEF TakeEvent, ManagerRefuses, ManagerBroadcasts,
                    BrokerForwards
  <2> QED BY <1>9, <2>1, RecordedUndisturbed
<1>10. ASSUME NEW id \in Requests, BroadcastAlert(id) PROVE Recorded'
      BY <1>10, RecordedUndisturbed DEF BroadcastAlert
<1>11. CASE UNCHANGED vars
      BY <1>11, RecordedUndisturbed DEF vars
<1> QED
    BY <1>2, <1>3, <1>4, <1>5, <1>6, <1>7, <1>8, <1>9, <1>10, <1>11,
       RecordedEnds
       DEF Next, BusStep

-----------------------------------------------------------------------------
(* The theorems.                                                           *)

LEMMA NextInv == IndInv /\ [Next]_vars => IndInv'
<1> SUFFICES ASSUME IndInv, [Next]_vars
             PROVE  IndInv'
    OBVIOUS
<1>1. CASE Next
      BY <1>1, BroadcastStepInv, ClientStepInv, ManagerRefusesInv, PublishInv,
         TakeEventInv, StoringStepInv, FindAlertInv, AcknowledgeInv
         DEF Next, BusStep
<1>2. CASE UNCHANGED vars
  <2>1. TypeOK'
        BY <1>2 DEF IndInv, TypeOK, vars
  <2> QED BY <1>2, <2>1, Undisturbed DEF IndInv, vars
<1> QED BY <1>1, <1>2

LEMMA InvariantHolds == Spec => []IndInv
BY InitInv, NextInv, PTL DEF Spec

(* Every variable of the alerts keeps its type: the router's list is never *)
(* more than one alert longer than it is allowed to be.                    *)
THEOREM AlertsTypeCorrect == Spec => []TypeOK
<1>1. IndInv => TypeOK
      BY DEF IndInv
<1> QED BY <1>1, InvariantHolds, PTL

(* However storing, cutting and acknowledging interleave between the event *)
(* loop and a provisioning thread, no alert is listed twice, and the one   *)
(* who was told that an alert is acknowledged is the one it names.         *)
THEOREM AcknowledgedIsAcknowledged == Spec => []AcknowledgementsStand
<1>1. IndInv => AcknowledgementsStand
      BY DEF IndInv, Core
<1> QED BY <1>1, InvariantHolds, PTL

(* What a client is being shown is in the router's list, unless that is    *)
(* full of later alerts, and in the audit log when a request caused it or  *)
(* it is more than information.                                            *)
THEOREM ShownAlertsAreOnRecord == Spec => []ShownIsOnRecord
<1>1. IndInv /\ Recorded => ShownIsOnRecord
  <2> SUFFICES ASSUME IndInv, Recorded, NEW b \in Broadcasts,
                      broadcast[b].phase = "sending"
               PROVE  /\ Message(b) \in Listed \/ Len(alerts) >= MaxAlerts
                      /\ Severity[Message(b)] # "info" \/ b \in Requests =>
                           Message(b) \in audited
      BY DEF ShownIsOnRecord
  <2>1. DOMAIN alerts = 1..Len(alerts)
        BY DEF IndInv, TypeOK
  <2>2. Kept(Message(b)) => Message(b) \in Listed \/ Len(alerts) >= MaxAlerts
        BY <2>1 DEF Kept, Listed
  <2>3. CASE b = Bus
    <3>1. handling.at \in {"manager", "broker"} /\ b \notin Requests
          BY <2>3, AlertsAssumption DEF Recorded, Ids, Bus
    <3> QED BY <2>2, <2>3, <3>1 DEF Recorded, Message
  <2>4. CASE b # Bus
    <3>1. b \in Requests
          BY <2>4 DEF Broadcasts
    <3> QED BY <2>2, <2>4, <3>1 DEF Recorded, Message
  <2> QED BY <2>3, <2>4
<1> QED BY <1>1, InitInv, NextInv, RecordedInit, RecordedStep, PTL DEF Spec
=============================================================================
