-------------------------- MODULE Supervision_proofs --------------------------
(***************************************************************************)
(* The safety of the two services that hear the state monitors, for any    *)
(* robots, battery levels and bus.  For BatteryManager the invariant says  *)
(* what the bus has to do with it: of the crossings of a robot that wait   *)
(* there the last one agrees with the monitor's latch, and when none waits *)
(* charging mode does.  For LogisticsWatchdog it is the fact its liveness  *)
(* rests on.                                                               *)
(***************************************************************************)
EXTENDS BatteryManager, LogisticsWatchdog, SequenceTheorems, TLAPS

-----------------------------------------------------------------------------
(* The invariant of the battery manager.                                   *)

Crossing(e, r) == e.robot = r /\ e.kind \in Crossings

\* A crossing names its robot.
CrossingsNamed ==
  \A i \in 1..Len(bus) : bus[i].kind \in Crossings => bus[i].robot \in Robots

\* The last crossing of r that waits is bus[i].
LastCrossing(r, i) ==
  /\ Crossing(bus[i], r)
  /\ \A k \in 1..Len(bus) : k > i => ~Crossing(bus[k], r)

NoCrossing(r) == \A i \in 1..Len(bus) : ~Crossing(bus[i], r)

Agrees(r) ==
  /\ NoCrossing(r) => (charging[r] <=> latch[r] = "critical")
  /\ \A i \in 1..Len(bus) :
       LastCrossing(r, i) => (bus[i].kind = "critical" <=> latch[r] = "critical")

IndInv ==
  /\ TypeOK
  /\ CrossingsNamed
  /\ PauseHasAReason
  /\ \A r \in Robots : ~missed[r] => Agrees(r)

-----------------------------------------------------------------------------
(* What the bus takes.                                                     *)

LEMMA OfferFacts ==
  ASSUME MonitorTypeOK, NEW events \in Seq(Events)
  PROVE  LET after == Offer(events) IN
         /\ after \in Seq(Events) /\ Len(after) <= BusCapacity
         /\ Len(bus) <= Len(after)
         /\ Len(after) <= Len(bus) + Len(events)
         /\ Fits(events) => Len(after) = Len(bus) + Len(events)
         /\ \A i \in 1..Len(bus) : after[i] = bus[i]
         /\ \A i \in Len(bus) + 1 .. Len(after) :
              after[i] = events[i - Len(bus)]
<1> DEFINE all  == bus \o events
           size == IF Len(all) < BusCapacity THEN Len(all) ELSE BusCapacity
<1>1. /\ bus \in Seq(Events) /\ Len(bus) \in Nat /\ Len(bus) <= BusCapacity
      /\ Len(events) \in Nat /\ BusCapacity \in Nat
      BY MonitorAssumption DEF MonitorTypeOK
<1>2. /\ all \in Seq(Events) /\ Len(all) = Len(bus) + Len(events)
      /\ \A i \in 1..Len(all) :
           all[i] = IF i <= Len(bus) THEN bus[i] ELSE events[i - Len(bus)]
      BY <1>1, ConcatProperties
<1>3. size \in Nat /\ size <= Len(all) /\ Len(bus) <= size
      /\ size <= BusCapacity
      BY <1>1, <1>2
<1>4. /\ SubSeq(all, 1, size) \in Seq(Events)
      /\ Len(SubSeq(all, 1, size)) = size
      /\ \A i \in 1..size : SubSeq(all, 1, size)[i] = all[i]
  <2> HIDE DEF all, size
  <2> QED BY <1>2, <1>3, SubSeqProperties
<1>5. Offer(events) = SubSeq(all, 1, size)
      BY DEF Offer
<1>6. Fits(events) => size = Len(bus) + Len(events)
      BY <1>1, <1>2 DEF Fits
<1> HIDE DEF all, size
<1> QED BY <1>1, <1>2, <1>3, <1>4, <1>5, <1>6

LEMMA LinkFacts ==
  ASSUME NEW r \in Robots
  PROVE  /\ AdapterAnnounces(r) \in Seq(Events)
         /\ \A i \in 1..Len(AdapterAnnounces(r)) :
              AdapterAnnounces(r)[i].kind \notin Crossings
<1> DEFINE loss == [kind |-> "lost", robot |-> Unnamed]
<1>1. loss \in Events /\ loss.kind \notin Crossings
      BY DEF Events, LinkKinds, Crossings
<1> HIDE DEF loss
<1>2. AdapterAnnounces(r) = <<>> \/ AdapterAnnounces(r) = <<loss>>
      BY DEF AdapterAnnounces, loss
<1>3. CASE AdapterAnnounces(r) = <<>>
  <2>1. 1..Len(AdapterAnnounces(r)) = {}
        BY <1>3
  <2> QED BY <1>3, <2>1
<1>4. CASE AdapterAnnounces(r) = <<loss>>
      BY <1>1, <1>4
<1> QED BY <1>2, <1>3, <1>4

\* Where the members of two sequences are in their concatenation.
LEMMA ConcatFacts ==
  ASSUME NEW p \in Seq(Events), NEW q \in Seq(Events)
  PROVE  /\ p \o q \in Seq(Events) /\ Len(p \o q) = Len(p) + Len(q)
         /\ \A i \in 1..Len(p) : (p \o q)[i] = p[i]
         /\ \A i \in 1..Len(q) : (p \o q)[Len(p) + i] = q[i]
<1>1. Len(p) \in Nat /\ Len(q) \in Nat
      OBVIOUS
<1>2. ASSUME NEW i \in 1..Len(p) PROVE (p \o q)[i] = p[i]
      BY <1>1, ConcatProperties
<1>3. ASSUME NEW i \in 1..Len(q) PROVE (p \o q)[Len(p) + i] = q[i]
      BY <1>1, ConcatProperties
<1> QED BY <1>2, <1>3, ConcatProperties

LEMMA PairOfOnes ==
  ASSUME NEW S, NEW a \in S, NEW b \in S
  PROVE  <<a>> \o <<b>> = <<a, b>>
<1> DEFINE s == <<a>>
           t == <<b>>
           u == <<a, b>>
<1>1. /\ s \in Seq(S) /\ t \in Seq(S) /\ u \in Seq(S)
      /\ Len(s) = 1 /\ Len(t) = 1 /\ Len(u) = 2
      /\ s[1] = a /\ t[1] = b /\ u[1] = a /\ u[2] = b
      OBVIOUS
<1> HIDE DEF s, t, u
<1>2. /\ s \o t \in Seq(S) /\ Len(s \o t) = 2
      /\ \A i \in 1..2 : (s \o t)[i] = IF i <= 1 THEN s[i] ELSE t[i - 1]
      BY <1>1, ConcatProperties
<1>3. \A i \in 1..2 : (s \o t)[i] = u[i]
      BY <1>1, <1>2
<1>4. s \o t = u
      BY <1>1, <1>2, <1>3, SeqEqual
<1> QED BY <1>4 DEF s, t, u

\* What a poll announces: of the events of one robot the last alone may be a
\* crossing.
LEMMA PollFacts ==
  ASSUME NEW r \in Robots, NEW pct \in 0..3
  PROVE  LET events == PollEvents(r, pct) IN
         /\ events \in Seq(Events) /\ Len(events) \in Nat \ {0}
         /\ \A i \in 1..Len(events) : events[i].robot = r
         /\ \A i \in 1 .. Len(events) - 1 : events[i].kind \notin Crossings
         /\ events[Len(events)].kind \in Crossings <=> Crosses(r, pct)
         /\ events[Len(events)].kind = "critical" <=>
              pct = 0 /\ latch[r] # "critical"
<1> DEFINE tick == Named(r, IF reading[r] = "up" THEN "link_ok" ELSE "link_bad")
           turn == TransitionEvents(r)
           cross == ThresholdEvents(r, pct)
<1>1. /\ tick \in Events /\ tick.robot = r /\ tick.kind \notin Crossings
      BY DEF Named, Events, LinkKinds, BatteryKinds, Crossings
<1>2. \/ turn = <<>>
      \/ \E e \in Events : e.robot = r /\ e.kind \notin Crossings
                           /\ turn = <<e>>
      BY DEF TransitionEvents, Named, Events, LinkKinds, BatteryKinds,
             Crossings
<1> DEFINE warn == Named(r, "warn")
           crit == Named(r, "critical")
           full == Named(r, "recharged")
<1>3. /\ {warn, crit, full} \subseteq Events
      /\ warn.robot = r /\ crit.robot = r /\ full.robot = r
      /\ warn.kind = "warn" /\ crit.kind = "critical"
      /\ full.kind = "recharged"
      BY DEF Named, Events, LinkKinds, BatteryKinds
<1> DEFINE ws == IF pct <= 1 /\ latch[r] = "none" THEN <<warn>> ELSE <<>>
           cs == IF pct = 0 /\ latch[r] # "critical" THEN <<crit>> ELSE <<>>
           fs == IF Recharged(r, pct) THEN <<full>> ELSE <<>>
<1>4. /\ Recharged(r, pct) => pct = 3
      /\ Crosses(r, pct) <=> Recharged(r, pct)
                             \/ (pct = 0 /\ latch[r] # "critical")
      /\ cross = ws \o cs \o fs
      BY DEF Recharged, Crosses, ThresholdEvents
<1> HIDE DEF tick, turn, cross, warn, crit, full
<1>5. \/ cross = <<>> /\ ~Crosses(r, pct)
      \/ cross = <<warn>> /\ ~Crosses(r, pct)
      \/ cross = <<crit>> /\ pct = 0 /\ latch[r] # "critical"
      \/ cross = <<warn, crit>> /\ pct = 0 /\ latch[r] # "critical"
      \/ cross = <<full>> /\ Recharged(r, pct)
  <2>1. CASE Recharged(r, pct)
    <3>1. ws = <<>> /\ cs = <<>> /\ fs = <<full>>
          BY <1>4, <2>1
    <3> QED BY <1>4, <2>1, <3>1
  <2>2. CASE ~Recharged(r, pct) /\ pct = 0 /\ latch[r] # "critical"
    <3>1. cs = <<crit>> /\ fs = <<>>
          BY <2>2
    <3>2. CASE ws = <<>>
      <4>1. cross = <<>> \o <<crit>> \o <<>>
            BY <1>4, <3>1, <3>2
      <4> QED BY <2>2, <4>1
    <3>3. CASE ws = <<warn>>
      <4>1. cross = <<warn>> \o <<crit>> \o <<>>
            BY <1>4, <3>1, <3>3
      <4>2. /\ <<warn>> \o <<crit>> = <<warn, crit>>
            /\ <<warn, crit>> \in Seq(Events)
            BY <1>3, PairOfOnes
      <4>3. cross = <<warn, crit>>
            BY <4>1, <4>2, ConcatEmptySeq
      <4> QED BY <2>2, <4>3
    <3> QED BY <3>2, <3>3
  <2>3. CASE ~Recharged(r, pct) /\ ~(pct = 0 /\ latch[r] # "critical")
    <3>1. cs = <<>> /\ fs = <<>> /\ ~Crosses(r, pct)
          BY <1>4, <2>3
    <3>2. CASE ws = <<>>
      <4>1. cross = <<>> \o <<>> \o <<>>
            BY <1>4, <3>1, <3>2
      <4> QED BY <3>1, <4>1
    <3>3. CASE ws = <<warn>>
      <4>1. cross = <<warn>> \o <<>> \o <<>>
            BY <1>4, <3>1, <3>3
      <4> QED BY <3>1, <4>1
    <3> QED BY <3>2, <3>3
  <2> QED BY <2>1, <2>2, <2>3
<1> DEFINE head == <<tick>> \o turn
<1>6. PollEvents(r, pct) = head \o cross
      BY DEF PollEvents, tick, turn, cross
<1>7. /\ head \in Seq(Events) /\ Len(head) \in {1, 2}
      /\ \A k \in 1..Len(head) :
           head[k].robot = r /\ head[k].kind \notin Crossings
  <2>1. CASE turn = <<>>
    <3>1. head = <<tick>>
          BY <2>1
    <3> HIDE DEF head
    <3> QED BY <1>1, <3>1
  <2>2. CASE turn # <<>>
    <3>1. PICK e \in Events : e.robot = r /\ e.kind \notin Crossings
                              /\ turn = <<e>>
          BY <1>2, <2>2
    <3>2. head = <<tick, e>>
          BY <1>1, <3>1, PairOfOnes
    <3> HIDE DEF head
    <3> QED BY <1>1, <3>1, <3>2
  <2> QED BY <2>1, <2>2
<1> HIDE DEF head, ws, cs, fs
<1>8. CASE cross = <<>> /\ ~Crosses(r, pct)
  <2>1. PollEvents(r, pct) = head
        BY <1>6, <1>7, <1>8, ConcatEmptySeq
  <2>2. /\ head[Len(head)].robot = r
        /\ head[Len(head)].kind \notin Crossings
        BY <1>7
  <2>3. /\ head[Len(head)].kind # "critical"
        /\ ~(pct = 0 /\ latch[r] # "critical")
        BY <1>8, <2>2 DEF Crosses, Crossings
  <2>4. \A i \in 1 .. Len(head) - 1 : head[i].kind \notin Crossings
        BY <1>7
  <2> QED BY <1>7, <1>8, <2>1, <2>2, <2>3, <2>4
<1>9. CASE cross = <<warn>> /\ ~Crosses(r, pct)
      BY <1>3, <1>4, <1>6, <1>7, <1>9 DEF Crossings
<1>10. CASE cross = <<crit>> /\ pct = 0 /\ latch[r] # "critical"
      BY <1>3, <1>4, <1>6, <1>7, <1>10 DEF Crossings
<1>11. CASE cross = <<full>> /\ Recharged(r, pct)
      BY <1>3, <1>4, <1>6, <1>7, <1>11 DEF Crossings
<1>12. CASE cross = <<warn, crit>> /\ pct = 0 /\ latch[r] # "critical"
  <2>1. /\ cross \in Seq(Events) /\ Len(cross) = 2
        /\ cross[1] = warn /\ cross[2] = crit
        BY <1>3, <1>12
  <2>2. /\ PollEvents(r, pct) \in Seq(Events)
        /\ Len(PollEvents(r, pct)) = Len(head) + 2
        /\ \A i \in 1..Len(head) : PollEvents(r, pct)[i] = head[i]
        /\ PollEvents(r, pct)[Len(head) + 1] = warn
        /\ PollEvents(r, pct)[Len(head) + 2] = crit
    <3>1. /\ head \o cross \in Seq(Events)
          /\ Len(head \o cross) = Len(head) + Len(cross)
          /\ \A i \in 1..Len(head) : (head \o cross)[i] = head[i]
          /\ \A i \in 1..Len(cross) :
               (head \o cross)[Len(head) + i] = cross[i]
          BY <1>7, <2>1, ConcatFacts
    <3>2. 1 \in 1..Len(cross) /\ 2 \in 1..Len(cross)
          BY <2>1
    <3>3. /\ (head \o cross)[Len(head) + 1] = warn
          /\ (head \o cross)[Len(head) + 2] = crit
          BY <2>1, <3>1, <3>2, Zenon
    <3>4. Len(head \o cross) = Len(head) + 2
          BY <2>1, <3>1
    <3> QED BY <1>6, <3>1, <3>3, <3>4, Zenon
  <2>3. /\ Len(head) \in {1, 2} /\ Crosses(r, pct)
        /\ warn.kind \notin Crossings /\ crit.kind \in Crossings
        BY <1>3, <1>4, <1>7, <1>12 DEF Crossings
  <2>4. \A i \in 1..Len(PollEvents(r, pct)) : PollEvents(r, pct)[i].robot = r
        BY <1>3, <1>7, <2>2, <2>3
  <2>5. \A i \in 1 .. Len(PollEvents(r, pct)) - 1 :
          PollEvents(r, pct)[i].kind \notin Crossings
        BY <1>7, <2>2, <2>3
  <2>6. Len(PollEvents(r, pct)) \in Nat \ {0}
        BY <2>2, <2>3
  <2>7. PollEvents(r, pct)[Len(PollEvents(r, pct))] = crit
        BY <2>2
  <2> QED BY <1>3, <1>12, <2>2, <2>3, <2>4, <2>5, <2>6, <2>7
<1> QED BY <1>5, <1>8, <1>9, <1>10, <1>11, <1>12

LEMMA BatteryReadTyped ==
  ASSUME MonitorTypeOK, NEW r \in Robots
  PROVE  BatteryRead(r) \in 0..3
<1>1. level[r] \in Levels
      BY DEF MonitorTypeOK
<1>2. Levels \subseteq 0..3
      BY MonitorAssumption, Zenon
<1>3. 0 \in 0..3
      OBVIOUS
<1> QED BY <1>1, <1>2, <1>3, Zenon DEF BatteryRead

-----------------------------------------------------------------------------
(* The initial states.                                                     *)

LEMMA InitInv == Init => IndInv
<1> SUFFICES ASSUME Init
             PROVE  IndInv
    OBVIOUS
<1> USE DEF Init, MonitorInit
<1>2. Len(bus) = 0 /\ bus \in Seq(Events)
      OBVIOUS
<1>1. TypeOK
  <2>1. MonitorTypeOK
        BY <1>2, MonitorAssumption DEF MonitorTypeOK
  <2> QED BY <2>1 DEF TypeOK
<1>3. CrossingsNamed
      BY <1>2 DEF CrossingsNamed
<1>4. PauseHasAReason
      BY DEF PauseHasAReason
<1>5. ASSUME NEW r \in Robots PROVE Agrees(r)
  <2>1. ~charging[r] /\ latch[r] # "critical"
        OBVIOUS
  <2>2. 1..Len(bus) = {}
        BY <1>2
  <2> QED BY <2>1, <2>2, Zenon DEF Agrees
<1> QED BY <1>1, <1>3, <1>4, <1>5 DEF IndInv

-----------------------------------------------------------------------------
(* Type correctness.                                                       *)

\* A poll ends: what it reads, announces and notes.
LEMMA PollStep ==
  ASSUME TypeOK, NEW r \in Robots, FinishPoll(r)
  PROVE  /\ BatteryRead(r) \in 0..3
         /\ bus' = Offer(PollEvents(r, BatteryRead(r)))
         /\ latch' = [latch EXCEPT ![r] = LatchAfter(r, BatteryRead(r))]
         /\ missed' = IF Crosses(r, BatteryRead(r))
                      THEN [missed EXCEPT
                              ![r] = ~Fits(PollEvents(r, BatteryRead(r)))]
                      ELSE missed
         /\ PollEvents(r, BatteryRead(r)) \in Seq(Events)
<1>1. BatteryRead(r) \in 0..3
      BY BatteryReadTyped DEF TypeOK
<1>2. PollEvents(r, BatteryRead(r)) \in Seq(Events)
      BY <1>1, PollFacts
<1> QED BY <1>1, <1>2 DEF FinishPoll, FinishThePoll

LEMMA TypeStep == TypeOK /\ [Next]_vars => TypeOK'
<1> SUFFICES ASSUME TypeOK, [Next]_vars
             PROVE  TypeOK'
    OBVIOUS
<1> USE DEF robotVars, monitorVars, managerVars
<1>1. ASSUME NEW r \in Robots, LinkChanges(r) PROVE TypeOK'
      BY <1>1 DEF TypeOK, MonitorTypeOK, LinkChanges, ChangeLink
<1>2. ASSUME NEW r \in Robots, BatteryChanges(r) PROVE TypeOK'
      BY <1>2 DEF TypeOK, MonitorTypeOK, BatteryChanges, ChangeBattery
<1>3. ASSUME NEW r \in Robots, ReadLink(r) PROVE TypeOK'
  <2>1. AdapterAnnounces(r) \in Seq(Events)
        BY LinkFacts
  <2>2. bus' \in Seq(Events) /\ Len(bus') <= BusCapacity
        BY <1>3, <2>1, OfferFacts DEF ReadLink, ReadTheLink, TypeOK
  <2> QED BY <1>3, <2>2 DEF TypeOK, MonitorTypeOK, ReadLink, ReadTheLink
<1>4. ASSUME NEW r \in Robots, FinishPoll(r) PROVE TypeOK'
  <2>1. bus' \in Seq(Events) /\ Len(bus') <= BusCapacity
        BY <1>4, PollStep, OfferFacts DEF TypeOK
  <2>2. latch' \in [Robots -> {"none", "warn", "critical"}]
    <3>1. latch' = [latch EXCEPT ![r] = LatchAfter(r, BatteryRead(r))]
          BY <1>4, PollStep
    <3>2. latch \in [Robots -> {"none", "warn", "critical"}]
          BY DEF TypeOK, MonitorTypeOK
    <3>3. LatchAfter(r, BatteryRead(r)) \in {"none", "warn", "critical"}
          BY <3>2 DEF LatchAfter
    <3> QED BY <3>1, <3>2, <3>3
  <2>3. missed' \in [Robots -> BOOLEAN]
        BY <1>4, PollStep DEF TypeOK, Fits
  <2>4. /\ current' \in [Robots -> {"unknown", "up", "lost", "empty"}]
        /\ reading' \in [Robots -> {"nothing", "up", "down"}]
        BY <1>4 DEF TypeOK, MonitorTypeOK, FinishPoll, FinishThePoll, Observed
  <2>5. UNCHANGED <<link, level, managing, charging, docking, dock, paused,
                    asked>>
        BY <1>4 DEF FinishPoll, FinishThePoll
  <2> QED BY <2>1, <2>2, <2>3, <2>4, <2>5 DEF TypeOK, MonitorTypeOK
<1>5. CASE StartBatteryManager \/ StopBatteryManager
      BY <1>5 DEF TypeOK, MonitorTypeOK, StartBatteryManager,
                  StopBatteryManager
<1>6. CASE OperatorPauses \/ OperatorResumes
      BY <1>6 DEF TypeOK, MonitorTypeOK, OperatorPauses, OperatorResumes
<1>7. CASE Deliver
  <2>1. /\ Head(bus) \in Events /\ Tail(bus) \in Seq(Events)
        /\ Len(Tail(bus)) <= BusCapacity
        BY <1>7, HeadTailProperties, MonitorAssumption
           DEF Deliver, TypeOK, MonitorTypeOK
  <2>2. Target(Head(bus)) \in Robots
        BY <2>1, MonitorAssumption DEF Target, Events
  <2>3. /\ charging' \in [Robots -> BOOLEAN] /\ dock' \in [Robots -> BOOLEAN]
        /\ docking' \in Robots \cup {Nobody}
        BY <1>7, <2>2 DEF Deliver, TypeOK, Handle, HandleBatteryCritical,
                          HandleBatteryRecharged
  <2>4. paused' \in BOOLEAN
        BY <1>7, <2>2, ZenonT(30)
           DEF Deliver, TypeOK, Handle, HandleBatteryCritical,
               HandleBatteryRecharged, PausedAfterRecharge, PausesDispatcher
  <2>5. missed' \in [Robots -> BOOLEAN]
        BY <1>7, <2>2 DEF Deliver, TypeOK
  <2> QED BY <1>7, <2>1, <2>3, <2>4, <2>5 DEF Deliver, TypeOK, MonitorTypeOK
<1>8. CASE SubmitDockTask
  <2>1. dock' \in [Robots -> BOOLEAN] /\ docking' \in Robots \cup {Nobody}
        BY <1>8 DEF SubmitDockTask, TypeOK
  <2>2. paused' \in BOOLEAN
        BY <1>8, Zenon DEF SubmitDockTask, TypeOK, PausesDispatcher
  <2> QED BY <1>8, <2>1, <2>2 DEF SubmitDockTask, TypeOK, MonitorTypeOK
<1>9. CASE UNCHANGED vars
      BY <1>9 DEF TypeOK, MonitorTypeOK, vars
<1> QED BY <1>1, <1>2, <1>3, <1>4, <1>5, <1>6, <1>7, <1>8, <1>9
        DEF Next, Poll

-----------------------------------------------------------------------------
(* A crossing on the bus names its robot: of the events without a robot id *)
(* none is a crossing.                                                     *)

LEMMA NamedStep == IndInv /\ [Next]_vars => CrossingsNamed'
<1> SUFFICES ASSUME IndInv, [Next]_vars
             PROVE  CrossingsNamed'
    OBVIOUS
<1>0. /\ TypeOK /\ MonitorTypeOK /\ CrossingsNamed
      /\ bus \in Seq(Events) /\ Len(bus) \in Nat
      BY DEF IndInv, TypeOK, MonitorTypeOK
<1>1. ASSUME NEW events \in Seq(Events), bus' = Offer(events),
             \A i \in 1..Len(events) :
               events[i].kind \in Crossings => events[i].robot \in Robots
      PROVE  CrossingsNamed'
  <2> DEFINE after == Offer(events)
  <2>1. /\ Len(after) \in Nat /\ Len(after) <= Len(bus) + Len(events)
        /\ \A i \in 1..Len(bus) : after[i] = bus[i]
        /\ \A i \in Len(bus) + 1 .. Len(after) :
             after[i] = events[i - Len(bus)]
        BY <1>0, OfferFacts
  <2> HIDE DEF after
  <2>2. ASSUME NEW i \in 1..Len(after), after[i].kind \in Crossings
        PROVE  after[i].robot \in Robots
    <3>1. CASE i <= Len(bus)
          BY <1>0, <2>1, <2>2, <3>1 DEF CrossingsNamed
    <3>2. CASE i > Len(bus)
      <4>1. i \in Len(bus) + 1 .. Len(after) /\ i - Len(bus) \in 1..Len(events)
            BY <1>0, <2>1, <3>2
      <4> QED BY <1>1, <2>1, <2>2, <4>1
    <3> QED BY <1>0, <2>1, <3>1, <3>2
  <2>3. bus' = after
        BY <1>1 DEF after
  <2> QED BY <2>2, <2>3 DEF CrossingsNamed
<1>2. ASSUME NEW r \in Robots, ReadLink(r) PROVE CrossingsNamed'
  <2>1. /\ AdapterAnnounces(r) \in Seq(Events)
        /\ \A i \in 1..Len(AdapterAnnounces(r)) :
             AdapterAnnounces(r)[i].kind \notin Crossings
        BY LinkFacts
  <2>2. bus' = Offer(AdapterAnnounces(r))
        BY <1>2 DEF ReadLink, ReadTheLink
  <2> QED BY <1>1, <2>1, <2>2
<1>3. ASSUME NEW r \in Robots, FinishPoll(r) PROVE CrossingsNamed'
  <2>1. /\ BatteryRead(r) \in 0..3
        /\ bus' = Offer(PollEvents(r, BatteryRead(r)))
        BY <1>0, <1>3, PollStep
  <2> DEFINE events == PollEvents(r, BatteryRead(r))
  <2>2. /\ events \in Seq(Events)
        /\ \A i \in 1..Len(events) : events[i].robot = r
        BY <2>1, PollFacts
  <2>3. bus' = Offer(events)
        BY <2>1
  <2> HIDE DEF events
  <2>4. \A i \in 1..Len(events) :
          events[i].kind \in Crossings => events[i].robot \in Robots
        BY <2>2
  <2> QED BY <1>1, <2>2, <2>3, <2>4
<1>4. CASE Deliver
  <2>1. /\ Len(bus') = Len(bus) - 1
        /\ \A i \in 1..Len(bus') : bus'[i] = bus[i + 1]
        BY <1>0, <1>4, HeadTailProperties DEF Deliver
  <2> QED BY <1>0, <2>1 DEF CrossingsNamed
<1>5. ASSUME UNCHANGED bus PROVE CrossingsNamed'
      BY <1>0, <1>5 DEF CrossingsNamed
<1> QED
    BY <1>2, <1>3, <1>4, <1>5
       DEF Next, Poll, LinkChanges, ChangeLink, BatteryChanges, ChangeBattery,
           StartBatteryManager, StopBatteryManager, OperatorPauses,
           OperatorResumes, SubmitDockTask, vars

-----------------------------------------------------------------------------
(* The pause.                                                              *)

LEMMA PauseStep == IndInv /\ [Next]_vars => PauseHasAReason'
<1> SUFFICES ASSUME IndInv, [Next]_vars
             PROVE  PauseHasAReason'
    OBVIOUS
<1>0. /\ TypeOK /\ PauseHasAReason
      /\ charging \in [Robots -> BOOLEAN]
      BY DEF IndInv, TypeOK
<1>1. CASE Deliver
  <2>1. Head(bus) \in Events /\ Target(Head(bus)) \in Robots
    <3>1. Head(bus) \in Events
          BY <1>0, <1>1, HeadTailProperties DEF Deliver, TypeOK, MonitorTypeOK
    <3> QED BY <3>1, MonitorAssumption DEF Target, Events
  <2> DEFINE t == Target(Head(bus))
  <2>2. asked' = asked
        BY <1>1 DEF Deliver
  <2>3. CASE UNCHANGED <<charging, paused>>
        BY <1>0, <2>2, <2>3, Zenon DEF PauseHasAReason, PausesDispatcher
  <2>4. CASE /\ charging' = [charging EXCEPT ![t] = TRUE]
             /\ paused' = (paused \/ PausesDispatcher)
    <3>1. \A r \in Robots : charging[r] => charging'[r]
          BY <1>0, <2>4
    <3>2. t \in Robots /\ charging'[t]
          BY <1>0, <2>1, <2>4
    <3> QED BY <1>0, <2>2, <2>4, <3>1, <3>2, Zenon
               DEF PauseHasAReason, PausesDispatcher
  <2>5. CASE paused' = PausedAfterRecharge
        BY <1>0, <2>2, <2>5, Zenon
           DEF PauseHasAReason, PausesDispatcher, PausedAfterRecharge
  <2> QED BY <1>1, <2>3, <2>4, <2>5, Zenon
             DEF Deliver, Handle, HandleBatteryCritical,
                 HandleBatteryRecharged
<1>2. CASE SubmitDockTask
      BY <1>0, <1>2, Zenon
         DEF SubmitDockTask, PauseHasAReason, PausesDispatcher
<1>3. CASE OperatorPauses \/ OperatorResumes
      BY <1>3, Zenon DEF OperatorPauses, OperatorResumes, PauseHasAReason
<1>4. ASSUME UNCHANGED <<charging, paused, asked>> PROVE PauseHasAReason'
      BY <1>0, <1>4, Zenon DEF PauseHasAReason, PausesDispatcher
<1> QED
    BY <1>1, <1>2, <1>3, <1>4, Zenon
       DEF Next, Poll, LinkChanges, BatteryChanges, ReadLink, FinishPoll,
           StartBatteryManager, StopBatteryManager, managerVars, vars

-----------------------------------------------------------------------------
(* Charging mode, the latch and the last crossing that waits.              *)

\* New events that are no crossings of q leave q's agreement as it was.
LEMMA AgreesGrows ==
  ASSUME TypeOK, NEW q \in Robots, Agrees(q),
         Len(bus') \in Nat, Len(bus) <= Len(bus'),
         \A i \in 1..Len(bus) : bus'[i] = bus[i],
         \A i \in Len(bus) + 1 .. Len(bus') : ~Crossing(bus'[i], q),
         charging'[q] <=> charging[q],
         latch'[q] = "critical" <=> latch[q] = "critical"
  PROVE  Agrees(q)'
<1>1. Len(bus) \in Nat
      BY DEF TypeOK, MonitorTypeOK
<1>2. NoCrossing(q)' => NoCrossing(q)
      BY <1>1 DEF NoCrossing, Crossing
<1>3. ASSUME NEW i \in 1..Len(bus'), LastCrossing(q, i)'
      PROVE  i \in 1..Len(bus) /\ bus'[i] = bus[i] /\ LastCrossing(q, i)
  <2>1. Crossing(bus'[i], q)
        BY <1>3 DEF LastCrossing, Crossing
  <2>2. i \in 1..Len(bus)
        BY <1>1, <2>1
  <2>3. \A k \in 1..Len(bus) : k > i => ~Crossing(bus[k], q)
        BY <1>1, <1>3 DEF LastCrossing, Crossing
  <2> QED BY <2>1, <2>2, <2>3 DEF LastCrossing
<1> QED BY <1>2, <1>3 DEF Agrees

LEMMA AgreesPoll ==
  ASSUME IndInv, NEW r \in Robots, FinishPoll(r), NEW q \in Robots,
         ~missed'[q]
  PROVE  Agrees(q)'
<1> DEFINE pct == BatteryRead(r)
           events == PollEvents(r, pct)
<1>1. /\ TypeOK /\ MonitorTypeOK /\ (~missed[q] => Agrees(q))
      /\ Len(bus) \in Nat /\ latch \in [Robots -> {"none", "warn", "critical"}]
      /\ missed \in [Robots -> BOOLEAN]
      BY DEF IndInv, TypeOK, MonitorTypeOK
<1>2. /\ pct \in 0..3 /\ bus' = Offer(events) /\ events \in Seq(Events)
      /\ latch' = [latch EXCEPT ![r] = LatchAfter(r, pct)]
      /\ missed' = IF Crosses(r, pct)
                   THEN [missed EXCEPT ![r] = ~Fits(events)] ELSE missed
      /\ charging' = charging
      BY <1>1, PollStep DEF FinishPoll, managerVars
<1>3. /\ Len(events) \in Nat \ {0}
      /\ \A i \in 1..Len(events) : events[i].robot = r
      /\ \A i \in 1 .. Len(events) - 1 : events[i].kind \notin Crossings
      /\ events[Len(events)].kind \in Crossings <=> Crosses(r, pct)
      /\ events[Len(events)].kind = "critical" <=>
           pct = 0 /\ latch[r] # "critical"
      BY <1>2, PollFacts
<1>4. /\ Len(bus') \in Nat /\ Len(bus) <= Len(bus')
      /\ Len(bus') <= Len(bus) + Len(events)
      /\ Fits(events) => Len(bus') = Len(bus) + Len(events)
      /\ \A i \in 1..Len(bus) : bus'[i] = bus[i]
      /\ \A i \in Len(bus) + 1 .. Len(bus') : bus'[i] = events[i - Len(bus)]
      BY <1>1, <1>2, OfferFacts
<1> HIDE DEF pct, events
<1>5. CASE q # r
  <2>1. ~missed[q]
        BY <1>1, <1>2, <1>5
  <2>2. \A i \in Len(bus) + 1 .. Len(bus') : ~Crossing(bus'[i], q)
    <3> SUFFICES ASSUME NEW i \in Len(bus) + 1 .. Len(bus')
                 PROVE  ~Crossing(bus'[i], q)
        OBVIOUS
    <3>1. i - Len(bus) \in 1..Len(events)
          BY <1>1, <1>3, <1>4
    <3> QED BY <1>3, <1>4, <1>5, <3>1 DEF Crossing
  <2>3. latch'[q] = latch[q]
        BY <1>1, <1>2, <1>5
  <2> QED BY <1>1, <1>2, <1>4, <2>1, <2>2, <2>3, AgreesGrows
<1>6. CASE q = r /\ ~Crosses(r, pct)
  <2>1. ~missed[q]
        BY <1>2, <1>6
  <2>2. \A i \in Len(bus) + 1 .. Len(bus') : ~Crossing(bus'[i], q)
    <3> SUFFICES ASSUME NEW i \in Len(bus) + 1 .. Len(bus')
                 PROVE  ~Crossing(bus'[i], q)
        OBVIOUS
    <3>1. i - Len(bus) \in 1..Len(events)
          BY <1>1, <1>3, <1>4
    <3>2. CASE i - Len(bus) = Len(events)
      <4>1. events[i - Len(bus)].kind \notin Crossings
            BY <1>3, <1>6, <3>2
      <4> QED BY <1>4, <4>1 DEF Crossing
    <3>3. CASE i - Len(bus) # Len(events)
      <4>1. i - Len(bus) \in 1 .. Len(events) - 1
            BY <1>3, <3>1, <3>3
      <4>2. events[i - Len(bus)].kind \notin Crossings
            BY <1>3, <4>1
      <4> QED BY <1>4, <4>2 DEF Crossing
    <3> QED BY <3>2, <3>3
  <2>3. latch'[q] = LatchAfter(r, pct)
        BY <1>1, <1>2, <1>6
  <2>4. latch'[q] = "critical" <=> latch[q] = "critical"
        BY <1>2, <1>6, <2>3 DEF LatchAfter, Crosses
  <2> QED BY <1>1, <1>2, <1>4, <2>1, <2>2, <2>4, AgreesGrows
<1>7. CASE q = r /\ Crosses(r, pct)
  <2>1. Fits(events)
        BY <1>1, <1>2, <1>7
  <2>2. Len(bus') = Len(bus) + Len(events)
        BY <1>4, <2>1
  <2>3. /\ Len(bus') \in Len(bus) + 1 .. Len(bus')
        /\ Len(bus') - Len(bus) = Len(events)
        /\ Len(bus') \in 1..Len(bus')
        BY <1>1, <1>3, <1>4, <2>2
  <2>4. bus'[Len(bus')] = events[Len(events)]
        BY <1>4, <2>3
  <2>5. Crossing(bus'[Len(bus')], q)
        BY <1>3, <1>7, <2>4 DEF Crossing
  <2>6. latch'[q] = LatchAfter(r, pct)
        BY <1>1, <1>2, <1>7
  <2>7. bus'[Len(bus')].kind = "critical" <=> latch'[q] = "critical"
    <3>1. CASE pct = 0
          BY <1>3, <1>7, <2>4, <2>6, <3>1 DEF LatchAfter, Crosses, Recharged
    <3>2. CASE pct # 0
          BY <1>3, <1>7, <2>4, <2>6, <3>2 DEF LatchAfter, Crosses, Recharged
    <3> QED BY <3>1, <3>2
  <2>8. ~NoCrossing(q)'
        BY <2>3, <2>5 DEF NoCrossing, Crossing
  <2>9. ASSUME NEW i \in 1..Len(bus'), LastCrossing(q, i)'
        PROVE  i = Len(bus')
    <3>1. ~(Len(bus') > i)
          BY <2>3, <2>5, <2>9 DEF LastCrossing, Crossing
    <3> QED BY <1>4, <3>1
  <2> QED BY <2>7, <2>8, <2>9 DEF Agrees
<1> QED BY <1>5, <1>6, <1>7

\* The delivery of the last crossing that waits sets charging mode by it.
LEMMA AgreesDeliver ==
  ASSUME IndInv, Deliver, NEW q \in Robots, ~missed'[q]
  PROVE  Agrees(q)'
<1> DEFINE e == Head(bus)
<1>1. /\ TypeOK /\ CrossingsNamed /\ (~missed[q] => Agrees(q))
      /\ bus \in Seq(Events) /\ bus # <<>>
      /\ charging \in [Robots -> BOOLEAN] /\ missed \in [Robots -> BOOLEAN]
      BY DEF IndInv, TypeOK, MonitorTypeOK, Deliver
<1>2. /\ e \in Events /\ e = bus[1] /\ Len(bus) \in Nat \ {0}
      /\ bus' = Tail(bus) /\ Len(bus') = Len(bus) - 1
      /\ \A i \in 1..Len(bus') : bus'[i] = bus[i + 1]
      BY <1>1, HeadTailProperties DEF Deliver
<1>3. UNCHANGED <<latch, managing>> /\ Handle(e)
      BY DEF Deliver, monitorVars
<1>4. Target(e) \in Robots
      BY <1>2, MonitorAssumption DEF Target, Events
<1>5. e.kind \in Crossings => Target(e) = e.robot
  <2>1. e.kind \in Crossings => e.robot \in Robots
        BY <1>2 DEF CrossingsNamed, IndInv
  <2> QED BY <2>1, MonitorAssumption DEF Target
<1>6. /\ missed' = IF e.kind \in Crossings /\ ~managing
                   THEN [missed EXCEPT ![Target(e)] = TRUE] ELSE missed
      BY DEF Deliver
<1> HIDE DEF e
<1>7. ~missed[q]
      BY <1>1, <1>4, <1>6
<1>8. \A k \in 1..Len(bus') : k + 1 \in 1..Len(bus) /\ bus'[k] = bus[k + 1]
      BY <1>2
<1>9. ASSUME NEW i \in 1..Len(bus'), LastCrossing(q, i)'
      PROVE  LastCrossing(q, i + 1)
  <2>1. Crossing(bus'[i], q)
        BY <1>9 DEF LastCrossing, Crossing
  <2>2. \A k \in 1..Len(bus') : k > i => ~Crossing(bus'[k], q)
        BY <1>9 DEF LastCrossing, Crossing
  <2>3. ASSUME NEW k \in 1..Len(bus), k > i + 1
        PROVE  ~Crossing(bus[k], q)
    <3>1. k - 1 \in 1..Len(bus') /\ k - 1 > i /\ (k - 1) + 1 = k
          BY <1>2, <2>3
    <3> QED BY <1>8, <2>2, <3>1
  <2> QED BY <1>8, <2>1, <2>3 DEF LastCrossing
<1>10. ASSUME NEW i \in 1..Len(bus'), LastCrossing(q, i)'
       PROVE  bus'[i].kind = "critical" <=> latch'[q] = "critical"
       BY <1>1, <1>3, <1>7, <1>8, <1>9, <1>10 DEF Agrees
<1>11. ASSUME NoCrossing(q)'
       PROVE  charging'[q] <=> latch'[q] = "critical"
  <2>1. ASSUME NEW k \in 1..Len(bus), k > 1
        PROVE  ~Crossing(bus[k], q)
    <3>1. k - 1 \in 1..Len(bus') /\ (k - 1) + 1 = k
          BY <1>2, <2>1
    <3> QED BY <1>8, <1>11, <3>1 DEF NoCrossing, Crossing
  <2>2. CASE Crossing(e, q)
    <3>1. Target(e) = q /\ managing /\ e.kind \in Crossings
          BY <1>1, <1>5, <1>6, <2>2 DEF Crossing
    <3>2. LastCrossing(q, 1)
          BY <1>2, <2>1, <2>2 DEF LastCrossing
    <3>3. e.kind = "critical" <=> latch[q] = "critical"
          BY <1>1, <1>2, <1>7, <3>2 DEF Agrees
    <3>4. charging'[q] <=> e.kind = "critical"
      <4>1. CASE e.kind = "critical"
        <5>1. HandleBatteryCritical(q)
              BY <1>3, <3>1, <4>1 DEF Handle
        <5> QED BY <1>1, <4>1, <5>1 DEF HandleBatteryCritical
      <4>2. CASE e.kind # "critical"
        <5>1. HandleBatteryRecharged(q)
              BY <1>3, <3>1, <4>2 DEF Handle
        <5> QED BY <1>1, <4>2, <5>1 DEF HandleBatteryRecharged
      <4> QED BY <4>1, <4>2
    <3> QED BY <1>3, <3>3, <3>4
  <2>3. CASE ~Crossing(e, q)
    <3>1. NoCrossing(q)
          BY <1>2, <2>1, <2>3 DEF NoCrossing
    <3>2. charging'[q] = charging[q]
      <4>1. CASE ~managing \/ e.kind \notin Crossings
            BY <1>3, <4>1 DEF Handle
      <4>2. CASE managing /\ e.kind \in Crossings
        <5>1. Target(e) # q
              BY <1>5, <2>3, <4>2 DEF Crossing
        <5>2. \/ HandleBatteryCritical(Target(e))
              \/ HandleBatteryRecharged(Target(e))
              BY <1>3, <4>2 DEF Handle
        <5> QED BY <1>1, <5>1, <5>2
                   DEF HandleBatteryCritical, HandleBatteryRecharged
      <4> QED BY <4>1, <4>2
    <3> QED BY <1>1, <1>3, <1>7, <3>1, <3>2 DEF Agrees
  <2> QED BY <2>2, <2>3
<1> QED BY <1>10, <1>11 DEF Agrees

LEMMA AgreesStep ==
  ASSUME IndInv, [Next]_vars, NEW q \in Robots, ~missed'[q]
  PROVE  Agrees(q)'
<1>0. /\ TypeOK /\ (~missed[q] => Agrees(q)) /\ Len(bus) \in Nat
      BY DEF IndInv, TypeOK, MonitorTypeOK
<1>1. ASSUME UNCHANGED <<bus, charging, latch, missed>> PROVE Agrees(q)'
      BY <1>0, <1>1, AgreesGrows
<1>2. ASSUME NEW r \in Robots, ReadLink(r) PROVE Agrees(q)'
  <2>1. UNCHANGED <<charging, latch, missed>>
        BY <1>2 DEF ReadLink, ReadTheLink, managerVars
  <2>2. bus' = Offer(AdapterAnnounces(r)) /\ MonitorTypeOK
        BY <1>0, <1>2 DEF ReadLink, ReadTheLink, TypeOK
  <2>3. /\ Len(bus') \in Nat /\ Len(bus) <= Len(bus')
        /\ Len(bus') <= Len(bus) + Len(AdapterAnnounces(r))
        /\ \A i \in 1..Len(bus) : bus'[i] = bus[i]
        /\ \A i \in Len(bus) + 1 .. Len(bus') :
             bus'[i] = AdapterAnnounces(r)[i - Len(bus)]
        BY <2>2, LinkFacts, OfferFacts
  <2>4. \A i \in Len(bus) + 1 .. Len(bus') :
          i - Len(bus) \in 1..Len(AdapterAnnounces(r))
        BY <1>0, <2>3, LinkFacts
  <2>5. \A i \in Len(bus) + 1 .. Len(bus') : ~Crossing(bus'[i], q)
        BY <2>3, <2>4, LinkFacts DEF Crossing
  <2> QED BY <1>0, <2>1, <2>3, <2>5, AgreesGrows
<1> QED
    BY <1>1, <1>2, AgreesPoll, AgreesDeliver
       DEF Next, Poll, LinkChanges, ChangeLink, BatteryChanges, ChangeBattery,
           StartBatteryManager, StopBatteryManager, OperatorPauses,
           OperatorResumes, SubmitDockTask, monitorVars, managerVars, vars

-----------------------------------------------------------------------------
(* The theorems.                                                           *)

LEMMA NextInv == IndInv /\ [Next]_vars => IndInv'
<1> SUFFICES ASSUME IndInv, [Next]_vars
             PROVE  IndInv'
    OBVIOUS
<1>1. TypeOK'
      BY TypeStep DEF IndInv
<1>2. \A r \in Robots : ~missed'[r] => Agrees(r)'
      BY AgreesStep
<1> QED BY <1>1, <1>2, NamedStep, PauseStep DEF IndInv

LEMMA InvariantHolds == Spec => []IndInv
BY InitInv, NextInv, PTL DEF Spec

(* Every variable of the state monitors, the bus and the battery manager   *)
(* keeps its type; in particular the bus never holds more than it takes.   *)
THEOREM BatteryTypeCorrect == Spec => []TypeOK
<1>1. IndInv => TypeOK
      BY DEF IndInv
<1> QED BY <1>1, InvariantHolds, PTL

(* A dispatcher that is paused was paused by the operator's last request,  *)
(* or a robot is in charging mode for it.                                  *)
THEOREM PausesHaveReasons == Spec => []PauseHasAReason
<1>1. IndInv => PauseHasAReason
      BY DEF IndInv
<1> QED BY <1>1, InvariantHolds, PTL

(* When no crossing of a robot waits on the bus and its last one was heard *)
(* charging mode is the state monitor's critical latch.                    *)
THEOREM ChargingAgreesWithLatch == Spec => []ChargingFollowsBattery
<1>1. IndInv => ChargingFollowsBattery
      BY DEF IndInv, Agrees, NoCrossing, Crossing, ChargingFollowsBattery,
             Pending
<1> QED BY <1>1, InvariantHolds, PTL
-----------------------------------------------------------------------------
(* The logistics watchdog.                                                 *)

(* The watchdog overlooks no task: an active task whose interruption it    *)
(* has noted as handled is being failed right now, or mark_failed was      *)
(* refused for it.                                                         *)
HandledMeansDealtWith ==
  \A r \in Robots :
    task[r] /\ handled[r].task = "this" =>
      failing = [robot |-> r, task |-> "this"] \/ kept[r]

LEMMA WatchdogStarts == WatchdogInit => WatchdogTypeOK
<1> SUFFICES ASSUME WatchdogInit
             PROVE  WatchdogTypeOK
    OBVIOUS
<1> USE DEF WatchdogInit, MonitorInit
<1>1. bus \in Seq(Events) /\ Len(bus) = 0
      OBVIOUS
<1>2. MonitorTypeOK
      BY <1>1, MonitorAssumption DEF MonitorTypeOK
<1> QED BY <1>2 DEF WatchdogTypeOK

LEMMA KeysForget ==
  /\ \A key \in Keys \cup {NoKey} : Forgotten(key) \in Keys \cup {NoKey}
  /\ \A key \in Keys \cup {NoKey} : Forgotten(key).task # "this"
  /\ \A i \in Interruptions \cup {Idle} :
       Forgotten(i) \in Interruptions \cup {Idle} /\ Forgotten(i).task # "this"
BY DEF Keys, NoKey, Forgotten, Nobody, Interruptions, Idle

LEMMA WatchdogTypeStep ==
  WatchdogTypeOK /\ [WatchdogNext]_watchedVars => WatchdogTypeOK'
<1> SUFFICES ASSUME WatchdogTypeOK, [WatchdogNext]_watchedVars
             PROVE  WatchdogTypeOK'
    OBVIOUS
<1> USE DEF robotVars, monitorVars, watchdogVars
<1>0. MonitorTypeOK
      BY DEF WatchdogTypeOK
<1>1. ASSUME NEW r \in Robots, WatchedLinkChanges(r) PROVE WatchdogTypeOK'
      BY <1>1 DEF WatchdogTypeOK, MonitorTypeOK, WatchedLinkChanges, ChangeLink
<1>2. ASSUME NEW r \in Robots, WatchedBatteryChanges(r) PROVE WatchdogTypeOK'
      BY <1>2
         DEF WatchdogTypeOK, MonitorTypeOK, WatchedBatteryChanges,
             ChangeBattery
<1>3. ASSUME NEW r \in Robots, WatchedReadLink(r) PROVE WatchdogTypeOK'
  <2>1. AdapterAnnounces(r) \in Seq(Events)
        BY LinkFacts
  <2>2. bus' \in Seq(Events) /\ Len(bus') <= BusCapacity
        BY <1>0, <1>3, <2>1, OfferFacts DEF WatchedReadLink, ReadTheLink
  <2> QED BY <1>3, <2>2
             DEF WatchdogTypeOK, MonitorTypeOK, WatchedReadLink, ReadTheLink
<1>4. ASSUME NEW r \in Robots, WatchedFinishPoll(r) PROVE WatchdogTypeOK'
  <2>1. PollEvents(r, BatteryRead(r)) \in Seq(Events)
        BY <1>0, BatteryReadTyped, PollFacts
  <2>2. bus' \in Seq(Events) /\ Len(bus') <= BusCapacity
        BY <1>0, <1>4, <2>1, OfferFacts DEF WatchedFinishPoll, FinishThePoll
  <2>3. latch' \in [Robots -> {"none", "warn", "critical"}]
        BY <1>0, <1>4
           DEF MonitorTypeOK, WatchedFinishPoll, FinishThePoll, LatchAfter
  <2>4. /\ current' \in [Robots -> {"unknown", "up", "lost", "empty"}]
        /\ reading' \in [Robots -> {"nothing", "up", "down"}]
        BY <1>0, <1>4
           DEF MonitorTypeOK, WatchedFinishPoll, FinishThePoll, Observed
  <2>5. UNCHANGED <<link, level, watchdogVars>>
        BY <1>4 DEF WatchedFinishPoll, FinishThePoll
  <2> QED BY <2>2, <2>3, <2>4, <2>5 DEF WatchdogTypeOK, MonitorTypeOK
<1>5. ASSUME NEW r \in Robots, TaskChanges(r) PROVE WatchdogTypeOK'
  <2>1. handled' \in [Robots -> Keys \cup {NoKey}]
        BY <1>5, KeysForget DEF WatchdogTypeOK, TaskChanges
  <2>2. failing' \in Interruptions \cup {Idle}
        BY <1>5, KeysForget DEF WatchdogTypeOK, TaskChanges
  <2> QED BY <1>5, <2>1, <2>2 DEF WatchdogTypeOK, MonitorTypeOK, TaskChanges
<1>6. ASSUME NEW r \in Robots, TelemetryAges(r) PROVE WatchdogTypeOK'
      BY <1>6 DEF WatchdogTypeOK, MonitorTypeOK, TelemetryAges
<1>7. ASSUME NEW r \in Robots, CheckRobotOnce(r) PROVE WatchdogTypeOK'
  <2>1. Key(r) \in Keys
        BY DEF Key, Keys, Reason, Reasons
  <2>2. handled' \in [Robots -> Keys \cup {NoKey}]
        BY <1>7, <2>1 DEF WatchdogTypeOK, CheckRobotOnce
  <2>3. failing' \in Interruptions \cup {Idle}
        BY <1>7 DEF WatchdogTypeOK, CheckRobotOnce, Interruptions
  <2> QED BY <1>7, <2>2, <2>3 DEF WatchdogTypeOK, MonitorTypeOK, CheckRobotOnce
<1>8. CASE StartWatchdog \/ StopWatchdog
  <2>1. CASE StartWatchdog
        BY <2>1 DEF WatchdogTypeOK, MonitorTypeOK, StartWatchdog
  <2>2. CASE StopWatchdog
        BY <2>2 DEF WatchdogTypeOK, MonitorTypeOK, StopWatchdog
  <2> QED BY <1>8, <2>1, <2>2
<1>9. CASE DeliverToWatchdog
  <2>1. /\ Head(bus) \in Events /\ Tail(bus) \in Seq(Events)
        /\ Len(Tail(bus)) <= BusCapacity
        BY <1>9, HeadTailProperties, MonitorAssumption
           DEF DeliverToWatchdog, WatchdogTypeOK, MonitorTypeOK
  <2>2. /\ age' \in [Robots -> {"never", "fresh", "stale"}]
        /\ conn' \in [Robots -> {"unknown", "up", "down"}]
        BY <1>9 DEF WatchdogTypeOK, DeliverToWatchdog, Hear
  <2>3. /\ alert' \in [Robots -> BOOLEAN]
        /\ handled' \in [Robots -> Keys \cup {NoKey}]
        BY <1>9 DEF WatchdogTypeOK, DeliverToWatchdog, Hear, ClearAlert
  <2> QED BY <1>9, <2>1, <2>2, <2>3
             DEF WatchdogTypeOK, MonitorTypeOK, DeliverToWatchdog
<1>10. CASE TaskFailed
  <2>1. handled' \in [Robots -> Keys \cup {NoKey}]
        BY <1>10, KeysForget DEF WatchdogTypeOK, TaskFailed
  <2> QED BY <1>10, <2>1 DEF WatchdogTypeOK, MonitorTypeOK, TaskFailed
<1>11. CASE TaskNotFailed
      BY <1>11 DEF WatchdogTypeOK, MonitorTypeOK, TaskNotFailed
<1>12. CASE UNCHANGED watchedVars
      BY <1>12 DEF WatchdogTypeOK, MonitorTypeOK, watchedVars
<1> QED BY <1>1, <1>2, <1>3, <1>4, <1>5, <1>6, <1>7, <1>8, <1>9, <1>10,
           <1>11, <1>12
        DEF WatchdogNext, WatchedPoll

-----------------------------------------------------------------------------
(* What is noted as handled.                                               *)

LEMMA HandledStep ==
  WatchdogTypeOK /\ HandledMeansDealtWith /\ [WatchdogNext]_watchedVars
    => HandledMeansDealtWith'
<1> SUFFICES ASSUME WatchdogTypeOK, HandledMeansDealtWith,
                    [WatchdogNext]_watchedVars,
                    NEW q \in Robots, task'[q], handled'[q].task = "this"
             PROVE  failing' = [robot |-> q, task |-> "this"] \/ kept'[q]
    BY DEF HandledMeansDealtWith
<1> DEFINE Failing == [robot |-> q, task |-> "this"]
<1>0. /\ handled \in [Robots -> Keys \cup {NoKey}]
      /\ task \in [Robots -> BOOLEAN] /\ kept \in [Robots -> BOOLEAN]
      /\ failing \in Interruptions \cup {Idle}
      /\ task[q] /\ handled[q].task = "this" => failing = Failing \/ kept[q]
      BY DEF WatchdogTypeOK, HandledMeansDealtWith
<1>1. ASSUME UNCHANGED <<handled, task, kept, failing>>
      PROVE  failing' = Failing \/ kept'[q]
      BY <1>0, <1>1
<1>2. ASSUME NEW r \in Robots, TaskChanges(r)
      PROVE  failing' = Failing \/ kept'[q]
  <2>1. q # r
        BY <1>0, <1>2, KeysForget DEF TaskChanges
  <2>2. /\ task'[q] = task[q] /\ handled'[q] = handled[q]
        /\ kept'[q] = kept[q]
        /\ failing = Failing => failing' = failing
        BY <1>0, <1>2, <2>1 DEF TaskChanges
  <2> QED BY <1>0, <2>2
<1>3. ASSUME NEW r \in Robots, CheckRobotOnce(r)
      PROVE  failing' = Failing \/ kept'[q]
  <2>1. /\ UNCHANGED <<task, kept>> /\ failing = Idle /\ Idle # Failing
    <3>1. Idle.task # Failing.task
          BY DEF Idle, Nobody
    <3> QED BY <1>3, <3>1 DEF CheckRobotOnce
  <2>2. CASE UNCHANGED <<handled, failing>>
        BY <1>1, <2>1, <2>2
  <2>3. CASE /\ handled' = [handled EXCEPT ![r] = Key(r)]
             /\ failing' = IF task[r] THEN [robot |-> r, task |-> "this"]
                                      ELSE Idle
        BY <1>0, <2>1, <2>3
  <2> QED BY <1>3, <2>2, <2>3 DEF CheckRobotOnce
<1>4. CASE DeliverToWatchdog
  <2>1. UNCHANGED <<task, kept, failing>>
        BY <1>4 DEF DeliverToWatchdog
  <2>2. handled'[q] = handled[q] \/ handled'[q] = NoKey
        BY <1>0, <1>4 DEF DeliverToWatchdog, Hear, ClearAlert
  <2>3. NoKey.task # "this"
        BY DEF NoKey, Nobody
  <2> QED BY <1>0, <2>1, <2>2, <2>3
<1>5. CASE TaskFailed
  <2>1. CASE failing.task = "this"
    <3>1. CASE failing.robot = q
          BY <1>0, <1>5, <2>1, <3>1 DEF TaskFailed
    <3>2. CASE failing.robot # q
      <4>1. /\ task' = [task EXCEPT ![failing.robot] = FALSE]
            /\ handled' = [handled EXCEPT ![failing.robot] = Forgotten(@)]
            /\ kept' = [kept EXCEPT ![failing.robot] = FALSE]
            BY <1>5, <2>1 DEF TaskFailed
      <4>2. /\ task'[q] = task[q] /\ handled'[q] = handled[q]
            /\ kept'[q] = kept[q]
            BY <1>0, <3>2, <4>1
      <4>3. failing # Failing
            BY <3>2
      <4> QED BY <1>0, <4>2, <4>3
    <3> QED BY <3>1, <3>2
  <2>2. CASE failing.task # "this"
    <3>1. UNCHANGED <<task, handled, kept>> /\ failing # Failing
          BY <1>5, <2>2 DEF TaskFailed
    <3> QED BY <1>0, <3>1
  <2> QED BY <2>1, <2>2
<1>6. CASE TaskNotFailed
  <2>1. UNCHANGED <<task, handled>>
        BY <1>6 DEF TaskNotFailed
  <2>2. CASE failing = Failing
        BY <1>0, <1>6, <2>2 DEF TaskNotFailed
  <2>3. CASE failing # Failing
    <3>1. kept[q] => kept'[q]
          BY <1>0, <1>6 DEF TaskNotFailed
    <3> QED BY <1>0, <2>1, <2>3, <3>1
  <2> QED BY <2>2, <2>3
<1> QED
    BY <1>1, <1>2, <1>3, <1>4, <1>5, <1>6
       DEF WatchdogNext, WatchedPoll, WatchedLinkChanges,
           WatchedBatteryChanges, WatchedReadLink, WatchedFinishPoll,
           TelemetryAges, StartWatchdog, StopWatchdog, watchdogVars,
           watchedVars

-----------------------------------------------------------------------------
(* The theorems.                                                           *)

(* Every variable of the state monitors, the bus and the watchdog keeps    *)
(* its type.                                                               *)
THEOREM WatchdogTypeCorrect == WatchdogSpec => []WatchdogTypeOK
BY WatchdogStarts, WatchdogTypeStep, PTL DEF WatchdogSpec

(* Whatever polls, deliveries and new tasks come between a check and the   *)
(* answer of mark_failed, no active task is noted as handled without being *)
(* failed, or refused by the database.                                     *)
THEOREM NoTaskIsOverlooked == WatchdogSpec => []HandledMeansDealtWith
<1>1. WatchdogInit => HandledMeansDealtWith
      BY DEF WatchdogInit, HandledMeansDealtWith
<1> QED BY <1>1, WatchdogStarts, WatchdogTypeStep, HandledStep, PTL
           DEF WatchdogSpec
=============================================================================
