---------------------------- MODULE StateMonitor ----------------------------
(***************************************************************************)
(* Each robot's state monitor polls its SDK and publishes what changed on  *)
(* the event bus.  A step is what the poll does between two suspensions:   *)
(* it reads the link first and the battery later, in another thread call,  *)
(* and the robot may change in between.  Of the battery only the           *)
(* thresholds it passed are kept: 0 (critical, and what a failed read      *)
(* answers), 1 (warning), 2 and 3 (resume).  The modules of the services   *)
(* that listen extend this one and say what its steps leave alone.         *)
(***************************************************************************)
EXTENDS Naturals, Sequences

CONSTANTS
  Robots,
  First,       \* the first robot of the registry
  Registered,  \* whether the robots are in the registry
  Levels,      \* the battery thresholds that are told apart
  BusCapacity, \* bound on events on the bus; more are dropped
  Unnamed      \* the robot of an event that carries no robot id

ASSUME MonitorAssumption ==
  /\ First \in Robots
  /\ Registered \in BOOLEAN
  /\ ~Registered => Robots = {First}
  /\ Levels \subseteq 0..3
  /\ BusCapacity \in Nat \ {0}
  /\ Unnamed \notin Robots

VARIABLES
  link,    \* the robot answers its SDK calls
  level,   \* the threshold its battery has passed
  reading, \* a poll has read this of the link, and not yet the battery
  current, \* StateMonitor._current_state and _previous_connection_ok
  latch,   \* the battery warnings that were given
  bus      \* events that wait for delivery

robotVars   == <<link, level>>
monitorVars == <<reading, current, latch>>

\* The robot a listening service is busy with, when there is none.
Nobody == "nobody"

LinkKinds == {"link_ok", "link_bad", "lost", "restored"}
BatteryKinds == {"warn", "critical", "recharged"}
Events == [kind : LinkKinds \cup BatteryKinds, robot : Robots \cup {Unnamed}]

MonitorTypeOK ==
  /\ link \in [Robots -> BOOLEAN] /\ level \in [Robots -> Levels]
  /\ reading \in [Robots -> {"nothing", "up", "down"}]
  /\ current \in [Robots -> {"unknown", "up", "lost", "empty"}]
  /\ latch \in [Robots -> {"none", "warn", "critical"}]
  /\ bus \in Seq(Events) /\ Len(bus) <= BusCapacity

MonitorInit ==
  /\ link = [r \in Robots |-> TRUE] /\ level \in [Robots -> Levels]
  /\ reading = [r \in Robots |-> "nothing"]
  /\ current = [r \in Robots |-> "unknown"]
  /\ latch = [r \in Robots |-> "none"]
  /\ bus = <<>>

(***************************************************************************)
(* The bus takes events while it has room.                                 *)
(***************************************************************************)
Offer(events) ==
  LET all == bus \o events
  IN  SubSeq(all, 1, IF Len(all) < BusCapacity THEN Len(all)
                                               ELSE BusCapacity)

Fits(events) == Len(bus) + Len(events) <= BusCapacity

\* An event without a robot id is taken to be about the first robot.
Target(event) == IF event.robot = Unnamed THEN First ELSE event.robot

(***************************************************************************)
(* The robot.                                                              *)
(***************************************************************************)
ChangeLink(r) ==
  /\ link' = [link EXCEPT ![r] = ~@]
  /\ UNCHANGED <<level, monitorVars, bus>>

ChangeBattery(r) ==
  /\ \E l \in Levels \ {level[r]} : level' = [level EXCEPT ![r] = l]
  /\ UNCHANGED <<link, monitorVars, bus>>

(***************************************************************************)
(* State monitor.  A poll of a robot that does not answer makes the SDK    *)
(* adapter itself announce the loss, without a robot id.                   *)
(***************************************************************************)
AdapterAnnounces(r) ==
  IF link[r] THEN <<>> ELSE <<[kind |-> "lost", robot |-> Unnamed]>>

ReadTheLink(r) ==
  /\ reading[r] = "nothing"
  /\ reading' = [reading EXCEPT ![r] = IF link[r] THEN "up" ELSE "down"]
  /\ bus' = Offer(AdapterAnnounces(r))
  /\ UNCHANGED <<robotVars, current, latch>>

\* get_battery answers 0 when the SDK call fails.
BatteryRead(r) == IF link[r] THEN level[r] ELSE 0

Observed(r, pct) == IF reading[r] = "up" THEN "up"
                    ELSE IF pct = 0 THEN "empty" ELSE "lost"

Named(r, kind) == [kind |-> kind, robot |-> r]

TransitionEvents(r) ==
  IF current[r] # "up" /\ reading[r] = "up" THEN <<Named(r, "restored")>>
  ELSE IF current[r] = "up" /\ reading[r] = "down" THEN <<Named(r, "lost")>>
  ELSE <<>>

(* (mutant: recharge is announced only after a plain warning) *)
RechargedAfterWarn(r, pct) == pct = 3 /\ latch[r] = "warn"

Recharged(r, pct) == pct = 3 /\ latch[r] # "none"

ThresholdEvents(r, pct) ==
  (IF pct <= 1 /\ latch[r] = "none" THEN <<Named(r, "warn")>> ELSE <<>>)
  \o (IF pct = 0 /\ latch[r] # "critical" THEN <<Named(r, "critical")>>
                                          ELSE <<>>)
  \o (IF Recharged(r, pct) THEN <<Named(r, "recharged")>> ELSE <<>>)

LatchAfter(r, pct) ==
  IF pct = 0 THEN "critical"
  ELSE IF pct = 1 /\ latch[r] = "none" THEN "warn"
  ELSE IF Recharged(r, pct) THEN "none" ELSE latch[r]

PollEvents(r, pct) ==
  <<Named(r, IF reading[r] = "up" THEN "link_ok" ELSE "link_bad")>>
  \o TransitionEvents(r) \o ThresholdEvents(r, pct)

FinishThePoll(r) ==
  /\ reading[r] # "nothing"
  /\ LET pct == BatteryRead(r) IN
       /\ current' = [current EXCEPT ![r] = Observed(r, pct)]
       /\ latch' = [latch EXCEPT ![r] = LatchAfter(r, pct)]
       /\ bus' = Offer(PollEvents(r, pct))
  /\ reading' = [reading EXCEPT ![r] = "nothing"]
  /\ UNCHANGED robotVars
=============================================================================
