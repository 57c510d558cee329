---------------------------- MODULE Provisioning ----------------------------
(***************************************************************************)
(* Putting robots on the site's WiFi and into the fleet file.  A job, one  *)
(* thread, logs in to the robot whose access point the PC has joined,      *)
(* moves it to the site's network, finds its address, points its SDK at    *)
(* this PC and writes it to robots.yaml.  The file is read, changed and    *)
(* written without a lock, by jobs in threads and by the DELETE handler in *)
(* the event loop, and a write first empties it.                           *)
(*                                                                         *)
(* A robot stands for its MAC, and an entry of the file is a robot's id,   *)
(* MAC and address; its other fields are left out, but they make the text  *)
(* of an entry as long or short as one likes.                              *)
(***************************************************************************)
EXTENDS Naturals, FiniteSetsExt, SequencesExt

CONSTANTS
  Robots,
  Addresses,   \* on the site's network
  Ids,         \* robot ids, in the order they are generated (bound)
  Jobs,        \* those that run at one time (bound)
  MaxCalls,    \* bound: POST /provision/start calls
  MaxLeaves    \* bound: times a robot drops off the site's network

ASSUME ProvisioningAssumption ==
  /\ "nothing" \notin Robots \cup Addresses
  /\ Ids \subseteq Nat \ {0} /\ MaxCalls \in Nat /\ MaxLeaves \in Nat
  /\ "handler" \notin Jobs

VARIABLES
  joined,     \* robot whose access point the PC is on
  address,    \* of each robot on the site's network
  noted,      \* /tmp/quadruped_ip on each robot
  configured, \* robots whose SDK configuration names this PC
  file,       \* entries of robots.yaml, or that it cannot be parsed
  job,        \* what each job works on
  status,     \* how far each job is
  writer,     \* what each writer of the file is about to do
  serving,    \* whether the process came up
  registered, \* robots the completed writes left in the file (history)
  disturbed,  \* writers overlapped or a write broke off (history)
  mixed,      \* a write left the end of another's text (history)
  crossed,    \* the MACs that jobs paired with another's address (history)
  leaves, calls

network == <<joined, address, noted, leaves>>
process == <<serving, calls>>
history == <<registered, disturbed, mixed, crossed>>
vars == <<network, configured, file, job, status, writer, process, history>>

Nothing == "nothing"
NoId == 0
Handler == "handler"
Writers == Jobs \cup {Handler}
Entries == [id : Ids, mac : Robots, ip : Addresses]
Unreadable == <<[id |-> NoId, mac |-> Nothing, ip |-> Nothing]>>
Orders == [ssid : Robots \cup {Nothing}, wanted : Ids \cup {NoId},
           on : Robots \cup {Nothing}, mac : Robots \cup {Nothing},
           ip : Addresses \cup {Nothing}]
NoOrder == [ssid |-> Nothing, wanted |-> NoId, on |-> Nothing,
            mac |-> Nothing, ip |-> Nothing]
Steps == {"idle", "queued", "scripting", "locating", "patching", "loading"}
Resting == [step |-> "resting", content |-> <<>>, robot |-> Nothing]

TypeOK ==
  /\ joined \in Robots \cup {Nothing}
  /\ address \in [Robots -> Addresses \cup {Nothing}]
  /\ noted \in [Robots -> Addresses \cup {Nothing}]
  /\ configured \subseteq Robots
  /\ file \in Seq(Entries) \/ file = Unreadable
  /\ job \in [Jobs -> Orders] /\ status \in [Jobs -> Steps]
  /\ writer \in [Writers -> [step : {"resting", "loaded", "emptied"},
                              content : Seq(Entries),
                              robot : Robots \cup {Nothing}]]
  /\ serving \in BOOLEAN /\ disturbed \in BOOLEAN /\ mixed \in BOOLEAN
  /\ registered \subseteq Robots
  /\ leaves \in 0 .. MaxLeaves /\ calls \in 0 .. MaxCalls
  /\ crossed \subseteq Robots \X Addresses

Init ==
  /\ joined = Nothing
  /\ address = [r \in Robots |-> Nothing] /\ noted = address
  /\ configured = {} /\ file = <<>>
  /\ job = [j \in Jobs |-> NoOrder]
  /\ status = [j \in Jobs |-> "idle"]
  /\ writer = [w \in Writers |-> Resting]
  /\ serving = TRUE
  /\ registered = {} /\ disturbed = FALSE
  /\ mixed = FALSE /\ crossed = {}
  /\ leaves = 0 /\ calls = 0

(***************************************************************************)
(* Helpers of the backend.                                                 *)
(***************************************************************************)
\* The place of the first entry with this MAC, or 0.
EntryOf(r) == SelectInSeq(file, LAMBDA e : e.mac = r)

(* (mutant: an id counts as free although another robot has it) *)
AnyId(id, r) == TRUE

IdIsAvailable(id, r) == \A k \in DOMAIN file \ {EntryOf(r)} : file[k].id # id

UnusedIds == Ids \ {e.id : e \in ToSet(file)}

GeneratedId == Min(UnusedIds)

\* The id asked for, or the one the robot has, or the next free one.
IdFor(r, wanted) ==
  CASE wanted # NoId                       -> wanted
    [] wanted = NoId /\ EntryOf(r) # 0     -> file[EntryOf(r)].id
    [] OTHER                               -> GeneratedId

(* (mutant: the file is written with the new entry alone) *)
OnlyNewEntry(r, id, ip) == <<[id |-> id, mac |-> r, ip |-> ip]>>

\* The robot's entry takes the place of the one it had, or comes last.
WithEntry(r, id, ip) ==
  LET entry == [id |-> id, mac |-> r, ip |-> ip] IN
  IF EntryOf(r) = 0 THEN Append(file, entry)
  ELSE ReplaceAt(file, EntryOf(r), entry)

\* GET /provision/status alone tells how a job ended, so that is left out and
\* the job may stand for another call.
Ends(j) ==
  /\ status' = [status EXCEPT ![j] = "idle"]
  /\ job' = [job EXCEPT ![j] = NoOrder]

Goes(j, step) == status' = [status EXCEPT ![j] = step]

\* Both writers read the file, then empty it, then fill it.
Overlapping == \E w \in Writers : writer[w].step # "resting"

Loads(w, r, content) ==
  /\ writer' = [writer EXCEPT
                  ![w] = [step |-> "loaded", content |-> content, robot |-> r]]
  /\ disturbed' = (disturbed \/ Overlapping)

(***************************************************************************)
(* A provisioning job.                                                     *)
(***************************************************************************)
ProvisionStart(j, ssid, wanted) ==
  /\ serving /\ writer[Handler] = Resting
  /\ status[j] = "idle"
  /\ Goes(j, "queued")
  /\ job' = [job EXCEPT ![j] = [NoOrder EXCEPT !.ssid = ssid,
                                               !.wanted = wanted]]
  /\ calls < MaxCalls /\ calls' = calls + 1
  /\ UNCHANGED <<network, configured, file, writer, serving, history>>

\* Every job logs in at the access points' one address and uploads the
\* script.
LogsIn(j) ==
  /\ joined # Nothing
  /\ job' = [job EXCEPT ![j].on = joined]

Connect(j) ==
  /\ status[j] = "queued"
  /\ \/ LogsIn(j) /\ Goes(j, "scripting")
     \/ Ends(j)
  /\ UNCHANGED <<network, configured, file, writer, process, history>>

\* The robot leaves its access point for the site's network, and notes
\* its address, or the script stops before that; nobody looks at its
\* exit status.
FreeAddresses(r) == Addresses \ {address[s] : s \in Robots \ {r}}

JoinsSite(r) ==
  \E a \in FreeAddresses(r) :
    /\ address[r] \in {a, Nothing}
    /\ address' = [address EXCEPT ![r] = a]
    /\ noted' = [noted EXCEPT ![r] = a]
    /\ joined' = IF joined = r THEN Nothing ELSE joined
    /\ UNCHANGED leaves

\* It left its access point and waits for an address in vain.
AddressTimesOut(r) ==
  /\ address[r] = Nothing
  /\ joined' = IF joined = r THEN Nothing ELSE joined
  /\ UNCHANGED <<address, noted, leaves>>

StaysOnAccessPoint == UNCHANGED network

\* MAC and address are read by two commands, of which each may fail for
\* itself; for the MAC there is still the one in the SSID.
ReadBack(j, r) ==
  \E mac \in {r, job[j].ssid}, ip \in {noted'[r], Nothing} :
    /\ job' = [job EXCEPT ![j] = [NoOrder EXCEPT
                 !.wanted = job[j].wanted, !.mac = mac, !.ip = ip]]
    /\ crossed' = crossed \cup
         ({<<mac, ip>>} \cap ((Robots \ {r}) \X Addresses))

\* The script takes as long as the robot likes: its exit status is awaited
\* without a time limit, so that no job is promised to end.
RunScript(j) ==
  /\ status[j] = "scripting"
  /\ LET r == job[j].on IN
     /\ JoinsSite(r) \/ AddressTimesOut(r) \/ StaysOnAccessPoint
     /\ ReadBack(j, r)
  /\ Goes(j, "locating")
  /\ UNCHANGED <<configured, file, writer, process, registered, disturbed,
                 mixed>>

\* The address noted, or the one find_ip_by_mac polls the neighbour table
\* for, which gives up after a while; without a MAC there is neither.
Located(j) ==
  CASE job[j].mac = Nothing -> {}
    [] job[j].mac # Nothing /\ job[j].ip # Nothing -> {job[j].ip}
    [] OTHER -> {address[job[j].mac]} \ {Nothing}

Locate(j) ==
  /\ status[j] = "locating"
  /\ \/ \E ip \in Located(j) :
          Goes(j, "patching") /\ job' = [job EXCEPT ![j].ip = ip]
     \/ Nothing \in {job[j].mac, job[j].ip} /\ Ends(j)
  /\ UNCHANGED <<network, configured, file, writer, process, history>>

(* (mutant: a robot that could not be configured is registered all the    *)
(* same)                                                                   *)
PatchUnchecked(j) ==
  /\ status[j] = "patching" /\ Goes(j, "loading")
  /\ UNCHANGED <<network, configured, file, job, writer, process, history>>

PatchSdkConfig(j) ==
  /\ status[j] = "patching"
  /\ \/ \E r \in Robots :
          /\ address[r] = job[j].ip
          /\ configured' = configured \cup {r}
          /\ Goes(j, "loading")
          /\ UNCHANGED job
     \/ Ends(j) /\ UNCHANGED configured
  /\ UNCHANGED <<network, file, writer, process, history>>

\* (bound) An id is left for a robot that has none and asks for none.
IdLeft(r, wanted) == wanted # NoId \/ EntryOf(r) # 0 \/ UnusedIds # {}

\* write_robot_entry up to the write: parsing fails, or the id is taken.
LoadEntries(j) ==
  /\ status[j] = "loading" /\ writer[j] = Resting
  /\ IdLeft(job[j].mac, job[j].wanted)
  /\ LET r == job[j].mac
         id == IdFor(r, job[j].wanted)
     IN IF file # Unreadable /\ IdIsAvailable(id, r)
        THEN /\ Loads(j, r, WithEntry(r, id, job[j].ip))
             /\ job' = [job EXCEPT ![j] = NoOrder]
             /\ UNCHANGED status
        ELSE Ends(j) /\ UNCHANGED <<writer, disturbed>>
  /\ UNCHANGED <<network, configured, file, process, registered, mixed,
                 crossed>>

(***************************************************************************)
(* DELETE /provision/robots: the event loop does nothing else meanwhile,   *)
(* but the jobs' threads run.                                              *)
(***************************************************************************)
DeleteRobot(id) ==
  /\ serving /\ writer[Handler] = Resting
  /\ file # Unreadable
  /\ LET k == SelectInSeq(file, LAMBDA e : e.id = id) IN
     k # 0 /\ Loads(Handler, file[k].mac, RemoveAt(file, k))
  /\ UNCHANGED <<network, configured, file, job, status, process,
                 registered, mixed, crossed>>

(***************************************************************************)
(* Writing.  Of two writers that emptied the file the later overwrites the *)
(* start of what the earlier wrote; when its own text is the shorter, the  *)
(* end of the other is left over.                                          *)
(***************************************************************************)
Empty(w) ==
  /\ writer[w].step = "loaded"
  /\ writer' = [writer EXCEPT ![w].step = "emptied"]
  /\ file' = <<>>
  /\ UNCHANGED <<network, configured, job, status, process, history>>

Answered(w) ==
  /\ writer' = [writer EXCEPT ![w] = Resting]
  /\ IF w = Handler THEN UNCHANGED <<job, status>> ELSE Ends(w)

RegisteredBy(w) ==
  IF w = Handler THEN registered \ {writer[w].robot}
  ELSE registered \cup {writer[w].robot}

\* The last lines of another entry after those of e: a repeated key counts.
Continued(e, other) ==
  {e, [e EXCEPT !.ip = other.ip],
   [e EXCEPT !.mac = other.mac, !.ip = other.ip]}

\* The text ends within the other's k-th entry, whose last lines go to the
\* last entry written, and the entries after it are left; or the file cannot
\* be parsed.  (After an empty list, nothing can follow.)  (bound) Once.
LeavesEnd(content) ==
  /\ ~mixed /\ mixed' = TRUE
  /\ file # <<>>
  /\ \/ file' = Unreadable
     \/ /\ content # <<>>
        /\ \E k \in DOMAIN file : \E e \in Continued(Last(content), file[k]) :
             file' = Front(content) \o <<e>> \o SubSeq(file, k + 1, Len(file))
  /\ file' # content

Fill(w) ==
  /\ writer[w].step = "emptied"
  /\ \/ file' = writer[w].content /\ UNCHANGED mixed
     \/ LeavesEnd(writer[w].content)
  /\ registered' = RegisteredBy(w)
  /\ Answered(w)
  /\ UNCHANGED <<network, configured, process, disturbed, crossed>>

\* The disk refuses the text, and the file stays empty.
FillFails(w) ==
  /\ writer[w].step = "emptied"
  /\ disturbed' = TRUE
  /\ Answered(w)
  /\ UNCHANGED <<network, configured, file, process, registered, mixed,
                 crossed>>

(***************************************************************************)
(* The surroundings.                                                       *)
(***************************************************************************)
JoinAccessPoint(r) ==
  /\ address[r] = Nothing /\ joined # r
  /\ joined' = r
  /\ UNCHANGED <<address, noted, leaves, configured, file, job, status,
                 writer, process, history>>

LeavesSite(r) ==
  /\ address[r] # Nothing /\ leaves < MaxLeaves
  /\ address' = [address EXCEPT ![r] = Nothing]
  /\ leaves' = leaves + 1
  /\ UNCHANGED <<joined, noted, configured, file, job, status, writer,
                 process, history>>

\* What _build_robot_config takes for a fleet.
Accepted(entries) ==
  /\ entries # Unreadable
  /\ \A k, m \in DOMAIN entries : entries[k].id = entries[m].id => k = m

\* The job table and the threads are gone, and the next start reads the
\* file: it refuses one it cannot parse, and takes an empty one for a
\* fleet of none.
Restart ==
  /\ status' = [j \in Jobs |-> "idle"]
  /\ job' = [j \in Jobs |-> NoOrder]
  /\ writer' = [w \in Writers |-> Resting]
  /\ disturbed' = (disturbed \/ \E w \in Writers : writer[w].step = "emptied")
  /\ serving' = Accepted(file)
  /\ UNCHANGED <<network, configured, file, calls, registered, mixed, crossed>>

JobStep(j) ==
  \/ Connect(j) \/ RunScript(j) \/ Locate(j) \/ PatchSdkConfig(j)
  \/ LoadEntries(j) \/ Empty(j) \/ Fill(j) \/ FillFails(j)

HandlerStep ==
  \/ \E id \in Ids : DeleteRobot(id)
  \/ Empty(Handler) \/ Fill(Handler) \/ FillFails(Handler)

Next ==
  \/ \E j \in Jobs :
       \/ \E ssid \in Robots \cup {Nothing}, wanted \in Ids \cup {NoId} :
            ProvisionStart(j, ssid, wanted)
       \/ JobStep(j)
  \/ HandlerStep
  \/ \E r \in Robots : JoinAccessPoint(r) \/ LeavesSite(r)
  \/ Restart

Spec == Init /\ [][Next]_vars

(***************************************************************************)
(* Properties.                                                             *)
(***************************************************************************)
\* However the writers interleave and break off, everything keeps its type,
\* and no two entries share an id or a MAC, of which base_startup refuses the
\* one and takes the other for two robots: unless a write has left the end of
\* another writer's text, which may hold such an entry.
FileIsWellFormed ==
  /\ TypeOK
  /\ ~mixed =>
       \A k, m \in DOMAIN file :
         file[k].id = file[m].id \/ file[k].mac = file[m].mac => k = m

\* As long as no two writers overlapped and no write broke off, the file
\* holds exactly the robots that were provisioned and not deleted since.
FileHoldsWhatWasDone ==
  \/ disturbed
  \/ \E w \in Writers : writer[w].step = "emptied"
  \/ {e.mac : e \in ToSet(file)} = registered

\* As long as no robot drops off the site's network, whichever access point
\* the PC was on, whatever the session lost and whatever text was left over,
\* every entry gives the address of a robot whose SDK was pointed at this PC;
\* and that robot is the entry's own, unless a job read the address but not
\* the MAC back and took the MAC of another, or a write left the end of
\* another's text.
EntriesReachTheirRobots ==
  leaves = 0 /\ file # Unreadable =>
    \A e \in ToSet(file) :
      /\ \E r \in configured : e.ip = address[r]
      /\ \/ e.ip = address[e.mac] /\ e.mac \in configured
         \/ <<e.mac, e.ip>> \in crossed
         \/ mixed

=============================================================================
