------------------------- MODULE Provisioning_proofs -------------------------
(***************************************************************************)
(* What Provisioning promises, for any robots, addresses, ids and jobs: a  *)
(* well-formed file, until a write leaves the end of another's text; a     *)
(* file that holds what was done, as long as one writer writes at a time;  *)
(* and entries that reach their robots, as long as these keep their        *)
(* addresses.  The invariant follows an entry from the login over the job  *)
(* and the writer into the file.                                           *)
(***************************************************************************)
EXTENDS Provisioning, SequenceTheorems, WellFoundedInduction, TLAPS

Busy(w) == writer[w].step # "resting"

\* A job that waits to write the file.
ToLoad(j) == status[j] = "loading" /\ ~Busy(j)

Macs(entries) == {e.mac : e \in ToSet(entries)}

WellFormed(entries) ==
  \A k, m \in DOMAIN entries :
    entries[k].id = entries[m].id \/ entries[k].mac = entries[m].mac => k = m

\* An address leads to a robot whose SDK was pointed at this PC, and this is
\* the robot with the MAC, or the two were known not to belong together.
Leads(ip) == \E r \in configured : ip = address[r]

Belongs(mac, ip) ==
  (ip = address[mac] /\ mac \in configured) \/ <<mac, ip>> \in crossed

Reaches(entries) ==
  \A k \in DOMAIN entries :
    /\ Leads(entries[k].ip)
    /\ Belongs(entries[k].mac, entries[k].ip) \/ mixed

\* A job knows whom it works on.
JobsKnowTheirRobots ==
  \A j \in Jobs :
    /\ status[j] = "scripting" => job[j].on \in Robots
    /\ status[j] = "patching" \/ ToLoad(j) =>
         job[j].mac \in Robots /\ job[j].ip \in Addresses
    /\ Busy(j) => writer[j].robot \in Robots

\* The site's network gives no two robots the same address.
AddressesDiffer ==
  \A r, s \in Robots : address[r] = address[s] /\ r # s => address[r] = Nothing

\* What a job knows of the address before the robot is configured and after.
Found(j) ==
  (status[j] \in {"locating", "patching"} \/ ToLoad(j))
  /\ job[j].ip # Nothing /\ job[j].mac # Nothing
    => job[j].ip = address[job[j].mac] \/ <<job[j].mac, job[j].ip>> \in crossed

Settled(j) ==
  ToLoad(j) => Leads(job[j].ip) /\ Belongs(job[j].mac, job[j].ip)

\* Nothing that was noted of an address gets out of date, while robots stay.
AddressesHold ==
  leaves = 0 =>
    /\ noted = address
    /\ \A j \in Jobs : Found(j) /\ Settled(j)
    /\ file # Unreadable => Reaches(file)
    /\ \A w \in Writers : Reaches(writer[w].content)

\* One writer at a time, and what it is about to write is what is
\* registered when it has written.
WritersTakeTurns ==
  ~disturbed =>
    /\ ~mixed
    /\ \A v, w \in Writers : Busy(v) /\ Busy(w) => v = w
    /\ \A w \in Writers :
         /\ Busy(w) => Macs(writer[w].content) = RegisteredBy(w)
         /\ writer[w].step = "emptied" => file = <<>>
    /\ (\A w \in Writers : writer[w].step # "emptied") =>
         Macs(file) = registered

\* Before text was left over, there is only what the writers made of it.
ContentsAreWellFormed ==
  ~mixed =>
    /\ file # Unreadable
    /\ \A w \in Writers : WellFormed(writer[w].content)

IndInv ==
  /\ FileIsWellFormed /\ ContentsAreWellFormed
  /\ JobsKnowTheirRobots /\ AddressesDiffer
  /\ AddressesHold /\ WritersTakeTurns

-----------------------------------------------------------------------------
(* Ids and entries.                                                        *)

LEMMA LeastIsIn ==
  ASSUME NEW S \in SUBSET Nat, S # {}
  PROVE  Min(S) \in S
<1>1. IsWellFoundedOn(OpToRel(<, Nat), Nat)
      BY NatLessThanWellFounded
<1>2. PICK x \in S : \A y \in S : <<y, x>> \notin OpToRel(<, Nat)
      BY <1>1, WFMin
<1>3. \A y \in S : y \in Nat /\ x \in Nat /\ <<y, x>>[1] = y /\ <<y, x>>[2] = x
      OBVIOUS
<1>4. \A y \in S : ~(y < x)
      BY <1>2, <1>3, Zenon DEF OpToRel
<1>5. \A y \in S : x =< y
      BY <1>4
<1> QED BY <1>5 DEF Min

\* The file as a sequence of entries.
LEMMA FileFacts ==
  ASSUME TypeOK, file # Unreadable
  PROVE  /\ file \in Seq(Entries) /\ Len(file) \in Nat
         /\ DOMAIN file = 1 .. Len(file)
         /\ \A k \in DOMAIN file : file[k] \in Entries
BY LenProperties, ElementOfSeq DEF TypeOK

\* The search finds the first such entry, if there is any.
LEMMA EntryOfFacts ==
  ASSUME TypeOK, file # Unreadable, NEW r \in Robots
  PROVE  \/ EntryOf(r) = 0 /\ \A k \in DOMAIN file : file[k].mac # r
         \/ EntryOf(r) \in DOMAIN file /\ file[EntryOf(r)].mac = r
<1> DEFINE I == {k \in 1 .. Len(file) : file[k].mac = r}
<1>1. EntryOf(r) = IF I # {} THEN Min(I) ELSE 0
      BY DEF EntryOf, SelectInSeq
<1>2. I \in SUBSET Nat /\ DOMAIN file = 1 .. Len(file)
      BY FileFacts
<1>3. I # {} => Min(I) \in I
      BY <1>2, LeastIsIn
<1> QED BY <1>1, <1>2, <1>3

\* There is an id for a robot that has none, within the bound.
LEMMA IdForFacts ==
  ASSUME TypeOK, file # Unreadable, NEW r \in Robots,
         NEW wanted \in Ids \cup {NoId}, IdLeft(r, wanted)
  PROVE  IdFor(r, wanted) \in Ids
<1>1. CASE wanted # NoId
      BY <1>1 DEF IdFor
<1>2. CASE wanted = NoId /\ EntryOf(r) # 0
  <2>1. file[EntryOf(r)] \in Entries
        BY <1>2, FileFacts, EntryOfFacts
  <2> QED BY <1>2, <2>1 DEF IdFor, Entries
<1>3. CASE wanted = NoId /\ EntryOf(r) = 0
  <2>1. UnusedIds # {} /\ UnusedIds \in SUBSET Nat
        BY <1>3, ProvisioningAssumption DEF IdLeft, UnusedIds
  <2>2. GeneratedId \in UnusedIds
        BY <2>1, LeastIsIn DEF GeneratedId
  <2> QED BY <1>3, <2>2 DEF IdFor, UnusedIds
<1> QED BY <1>1, <1>2, <1>3

LEMMA MacsAre ==
  ASSUME NEW entries
  PROVE  Macs(entries) = {entries[k].mac : k \in DOMAIN entries}
BY DEF Macs, ToSet

\* The robot's entry takes the place of the one it had, or is the last.
LEMMA WithEntryFacts ==
  ASSUME TypeOK, file # Unreadable, NEW r \in Robots,
         NEW id \in Ids, NEW ip \in Addresses
  PROVE  /\ WithEntry(r, id, ip) \in Seq(Entries)
         /\ \A k \in DOMAIN WithEntry(r, id, ip) :
              \/ WithEntry(r, id, ip)[k] = [id |-> id, mac |-> r, ip |-> ip]
              \/ k \in DOMAIN file /\ WithEntry(r, id, ip)[k] = file[k]
         /\ Macs(WithEntry(r, id, ip)) = Macs(file) \cup {r}
         /\ WellFormed(file) /\ IdIsAvailable(id, r) =>
              WellFormed(WithEntry(r, id, ip))
<1> DEFINE new == [id |-> id, mac |-> r, ip |-> ip]
           changed == WithEntry(r, id, ip)
<1>1. new \in Entries /\ new.id = id /\ new.mac = r
      BY DEF Entries
<1>2. /\ file \in Seq(Entries) /\ Len(file) \in Nat
      /\ DOMAIN file = 1 .. Len(file)
      BY FileFacts
<1>3. CASE EntryOf(r) = 0
  <2>1. changed = Append(file, new)
        BY <1>3 DEF WithEntry
  <2>2. \A k \in DOMAIN file : file[k].mac # r
        BY <1>3, EntryOfFacts, <1>2
  <2> HIDE DEF new, changed
  <2>3. /\ changed \in Seq(Entries) /\ DOMAIN changed = 1 .. Len(file) + 1
        /\ \A k \in DOMAIN file : changed[k] = file[k]
        /\ changed[Len(file) + 1] = new
        BY <1>1, <1>2, <2>1, AppendProperties, LenProperties
  <2>4. \A k \in DOMAIN changed : k \in DOMAIN file \/ changed[k] = new
        BY <1>2, <2>3
  <2>5. Macs(changed) = Macs(file) \cup {r}
        BY <1>1, <1>2, <2>3, <2>4, MacsAre
  <2>6. WellFormed(file) /\ IdIsAvailable(id, r) => WellFormed(changed)
        BY <1>1, <1>2, <1>3, <2>2, <2>3 DEF WellFormed, IdIsAvailable
  <2> QED BY <2>3, <2>4, <2>5, <2>6 DEF new, changed
<1>4. CASE EntryOf(r) # 0
  <2>1. changed = [file EXCEPT ![EntryOf(r)] = new]
        BY <1>4 DEF WithEntry, ReplaceAt
  <2>2. PICK m \in DOMAIN file : m = EntryOf(r) /\ file[m].mac = r
        BY <1>4, EntryOfFacts
  <2> HIDE DEF new, changed
  <2>3. /\ changed \in Seq(Entries) /\ DOMAIN changed = DOMAIN file
        /\ \A k \in DOMAIN file : changed[k] = IF k = m THEN new ELSE file[k]
        BY <1>1, <1>2, <2>1, <2>2, ExceptSeq, LenProperties
  <2>4. Macs(changed) = Macs(file) \cup {r}
    <3>1. \A k \in DOMAIN file : changed[k].mac = file[k].mac
          BY <1>1, <2>2, <2>3
    <3>2. Macs(changed) = Macs(file)
          BY <2>3, <3>1, MacsAre
    <3>3. r \in Macs(file)
          BY <2>2, MacsAre
    <3> QED BY <3>2, <3>3
  <2>5. WellFormed(file) /\ IdIsAvailable(id, r) => WellFormed(changed)
        BY <1>1, <1>2, <2>2, <2>3 DEF WellFormed, IdIsAvailable
  <2> QED BY <2>3, <2>4, <2>5 DEF new, changed
<1> QED BY <1>3, <1>4

LEMMA WithoutEntryFacts ==
  ASSUME TypeOK, file # Unreadable, NEW m \in DOMAIN file
  PROVE  /\ RemoveAt(file, m) \in Seq(Entries) /\ file[m] \in Entries
         /\ \A k \in DOMAIN RemoveAt(file, m) :
              \E l \in DOMAIN file : RemoveAt(file, m)[k] = file[l]
         /\ WellFormed(file) =>
              /\ WellFormed(RemoveAt(file, m))
              /\ Macs(RemoveAt(file, m)) = Macs(file) \ {file[m].mac}
<1> DEFINE kept == RemoveAt(file, m)
           before == SubSeq(file, 1, m - 1)
           after == SubSeq(file, m + 1, Len(file))
           from(k) == IF k < m THEN k ELSE k + 1
<1>1. /\ file \in Seq(Entries) /\ Len(file) \in Nat
      /\ DOMAIN file = 1 .. Len(file) /\ m \in 1 .. Len(file)
      /\ \A k \in DOMAIN file : file[k] \in Entries
      BY FileFacts
<1>2. /\ before \in Seq(Entries) /\ Len(before) = m - 1
      /\ \A i \in 1 .. m - 1 : before[i] = file[i]
  <2>1. \A i \in 1 .. m - 1 : file[i] \in Entries
        BY <1>1
  <2>2. /\ before \in Seq(Entries)
        /\ Len(before) = IF 1 <= m - 1 THEN (m - 1) - 1 + 1 ELSE 0
        /\ \A i \in 1 .. (m - 1) - 1 + 1 : before[i] = file[1 + i - 1]
        BY <1>1, <2>1, SubSeqProperties
  <2> HIDE DEF before
  <2> QED BY <1>1, <2>2
<1>3. /\ after \in Seq(Entries) /\ Len(after) = Len(file) - m
      /\ \A i \in 1 .. Len(file) - m : after[i] = file[m + i]
  <2>1. \A i \in m + 1 .. Len(file) : file[i] \in Entries
        BY <1>1
  <2>2. /\ after \in Seq(Entries)
        /\ Len(after) = IF m + 1 <= Len(file) THEN Len(file) - (m + 1) + 1
                        ELSE 0
        /\ \A i \in 1 .. Len(file) - (m + 1) + 1 :
             after[i] = file[(m + 1) + i - 1]
        BY <1>1, <2>1, SubSeqProperties
  <2> HIDE DEF after
  <2>3. Len(after) = Len(file) - m
        BY <1>1, <2>2
  <2>4. \A i \in 1 .. Len(file) - m : /\ i \in 1 .. Len(file) - (m + 1) + 1
                                      /\ (m + 1) + i - 1 = m + i
        BY <1>1
  <2> QED BY <2>2, <2>3, <2>4
<1>4. kept = before \o after
      BY DEF RemoveAt
<1> HIDE DEF kept, before, after
<1>5. /\ kept \in Seq(Entries) /\ DOMAIN kept = 1 .. Len(file) - 1
      /\ \A k \in DOMAIN kept : kept[k] = file[from(k)]
  <2>1. /\ kept \in Seq(Entries) /\ Len(kept) = Len(before) + Len(after)
        /\ \A i \in 1 .. Len(before) + Len(after) :
             kept[i] = IF i <= Len(before) THEN before[i]
                       ELSE after[i - Len(before)]
        BY <1>2, <1>3, <1>4, ConcatProperties
  <2>2. DOMAIN kept = 1 .. Len(file) - 1
        BY <1>1, <1>2, <1>3, <2>1, LenProperties
  <2>3. ASSUME NEW k \in DOMAIN kept
        PROVE  kept[k] = file[from(k)]
    <3>1. CASE k < m
          BY <1>1, <1>2, <1>3, <2>1, <2>2, <3>1
    <3>2. CASE ~(k < m)
      <4>1. k - (m - 1) \in 1 .. Len(file) - m /\ m + (k - (m - 1)) = k + 1
            BY <1>1, <2>2, <3>2
      <4> QED BY <1>1, <1>2, <1>3, <2>1, <2>2, <3>2, <4>1
    <3> QED BY <3>1, <3>2
  <2> QED BY <2>1, <2>2, <2>3
<1>6. /\ \A k \in DOMAIN kept : from(k) \in DOMAIN file \ {m}
      /\ \A k, l \in DOMAIN kept : from(k) = from(l) => k = l
      BY <1>1, <1>5
<1>7. \A l \in DOMAIN file \ {m} : \E k \in DOMAIN kept : from(k) = l
  <2> TAKE l \in DOMAIN file \ {m}
  <2>1. CASE l < m
    <3>1. l \in DOMAIN kept /\ from(l) = l
          BY <1>1, <1>5, <2>1
    <3> QED BY <3>1
  <2>2. CASE ~(l < m)
    <3>1. l - 1 \in DOMAIN kept /\ from(l - 1) = l
          BY <1>1, <1>5, <2>2
    <3> QED BY <3>1
  <2> QED BY <2>1, <2>2
<1> HIDE DEF from
<1>8. ASSUME WellFormed(file)
      PROVE  WellFormed(kept) /\ Macs(kept) = Macs(file) \ {file[m].mac}
  <2>1. WellFormed(kept)
        BY <1>5, <1>6, <1>8 DEF WellFormed
  <2>2. \A l \in DOMAIN file \ {m} : file[l].mac # file[m].mac
        BY <1>8 DEF WellFormed
  <2>3. \A mac : mac \in Macs(kept) <=>
                   \E l \in DOMAIN file \ {m} : file[l].mac = mac
        BY <1>5, <1>6, <1>7, MacsAre
  <2> QED BY <2>1, <2>2, <2>3, MacsAre
<1> QED BY <1>1, <1>5, <1>6, <1>8 DEF kept

\* A text that ends in e, and what is left of the old one after its k-th entry.
Mixture(content, e, old, k) ==
  Front(content) \o <<e>> \o SubSeq(old, k + 1, Len(old))

AddressesAmong(entries, content, old) ==
  \A i \in DOMAIN entries :
    \/ \E l \in DOMAIN content : entries[i].ip = content[l].ip
    \/ \E l \in DOMAIN old : entries[i].ip = old[l].ip

\* Whatever is left of another's text, every address in the file was in one
\* of the two.
LEMMA LeftoverFacts ==
  ASSUME NEW old \in Seq(Entries), NEW content \in Seq(Entries),
         content # <<>>, NEW k \in DOMAIN old,
         NEW e \in Continued(Last(content), old[k])
  PROVE  /\ Mixture(content, e, old, k) \in Seq(Entries)
         /\ AddressesAmong(Mixture(content, e, old, k), content, old)
<1> DEFINE new == Mixture(content, e, old, k)
           n == Len(content)
           front == Front(content)
           rest == SubSeq(old, k + 1, Len(old))
           first == front \o <<e>>
<1>1. /\ n \in Nat \ {0} /\ DOMAIN content = 1 .. n
      /\ \A l \in 1 .. n : content[l] \in Entries
      BY EmptySeq, LenProperties, ElementOfSeq
<1>2. /\ Len(old) \in Nat /\ DOMAIN old = 1 .. Len(old)
      /\ \A l \in DOMAIN old : old[l] \in Entries
      BY LenProperties, ElementOfSeq
<1>3. e \in Entries /\ (e.ip = content[n].ip \/ e.ip = old[k].ip)
  <2>1. PICK f \in Entries, g \in Entries : f = content[n] /\ g = old[k]
        BY <1>1, <1>2
  <2>2. e \in {f, [f EXCEPT !.ip = g.ip],
                [f EXCEPT !.mac = g.mac, !.ip = g.ip]}
        BY <2>1 DEF Continued, Last
  <2>3. e \in Entries /\ (e.ip = f.ip \/ e.ip = g.ip)
        BY <2>2 DEF Entries
  <2> QED BY <2>1, <2>3
<1>4. /\ front \in Seq(Entries) /\ Len(front) = n - 1
      /\ \A i \in 1 .. n - 1 : front[i] = content[i]
  <2>1. \A i \in 1 .. n - 1 : content[i] \in Entries
        BY <1>1
  <2>2. /\ SubSeq(content, 1, n - 1) \in Seq(Entries)
        /\ Len(SubSeq(content, 1, n - 1)) =
             IF 1 <= n - 1 THEN (n - 1) - 1 + 1 ELSE 0
        /\ \A i \in 1 .. (n - 1) - 1 + 1 :
             SubSeq(content, 1, n - 1)[i] = content[1 + i - 1]
        BY <1>1, <2>1, SubSeqProperties
  <2>3. front = SubSeq(content, 1, n - 1)
        BY DEF Front
  <2> HIDE DEF front, n
  <2> QED BY <1>1, <2>2, <2>3
<1>5. /\ rest \in Seq(Entries)
      /\ Len(rest) = IF k + 1 <= Len(old) THEN Len(old) - (k + 1) + 1 ELSE 0
      /\ \A i \in 1 .. Len(old) - (k + 1) + 1 : rest[i] = old[(k + 1) + i - 1]
  <2>1. \A i \in k + 1 .. Len(old) : old[i] \in Entries
        BY <1>2
  <2> QED BY <1>2, <2>1, SubSeqProperties
<1> HIDE DEF front, rest, n
<1> DEFINE last == <<e>>
<1>6. last \in Seq(Entries) /\ Len(last) = 1 /\ last[1] = e
      BY <1>3
<1> HIDE DEF last
<1>7. /\ first \in Seq(Entries) /\ Len(first) = n
      /\ \A i \in 1 .. n : first[i] = IF i <= n - 1 THEN front[i] ELSE e
  <2>1. first = front \o last
        BY DEF last
  <2> HIDE DEF first
  <2>2. /\ first \in Seq(Entries) /\ Len(first) = Len(front) + Len(last)
        /\ \A i \in 1 .. Len(front) + Len(last) :
             first[i] = IF i <= Len(front) THEN front[i]
                        ELSE last[i - Len(front)]
        BY <1>4, <1>6, <2>1, ConcatProperties
  <2>3. Len(front) + Len(last) = n
        BY <1>1, <1>4, <1>6
  <2>4. \A i \in 1 .. n : i <= n - 1 \/ i - (n - 1) = 1
        BY <1>1
  <2> QED BY <1>4, <1>6, <2>2, <2>3, <2>4
<1>8. new = first \o rest
      BY DEF front, rest, first, Mixture
<1> HIDE DEF first, new
<1>9. /\ new \in Seq(Entries) /\ Len(new) = n + Len(rest)
      /\ \A i \in 1 .. n + Len(rest) :
           new[i] = IF i <= n THEN first[i] ELSE rest[i - n]
      /\ DOMAIN new = 1 .. n + Len(rest) /\ Len(rest) \in Nat
  <2> DEFINE both == first \o rest
  <2>0. /\ both \in Seq(Entries) /\ Len(both) = Len(first) + Len(rest)
        /\ \A i \in 1 .. Len(first) + Len(rest) :
             both[i] = IF i <= Len(first) THEN first[i]
                       ELSE rest[i - Len(first)]
        BY <1>5, <1>7, ConcatProperties
  <2>1. /\ new \in Seq(Entries) /\ Len(new) = Len(first) + Len(rest)
        /\ \A i \in 1 .. Len(first) + Len(rest) :
             new[i] = IF i <= Len(first) THEN first[i]
                      ELSE rest[i - Len(first)]
        BY <1>8, <2>0, Zenon
  <2>2. DOMAIN new = 1 .. Len(new) /\ Len(rest) \in Nat
        BY <1>5, <2>1, LenProperties
  <2> QED BY <1>7, <2>1, <2>2
<1>10. ASSUME NEW i \in DOMAIN new
       PROVE  \/ \E l \in DOMAIN content : new[i].ip = content[l].ip
              \/ \E l \in DOMAIN old : new[i].ip = old[l].ip
  <2>0. i \in 1 .. n + Len(rest)
        BY <1>9, <1>10
  <2>1. CASE i <= n - 1
    <3>1. /\ i \in 1 .. n - 1 /\ i \in 1 .. n
          /\ i <= n
          BY <1>1, <1>9, <2>0, <2>1
    <3>2. new[i] = first[i]
          BY <1>9, <2>0, <3>1
    <3>3. first[i] = content[i]
          BY <1>4, <1>7, <2>1, <3>1
    <3> QED BY <1>1, <3>1, <3>2, <3>3
  <2>2. CASE i = n
    <3>1. n \in 1 .. n /\ ~(n <= n - 1) /\ n <= n
          BY <1>1
    <3>2. new[i] = e
          BY <1>7, <1>9, <2>0, <2>2, <3>1
    <3>3. n \in DOMAIN content
          BY <1>1, <3>1
    <3> QED BY <1>3, <3>2, <3>3
  <2>3. CASE i > n
    <3> DEFINE m == i - n
    <3>1. m \in 1 .. Len(rest) /\ ~(i <= n)
          BY <1>1, <1>9, <2>0, <2>3
    <3>2. /\ m \in 1 .. Len(old) - (k + 1) + 1
          /\ (k + 1) + m - 1 \in DOMAIN old
          BY <1>2, <1>5, <3>1
    <3>3. new[i] = rest[m]
          BY <1>9, <2>0, <3>1
    <3> HIDE DEF m
    <3>4. rest[m] = old[(k + 1) + m - 1]
          BY <1>5, <3>2
    <3> QED BY <3>2, <3>3, <3>4
  <2>4. i <= n - 1 \/ i = n \/ i > n
        BY <1>1, <2>0
  <2> QED BY <2>1, <2>2, <2>3, <2>4
<1> QED BY <1>9, <1>10 DEF AddressesAmong, new

-----------------------------------------------------------------------------
(* The invariant holds at first.                                           *)

LEMMA InitInv == Init => IndInv
<1> SUFFICES ASSUME Init
             PROVE  IndInv
    OBVIOUS
<1>1. /\ file = <<>> /\ registered = {} /\ leaves = 0 /\ calls = 0
      /\ mixed = FALSE /\ crossed = {}
      /\ address \in [Robots -> {Nothing}] /\ noted = address
      /\ \A j \in Jobs : status[j] = "idle"
      /\ \A w \in Writers : writer[w] = Resting
      BY DEF Init
<1>2. TypeOK
  <2>1. NoOrder \in Orders
        BY DEF NoOrder, Orders
  <2>2. "idle" \in Steps
        BY DEF Steps
  <2>3. Resting \in [step : {"resting", "loaded", "emptied"},
                     content : Seq(Entries), robot : Robots \cup {Nothing}]
        BY EmptySeq DEF Resting
  <2>4. /\ job \in [Jobs -> Orders] /\ status \in [Jobs -> Steps]
        /\ writer \in [Writers -> [step : {"resting", "loaded", "emptied"},
                                   content : Seq(Entries),
                                   robot : Robots \cup {Nothing}]]
        BY <2>1, <2>2, <2>3 DEF Init
  <2>5. /\ address \in [Robots -> Addresses \cup {Nothing}]
        /\ noted \in [Robots -> Addresses \cup {Nothing}]
        BY <1>1
  <2>6. leaves \in 0 .. MaxLeaves /\ calls \in 0 .. MaxCalls
        BY <1>1, ProvisioningAssumption
  <2>7. file \in Seq(Entries)
        BY <1>1, EmptySeq
  <2> QED BY <1>1, <2>4, <2>5, <2>6, <2>7 DEF Init, TypeOK
<1>3. \A w \in Writers : ~Busy(w) /\ writer[w].content = <<>>
                         /\ writer[w].step # "emptied"
      BY <1>1 DEF Busy, Resting
<1>4. FileIsWellFormed /\ ContentsAreWellFormed
      BY <1>1, <1>2, <1>3 DEF FileIsWellFormed, ContentsAreWellFormed,
                              WellFormed, Unreadable
<1>5. JobsKnowTheirRobots
      BY <1>1, <1>3 DEF JobsKnowTheirRobots, ToLoad, Writers
<1>6. AddressesDiffer
      BY <1>1 DEF AddressesDiffer
<1>7. AddressesHold
      BY <1>1, <1>3 DEF AddressesHold, Reaches, Found, Settled, ToLoad
<1>8. WritersTakeTurns
      BY <1>1, <1>3, MacsAre DEF WritersTakeTurns
<1> QED BY <1>4, <1>5, <1>6, <1>7, <1>8 DEF IndInv

-----------------------------------------------------------------------------
(* What the steps have in common.                                          *)

\* A step that leaves the file and its writers alone.
LEMMA FileUntouched ==
  ASSUME IndInv, UNCHANGED <<file, writer, registered, disturbed, mixed>>,
         TypeOK'
  PROVE  FileIsWellFormed' /\ ContentsAreWellFormed' /\ WritersTakeTurns'
<1>1. FileIsWellFormed'
      BY DEF IndInv, FileIsWellFormed
<1>2. ContentsAreWellFormed'
      BY DEF IndInv, ContentsAreWellFormed, WellFormed, Unreadable
<1>3. WritersTakeTurns'
      BY DEF IndInv, WritersTakeTurns, Busy, RegisteredBy, Macs
<1> QED BY <1>1, <1>2, <1>3

\* While the robots stay, an address that leads somewhere goes on doing so.
LEMMA LeadsOn ==
  ASSUME TypeOK, configured \subseteq configured', crossed \subseteq crossed',
         \A r \in Robots : address[r] # Nothing => address'[r] = address[r],
         NEW mac \in Robots, NEW ip \in Addresses
  PROVE  /\ Leads(ip) => Leads(ip)'
         /\ Belongs(mac, ip) => Belongs(mac, ip)'
<1>1. Nothing \notin Addresses /\ configured \subseteq Robots
      BY ProvisioningAssumption DEF Nothing, TypeOK
<1> QED BY <1>1 DEF Leads, Belongs

LEMMA ReachesOn ==
  ASSUME TypeOK, configured \subseteq configured', crossed \subseteq crossed',
         \A r \in Robots : address[r] # Nothing => address'[r] = address[r],
         mixed => mixed', NEW entries \in Seq(Entries), Reaches(entries)
  PROVE  /\ \A k \in DOMAIN entries : Leads(entries[k].ip)'
         /\ \A k \in DOMAIN entries :
              Belongs(entries[k].mac, entries[k].ip)' \/ mixed'
<1> SUFFICES ASSUME NEW k \in DOMAIN entries
             PROVE  /\ Leads(entries[k].ip)'
                    /\ Belongs(entries[k].mac, entries[k].ip)' \/ mixed'
    OBVIOUS
<1>1. entries[k] \in Entries
      BY LenProperties, ElementOfSeq
<1>2. PICK mac \in Robots, ip \in Addresses :
        mac = entries[k].mac /\ ip = entries[k].ip
      BY <1>1 DEF Entries
<1>3. Leads(ip) /\ (Belongs(mac, ip) \/ mixed)
      BY <1>2 DEF Reaches
<1>4. Leads(ip)' /\ (Belongs(mac, ip)' \/ mixed')
      BY <1>3, LeadsOn
<1> QED BY <1>2, <1>4 DEF Leads, Belongs

LEMMA FileReachesOn ==
  ASSUME IndInv, configured \subseteq configured', crossed \subseteq crossed',
         \A r \in Robots : address[r] # Nothing => address'[r] = address[r],
         leaves = 0, UNCHANGED <<file, writer, mixed>>
  PROVE  /\ (file # Unreadable => Reaches(file))'
         /\ (\A w \in Writers : Reaches(writer[w].content))'
<1>1. /\ TypeOK
      /\ file # Unreadable => Reaches(file)
      /\ \A w \in Writers : Reaches(writer[w].content)
      BY DEF IndInv, AddressesHold, FileIsWellFormed
<1>2. (file # Unreadable => Reaches(file))'
  <2>1. CASE file # Unreadable
    <3>1. PICK entries \in Seq(Entries) : entries = file
          BY <1>1, <2>1 DEF TypeOK
    <3>2. /\ \A k \in DOMAIN entries : Leads(entries[k].ip)'
          /\ \A k \in DOMAIN entries :
               Belongs(entries[k].mac, entries[k].ip)' \/ mixed'
      <4>1. Reaches(entries)
            BY <1>1, <2>1, <3>1
      <4> QED BY <1>1, <4>1, ReachesOn
    <3> QED BY <3>1, <3>2 DEF Reaches, Leads, Belongs
  <2>2. CASE file = Unreadable
        BY <2>2 DEF Unreadable
  <2> QED BY <2>1, <2>2
<1>3. ASSUME NEW w \in Writers
      PROVE  Reaches(writer[w].content)'
  <2>1. PICK entries \in Seq(Entries) : entries = writer[w].content
        BY <1>1 DEF TypeOK
  <2>2. /\ \A k \in DOMAIN entries : Leads(entries[k].ip)'
        /\ \A k \in DOMAIN entries :
             Belongs(entries[k].mac, entries[k].ip)' \/ mixed'
    <3>1. Reaches(entries)
          BY <1>1, <2>1
    <3> QED BY <1>1, <3>1, ReachesOn
  <2> QED BY <2>1, <2>2 DEF Reaches, Leads, Belongs
<1> QED BY <1>2, <1>3

\* And what a job knows that does not move stays true.
LEMMA JobKept ==
  ASSUME IndInv, configured \subseteq configured', crossed \subseteq crossed',
         \A r \in Robots : address[r] # Nothing => address'[r] = address[r],
         leaves = 0, NEW j \in Jobs, job'[j] = job[j],
         status'[j] = status[j], ToLoad(j)' => ToLoad(j)
  PROVE  Found(j)' /\ Settled(j)'
<1>1. TypeOK /\ Found(j) /\ Settled(j) /\ Nothing \notin Addresses
      BY ProvisioningAssumption
         DEF IndInv, FileIsWellFormed, AddressesHold, Nothing
<1>2. /\ job[j].mac \in Robots \cup {Nothing}
      /\ job[j].ip \in Addresses \cup {Nothing}
      BY <1>1 DEF TypeOK, Orders
<1>3. Found(j)'
      BY <1>1, <1>2 DEF Found
<1>4. ASSUME ToLoad(j)'
      PROVE  (Leads(job[j].ip) /\ Belongs(job[j].mac, job[j].ip))'
  <2>1. PICK mac \in Robots, ip \in Addresses :
          mac = job[j].mac /\ ip = job[j].ip
        BY <1>4 DEF IndInv, JobsKnowTheirRobots
  <2>2. Leads(ip) /\ Belongs(mac, ip)
        BY <1>1, <1>4, <2>1 DEF Settled
  <2>3. Leads(ip)' /\ Belongs(mac, ip)'
        BY <1>1, <2>2, LeadsOn
  <2> QED BY <2>1, <2>3 DEF Leads, Belongs
<1> QED BY <1>3, <1>4 DEF Settled

\* What a job may do to its order without a look at the network.
LEMMA OrderKept ==
  ASSUME IndInv, TypeOK', NEW j \in Jobs,
         UNCHANGED <<network, configured, file, writer, history>>,
         \A k \in Jobs \ {j} : job'[k] = job[k] /\ status'[k] = status[k],
         status'[j] \in {"idle", "queued", "scripting"},
         status'[j] = "scripting" => job'[j].on \in Robots
  PROVE  IndInv'
<1>1. FileIsWellFormed' /\ ContentsAreWellFormed' /\ WritersTakeTurns'
      BY FileUntouched DEF history
<1>2. JobsKnowTheirRobots'
      BY DEF IndInv, JobsKnowTheirRobots, ToLoad, Busy
<1>3. AddressesDiffer'
      BY DEF IndInv, AddressesDiffer, network
<1>4. AddressesHold'
  <2>1. leaves = 0 => /\ (file # Unreadable => Reaches(file))'
                      /\ (\A w \in Writers : Reaches(writer[w].content))'
        BY FileReachesOn DEF network, history
  <2>2. ASSUME leaves = 0, NEW k \in Jobs
        PROVE  Found(k)' /\ Settled(k)'
    <3>1. CASE k = j
          BY <3>1 DEF Found, Settled, ToLoad
    <3>2. CASE k # j
      <4>1. /\ job'[k] = job[k] /\ status'[k] = status[k]
            /\ ToLoad(k)' => ToLoad(k)
            BY <3>2 DEF ToLoad, Busy
      <4> QED BY <2>2, <4>1, JobKept DEF network, history
    <3> QED BY <3>1, <3>2
  <2> QED BY <2>1, <2>2 DEF IndInv, AddressesHold, network
<1> QED BY <1>1, <1>2, <1>3, <1>4 DEF IndInv

LEMMA EndsFacts ==
  ASSUME TypeOK, NEW j \in Jobs, Ends(j)
  PROVE  /\ status' \in [Jobs -> Steps] /\ job' \in [Jobs -> Orders]
         /\ status'[j] = "idle"
         /\ \A k \in Jobs \ {j} : job'[k] = job[k] /\ status'[k] = status[k]
<1>1. NoOrder \in Orders
      BY DEF NoOrder, Orders
<1> QED BY <1>1 DEF Ends, TypeOK, Steps

\* A job that gives up before it comes to the file.
LEMMA EndsStep ==
  ASSUME IndInv, NEW j \in Jobs, Ends(j),
         UNCHANGED <<network, configured, file, writer, process, history>>
  PROVE  IndInv'
<1>1. TypeOK
      BY DEF IndInv, FileIsWellFormed
<1>2. /\ status' \in [Jobs -> Steps] /\ job' \in [Jobs -> Orders]
      /\ status'[j] = "idle"
      /\ \A k \in Jobs \ {j} : job'[k] = job[k] /\ status'[k] = status[k]
      BY <1>1, EndsFacts
<1>3. TypeOK'
      BY <1>1, <1>2 DEF TypeOK, network, history, process
<1> QED BY <1>2, <1>3, OrderKept

-----------------------------------------------------------------------------
(* A job before it comes to the file.                                      *)

LEMMA ProvisionStartStep ==
  ASSUME IndInv, NEW j \in Jobs, NEW ssid \in Robots \cup {Nothing},
         NEW wanted \in Ids \cup {NoId}, ProvisionStart(j, ssid, wanted)
  PROVE  IndInv'
<1>1. TypeOK
      BY DEF IndInv, FileIsWellFormed
<1>2. [NoOrder EXCEPT !.ssid = ssid, !.wanted = wanted] \in Orders
      BY DEF NoOrder, Orders
<1>3. /\ job' = [job EXCEPT ![j] = [NoOrder EXCEPT !.ssid = ssid,
                                                   !.wanted = wanted]]
      /\ status' = [status EXCEPT ![j] = "queued"]
      /\ calls < MaxCalls /\ calls' = calls + 1
      /\ UNCHANGED <<network, configured, file, writer, serving, history>>
      BY DEF ProvisionStart, Goes
<1>4. calls' \in 0 .. MaxCalls
      BY <1>1, <1>3, ProvisioningAssumption DEF TypeOK
<1>5. TypeOK'
      BY <1>1, <1>2, <1>3, <1>4 DEF TypeOK, Steps, network, history
<1>6. status'[j] = "queued"
      /\ \A k \in Jobs \ {j} : job'[k] = job[k] /\ status'[k] = status[k]
      BY <1>1, <1>3 DEF TypeOK
<1> QED BY <1>3, <1>5, <1>6, OrderKept

LEMMA ConnectStep ==
  ASSUME IndInv, NEW j \in Jobs, Connect(j)
  PROVE  IndInv'
<1>1. TypeOK
      BY DEF IndInv, FileIsWellFormed
<1>2. UNCHANGED <<network, configured, file, writer, process, history>>
      BY DEF Connect
<1>3. CASE LogsIn(j) /\ Goes(j, "scripting")
  <2>1. /\ job' = [job EXCEPT ![j].on = joined] /\ joined \in Robots
        /\ status' = [status EXCEPT ![j] = "scripting"]
        BY <1>1, <1>3 DEF LogsIn, Goes, TypeOK
  <2>2. job' \in [Jobs -> Orders] /\ job'[j].on = joined
        BY <1>1, <2>1 DEF TypeOK, Orders
  <2>3. TypeOK'
        BY <1>1, <1>2, <2>1, <2>2 DEF TypeOK, Steps, network, history, process
  <2>4. status'[j] = "scripting"
        /\ \A k \in Jobs \ {j} : job'[k] = job[k] /\ status'[k] = status[k]
        BY <1>1, <2>1 DEF TypeOK
  <2> QED BY <1>2, <2>1, <2>2, <2>3, <2>4, OrderKept
<1>4. CASE Ends(j)
      BY <1>2, <1>4, EndsStep
<1> QED BY <1>3, <1>4 DEF Connect

\* The network moves on, and no address that a robot has changes.
LEMMA AddressesDifferStill ==
  ASSUME IndInv, NEW r \in Robots, NEW a \in FreeAddresses(r),
         address' = [address EXCEPT ![r] = a]
  PROVE  AddressesDiffer'
<1>1. address \in [Robots -> Addresses \cup {Nothing}]
      BY DEF IndInv, FileIsWellFormed, TypeOK
<1>2. \A s \in Robots \ {r} : address[s] # a
      BY DEF FreeAddresses
<1> QED BY <1>1, <1>2 DEF IndInv, AddressesDiffer

LEMMA RunScriptStep ==
  ASSUME IndInv, NEW j \in Jobs, RunScript(j)
  PROVE  IndInv'
<1> DEFINE r == job[j].on
<1>1. TypeOK
      BY DEF IndInv, FileIsWellFormed
<1>2. /\ status[j] = "scripting" /\ r \in Robots
      /\ status' = [status EXCEPT ![j] = "locating"]
      /\ UNCHANGED <<configured, file, writer, process, registered, disturbed,
                     mixed>>
      BY DEF RunScript, Goes, IndInv, JobsKnowTheirRobots
<1>3. PICK x \in Robots : x = r
      BY <1>2
<1>4. /\ JoinsSite(x) \/ AddressTimesOut(x) \/ StaysOnAccessPoint
      /\ ReadBack(j, x)
      BY <1>3 DEF RunScript
<1>5. /\ address' \in [Robots -> Addresses \cup {Nothing}]
      /\ noted' \in [Robots -> Addresses \cup {Nothing}]
      /\ joined' \in Robots \cup {Nothing}
      /\ leaves' = leaves /\ (noted = address => noted' = address')
      /\ \A s \in Robots : address[s] # Nothing => address'[s] = address[s]
      /\ AddressesDiffer'
  <2>1. CASE JoinsSite(x)
    <3>1. PICK a \in FreeAddresses(x) :
            /\ address[x] \in {a, Nothing}
            /\ address' = [address EXCEPT ![x] = a]
            /\ noted' = [noted EXCEPT ![x] = a]
            /\ joined' = IF joined = x THEN Nothing ELSE joined
            /\ leaves' = leaves
          BY <2>1 DEF JoinsSite
    <3>2. a \in Addresses
          BY DEF FreeAddresses
    <3>3. AddressesDiffer'
          BY <3>1, AddressesDifferStill
    <3> QED BY <1>1, <3>1, <3>2, <3>3 DEF TypeOK
  <2>2. CASE AddressTimesOut(x) \/ StaysOnAccessPoint
        BY <1>1, <2>2
           DEF AddressTimesOut, StaysOnAccessPoint, TypeOK, IndInv,
               AddressesDiffer, network
  <2> QED BY <1>4, <2>1, <2>2
<1>6. PICK mac \in {x, job[j].ssid}, ip \in {noted'[x], Nothing} :
        /\ job' = [job EXCEPT ![j] = [NoOrder EXCEPT
                     !.wanted = job[j].wanted, !.mac = mac, !.ip = ip]]
        /\ crossed' = crossed \cup
             ({<<mac, ip>>} \cap ((Robots \ {x}) \X Addresses))
      BY <1>4 DEF ReadBack
<1>7. /\ mac \in Robots \cup {Nothing} /\ ip \in Addresses \cup {Nothing}
      /\ job[j].wanted \in Ids \cup {NoId}
      BY <1>1, <1>5 DEF TypeOK, Orders
<1>8. [NoOrder EXCEPT !.wanted = job[j].wanted, !.mac = mac, !.ip = ip]
        \in Orders
      BY <1>7 DEF NoOrder, Orders
<1>9. /\ \A k \in Jobs \ {j} : job'[k] = job[k] /\ status'[k] = status[k]
      /\ status'[j] = "locating" /\ job'[j].mac = mac /\ job'[j].ip = ip
      /\ job' \in [Jobs -> Orders]
      BY <1>1, <1>2, <1>6, <1>8 DEF TypeOK, NoOrder
<1>10. crossed \subseteq crossed' /\ crossed' \subseteq Robots \X Addresses
       BY <1>1, <1>6 DEF TypeOK
<1>11. TypeOK'
       BY <1>1, <1>2, <1>5, <1>9, <1>10 DEF TypeOK, Steps, process
<1>12. FileIsWellFormed' /\ ContentsAreWellFormed' /\ WritersTakeTurns'
       BY <1>2, <1>11, FileUntouched
<1>13. JobsKnowTheirRobots'
       BY <1>2, <1>9 DEF IndInv, JobsKnowTheirRobots, ToLoad, Busy
<1>14. AddressesHold'
  <2>1. leaves = 0 => /\ (file # Unreadable => Reaches(file))'
                      /\ (\A w \in Writers : Reaches(writer[w].content))'
        BY <1>2, <1>5, <1>10, FileReachesOn
  <2>2. leaves = 0 => noted' = address'
        BY <1>5 DEF IndInv, AddressesHold
  <2>3. ASSUME leaves = 0, NEW k \in Jobs
        PROVE  Found(k)' /\ Settled(k)'
    <3>1. CASE k = j
      <4>1. ASSUME ip # Nothing, mac # Nothing
            PROVE  ip = address'[mac] \/ <<mac, ip>> \in crossed'
        <5>1. CASE mac = x
              BY <2>2, <2>3, <4>1, <5>1
        <5>2. CASE mac # x
          <6>1. <<mac, ip>> \in (Robots \ {x}) \X Addresses
                BY <1>7, <4>1, <5>2
          <6> QED BY <1>6, <6>1
        <5> QED BY <5>1, <5>2
      <4> QED BY <1>9, <3>1, <4>1 DEF Found, Settled, ToLoad
    <3>2. CASE k # j
      <4>1. /\ job'[k] = job[k] /\ status'[k] = status[k]
            /\ ToLoad(k)' => ToLoad(k)
            BY <1>2, <1>9, <3>2 DEF ToLoad, Busy
      <4> QED BY <1>2, <1>5, <1>10, <2>3, <4>1, JobKept
    <3> QED BY <3>1, <3>2
  <2> QED BY <1>5, <2>1, <2>2, <2>3 DEF AddressesHold
<1> QED BY <1>5, <1>12, <1>13, <1>14 DEF IndInv

LEMMA LocateStep ==
  ASSUME IndInv, NEW j \in Jobs, Locate(j)
  PROVE  IndInv'
<1>1. TypeOK
      BY DEF IndInv, FileIsWellFormed
<1>2. /\ status[j] = "locating"
      /\ UNCHANGED <<network, configured, file, writer, process, history>>
      BY DEF Locate
<1>3. CASE Ends(j)
      BY <1>2, <1>3, EndsStep
<1>4. ASSUME NEW ip \in Located(j),
             Goes(j, "patching"), job' = [job EXCEPT ![j].ip = ip]
      PROVE  IndInv'
  <2>1. Nothing \notin Robots /\ Nothing \notin Addresses
        BY ProvisioningAssumption DEF Nothing
  <2>2. job[j] \in Orders
        BY <1>1 DEF TypeOK
  <2>3. /\ ip \in Addresses /\ job[j].mac \in Robots
        /\ leaves = 0 => \/ ip = address[job[j].mac]
                         \/ <<job[j].mac, ip>> \in crossed
    <3>1. CASE job[j].mac = Nothing
          BY <1>4, <3>1 DEF Located
    <3>2. CASE job[j].mac # Nothing /\ job[j].ip # Nothing
      <4>1. ip = job[j].ip
            BY <1>4, <3>2 DEF Located
      <4>2. leaves = 0 => Found(j)
            BY DEF IndInv, AddressesHold
      <4> QED BY <1>2, <2>2, <3>2, <4>1, <4>2 DEF Found, Orders
    <3>3. CASE job[j].mac # Nothing /\ job[j].ip = Nothing
          BY <1>1, <1>4, <2>2, <3>3 DEF Located, Orders, TypeOK
    <3> QED BY <3>1, <3>2, <3>3
  <2>4. /\ job' \in [Jobs -> Orders] /\ status' \in [Jobs -> Steps]
        /\ job'[j].ip = ip /\ job'[j].mac = job[j].mac
        /\ status'[j] = "patching"
        /\ \A k \in Jobs \ {j} : job'[k] = job[k] /\ status'[k] = status[k]
        BY <1>1, <1>4, <2>2, <2>3 DEF TypeOK, Goes, Steps, Orders
  <2>5. TypeOK'
        BY <1>1, <1>2, <2>4 DEF TypeOK, network, history, process
  <2>6. FileIsWellFormed' /\ ContentsAreWellFormed' /\ WritersTakeTurns'
        BY <1>2, <2>5, FileUntouched DEF history
  <2>7. JobsKnowTheirRobots'
        BY <1>2, <2>3, <2>4 DEF IndInv, JobsKnowTheirRobots, ToLoad, Busy
  <2>8. AddressesDiffer'
        BY <1>2 DEF IndInv, AddressesDiffer, network
  <2>9. AddressesHold'
    <3>1. leaves = 0 => /\ (file # Unreadable => Reaches(file))'
                        /\ (\A w \in Writers : Reaches(writer[w].content))'
          BY <1>2, FileReachesOn DEF network, history
    <3>2. ASSUME leaves = 0, NEW k \in Jobs
          PROVE  Found(k)' /\ Settled(k)'
      <4>1. CASE k = j
            BY <1>2, <2>3, <2>4, <3>2, <4>1
               DEF Found, Settled, ToLoad, network, history
      <4>2. CASE k # j
        <5>1. /\ job'[k] = job[k] /\ status'[k] = status[k]
              /\ ToLoad(k)' => ToLoad(k)
              BY <1>2, <2>4, <4>2 DEF ToLoad, Busy
        <5> QED BY <1>2, <3>2, <5>1, JobKept DEF network, history
      <4> QED BY <4>1, <4>2
    <3> QED BY <1>2, <3>1, <3>2 DEF IndInv, AddressesHold, network
  <2> QED BY <2>6, <2>7, <2>8, <2>9 DEF IndInv
<1> QED BY <1>3, <1>4 DEF Locate

LEMMA PatchSdkConfigStep ==
  ASSUME IndInv, NEW j \in Jobs, PatchSdkConfig(j)
  PROVE  IndInv'
<1>1. TypeOK
      BY DEF IndInv, FileIsWellFormed
<1>2. /\ status[j] = "patching" /\ job[j].mac \in Robots
      /\ job[j].ip \in Addresses
      /\ UNCHANGED <<network, file, writer, process, history>>
      BY DEF PatchSdkConfig, IndInv, JobsKnowTheirRobots
<1>3. CASE Ends(j) /\ UNCHANGED configured
      BY <1>2, <1>3, EndsStep
<1>4. ASSUME NEW r \in Robots, address[r] = job[j].ip,
             configured' = configured \cup {r}, Goes(j, "loading"),
             UNCHANGED job
      PROVE  IndInv'
  <2>1. Nothing \notin Robots /\ Nothing \notin Addresses
        BY ProvisioningAssumption DEF Nothing
  <2>2. leaves = 0 => r = job[j].mac \/ <<job[j].mac, job[j].ip>> \in crossed
    <3>1. leaves = 0 => Found(j)
          BY DEF IndInv, AddressesHold
    <3>2. leaves = 0 => \/ job[j].ip = address[job[j].mac]
                        \/ <<job[j].mac, job[j].ip>> \in crossed
          BY <1>2, <2>1, <3>1 DEF Found
    <3> QED BY <1>2, <1>4, <2>1, <3>2 DEF IndInv, AddressesDiffer
  <2>3. /\ status' \in [Jobs -> Steps] /\ status'[j] = "loading"
        /\ \A k \in Jobs \ {j} : status'[k] = status[k]
        BY <1>1, <1>4 DEF TypeOK, Goes, Steps
  <2>4. TypeOK'
        BY <1>1, <1>2, <1>4, <2>3 DEF TypeOK, network, history, process
  <2>5. FileIsWellFormed' /\ ContentsAreWellFormed' /\ WritersTakeTurns'
        BY <1>2, <2>4, FileUntouched DEF history
  <2>6. JobsKnowTheirRobots'
        BY <1>2, <1>4, <2>3 DEF IndInv, JobsKnowTheirRobots, ToLoad, Busy
  <2>7. AddressesDiffer'
        BY <1>2 DEF IndInv, AddressesDiffer, network
  <2>8. AddressesHold'
    <3>1. leaves = 0 => /\ (file # Unreadable => Reaches(file))'
                        /\ (\A w \in Writers : Reaches(writer[w].content))'
          BY <1>2, <1>4, FileReachesOn DEF network, history
    <3>2. ASSUME leaves = 0, NEW k \in Jobs
          PROVE  Found(k)' /\ Settled(k)'
      <4>1. CASE k = j
        <5>1. Leads(job[j].ip)'
              BY <1>2, <1>4 DEF Leads, network
        <5>2. Belongs(job[j].mac, job[j].ip)'
              BY <1>2, <1>4, <2>2, <3>2 DEF Belongs, network, history
        <5>3. Found(j)'
              BY <5>2 DEF Found, Belongs
        <5> QED BY <4>1, <5>1, <5>2, <5>3 DEF Settled
      <4>2. CASE k # j
        <5>1. /\ job'[k] = job[k] /\ status'[k] = status[k]
              /\ ToLoad(k)' => ToLoad(k)
              BY <1>2, <1>4, <2>3, <4>2 DEF ToLoad, Busy
        <5> QED BY <1>2, <1>4, <3>2, <5>1, JobKept DEF network, history
      <4> QED BY <4>1, <4>2
    <3> QED BY <1>2, <3>1, <3>2 DEF IndInv, AddressesHold, network
  <2> QED BY <2>5, <2>6, <2>7, <2>8 DEF IndInv
<1> QED BY <1>3, <1>4 DEF PatchSdkConfig

-----------------------------------------------------------------------------
(* The file is read.                                                       *)

\* A writer has read the file, and what it is about to write is the file
\* with one robot more or less.
HasRead(w, r, content) ==
  /\ Loads(w, r, content) /\ file # Unreadable
  /\ w = Handler \/ status[w] = "loading"
  /\ ~mixed => /\ WellFormed(content)
               /\ Macs(content) = IF w = Handler THEN Macs(file) \ {r}
                                  ELSE Macs(file) \cup {r}
  /\ leaves = 0 => Reaches(content)
  /\ job' = IF w = Handler THEN job ELSE [job EXCEPT ![w] = NoOrder]
  /\ UNCHANGED <<network, configured, file, status, process, registered,
                 mixed, crossed>>

LEMMA HasReadStep ==
  ASSUME IndInv, NEW w \in Writers, NEW r \in Robots,
         NEW content \in Seq(Entries), HasRead(w, r, content)
  PROVE  IndInv'
<1>1. TypeOK
      BY DEF IndInv, FileIsWellFormed
<1>2. /\ UNCHANGED <<joined, address, noted, leaves, configured, file, status,
                     serving, calls, registered, mixed, crossed>>
      /\ writer' = [writer EXCEPT ![w] = [step |-> "loaded",
                                          content |-> content, robot |-> r]]
      /\ disturbed' = (disturbed \/ Overlapping)
      BY DEF HasRead, Loads, network, process
<1>3. /\ writer'[w].step = "loaded" /\ writer'[w].content = content
      /\ writer'[w].robot = r
      /\ \A v \in Writers \ {w} : writer'[v] = writer[v]
      BY <1>1, <1>2 DEF TypeOK
<1>4. job' \in [Jobs -> Orders] /\ \A k \in Jobs \ {w} : job'[k] = job[k]
  <2>1. NoOrder \in Orders
        BY DEF NoOrder, Orders
  <2> QED BY <1>1, <2>1 DEF HasRead, TypeOK
<1>5. TypeOK'
  <2>1. disturbed' \in BOOLEAN
        BY <1>1, <1>2 DEF TypeOK, Overlapping
  <2>2. writer' \in [Writers -> [step : {"resting", "loaded", "emptied"},
                                 content : Seq(Entries),
                                 robot : Robots \cup {Nothing}]]
        BY <1>1, <1>2 DEF TypeOK
  <2> QED BY <1>1, <1>2, <1>4, <2>1, <2>2 DEF TypeOK
<1>6. FileIsWellFormed'
      BY <1>2, <1>5 DEF IndInv, FileIsWellFormed
<1>7. ContentsAreWellFormed'
      BY <1>2, <1>3 DEF IndInv, HasRead, ContentsAreWellFormed, WellFormed,
                         Unreadable
<1>8. JobsKnowTheirRobots'
  <2>1. ASSUME NEW k \in Jobs
        PROVE  (/\ status[k] = "scripting" => job[k].on \in Robots
                /\ status[k] = "patching" \/ ToLoad(k) =>
                     job[k].mac \in Robots /\ job[k].ip \in Addresses
                /\ Busy(k) => writer[k].robot \in Robots)'
    <3>1. CASE k = w
      <4>1. status[k] = "loading"
            BY <3>1, ProvisioningAssumption DEF HasRead, Handler
      <4> QED BY <1>2, <1>3, <3>1, <4>1 DEF ToLoad, Busy
    <3>2. CASE k # w
          BY <1>2, <1>3, <1>4, <3>2
             DEF IndInv, JobsKnowTheirRobots, ToLoad, Busy, Writers
    <3> QED BY <3>1, <3>2
  <2> QED BY <2>1 DEF JobsKnowTheirRobots
<1>9. AddressesDiffer'
      BY <1>2 DEF IndInv, AddressesDiffer
<1>10. AddressesHold'
  <2>1. ASSUME leaves = 0, NEW v \in Writers
        PROVE  Reaches(writer[v].content)'
        BY <1>2, <1>3, <2>1
           DEF IndInv, AddressesHold, HasRead, Reaches, Leads, Belongs
  <2>2. leaves = 0 => (file # Unreadable => Reaches(file))'
        BY <1>2 DEF IndInv, AddressesHold, Reaches, Leads, Belongs, Unreadable
  <2>3. ASSUME leaves = 0, NEW k \in Jobs
        PROVE  Found(k)' /\ Settled(k)'
    <3>1. CASE k = w
      <4>1. status'[k] = "loading" /\ ~ToLoad(k)'
            BY <1>2, <1>3, <3>1, ProvisioningAssumption
               DEF HasRead, Handler, ToLoad, Busy
      <4> QED BY <4>1 DEF Found, Settled
    <3>2. CASE k # w
      <4>1. /\ job'[k] = job[k] /\ status'[k] = status[k]
            /\ ToLoad(k)' => ToLoad(k)
            BY <1>2, <1>3, <1>4, <3>2 DEF ToLoad, Busy, Writers
      <4> QED BY <1>2, <2>3, <4>1, JobKept
    <3> QED BY <3>1, <3>2
  <2> QED BY <1>2, <2>1, <2>2, <2>3 DEF IndInv, AddressesHold
<1>11. WritersTakeTurns'
  <2>1. SUFFICES ASSUME ~disturbed'
                 PROVE  WritersTakeTurns'
        BY DEF WritersTakeTurns
  <2>2. ~disturbed /\ ~Overlapping
        BY <1>2, <2>1
  <2>3. \A v \in Writers : ~Busy(v) /\ writer[v].step # "emptied"
        BY <2>2 DEF Overlapping, Busy
  <2>4. ~mixed /\ Macs(file) = registered
        BY <2>2, <2>3 DEF IndInv, WritersTakeTurns
  <2>5. \A v \in Writers : /\ Busy(v)' => v = w
                           /\ writer'[v].step # "emptied"
        BY <1>3, <2>3 DEF Busy
  <2>6. (Macs(writer[w].content) = RegisteredBy(w))'
        BY <1>2, <1>3, <2>4 DEF HasRead, RegisteredBy, Macs
  <2>7. (Macs(file) = registered)'
        BY <1>2, <2>4 DEF Macs
  <2> QED BY <1>2, <2>4, <2>5, <2>6, <2>7 DEF WritersTakeTurns
<1> QED BY <1>6, <1>7, <1>8, <1>9, <1>10, <1>11 DEF IndInv

LEMMA LoadEntriesStep ==
  ASSUME IndInv, NEW j \in Jobs, LoadEntries(j)
  PROVE  IndInv'
<1>1. TypeOK /\ FileIsWellFormed
      BY DEF IndInv, FileIsWellFormed
<1>2. /\ status[j] = "loading" /\ writer[j] = Resting
      /\ IdLeft(job[j].mac, job[j].wanted)
      /\ UNCHANGED <<network, configured, file, process, registered, mixed,
                     crossed>>
      BY DEF LoadEntries
<1>3. job[j].mac \in Robots /\ job[j].ip \in Addresses
      /\ job[j].wanted \in Ids \cup {NoId} /\ ToLoad(j)
  <2>1. ToLoad(j)
        BY <1>2 DEF ToLoad, Busy, Resting
  <2>2. job[j] \in Orders
        BY <1>1 DEF TypeOK
  <2> QED BY <2>1, <2>2 DEF IndInv, JobsKnowTheirRobots, Orders
<1>4. PICK r \in Robots, ip \in Addresses, wanted \in Ids \cup {NoId} :
        r = job[j].mac /\ ip = job[j].ip /\ wanted = job[j].wanted
      BY <1>3
<1>5. CASE file # Unreadable /\ IdIsAvailable(IdFor(r, wanted), r)
  <2>1. PICK id \in Ids : id = IdFor(r, wanted)
        BY <1>1, <1>2, <1>4, <1>5, IdForFacts
  <2>2. /\ Loads(j, r, WithEntry(r, id, ip))
        /\ job' = [job EXCEPT ![j] = NoOrder]
        /\ UNCHANGED status
        BY <1>4, <1>5, <2>1 DEF LoadEntries
  <2>3. /\ WithEntry(r, id, ip) \in Seq(Entries)
        /\ \A k \in DOMAIN WithEntry(r, id, ip) :
             \/ WithEntry(r, id, ip)[k] = [id |-> id, mac |-> r, ip |-> ip]
             \/ k \in DOMAIN file /\ WithEntry(r, id, ip)[k] = file[k]
        /\ Macs(WithEntry(r, id, ip)) = Macs(file) \cup {r}
        /\ WellFormed(file) /\ IdIsAvailable(id, r) =>
             WellFormed(WithEntry(r, id, ip))
        BY <1>1, <1>5, WithEntryFacts
  <2>4. leaves = 0 => Reaches(WithEntry(r, id, ip))
    <3>1. leaves = 0 => Leads(ip) /\ Belongs(r, ip)
          BY <1>3, <1>4 DEF IndInv, AddressesHold, Settled
    <3>2. leaves = 0 => Reaches(file)
          BY <1>5 DEF IndInv, AddressesHold
    <3> QED BY <2>3, <3>1, <3>2 DEF Reaches
  <2>5. j # Handler /\ j \in Writers
        BY ProvisioningAssumption DEF Handler, Writers
  <2>6. ~mixed => WellFormed(WithEntry(r, id, ip))
        BY <1>1, <1>5, <2>1, <2>3 DEF FileIsWellFormed, WellFormed
  <2>7. PICK content \in Seq(Entries) : content = WithEntry(r, id, ip)
        BY <2>3
  <2>8. HasRead(j, r, content)
        BY <1>2, <1>5, <2>2, <2>3, <2>4, <2>5, <2>6, <2>7 DEF HasRead
  <2> QED BY <2>5, <2>8, HasReadStep
<1>6. CASE ~(file # Unreadable /\ IdIsAvailable(IdFor(r, wanted), r))
  <2>1. Ends(j) /\ UNCHANGED <<writer, disturbed>>
        BY <1>4, <1>6 DEF LoadEntries
  <2> QED BY <1>2, <2>1, EndsStep DEF history
<1> QED BY <1>5, <1>6

LEMMA DeleteRobotStep ==
  ASSUME IndInv, NEW id \in Ids, DeleteRobot(id)
  PROVE  IndInv'
<1> DEFINE I == {k \in 1 .. Len(file) : file[k].id = id}
           first == IF I # {} THEN Min(I) ELSE 0
<1>1. TypeOK /\ FileIsWellFormed
      BY DEF IndInv, FileIsWellFormed
<1>2. /\ file # Unreadable
      /\ UNCHANGED <<network, configured, file, job, status, process,
                     registered, mixed, crossed>>
      BY DEF DeleteRobot
<1>3. first # 0 /\ Loads(Handler, file[first].mac, RemoveAt(file, first))
      BY DEF DeleteRobot, SelectInSeq
<1>4. PICK m \in DOMAIN file : m = first
  <2>1. I \in SUBSET Nat /\ DOMAIN file = 1 .. Len(file)
        BY <1>1, <1>2, FileFacts
  <2>2. I # {} /\ Min(I) \in I
        BY <1>3, <2>1, LeastIsIn
  <2> QED BY <2>1, <2>2
<1> HIDE DEF first
<1>5. /\ RemoveAt(file, m) \in Seq(Entries) /\ file[m] \in Entries
      /\ \A k \in DOMAIN RemoveAt(file, m) :
           \E l \in DOMAIN file : RemoveAt(file, m)[k] = file[l]
      /\ WellFormed(file) =>
           /\ WellFormed(RemoveAt(file, m))
           /\ Macs(RemoveAt(file, m)) = Macs(file) \ {file[m].mac}
      BY <1>1, <1>2, WithoutEntryFacts
<1>6. leaves = 0 => Reaches(RemoveAt(file, m))
  <2>1. leaves = 0 => Reaches(file)
        BY <1>2 DEF IndInv, AddressesHold
  <2> QED BY <1>5, <2>1 DEF Reaches
<1>7. ~mixed => WellFormed(file)
      BY <1>1 DEF FileIsWellFormed, WellFormed
<1>8. PICK r \in Robots, content \in Seq(Entries) :
        r = file[m].mac /\ content = RemoveAt(file, m)
      BY <1>5 DEF Entries
<1>9. HasRead(Handler, r, content)
      BY <1>2, <1>3, <1>4, <1>5, <1>6, <1>7, <1>8 DEF HasRead
<1> QED BY <1>9, HasReadStep DEF Writers

-----------------------------------------------------------------------------
(* The file is written.                                                    *)

LEMMA EmptyStep ==
  ASSUME IndInv, NEW w \in Writers, Empty(w)
  PROVE  IndInv'
<1>1. TypeOK
      BY DEF IndInv, FileIsWellFormed
<1>2. /\ writer[w].step = "loaded" /\ file' = <<>>
      /\ UNCHANGED <<joined, address, noted, leaves, configured, job, status,
                     serving, calls, registered, disturbed, mixed, crossed>>
      BY DEF Empty, network, history, process
<1>3. /\ writer' \in [Writers -> [step : {"resting", "loaded", "emptied"},
                                  content : Seq(Entries),
                                  robot : Robots \cup {Nothing}]]
      /\ writer'[w].step = "emptied" /\ writer'[w].robot = writer[w].robot
      /\ writer'[w].content = writer[w].content
      /\ \A v \in Writers \ {w} : writer'[v] = writer[v]
      BY <1>1 DEF Empty, TypeOK
<1>4. \A v \in Writers : /\ Busy(v)' <=> Busy(v)
                         /\ writer'[v].robot = writer[v].robot
                         /\ writer'[v].content = writer[v].content
      BY <1>2, <1>3 DEF Busy
<1>5. TypeOK'
      BY <1>1, <1>2, <1>3, EmptySeq DEF TypeOK
<1>6. FileIsWellFormed' /\ ContentsAreWellFormed'
      BY <1>2, <1>4, <1>5
         DEF IndInv, FileIsWellFormed, ContentsAreWellFormed, WellFormed,
             Unreadable
<1>7. JobsKnowTheirRobots'
      BY <1>2, <1>4 DEF IndInv, JobsKnowTheirRobots, ToLoad, Writers
<1>8. AddressesDiffer'
      BY <1>2 DEF IndInv, AddressesDiffer
<1>9. AddressesHold'
  <2>1. (Reaches(file))'
        BY <1>2 DEF Reaches
  <2>2. \A k \in Jobs : ToLoad(k)' <=> ToLoad(k)
        BY <1>2, <1>4 DEF ToLoad, Writers
  <2>3. leaves = 0 => \A v \in Writers : Reaches(writer[v].content)'
        BY <1>2, <1>4 DEF IndInv, AddressesHold, Reaches, Leads, Belongs
  <2>4. leaves = 0 => \A k \in Jobs : Found(k)' /\ Settled(k)'
        BY <1>2, <2>2, JobKept
  <2> QED BY <1>2, <2>1, <2>3, <2>4 DEF IndInv, AddressesHold
<1>10. WritersTakeTurns'
  <2>1. \A v \in Writers : RegisteredBy(v)' = RegisteredBy(v)
        BY <1>2, <1>4 DEF RegisteredBy
  <2>2. \A v \in Writers :
          Macs(writer[v].content)' = Macs(writer[v].content)
        BY <1>4 DEF Macs
  <2> QED BY <1>2, <1>3, <1>4, <2>1, <2>2 DEF IndInv, WritersTakeTurns
<1> QED BY <1>6, <1>7, <1>8, <1>9, <1>10 DEF IndInv

\* A writer that is done, with whatever outcome, does not disturb the others.
LEMMA AnsweredFacts ==
  ASSUME IndInv, NEW w \in Writers, Answered(w)
  PROVE  /\ writer' \in [Writers -> [step : {"resting", "loaded", "emptied"},
                                     content : Seq(Entries),
                                     robot : Robots \cup {Nothing}]]
         /\ status' \in [Jobs -> Steps] /\ job' \in [Jobs -> Orders]
         /\ ~Busy(w)' /\ writer'[w].content = <<>>
         /\ writer'[w].step # "emptied"
         /\ \A v \in Writers \ {w} : writer'[v] = writer[v]
         /\ \A k \in Jobs \ {w} : status'[k] = status[k] /\ job'[k] = job[k]
         /\ w \in Jobs => status'[w] = "idle"
<1>1. TypeOK
      BY DEF IndInv, FileIsWellFormed
<1>2. writer' = [writer EXCEPT ![w] = Resting]
      BY DEF Answered
<1>3. Resting \in [step : {"resting", "loaded", "emptied"},
                   content : Seq(Entries), robot : Robots \cup {Nothing}]
      /\ Resting.step = "resting" /\ Resting.content = <<>>
      BY EmptySeq DEF Resting
<1>4. CASE w = Handler
  <2>1. UNCHANGED <<job, status>> /\ w \notin Jobs
        BY <1>4, ProvisioningAssumption DEF Answered, Handler
  <2> QED BY <1>1, <1>2, <1>3, <2>1 DEF TypeOK, Busy
<1>5. CASE w # Handler
  <2>1. w \in Jobs /\ Ends(w)
        BY <1>5 DEF Answered, Writers
  <2>2. /\ status' \in [Jobs -> Steps] /\ job' \in [Jobs -> Orders]
        /\ status'[w] = "idle"
        /\ \A k \in Jobs \ {w} : status'[k] = status[k] /\ job'[k] = job[k]
        BY <1>1, <2>1, EndsFacts
  <2> QED BY <1>1, <1>2, <1>3, <2>1, <2>2 DEF TypeOK, Busy
<1> QED BY <1>4, <1>5

LEMMA AnsweredStep ==
  ASSUME IndInv, NEW w \in Writers, Answered(w), mixed => mixed',
         UNCHANGED <<network, configured, crossed>>
  PROVE  /\ (mixed \/ file # Unreadable)' => ContentsAreWellFormed'
         /\ JobsKnowTheirRobots' /\ AddressesDiffer'
         /\ (leaves = 0 => (file # Unreadable => Reaches(file)))'
              => AddressesHold'
<1>1. /\ ~Busy(w)' /\ writer'[w].content = <<>>
      /\ \A v \in Writers \ {w} : writer'[v] = writer[v]
      /\ \A k \in Jobs \ {w} : status'[k] = status[k] /\ job'[k] = job[k]
      /\ w \in Jobs => status'[w] = "idle"
      BY AnsweredFacts
<1>2. (mixed \/ file # Unreadable)' => ContentsAreWellFormed'
      BY <1>1 DEF IndInv, ContentsAreWellFormed, WellFormed
<1>3. \A k \in Jobs : /\ ToLoad(k)' => k # w /\ ToLoad(k)
                      /\ Busy(k)' => k # w /\ Busy(k)
      BY <1>1 DEF ToLoad, Busy, Writers
<1>4. JobsKnowTheirRobots'
      BY <1>1, <1>3 DEF IndInv, JobsKnowTheirRobots, Writers
<1>5. AddressesDiffer'
      BY DEF IndInv, AddressesDiffer, network
<1>6. ASSUME leaves = 0, NEW v \in Writers
      PROVE  Reaches(writer[v].content)'
  <2>1. CASE v = w
        BY <1>1, <2>1 DEF Reaches
  <2>2. CASE v # w
        BY <1>1, <1>6, <2>2
           DEF IndInv, AddressesHold, Reaches, Leads, Belongs, network
  <2> QED BY <2>1, <2>2
<1>7. ASSUME leaves = 0, NEW k \in Jobs
      PROVE  Found(k)' /\ Settled(k)'
  <2>1. CASE k = w
        BY <1>1, <1>3, <2>1 DEF Found, Settled
  <2>2. CASE k # w
        BY <1>1, <1>3, <1>7, <2>2, JobKept DEF network
  <2> QED BY <2>1, <2>2
<1>8. ASSUME (leaves = 0 => (file # Unreadable => Reaches(file)))'
      PROVE  AddressesHold'
      BY <1>6, <1>7, <1>8 DEF IndInv, AddressesHold, network
<1> QED BY <1>2, <1>4, <1>5, <1>8

\* What a write leaves in the file: its own text, or some of another's too.
LEMMA FillFacts ==
  ASSUME IndInv, NEW w \in Writers, Fill(w)
  PROVE  /\ file' \in Seq(Entries) \/ file' = Unreadable
         /\ \/ file' = writer[w].content /\ mixed' = mixed
            \/ file # <<>> /\ mixed' = TRUE
         /\ leaves = 0 /\ file' # Unreadable =>
              \A k \in DOMAIN file' :
                /\ Leads(file'[k].ip)
                /\ \/ Belongs(file'[k].mac, file'[k].ip)
                   \/ mixed'
<1>1. TypeOK /\ (leaves = 0 => Reaches(writer[w].content))
      BY DEF IndInv, FileIsWellFormed, AddressesHold
<1>2. writer[w].content \in Seq(Entries)
      BY <1>1 DEF TypeOK
<1>3. CASE file' = writer[w].content /\ UNCHANGED mixed
      BY <1>1, <1>2, <1>3 DEF Reaches
<1>4. CASE LeavesEnd(writer[w].content)
  <2>1. mixed' = TRUE /\ file # <<>>
        BY <1>4 DEF LeavesEnd
  <2>2. CASE file' = Unreadable
        BY <2>1, <2>2
  <2>3. CASE file' # Unreadable
    <3>1. PICK content \in Seq(Entries) : content = writer[w].content
          BY <1>2
    <3>2. /\ ~mixed /\ content # <<>>
          /\ \E k \in DOMAIN file :
               \E e \in Continued(Last(content), file[k]) :
                 file' = Front(content) \o <<e>>
                           \o SubSeq(file, k + 1, Len(file))
          BY <1>4, <2>3, <3>1 DEF LeavesEnd
    <3>3. PICK k \in DOMAIN file : \E e \in Continued(Last(content), file[k]) :
            file' = Front(content) \o <<e>> \o SubSeq(file, k + 1, Len(file))
          BY <3>2
    <3>4. CASE file # Unreadable
      <4>1. PICK old \in Seq(Entries) : old = file
            BY <1>1, <3>4 DEF TypeOK
      <4>2. /\ file' \in Seq(Entries)
            /\ \A i \in DOMAIN file' :
                 \/ \E l \in DOMAIN content : file'[i].ip = content[l].ip
                 \/ \E l \in DOMAIN old : file'[i].ip = old[l].ip
        <5>1. PICK n \in DOMAIN old : n = k
              BY <4>1
        <5>2. PICK e \in Continued(Last(content), old[n]) :
                file' = Mixture(content, e, old, n)
              BY <3>3, <4>1, <5>1 DEF Mixture
        <5>3. /\ Mixture(content, e, old, n) \in Seq(Entries)
              /\ AddressesAmong(Mixture(content, e, old, n), content, old)
              BY <3>2, LeftoverFacts
        <5> QED BY <5>2, <5>3 DEF AddressesAmong
      <4>3. leaves = 0 => Reaches(content) /\ Reaches(old)
            BY <1>1, <3>1, <3>4, <4>1 DEF IndInv, AddressesHold
      <4> QED BY <2>1, <4>2, <4>3 DEF Reaches
    <3>5. CASE file = Unreadable
          BY <3>2, <3>5 DEF IndInv, ContentsAreWellFormed
    <3> QED BY <3>4, <3>5
  <2> QED BY <2>2, <2>3
<1> QED BY <1>3, <1>4 DEF Fill

LEMMA FillStep ==
  ASSUME IndInv, NEW w \in Writers, Fill(w)
  PROVE  IndInv'
<1>1. TypeOK
      BY DEF IndInv, FileIsWellFormed
<1>2. /\ writer[w].step = "emptied" /\ Busy(w)
      /\ registered' = RegisteredBy(w)
      /\ Answered(w)
      /\ UNCHANGED <<network, configured, process, disturbed, crossed>>
      BY DEF Fill, Busy
<1>3. /\ writer' \in [Writers -> [step : {"resting", "loaded", "emptied"},
                                  content : Seq(Entries),
                                  robot : Robots \cup {Nothing}]]
      /\ status' \in [Jobs -> Steps] /\ job' \in [Jobs -> Orders]
      /\ ~Busy(w)' /\ writer'[w].step # "emptied"
      /\ \A v \in Writers \ {w} : writer'[v] = writer[v]
      BY <1>2, AnsweredFacts
<1>4. /\ file' \in Seq(Entries) \/ file' = Unreadable
      /\ \/ file' = writer[w].content /\ mixed' = mixed
         \/ file # <<>> /\ mixed' = TRUE
      /\ leaves = 0 /\ file' # Unreadable =>
           \A k \in DOMAIN file' :
             /\ Leads(file'[k].ip)
             /\ Belongs(file'[k].mac, file'[k].ip) \/ mixed'
      BY FillFacts
<1>5. registered' \subseteq Robots
      BY <1>1, <1>2 DEF RegisteredBy, TypeOK, IndInv, JobsKnowTheirRobots,
                        Writers
<1>6. TypeOK'
      BY <1>1, <1>2, <1>3, <1>4, <1>5 DEF TypeOK, network, process
<1>7. FileIsWellFormed' /\ (mixed \/ file # Unreadable)'
  <2>1. CASE mixed'
        BY <1>6, <2>1 DEF FileIsWellFormed
  <2>2. CASE ~mixed'
    <3>1. file' = writer[w].content /\ ~mixed
          BY <1>4, <2>2
    <3>2. WellFormed(writer[w].content)
          BY <3>1 DEF IndInv, ContentsAreWellFormed
    <3>3. file' \in Seq(Entries)
          BY <1>1, <3>1 DEF TypeOK
    <3>4. Unreadable \notin Seq(Entries)
      <4>1. Unreadable[1].id = NoId /\ Len(Unreadable) = 1
            BY DEF Unreadable
      <4>2. NoId \notin Ids
            BY ProvisioningAssumption DEF NoId
      <4>3. ASSUME Unreadable \in Seq(Entries)
            PROVE  FALSE
        <5>1. Unreadable[1] \in Entries
              BY <4>1, <4>3, ElementOfSeq
        <5> QED BY <4>1, <4>2, <5>1 DEF Entries
      <4> QED BY <4>3
    <3> QED BY <1>6, <3>1, <3>2, <3>3, <3>4
            DEF FileIsWellFormed, WellFormed, Unreadable
  <2> QED BY <2>1, <2>2
<1>8. /\ ContentsAreWellFormed' /\ JobsKnowTheirRobots' /\ AddressesDiffer'
      /\ AddressesHold'
  <2>1. (leaves = 0 => (file # Unreadable => Reaches(file)))'
        BY <1>2, <1>4
           DEF Reaches, Leads, Belongs, Unreadable, network
  <2>2. mixed => mixed'
        BY <1>1, <1>4 DEF TypeOK
  <2> QED BY <1>2, <1>7, <2>1, <2>2, AnsweredStep
<1>9. WritersTakeTurns'
  <2>1. SUFFICES ASSUME ~disturbed
                 PROVE  WritersTakeTurns'
        BY <1>2 DEF WritersTakeTurns
  <2>2. /\ ~mixed /\ \A v \in Writers : Busy(v) => v = w
        /\ file = <<>> /\ Macs(writer[w].content) = registered'
        BY <1>2, <2>1 DEF IndInv, WritersTakeTurns
  <2>3. file' = writer[w].content /\ ~mixed'
        BY <1>4, <2>2
  <2>4. \A v \in Writers : ~Busy(v)' /\ writer'[v].step # "emptied"
        BY <1>3, <2>2 DEF Busy
  <2>5. (Macs(file) = registered)'
        BY <2>2, <2>3 DEF Macs
  <2> QED BY <2>3, <2>4, <2>5 DEF WritersTakeTurns
<1> QED BY <1>7, <1>8, <1>9 DEF IndInv

LEMMA FillFailsStep ==
  ASSUME IndInv, NEW w \in Writers, FillFails(w)
  PROVE  IndInv'
<1>1. TypeOK
      BY DEF IndInv, FileIsWellFormed
<1>2. /\ Answered(w) /\ disturbed' = TRUE
      /\ UNCHANGED <<network, configured, file, process, registered, mixed,
                     crossed>>
      BY DEF FillFails
<1>3. /\ writer' \in [Writers -> [step : {"resting", "loaded", "emptied"},
                                  content : Seq(Entries),
                                  robot : Robots \cup {Nothing}]]
      /\ status' \in [Jobs -> Steps] /\ job' \in [Jobs -> Orders]
      BY <1>2, AnsweredFacts
<1>4. TypeOK'
      BY <1>1, <1>2, <1>3 DEF TypeOK, network, process
<1>5. FileIsWellFormed' /\ (mixed \/ file # Unreadable)'
      BY <1>2, <1>4
         DEF IndInv, FileIsWellFormed, ContentsAreWellFormed, Unreadable
<1>6. (leaves = 0 => (file # Unreadable => Reaches(file)))'
      BY <1>2 DEF IndInv, AddressesHold, Reaches, Leads, Belongs, Unreadable,
                  network
<1>7. WritersTakeTurns'
      BY <1>2 DEF WritersTakeTurns
<1> QED BY <1>2, <1>5, <1>6, <1>7, AnsweredStep DEF IndInv

-----------------------------------------------------------------------------
(* The surroundings.                                                       *)

LEMMA JoinAccessPointStep ==
  ASSUME IndInv, NEW r \in Robots, JoinAccessPoint(r)
  PROVE  IndInv'
<1>1. /\ joined' = r
      /\ UNCHANGED <<address, noted, leaves, configured, file, job, status,
                     writer, process, history>>
      BY DEF JoinAccessPoint
<1>2. TypeOK'
      BY <1>1 DEF IndInv, FileIsWellFormed, TypeOK, history, process
<1>3. FileIsWellFormed' /\ ContentsAreWellFormed' /\ WritersTakeTurns'
      BY <1>1, <1>2, FileUntouched DEF history
<1>4. JobsKnowTheirRobots' /\ AddressesDiffer'
      BY <1>1 DEF IndInv, JobsKnowTheirRobots, AddressesDiffer, ToLoad, Busy
<1>5. AddressesHold'
  <2>1. leaves = 0 => /\ (file # Unreadable => Reaches(file))'
                      /\ (\A w \in Writers : Reaches(writer[w].content))'
        BY <1>1, FileReachesOn DEF history
  <2>2. leaves = 0 => \A k \in Jobs : Found(k)' /\ Settled(k)'
        BY <1>1, JobKept DEF history, ToLoad, Busy
  <2> QED BY <1>1, <2>1, <2>2 DEF IndInv, AddressesHold
<1> QED BY <1>3, <1>4, <1>5 DEF IndInv

LEMMA LeavesSiteStep ==
  ASSUME IndInv, NEW r \in Robots, LeavesSite(r)
  PROVE  IndInv'
<1>1. TypeOK
      BY DEF IndInv, FileIsWellFormed
<1>2. /\ address' = [address EXCEPT ![r] = Nothing]
      /\ leaves < MaxLeaves /\ leaves' = leaves + 1
      /\ UNCHANGED <<joined, noted, configured, file, job, status, writer,
                     process, history>>
      BY DEF LeavesSite
<1>3. leaves' \in 0 .. MaxLeaves /\ leaves' # 0
      BY <1>1, <1>2, ProvisioningAssumption DEF TypeOK
<1>4. TypeOK'
      BY <1>1, <1>2, <1>3 DEF TypeOK, history, process
<1>5. FileIsWellFormed' /\ ContentsAreWellFormed' /\ WritersTakeTurns'
      BY <1>2, <1>4, FileUntouched DEF history
<1>6. JobsKnowTheirRobots'
      BY <1>2 DEF IndInv, JobsKnowTheirRobots, ToLoad, Busy
<1>7. AddressesDiffer'
      BY <1>1, <1>2 DEF IndInv, AddressesDiffer, TypeOK
<1>8. AddressesHold'
      BY <1>3 DEF AddressesHold
<1> QED BY <1>5, <1>6, <1>7, <1>8 DEF IndInv

LEMMA RestartStep ==
  ASSUME IndInv, Restart
  PROVE  IndInv'
<1>1. TypeOK
      BY DEF IndInv, FileIsWellFormed
<1>2. /\ \A j \in Jobs : status'[j] = "idle"
      /\ \A w \in Writers : writer'[w] = Resting
      /\ disturbed' =
           (disturbed \/ \E w \in Writers : writer[w].step = "emptied")
      /\ UNCHANGED <<joined, address, noted, leaves, configured, file,
                     calls, registered, mixed, crossed>>
      BY DEF Restart, network
<1>3. TypeOK'
  <2>1. NoOrder \in Orders /\ "idle" \in Steps
        BY DEF NoOrder, Orders, Steps
  <2>2. Resting \in [step : {"resting", "loaded", "emptied"},
                     content : Seq(Entries), robot : Robots \cup {Nothing}]
        BY EmptySeq DEF Resting
  <2>3. /\ job' \in [Jobs -> Orders] /\ status' \in [Jobs -> Steps]
        /\ writer' \in [Writers -> [step : {"resting", "loaded", "emptied"},
                                    content : Seq(Entries),
                                    robot : Robots \cup {Nothing}]]
        BY <2>1, <2>2 DEF Restart
  <2>4. serving' \in BOOLEAN /\ disturbed' \in BOOLEAN
        BY <1>1, <1>2 DEF Restart, Accepted, TypeOK
  <2> QED BY <1>1, <1>2, <2>3, <2>4 DEF TypeOK
<1>4. \A w \in Writers : ~Busy(w)' /\ writer'[w].content = <<>>
                         /\ writer'[w].step # "emptied"
      BY <1>2 DEF Busy, Resting
<1>5. FileIsWellFormed' /\ ContentsAreWellFormed'
      BY <1>2, <1>3, <1>4
         DEF IndInv, FileIsWellFormed, ContentsAreWellFormed, WellFormed,
             Unreadable
<1>6. JobsKnowTheirRobots'
      BY <1>2, <1>4 DEF JobsKnowTheirRobots, ToLoad, Writers
<1>7. AddressesDiffer'
      BY <1>2 DEF IndInv, AddressesDiffer
<1>8. AddressesHold'
      BY <1>2, <1>4 DEF IndInv, AddressesHold, Reaches, Leads, Belongs,
                        Unreadable, ToLoad, Found, Settled
<1>9. WritersTakeTurns'
  <2>1. SUFFICES ASSUME ~disturbed'
                 PROVE  WritersTakeTurns'
        BY DEF WritersTakeTurns
  <2>2. ~disturbed /\ \A w \in Writers : writer[w].step # "emptied"
        BY <1>2, <2>1
  <2>3. ~mixed /\ Macs(file) = registered
        BY <2>2 DEF IndInv, WritersTakeTurns
  <2>4. (Macs(file) = registered)'
        BY <1>2, <2>3 DEF Macs
  <2> QED BY <1>2, <1>4, <2>3, <2>4 DEF WritersTakeTurns
<1> QED BY <1>5, <1>6, <1>7, <1>8, <1>9 DEF IndInv

-----------------------------------------------------------------------------
(* What provisioning promises.                                             *)

LEMMA NextInv == IndInv /\ [Next]_vars => IndInv'
<1> SUFFICES ASSUME IndInv, [Next]_vars
             PROVE  IndInv'
    OBVIOUS
<1>1. ASSUME NEW j \in Jobs, JobStep(j)
      PROVE  IndInv'
  <2>1. j \in Writers
        BY DEF Writers
  <2> QED BY <1>1, <2>1, ConnectStep, RunScriptStep, LocateStep,
             PatchSdkConfigStep, LoadEntriesStep, EmptyStep, FillStep,
             FillFailsStep
          DEF JobStep
<1>2. CASE HandlerStep
  <2>1. Handler \in Writers
        BY DEF Writers
  <2> QED BY <1>2, <2>1, DeleteRobotStep, EmptyStep, FillStep, FillFailsStep
          DEF HandlerStep
<1>3. CASE UNCHANGED vars
  <2>1. UNCHANGED <<joined, address, noted, leaves, configured, file, job,
                    status, writer, process, history>>
        BY <1>3 DEF vars, network
  <2>2. TypeOK'
        BY <2>1 DEF IndInv, FileIsWellFormed, TypeOK, history, process
  <2>3. FileIsWellFormed' /\ ContentsAreWellFormed' /\ WritersTakeTurns'
        BY <2>1, <2>2, FileUntouched DEF history
  <2>4. JobsKnowTheirRobots' /\ AddressesDiffer'
        BY <2>1 DEF IndInv, JobsKnowTheirRobots, AddressesDiffer, ToLoad, Busy
  <2>5. AddressesHold'
    <3>1. leaves = 0 => /\ (file # Unreadable => Reaches(file))'
                        /\ (\A w \in Writers : Reaches(writer[w].content))'
          BY <2>1, FileReachesOn DEF history
    <3>2. leaves = 0 => \A k \in Jobs : Found(k)' /\ Settled(k)'
          BY <2>1, JobKept DEF history, ToLoad, Busy
    <3> QED BY <2>1, <3>1, <3>2 DEF IndInv, AddressesHold
  <2> QED BY <2>3, <2>4, <2>5 DEF IndInv
<1> QED BY <1>1, <1>2, <1>3, ProvisionStartStep, JoinAccessPointStep,
           LeavesSiteStep, RestartStep
        DEF Next

LEMMA InvariantHolds == Spec => []IndInv
BY InitInv, NextInv, PTL DEF Spec

\* write_robot_entry and remove_robot_entry: whoever writes, and however the
\* writes overtake one another or break off, no two entries share an id or a
\* MAC until a write has left the end of another's text in the file.
THEOREM FileStaysWellFormed == Spec => []FileIsWellFormed
<1>1. IndInv => FileIsWellFormed
      BY DEF IndInv
<1> QED BY <1>1, InvariantHolds, PTL

\* Without a second writer the read, the change and the write of the file are
\* as good as one step.
THEOREM NothingIsLostAlone == Spec => []FileHoldsWhatWasDone
<1>1. IndInv => FileHoldsWhatWasDone
      BY DEF IndInv, WritersTakeTurns, FileHoldsWhatWasDone, Macs
<1> QED BY <1>1, InvariantHolds, PTL

\* _run_provisioning_job: the address that is registered leads to a robot that
\* was configured, on whichever access point the login ended; and to the robot
\* of the entry, unless its MAC was not read back, or a write left the end of
\* another's text.
THEOREM EntriesAreTrue == Spec => []EntriesReachTheirRobots
<1>1. ASSUME IndInv, leaves = 0, file # Unreadable, NEW e \in ToSet(file)
      PROVE  /\ \E r \in configured : e.ip = address[r]
             /\ \/ e.ip = address[e.mac] /\ e.mac \in configured
                \/ <<e.mac, e.ip>> \in crossed
                \/ mixed
  <2>1. PICK k \in DOMAIN file : file[k] = e
        BY DEF ToSet
  <2>2. Leads(e.ip) /\ (Belongs(e.mac, e.ip) \/ mixed)
        BY <1>1, <2>1 DEF IndInv, AddressesHold, Reaches
  <2> QED BY <2>2 DEF Leads, Belongs
<1>2. IndInv => EntriesReachTheirRobots
      BY <1>1 DEF EntriesReachTheirRobots
<1> QED BY <1>2, InvariantHolds, PTL

=============================================================================
