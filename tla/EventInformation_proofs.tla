----------------------- MODULE EventInformation_proofs -----------------------
(***************************************************************************)
(* What a client that polls for events receives, for any size of the       *)
(* answers, any number of objects and any undefined results.               *)
(*                                                                         *)
(* An object that is listed all the time is in every list of events; only  *)
(* the event the client received last is left out of an answer, and what   *)
(* does not fit keeps the client polling (SessionInv).                     *)
(***************************************************************************)
EXTENDS EventInformation, TLAPS, FiniteSetTheorems, FunctionTheorems,
        WellFoundedInduction

USE EventInformationAssumption

-----------------------------------------------------------------------------
(* The least and the greatest of some indexes *)

LEMMA LeastIndex ==
  ASSUME NEW T, T \subseteq Nat, T # {}
  PROVE  Min(T) \in T /\ \A y \in T : Min(T) =< y
<1> DEFINE Less == {pair \in Nat \X Nat : pair[1] < pair[2]}
<1>1. IsWellFoundedOn(Less, Nat)
  BY NatLessThanWellFounded, Zenon DEF OpToRel
<1> HIDE DEF Less
<1>2. PICK x \in T : \A y \in T : ~ (<<y, x>> \in Less)
  BY <1>1, WFMin, Zenon
<1>3. ASSUME NEW y \in T PROVE x =< y
  <2>1. <<y, x>> \notin Less /\ x \in Nat /\ y \in Nat BY <1>2
  <2> QED BY <2>1 DEF Less
<1>4. \E z \in T : \A y \in T : z =< y BY <1>3
<1> QED BY <1>4, Zenon DEF Min

LEMMA GreatestIndex ==
  ASSUME NEW n \in Nat, NEW S, S \subseteq 0 .. n, S # {}
  PROVE  Max(S) \in S /\ \A j \in S : Max(S) >= j
<1> DEFINE T == {n - i : i \in S}
<1>1. T \subseteq Nat /\ T # {}
  <2>1. PICK i : i \in S OBVIOUS
  <2>2. n - i \in T BY <2>1
  <2>3. \A j \in S : n - j \in Nat OBVIOUS
  <2> QED BY <2>2, <2>3
<1>2. Min(T) \in T /\ \A y \in T : Min(T) =< y BY <1>1, LeastIndex
<1>3. PICK i \in S : Min(T) = n - i BY <1>2
<1>4. \A j \in S : i >= j
  <2> SUFFICES ASSUME NEW j \in S PROVE i >= j OBVIOUS
  <2>1. Min(T) =< n - j BY <1>2
  <2> QED BY <1>3, <2>1
<1> QED BY <1>4, Zenon DEF Max

-----------------------------------------------------------------------------
(* Types *)

DeviceOK ==
  /\ objects \in Seq({"analog-input", "other"}) /\ Len(objects) <= MaxObjects
  /\ detecting \subseteq AnalogInputs /\ reporting \subseteq AnalogInputs

Sessions == [open : BOOLEAN, sound : BOOLEAN, last : Entries \cup {Nothing},
             known : SUBSET Entries, since : SUBSET (1 .. MaxObjects)]

Answers == [entries : SUBSET Entries, more : BOOLEAN, sound : BOOLEAN]

LEMMA ListedFacts ==
  ASSUME DeviceOK
  PROVE  Listed \subseteq 1 .. MaxObjects /\ AnalogInputs \subseteq 1 .. MaxObjects
BY DEF DeviceOK, Listed, AnalogInputs

LEMMA IndexFacts ==
  ASSUME DeviceOK
  PROVE  Indexes \subseteq 0 .. MaxObjects /\ Gaps \subseteq 0 .. MaxObjects
         /\ AnalogInputs \subseteq Indexes
<1>1. AnalogInputs \subseteq 0 .. MaxObjects BY ListedFacts
<1>2. CASE AnalogInputs = {} BY <1>2 DEF Indexes, Gaps
<1>3. CASE AnalogInputs # {}
  <2>1. /\ Max(AnalogInputs) \in AnalogInputs
        /\ \A i \in AnalogInputs : Max(AnalogInputs) >= i
    BY <1>1, <1>3, GreatestIndex
  <2>2. Indexes = 0 .. Max(AnalogInputs) BY <1>3 DEF Indexes
  <2> PICK m : m = Max(AnalogInputs) OBVIOUS
  <2>3. m \in 0 .. MaxObjects BY <1>1, <2>1
  <2>4. \A i \in AnalogInputs : i \in 0 .. MaxObjects /\ i =< m BY <1>1, <2>1
  <2>5. \A i \in AnalogInputs : i \in 0 .. m BY <2>3, <2>4
  <2>6. 0 .. m \subseteq 0 .. MaxObjects BY <2>3
  <2> QED BY <2>2, <2>5, <2>6 DEF Gaps
<1> QED BY <1>2, <1>3

\* What is said of an event is a listed object, the event itself if it is one.
LEMMA NamedFacts ==
  ASSUME DeviceOK, NEW i \in 0 .. MaxObjects
  PROVE  /\ Named(i, Listed) \in Listed \cup {Garbage}
         /\ i \in Listed => Named(i, Listed) = i
<1> DEFINE filled == {j \in Listed : j <= i}
<1>1. Listed \subseteq 1 .. MaxObjects BY ListedFacts
<1>2. filled \subseteq 0 .. MaxObjects
  <2> SUFFICES ASSUME NEW j \in filled PROVE j \in 0 .. MaxObjects OBVIOUS
  <2>1. j \in 1 .. MaxObjects BY <1>1
  <2> QED BY <2>1
<1>3. CASE filled = {}
  <2>1. Named(i, Listed) = Garbage BY <1>3 DEF Named
  <2>2. i \notin Listed BY <1>3
  <2> QED BY <2>1, <2>2
<1>4. CASE filled # {}
  <2>1. Named(i, Listed) = Max(filled) BY <1>4, Zenon DEF Named
  <2>2. Max(filled) \in filled /\ \A j \in filled : Max(filled) >= j
    BY <1>2, <1>4, GreatestIndex
  <2>3. ASSUME i \in Listed PROVE Max(filled) = i
    <3>1. i \in filled /\ Max(filled) =< i /\ Max(filled) >= i
      BY <2>2, <2>3
    <3>2. Max(filled) \in Int BY <1>2, <2>2
    <3> HIDE DEF filled
    <3> QED BY <3>1, <3>2
  <2> QED BY <2>1, <2>2, <2>3
<1> QED BY <1>3, <1>4

LEMMA EventFacts ==
  ASSUME DeviceOK, NEW results \in [Gaps -> GapOutcomes], NEW after
  PROVE  /\ Events(results) \subseteq 0 .. MaxObjects
         /\ Encodable(Events(results), after) \subseteq Events(results)
<1>1. Listed \subseteq 0 .. MaxObjects /\ Gaps \subseteq 0 .. MaxObjects
  BY ListedFacts, IndexFacts
<1>2. DOMAIN results = Gaps OBVIOUS
<1> DEFINE events == Listed \cup {g \in DOMAIN results : results[g] > 0}
<1>3. events \subseteq 0 .. MaxObjects BY <1>1, <1>2
<1>4. Events(results) \subseteq events BY Zenon DEF Events
<1>5. Encodable(Events(results), after) \subseteq Events(results)
  BY Zenon DEF Encodable
<1> HIDE DEF events
<1> QED BY <1>3, <1>4, <1>5

\* So many events fit as an answer has room for.
LEMMA FirstFits ==
  ASSUME NEW events, events \subseteq 0 .. MaxObjects
  PROVE  /\ First(events) \subseteq events
         /\ IsFiniteSet(First(events)) /\ Cardinality(First(events)) <= PageSize
<1> DEFINE before(i) == {j \in events : j < i}
           rank == [i \in First(events) |-> Cardinality(before(i))]
           places == 0 .. PageSize - 1
<1>1. IsFiniteSet(0 .. MaxObjects) BY FS_Interval
<1>2. IsFiniteSet(events) BY <1>1, FS_Subset
<1>3. First(events) \subseteq events BY DEF First
<1>0. \A i \in events : i \in Nat OBVIOUS
<1>4. ASSUME NEW i \in First(events)
      PROVE  IsFiniteSet(before(i)) /\ rank[i] \in places
  <2>1. IsFiniteSet(before(i)) BY <1>2, FS_Subset
  <2>2. Cardinality(before(i)) \in Nat BY <2>1, FS_CardinalityType
  <2>3. Cardinality(before(i)) < PageSize BY DEF First
  <2> HIDE DEF before
  <2> QED BY <2>1, <2>2, <2>3
<1>5. ASSUME NEW i \in First(events), NEW k \in First(events),
             rank[i] = rank[k], i < k
      PROVE  FALSE
  <2>1. before(i) \subseteq before(k) /\ i \in before(k) \ before(i)
    <3>1. i \in events /\ k \in events /\ i \in Nat /\ k \in Nat /\ i < k
      BY <1>0, <1>3, <1>5
    <3>2. ASSUME NEW j \in before(i) PROVE j \in before(k)
      <4>1. j \in events /\ j \in Nat /\ j < i BY <1>0
      <4> QED BY <3>1, <4>1
    <3>3. i \in before(k) BY <3>1
    <3>4. i \notin before(i) BY <3>1
    <3> HIDE DEF before
    <3> QED BY <3>2, <3>3, <3>4
  <2>2. Cardinality(before(i)) = Cardinality(before(k)) BY <1>5
  <2>3. IsFiniteSet(before(k)) BY <1>4
  <2> HIDE DEF before
  <2>4. before(k) = before(i) BY <2>1, <2>2, <2>3, FS_Subset
  <2> QED BY <2>1, <2>4
<1>6. \A i, k \in First(events) : rank[i] = rank[k] => i = k
  <2> SUFFICES ASSUME NEW i \in First(events), NEW k \in First(events),
                      rank[i] = rank[k]
               PROVE  i = k
    BY Zenon
  <2>1. ~ (i < k) /\ ~ (k < i) BY <1>5
  <2>2. i \in Nat /\ k \in Nat BY <1>0, <1>3, Zenon
  <2> HIDE DEF rank
  <2> QED BY <2>1, <2>2
<1>7. rank \in [First(events) -> places]
  <2>1. \A i \in First(events) : Cardinality(before(i)) \in places BY <1>4
  <2> HIDE DEF before, places
  <2> QED BY <2>1
<1> HIDE DEF rank
<1>8. rank \in Injection(First(events), places) BY <1>6, <1>7, Fun_IsInj, Zenon
<1>9. /\ IsFiniteSet(places) /\ Cardinality(places) = PageSize
  <2>1. 0 \in Int /\ PageSize - 1 \in Int OBVIOUS
  <2>2. Cardinality(places) = IF 0 > PageSize - 1 THEN 0
                              ELSE PageSize - 1 - 0 + 1
    BY <2>1, FS_Interval, Zenon
  <2>3. IsFiniteSet(places) BY <2>1, FS_Interval, Zenon
  <2> HIDE DEF places
  <2> QED BY <2>2, <2>3
<1>10. IsFiniteSet(First(events))
       /\ Cardinality(First(events)) <= Cardinality(places)
  BY <1>8, <1>9, FS_Injection, Zenon
<1> QED BY <1>3, <1>9, <1>10

LEMMA AnswerFacts ==
  ASSUME DeviceOK, NEW results \in [Gaps -> GapOutcomes], NEW after
  PROVE  /\ Answer(after, results) \in Answers
         /\ Cardinality(Answer(after, results).entries) <= PageSize
<1> DEFINE events == Encodable(Events(results), after)
           names == [i \in First(events) |-> Named(i, Listed)]
           entries == {Named(i, Listed) : i \in First(events)}
           sound == \A g \in DOMAIN results : results[g] = 0
<1>1. events \subseteq 0 .. MaxObjects BY EventFacts
<1>2. /\ First(events) \subseteq events /\ IsFiniteSet(First(events))
      /\ Cardinality(First(events)) <= PageSize
      /\ Cardinality(First(events)) \in Nat
  BY <1>1, FirstFits, FS_CardinalityType
<1> HIDE DEF events
<1>3. entries \subseteq Entries
  <2> SUFFICES ASSUME NEW i \in First(events)
               PROVE  Named(i, Listed) \in Entries
    OBVIOUS
  <2>1. Named(i, Listed) \in Listed \cup {Garbage}
    BY <1>1, <1>2, NamedFacts
  <2> QED BY <2>1, ListedFacts DEF Entries
<1>4. names \in Surjection(First(events), entries)
  <2>1. names \in [First(events) -> entries] OBVIOUS
  <2>2. \A e \in entries : \E i \in First(events) : names[i] = e OBVIOUS
  <2> HIDE DEF names, entries
  <2> QED BY <2>1, <2>2, Fun_IsSurj, Zenon
<1>5. IsFiniteSet(entries) /\ Cardinality(entries) <= Cardinality(First(events))
  <2> HIDE DEF names, entries
  <2> QED BY <1>2, <1>4, FS_Surjection, Zenon
<1>6. Cardinality(entries) \in Nat BY <1>5, FS_CardinalityType, Zenon
<1> HIDE DEF entries
<1>7. Cardinality(entries) <= PageSize BY <1>2, <1>5, <1>6
<1>8. Answer(after, results)
        = [entries |-> entries, more |-> MoreEvents(events), sound |-> sound]
  BY Zenon DEF Answer, events, entries
<1>9. MoreEvents(events) \in BOOLEAN BY DEF MoreEvents
<1>10. sound \in BOOLEAN OBVIOUS
<1> HIDE DEF sound
<1> QED BY <1>3, <1>7, <1>8, <1>9, <1>10 DEF Answers

LEMMA LastFacts ==
  ASSUME NEW entries, entries \subseteq Entries, entries # {}
  PROVE  LastEntry(entries) \in entries
<1>1. CASE entries = {Garbage} BY <1>1 DEF LastEntry
<1>2. CASE entries # {Garbage}
  <2> DEFINE real == entries \ {Garbage}
  <2>1. real # {} BY <1>2
  <2>2. real \subseteq 0 .. MaxObjects
    <3> SUFFICES ASSUME NEW i \in real PROVE i \in 0 .. MaxObjects OBVIOUS
    <3>1. i \in 1 .. MaxObjects BY DEF Entries
    <3> QED BY <3>1
  <2>3. Max(real) \in real BY <2>1, <2>2, GreatestIndex
  <2>4. LastEntry(entries) = Max(real) BY <1>2, Zenon DEF LastEntry
  <2> QED BY <2>3, <2>4
<1> QED BY <1>1, <1>2

-----------------------------------------------------------------------------
(* The invariant *)

SessionInv ==
  /\ DeviceOK /\ session \in Sessions
  /\ session.since \subseteq Listed
  /\ session.last \in session.known \cup {Nothing}
  /\ SessionComplete

\* While no undefined result goes into an answer, the events are the listed
\* objects, and all are encoded but the one received last.
LEMMA SoundAnswer ==
  ASSUME DeviceOK, NEW results \in [Gaps -> GapOutcomes], NEW after,
         Answer(after, results).sound, ~ Answer(after, results).more
  PROVE  Listed \subseteq Answer(after, results).entries \cup {after}
<1> DEFINE events == Events(results)
           left == Encodable(events, after)
           found == {i \in events : Named(i, Listed) = after}
<1>1. \A g \in DOMAIN results : results[g] = 0
  BY Zenon DEF Answer
<1>2. events = Listed
  <2> DEFINE last == {g \in DOMAIN results : results[g] < 0}
             more == {g \in DOMAIN results : results[g] > 0}
  <2>1. last = {} /\ more = {} BY <1>1
  <2>2. events = IF last = {} THEN Listed \cup more
                 ELSE {i \in Listed \cup more : i < Min(last)}
    BY Zenon DEF Events
  <2> HIDE DEF last, more
  <2> QED BY <2>1, <2>2
<1>3. \A i \in Listed : i \in 0 .. MaxObjects /\ Named(i, Listed) = i
  <2> SUFFICES ASSUME NEW i \in Listed
               PROVE  i \in 0 .. MaxObjects /\ Named(i, Listed) = i
    OBVIOUS
  <2>1. i \in 1 .. MaxObjects BY ListedFacts
  <2>2. i \in 0 .. MaxObjects BY <2>1
  <2> QED BY <2>2, NamedFacts
<1>4. found \subseteq {after} BY <1>2, <1>3
<1>5. left = IF found = {} THEN events ELSE events \ {Min(found)}
  BY Zenon DEF Encodable
<1>6. Listed \ {after} \subseteq left
  <2>1. CASE found = {} BY <1>2, <1>5, <2>1
  <2>2. CASE found # {}
    <3>1. found = {after} BY <1>4, <2>2
    <3>2. found \subseteq Nat BY <1>2, <1>3
    <3>3. Min(found) \in found BY <2>2, <3>2, LeastIndex
    <3>4. Min(found) = after BY <3>1, <3>3
    <3> HIDE DEF found
    <3> QED BY <1>2, <1>5, <2>2, <3>4
  <2> QED BY <2>1, <2>2
<1> HIDE DEF left
<1>7. First(left) = left
  <2>1. Answer(after, results).more = MoreEvents(left) BY Zenon DEF Answer, left
  <2> QED BY <2>1 DEF MoreEvents
<1>8. Answer(after, results).entries = {Named(i, Listed) : i \in left}
  <2>1. Answer(after, results).entries = {Named(i, Listed) : i \in First(left)}
    BY Zenon DEF Answer, left
  <2> QED BY <1>7, <2>1
<1>9. ASSUME NEW i \in Listed, i # after
      PROVE  i \in Answer(after, results).entries
  <2>1. i \in left /\ Named(i, Listed) = i BY <1>3, <1>6, <1>9
  <2> QED BY <1>8, <2>1
<1> QED BY <1>9

LEMMA SessionStart ==
  ASSUME Init
  PROVE  SessionInv
<1> USE DEF Init
<1>1. AnalogInputs = {} BY DEF AnalogInputs
<1>2. DeviceOK BY <1>1 DEF DeviceOK
<1>3. session \in Sessions BY DEF Sessions
<1> QED BY <1>2, <1>3 DEF SessionInv, SessionComplete

\* The session stays, and what was listed since it began is listed still.
LEMMA DeviceKeeps ==
  ASSUME SessionInv, UNCHANGED session, DeviceOK', Listed \subseteq Listed'
  PROVE  SessionInv'
BY DEF SessionInv, SessionComplete

LEMMA AppendFacts ==
  ASSUME DeviceOK, NEW type \in {"analog-input", "other"},
         Len(objects) < MaxObjects, objects' = Append(objects, type)
  PROVE  /\ objects' \in Seq({"analog-input", "other"})
         /\ Len(objects') <= MaxObjects
         /\ AnalogInputs \subseteq AnalogInputs'
         /\ type = "analog-input" => Len(objects) + 1 \in AnalogInputs'
<1>1. objects \in Seq({"analog-input", "other"}) BY DEF DeviceOK
<1>2. objects' \in Seq({"analog-input", "other"})
      /\ Len(objects') = Len(objects) + 1
  BY <1>1
<1>3. /\ \A i \in DOMAIN objects : i \in DOMAIN objects'
                                   /\ objects'[i] = objects[i]
      /\ Len(objects) + 1 \in DOMAIN objects'
      /\ objects'[Len(objects) + 1] = type
  BY <1>1
<1>4. Len(objects') <= MaxObjects BY <1>1, <1>2
<1> QED BY <1>2, <1>3, <1>4 DEF AnalogInputs

LEMMA AddKeeps ==
  ASSUME SessionInv,
         AddOtherObject \/ \E detection \in BOOLEAN : AddAnalogInput(detection)
  PROVE  SessionInv'
<1>0. DeviceOK BY DEF SessionInv
<1>1. CASE AddOtherObject
  <2>1. /\ objects' \in Seq({"analog-input", "other"})
        /\ Len(objects') <= MaxObjects /\ AnalogInputs \subseteq AnalogInputs'
    BY <1>0, <1>1, AppendFacts DEF AddOtherObject
  <2>2. UNCHANGED <<detecting, reporting, session>> BY <1>1 DEF AddOtherObject
  <2>3. DeviceOK' BY <1>0, <2>1, <2>2 DEF DeviceOK
  <2>4. Listed \subseteq Listed' BY <2>1, <2>2 DEF Listed
  <2> QED BY <2>2, <2>3, <2>4, DeviceKeeps
<1>2. CASE \E detection \in BOOLEAN : AddAnalogInput(detection)
  <2>1. /\ objects' \in Seq({"analog-input", "other"})
        /\ Len(objects') <= MaxObjects /\ AnalogInputs \subseteq AnalogInputs'
        /\ Len(objects) + 1 \in AnalogInputs'
    BY <1>0, <1>2, AppendFacts DEF AddAnalogInput
  <2>2. /\ detecting \subseteq detecting'
        /\ detecting' \subseteq detecting \cup {Len(objects) + 1}
        /\ UNCHANGED <<reporting, session>>
    BY <1>2 DEF AddAnalogInput
  <2>3. DeviceOK' BY <1>0, <2>1, <2>2 DEF DeviceOK
  <2>4. Listed \subseteq Listed' BY <2>1, <2>2 DEF Listed
  <2> QED BY <2>2, <2>3, <2>4, DeviceKeeps
<1> QED BY <1>1, <1>2

LEMMA ReportingKeeps ==
  ASSUME SessionInv, NEW i \in AnalogInputs,
         StartReporting(i) \/ StopReporting(i)
  PROVE  SessionInv'
<1>0. DeviceOK BY DEF SessionInv
<1>1. CASE StartReporting(i)
  <2>1. /\ reporting' = reporting \cup {i}
        /\ UNCHANGED <<objects, detecting, session>>
    BY <1>1 DEF StartReporting
  <2>2. AnalogInputs' = AnalogInputs BY <2>1 DEF AnalogInputs
  <2>3. DeviceOK' BY <1>0, <2>1, <2>2 DEF DeviceOK
  <2>4. Listed \subseteq Listed' BY <2>1, <2>2 DEF Listed
  <2> QED BY <2>1, <2>3, <2>4, DeviceKeeps
<1>2. CASE StopReporting(i)
  <2>1. /\ reporting' = reporting \ {i} /\ UNCHANGED <<objects, detecting>>
        /\ session' = [session EXCEPT !.since = @ \ {i}]
    BY <1>2 DEF StopReporting
  <2>2. AnalogInputs' = AnalogInputs BY <2>1 DEF AnalogInputs
  <2>3. DeviceOK' BY <1>0, <2>1, <2>2 DEF DeviceOK
  <2>4. Listed' = Listed \ {i} BY <2>1, <2>2 DEF Listed
  <2>5. session \in Sessions BY DEF SessionInv
  <2>6. /\ session' \in Sessions /\ session'.since = session.since \ {i}
        /\ session'.open = session.open /\ session'.sound = session.sound
        /\ session'.last = session.last /\ session'.known = session.known
    BY <2>1, <2>5 DEF Sessions
  <2> QED BY <2>3, <2>4, <2>6 DEF SessionInv, SessionComplete
<1> QED BY <1>1, <1>2

LEMMA PollKeeps ==
  ASSUME SessionInv, NEW results \in [Gaps -> GapOutcomes], PollWith(results)
  PROVE  SessionInv' /\ answer' \in Answers
         /\ Cardinality(answer'.entries) <= PageSize
<1>0. DeviceOK /\ session \in Sessions BY DEF SessionInv
<1> PICK s : s = IF session.open THEN session ELSE Begun OBVIOUS
<1>1. /\ s \in Sessions /\ s.since \subseteq Listed
      /\ s.last \in s.known \cup {Nothing}
  <2>1. CASE session.open BY <1>0, <2>1 DEF SessionInv
  <2>2. CASE ~ session.open
    <3>1. s = Begun BY <2>2
    <3>2. Begun \in Sessions BY <1>0, ListedFacts DEF Begun, Sessions
    <3>3. s.since = Listed /\ s.last = Nothing BY <3>1 DEF Begun
    <3>4. s \in Sessions BY <3>1, <3>2
    <3> QED BY <3>3, <3>4
  <2> QED BY <2>1, <2>2
<1> PICK a : a = Answer(s.last, results) OBVIOUS
<1>2. a \in Answers /\ Cardinality(a.entries) <= PageSize
  BY <1>0, AnswerFacts
<1>3. answer' = a /\ session' = Received(s, a) /\ UNCHANGED device
  BY Zenon DEF PollWith
<1>4. DeviceOK' /\ Listed' = Listed
  BY <1>0, <1>3 DEF device, DeviceOK, Listed, AnalogInputs
<1>5. /\ session'.open = a.more /\ session'.sound = (s.sound /\ a.sound)
      /\ session'.known = s.known \cup a.entries /\ session'.since = s.since
      /\ session'.last = IF a.entries = {} THEN s.last ELSE LastEntry(a.entries)
      /\ session' \in Sessions
  <2>1. a.entries # {} => LastEntry(a.entries) \in a.entries
    BY <1>2, LastFacts DEF Answers
  <2> DEFINE l == IF a.entries = {} THEN s.last ELSE LastEntry(a.entries)
  <2>2. /\ a.entries \subseteq Entries /\ a.more \in BOOLEAN
        /\ a.sound \in BOOLEAN
    BY <1>2 DEF Answers
  <2>3. /\ s.known \subseteq Entries /\ s.last \in Entries \cup {Nothing}
        /\ s.sound \in BOOLEAN
        /\ s = [open |-> s.open, sound |-> s.sound, last |-> s.last,
                known |-> s.known, since |-> s.since]
        /\ s.since \in SUBSET (1 .. MaxObjects)
    BY <1>1 DEF Sessions
  <2>4. l \in Entries \cup {Nothing} BY <2>1, <2>2, <2>3
  <2>5. session' = [s EXCEPT !.open = a.more, !.sound = @ /\ a.sound,
                             !.last = l, !.known = @ \cup a.entries]
    BY <1>3, Zenon DEF Received
  <2> HIDE DEF l
  <2>6. session' = [open |-> a.more, sound |-> (s.sound /\ a.sound), last |-> l,
                    known |-> s.known \cup a.entries, since |-> s.since]
    BY <2>3, <2>5
  <2>7. s.known \cup a.entries \in SUBSET Entries BY <2>2, <2>3
  <2>8. (s.sound /\ a.sound) \in BOOLEAN OBVIOUS
  <2>9. session' \in Sessions
    BY <2>2, <2>3, <2>4, <2>6, <2>7, <2>8 DEF Sessions
  <2>10. session'.last = l BY <2>6
  <2> QED BY <2>6, <2>9, <2>10 DEF l
<1>6. session'.last \in session'.known \cup {Nothing}
  <2>1. a.entries # {} => LastEntry(a.entries) \in a.entries
    BY <1>2, LastFacts DEF Answers
  <2> QED BY <1>1, <1>5, <2>1
<1>7. ASSUME ~ session'.open, session'.sound
      PROVE  session'.since \subseteq session'.known
  <2>1. a.sound /\ ~ a.more BY <1>1, <1>2, <1>5, <1>7 DEF Sessions, Answers
  <2>2. Listed \subseteq a.entries \cup {s.last} BY <1>0, <2>1, SoundAnswer
  <2>3. Nothing \notin Listed
    <3>1. Listed \subseteq Nat BY <1>0, ListedFacts
    <3> QED BY <3>1
  <2> QED BY <1>1, <1>5, <2>2, <2>3
<1>8. session'.since \subseteq Listed' BY <1>1, <1>4, <1>5
<1>9. SessionComplete' BY <1>7 DEF SessionComplete
<1>10. SessionInv' BY <1>4, <1>5, <1>6, <1>8, <1>9 DEF SessionInv
<1> QED BY <1>2, <1>3, <1>10

LEMMA SessionStep ==
  ASSUME SessionInv, [Next]_vars
  PROVE  SessionInv'
<1>1. CASE Poll BY <1>1, PollKeeps DEF Poll
<1>2. CASE UNCHANGED vars
  BY <1>2 DEF vars, SessionInv, DeviceOK, AnalogInputs, Listed, SessionComplete
<1> QED BY <1>1, <1>2, AddKeeps, ReportingKeeps DEF Next

LEMMA SessionKept ==
  Spec => []SessionInv
<1>1. Init => SessionInv BY SessionStart
<1>2. SessionInv /\ [Next]_vars => SessionInv' BY SessionStep
<1> QED BY <1>1, <1>2, PTL DEF Spec

\* A client that reads on until there are no more events has received every
\* object that was listed since it began, whatever the size of an answer.
THEOREM SessionsAreComplete == Spec => []SessionComplete
<1>1. SessionInv => SessionComplete BY DEF SessionInv
<1> QED BY <1>1, SessionKept, PTL

\* Type correctness: in particular no answer holds more than fits.
THEOREM TypeCorrect == Spec => []TypeOK
<1> DEFINE AnswerOK == answer \in Answers
                       /\ Cardinality(answer.entries) <= PageSize
<1>1. SessionInv /\ AnswerOK => TypeOK
  BY DEF SessionInv, DeviceOK, Sessions, Answers, TypeOK
<1>2. Init => AnswerOK
  <2> SUFFICES ASSUME Init PROVE AnswerOK OBVIOUS
  <2>1. answer = NoAnswer BY DEF Init
  <2>2. answer.entries = {} /\ answer \in Answers
    BY <2>1 DEF NoAnswer, Answers
  <2>3. Cardinality(answer.entries) = 0 BY <2>2, FS_EmptySet, Zenon
  <2> QED BY <2>2, <2>3
<1>3. SessionInv /\ AnswerOK /\ [Next]_vars => AnswerOK'
  <2> SUFFICES ASSUME SessionInv, AnswerOK, [Next]_vars PROVE AnswerOK'
    OBVIOUS
  <2>1. CASE Poll BY <2>1, PollKeeps DEF Poll
  <2>2. CASE UNCHANGED answer BY <2>2
  <2> QED BY <2>1, <2>2 DEF Next, AddAnalogInput, AddOtherObject,
             StartReporting, StopReporting, vars
<1> QED BY <1>1, <1>2, <1>3, SessionKept, PTL DEF Spec

=============================================================================
