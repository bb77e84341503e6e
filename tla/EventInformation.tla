------------------------- MODULE EventInformation -------------------------
(***************************************************************************)
(* GetEventInformation: a client that polls the device for its events page *)
(* by page (src/handlers/h_getevent.c), while objects are added and their  *)
(* event states change.                                                    *)
(*                                                                         *)
(* All objects share one counter of instances (src/objects/container.cpp), *)
(* so that an object is its instance here.  Whether an analog input has    *)
(* something to report is AnalogInputIntrinsic's EventListed.  A request   *)
(* is answered in one step; one that is lost is repeated by the client and *)
(* answered anew, which changes nothing in the device.                     *)
(***************************************************************************)
EXTENDS Integers, Sequences, FiniteSets, FiniteSetsExt

CONSTANTS
  PageSize,         \* entries that fit in an answer
  GapOutcomes,      \* what a callback that falls off its end may return
  Nothing,          \* no last received object identifier
  Garbage,          \* an object identifier that was never written
  MaxObjects        \* bound: objects in the device

ASSUME EventInformationAssumption ==
  /\ PageSize \in Nat \ {0} /\ MaxObjects \in Nat
  /\ GapOutcomes \subseteq {-1, 0, 1} /\ GapOutcomes # {}
  /\ Nothing \notin Nat /\ Garbage \notin Nat /\ Nothing # Garbage

VARIABLES
  objects,          \* the types of the device's objects, by instance
  detecting,        \* the instances with event detection enabled
  reporting,        \* those in an alarm or with transitions to acknowledge
  session,          \* a client that polls: the object it received last, all it
                    \* received, and what was listed ever since it began
  answer            \* the last answer to it: the entries, whether there are
                    \* more, and whether undefined results went into it

vars == <<objects, detecting, reporting, session, answer>>
device == <<objects, detecting, reporting>>

AnalogInputs == {i \in DOMAIN objects : objects[i] = "analog-input"}
Listed == AnalogInputs \cap detecting \cap reporting

Entries == (1 .. MaxObjects) \cup {Garbage}

TypeOK ==
  /\ objects \in Seq({"analog-input", "other"}) /\ Len(objects) <= MaxObjects
  /\ detecting \subseteq AnalogInputs /\ reporting \subseteq AnalogInputs
  /\ session \in [open : BOOLEAN, sound : BOOLEAN, last : Entries \cup {Nothing},
                  known : SUBSET Entries, since : SUBSET (1 .. MaxObjects)]
  /\ answer \in [entries : SUBSET Entries, more : BOOLEAN, sound : BOOLEAN]
  /\ Cardinality(answer.entries) <= PageSize

NoAnswer == [entries |-> {}, more |-> FALSE, sound |-> TRUE]

Begun == [open |-> TRUE, sound |-> TRUE, last |-> Nothing, known |-> {},
          since |-> Listed]

Init ==
  /\ objects = <<>> /\ detecting = {} /\ reporting = {}
  /\ session = [open |-> FALSE, sound |-> TRUE, last |-> Nothing, known |-> {},
                since |-> {}]
  /\ answer = NoAnswer

(***************************************************************************)
(* The device                                                              *)
(***************************************************************************)
\* add...Object(): the next number of the one counter
AddAnalogInput(detection) ==
  /\ Len(objects) < MaxObjects
  /\ objects' = Append(objects, "analog-input")
  /\ detecting' = detecting \cup (IF detection THEN {Len(objects) + 1} ELSE {})
  /\ UNCHANGED <<reporting, session, answer>>

AddOtherObject ==
  /\ Len(objects) < MaxObjects
  /\ objects' = Append(objects, "other")
  /\ UNCHANGED <<detecting, reporting, session, answer>>

StartReporting(i) ==
  /\ reporting' = reporting \cup {i}
  /\ UNCHANGED <<objects, detecting, session, answer>>

StopReporting(i) ==
  /\ reporting' = reporting \ {i}
  /\ session' = [session EXCEPT !.since = @ \ {i}]
  /\ UNCHANGED <<objects, detecting, answer>>

(***************************************************************************)
(* handler_get_event_information()                                         *)
(***************************************************************************)
\* The indexes it asks for: the callback is there with the first analog input,
\* and ends the loop after the last.
Indexes == IF AnalogInputs = {} THEN {} ELSE 0 .. Max(AnalogInputs)

\* Those for which analog_input_event_information() returns no value.
Gaps == Indexes \ (AnalogInputs \cap detecting)

\* A result below 0 leaves the loop, one above 0 is taken for an event: the
\* events are the listed objects and those, up to where the loop is left.
Events(results) ==
  LET gaps == DOMAIN results
      last == {g \in gaps : results[g] < 0}
      events == Listed \cup {g \in gaps : results[g] > 0}
  IN  IF last = {} THEN events ELSE {i \in events : i < Min(last)}

\* What getevent_data says of an event; a gap leaves the event before in it.
Named(i, listed) ==
  LET filled == {j \in listed : j <= i}
  IN  IF filled = {} THEN Garbage ELSE Max(filled)

\* Fault: the last received object is not looked for.
EncodableAll(events, after) == events

\* The first event that is the last received object is left out; the events
\* before it are encoded like those behind it.
Encodable(events, after) ==
  LET listed == Listed
      found == {i \in events : Named(i, listed) = after}
  IN  IF found = {} THEN events ELSE events \ {Min(found)}

\* What fits in the answer.
First(events) ==
  {i \in events : Cardinality({j \in events : j < i}) < PageSize}

\* Fault: the event that did not fit is forgotten when it is the last.
MoreThanOneLeft(events) == Cardinality(events \ First(events)) > 1

MoreEvents(events) == First(events) # events

Answer(after, results) ==
  LET events == Encodable(Events(results), after)
      listed == Listed
  IN  [entries |-> {Named(i, listed) : i \in First(events)},
       more |-> MoreEvents(events),
       sound |-> \A g \in DOMAIN results : results[g] = 0]

\* The entry that stands last: entries are in the order of the indexes, and a
\* stale one repeats the entry before it.
LastEntry(entries) ==
  IF entries = {Garbage} THEN Garbage ELSE Max(entries \ {Garbage})

(***************************************************************************)
(* The client                                                              *)
(***************************************************************************)
Received(s, a) ==
  [s EXCEPT !.open = a.more,
            !.sound = @ /\ a.sound,
            !.last = IF a.entries = {} THEN @ ELSE LastEntry(a.entries),
            !.known = @ \cup a.entries]

PollWith(results) ==
  LET s == IF session.open THEN session ELSE Begun
  IN  /\ answer' = Answer(s.last, results)
      /\ session' = Received(s, answer')
      /\ UNCHANGED device

Poll == \E results \in [Gaps -> GapOutcomes] : PollWith(results)

Next ==
  \/ \E detection \in BOOLEAN : AddAnalogInput(detection)
  \/ AddOtherObject
  \/ \E i \in AnalogInputs : StartReporting(i) \/ StopReporting(i)
  \/ Poll

Spec == Init /\ [][Next]_vars

\* A request for which every undefined result happens to be 0.
SoundPoll == \E results \in [Gaps -> {0}] : PollWith(results)

\* The client goes on polling.  Only sound requests count: the others, which a
\* step could always be, would rule out a client that gets the same for ever.
FairSpec == Spec /\ WF_vars(SoundPoll)

(***************************************************************************)
(* Properties                                                              *)
(***************************************************************************)
\* A client that reads on until there are no more events has received every
\* object that was listed all the time, whatever came and went between its
\* requests (h_getevent.c:110-152), provided that no undefined result of the
\* callback went into an answer.
SessionComplete ==
  ~ session.open /\ session.sound => session.since \subseteq session.known

\* Once the list stays as it is, with at most one event more than fits in an
\* answer, a client comes to its end (h_getevent.c:110-152), again provided that
\* no undefined result goes into an answer.
ShortListsEnd ==
  /\ <>[][Listed' = Listed]_vars
  /\ <>[](Cardinality(Listed) <= PageSize + 1 /\ answer.sound)
  => []<>(~ session.open)

=============================================================================
