------------------------- MODULE PropertyServices -------------------------
(***************************************************************************)
(* The services that read, write and find the objects of the device:       *)
(* ReadProperty (handlers/h_rp.c), WriteProperty (h_wp.c),                 *)
(* ReadPropertyMultiple (h_rpm.c), Who-Is (h_whois.c) and Who-Has          *)
(* (h_whohas.c, s_ihave.c), with the application's changes in between.     *)
(*                                                                         *)
(* A request is handled inside one execute() and nothing else happens      *)
(* meanwhile.  ReadPropertyMultiple builds its answer piece by piece, each *)
(* copied behind the others if it fits: here a step for each piece, and    *)
(* the length of the answer.  The other services are one step.             *)
(***************************************************************************)
EXTENDS DeviceObjects

CONSTANTS
  Requests,         \* the ReadPropertyMultiple requests of the clients
  Accepted,         \* the max_resp of the clients
  Props, Indices,   \* the properties and indices of the single requests
  Header            \* octets of the parts of an answer around the values

ASSUME ServicesAssumption ==
  /\ \A requested \in Requests :
       /\ requested \in Seq(ToSet(requested)) \ {<<>>}
       /\ \A o \in DOMAIN requested :
            requested[o].refs \in Seq(ToSet(requested[o].refs)) \ {<<>>}
  /\ Accepted \subseteq 0 .. MaxApdu
  /\ Header \in [{"init", "object", "property", "index", "error", "end"} -> Nat]
  /\ Header.init =< MaxApdu

VARIABLES
  stage,            \* what comes next of a ReadPropertyMultiple; "idle"
  request,          \* it: a sequence of objects with their property references
  at,               \* the object, the reference and the index in its list
  length,           \* apdu_len
  results,          \* the results encoded so far, of each object begun
  answer            \* what was sent for the last request

rpmVars == <<stage, request, at, length, results>>
vars == <<objectVars, rpmVars, answer>>

Special == {"ALL", "REQUIRED", "OPTIONAL"}

Sent(pdu) == [pdu |-> pdu]
SentError(code) == [pdu |-> "Error", code |-> code]

Init ==
  /\ ObjectsInit
  /\ stage = "idle" /\ request = <<>> /\ at = <<0, 0, 0>>
  /\ length = 0 /\ results = <<>>
  /\ answer = <<>>

-----------------------------------------------------------------------------
(* The application *)

\* No request is being handled, and the answer of the last has been sent.
Idle == stage = "idle" /\ answer = <<>>

\* The application creates the device and its objects, or starts again.
Configure ==
  /\ Idle
  /\ AddDevice \/ (\E type \in AddedTypes : AddObject(type)) \/ Reset
  /\ UNCHANGED <<rpmVars, answer>>

\* It changes a name, a present value or the identifier of the device.
Change ==
  /\ Idle
  /\ \E i \in DOMAIN objects :
       \/ /\ \E text \in Names :
               name' = [name EXCEPT ![objects[i].instance] = text]
          /\ UNCHANGED <<deviceId, value>>
       \/ /\ objects[i].type # "device"
          /\ \E v \in Values :
               value' = [value EXCEPT ![objects[i].instance] = v]
          /\ UNCHANGED <<deviceId, name>>
       \/ /\ objects[i].type = "device"
          /\ deviceId' \in DeviceIds
          /\ UNCHANGED <<name, value>>
  /\ UNCHANGED <<objects, instance, rpmVars, answer>>

-----------------------------------------------------------------------------
(* ReadProperty and WriteProperty *)

Serving == Idle /\ objects # <<>>

\* The answer has been sent.
Delivered ==
  /\ answer # <<>> /\ answer' = <<>>
  /\ UNCHANGED <<objectVars, rpmVars>>

\* The indefinite device identifier stands for this device.
Asked(type, id) ==
  IF type = "device" /\ id = Wildcard THEN deviceId ELSE id

\* The octets a property reference takes in an answer.
Reference(index) ==
  Header.property + (IF index = All THEN 0 ELSE Header.index)

\* handler_read_property(): the answer is an error, or fits the client.
ReadAnswer(type, id, prop, index, maxResp) ==
  LET read == ReadProperty(type, Asked(type, id), prop, index)
      octets == Header.init + Header.object + Reference(index)
                  + read.size + Header.end
  IN IF read.kind = "error" THEN SentError(read.code)
     ELSE IF read.kind = "abort" \/ octets > maxResp THEN Sent("Abort")
     ELSE [pdu |-> "ReadAck", octets |-> octets, maxResp |-> maxResp,
           content |-> read.content]

HandleReadProperty(type, id, prop, index, maxResp) ==
  /\ Serving
  /\ answer' = <<ReadAnswer(type, id, prop, index, maxResp)>>
  /\ UNCHANGED <<objectVars, rpmVars>>

\* What may be written to a property.
NewValues(prop) ==
  CASE prop = "OBJECT_NAME" -> Names
    [] prop = "OBJECT_IDENTIFIER" -> DeviceIds
    [] OTHER -> Values

\* handler_write_property(): an Abort is sent for a segmented request, another
\* for one that cannot be decoded, and then it is executed all the same, with
\* whatever is in wp_data.  What is acknowledged is noted in the answer.
HandleWriteProperty(type, id, prop, index, fate, aborts) ==
  /\ Serving
  /\ \E errors \in {WriteErrors(type, id, prop, index, fate)} :
       \/ \E code \in errors :
            /\ answer' = aborts \o <<SentError(code)>>
            /\ UNCHANGED <<deviceId, name, value>>
       \/ /\ errors = {}
          /\ \E new \in NewValues(prop) :
               /\ answer' = aborts \o <<[pdu |-> "SimpleAck", type |-> type,
                    prop |-> prop, new |-> new,
                    id |-> IF prop = "OBJECT_IDENTIFIER" THEN new ELSE id]>>
               /\ Written(type, id, prop, fate, new)
  /\ UNCHANGED <<objects, instance, rpmVars>>

-----------------------------------------------------------------------------
(* ReadPropertyMultiple *)

\* RPM_Object_Property_Count()
PropertyCount(type, special) ==
  CASE special = "ALL" ->
         Len(Lists(type).required) + Len(Lists(type).optional)
    [] special = "REQUIRED" -> Len(Lists(type).required)
    [] OTHER -> Len(Lists(type).optional)

\* Fault: the first optional property is passed over, the last read twice.
ObjectPropertyOneOff(type, special, k) ==
  LET required == Lists(type).required  optional == Lists(type).optional
  IN IF special = "OPTIONAL" THEN optional[k + 1]
     ELSE IF k < Len(required) THEN required[k + 1]
     ELSE IF k + 1 < PropertyCount(type, special)
     THEN optional[k - Len(required) + 2] ELSE Last(optional)

\* RPM_Object_Property(), where 0 =< k < PropertyCount(type, special).
ObjectProperty(type, special, k) ==
  LET required == Lists(type).required  optional == Lists(type).optional
  IN IF special = "OPTIONAL" THEN optional[k + 1]
     ELSE IF k < Len(required) THEN required[k + 1]
     ELSE optional[k - Len(required) + 1]

Object == request[at[1]]
Property == Object.refs[at[2]]

\* Fault: what is there fits, not what comes.
FitsBefore(octets) == length =< MaxApdu

\* memcopy(): octets more, if they fit.
Fits(octets) == length + octets =< MaxApdu

\* Room for a value with its tags behind its reference.
Room(index, size) == length + Reference(index) + 1 + size + 1 < MaxApdu

\* The request is over, with this answer.
Finish(pdu) ==
  /\ stage' = "idle" /\ request' = <<>> /\ at' = <<0, 0, 0>>
  /\ length' = 0 /\ results' = <<>>
  /\ answer' = <<pdu>>
  /\ UNCHANGED objectVars

\* handler_read_property_multiple() begins; a segmented request is aborted.
RpmBegin(requested) ==
  /\ Serving
  /\ \/ Finish(Sent("Abort"))
     \/ /\ stage' = "object" /\ request' = requested /\ at' = <<1, 0, 0>>
        /\ length' = Header.init /\ results' = <<>> /\ answer' = <<>>
        /\ UNCHANGED objectVars

\* What is left of the request cannot be decoded.
RpmUndecodable ==
  /\ stage \in {"object", "property"} /\ at[3] = 0
  /\ \E pdu \in {"Abort", "Reject"} : Finish(Sent(pdu))

\* rpm_ack_encode_apdu_object_begin()
RpmObject ==
  /\ stage = "object"
  /\ IF Fits(Header.object)
     THEN /\ stage' = "property" /\ at' = <<at[1], 1, 0>>
          /\ length' = length + Header.object
          /\ results' = Append(results,
               [type |-> Object.type, id |-> Asked(Object.type, Object.id),
                list |-> <<>>])
          /\ UNCHANGED <<objectVars, request, answer>>
     ELSE Finish(Sent("Abort"))

\* A result of this many octets joins those of its object.
Encoded(prop, index, result, octets) ==
  /\ length' = length + octets
  /\ results' = [results EXCEPT ![at[1]].list =
       Append(@, [prop |-> prop, index |-> index, result |-> result])]

\* The step after a result: the next of the list, or of the references, or
\* the end of the object.
Onward(count) ==
  IF at[3] + 1 < count THEN at' = [at EXCEPT ![3] = @ + 1] /\ stage' = stage
  ELSE IF at[2] < Len(Object.refs)
  THEN at' = <<at[1], at[2] + 1, 0>> /\ stage' = stage
  ELSE at' = at /\ stage' = "close"

\* RPM_Encode_Property(): aborts are passed along.
EncodeProperty(prop, index, count) ==
  LET asked == results[at[1]]
      read == ReadProperty(asked.type, asked.id, prop, index)
      octets == Reference(index) + (IF read.kind = "error" THEN Header.error
                                    ELSE 1 + read.size + 1)
  IN IF /\ read.kind # "abort" /\ Fits(Reference(index))
        /\ IF read.kind = "error" THEN Fits(octets) ELSE Room(index, read.size)
     THEN /\ Encoded(prop, index, read, octets) /\ Onward(count)
          /\ UNCHANGED <<objectVars, request, answer>>
     ELSE Finish(Sent("Abort"))

\* A reference to one property.
RpmProperty ==
  /\ stage = "property" /\ Property.prop \notin Special
  /\ EncodeProperty(Property.prop, Property.index, 1)

\* One property of the list ALL, REQUIRED or OPTIONAL stands for.
RpmListed ==
  /\ stage = "property" /\ Property.prop \in Special
  /\ Property.index = All
  /\ at[3] < PropertyCount(Object.type, Property.prop)
  /\ EncodeProperty(ObjectProperty(Object.type, Property.prop, at[3]), All,
                    PropertyCount(Object.type, Property.prop))

\* The list is empty: so are its results.
RpmNothing ==
  /\ stage = "property" /\ Property.prop \in Special
  /\ Property.index = All /\ PropertyCount(Object.type, Property.prop) = 0
  /\ Onward(0)
  /\ UNCHANGED <<objectVars, request, length, results, answer>>

\* A list has no elements.
RpmIndexed ==
  /\ stage = "property" /\ Property.prop \in Special /\ Property.index # All
  /\ LET octets == Reference(Property.index) + Header.error
     IN IF Fits(octets)
        THEN /\ Encoded(Property.prop, Property.index,
                        Error("PROPERTY_IS_NOT_AN_ARRAY"), octets)
             /\ Onward(1)
             /\ UNCHANGED <<objectVars, request, answer>>
        ELSE Finish(Sent("Abort"))

\* rpm_ack_encode_apdu_object_end(), then the next object, if there is one.
RpmClose ==
  /\ stage = "close"
  /\ IF Fits(Header.end)
     THEN /\ length' = length + Header.end
          /\ IF at[1] < Len(request)
             THEN stage' = "object" /\ at' = <<at[1] + 1, 0, 0>>
             ELSE stage' = "end" /\ at' = at
          /\ UNCHANGED <<objectVars, request, results, answer>>
     ELSE Finish(Sent("Abort"))

\* The answer is sent to a client that takes as much.
RpmAnswer(maxResp) ==
  /\ stage = "end"
  /\ Finish(IF length > maxResp THEN Sent("Abort")
            ELSE [pdu |-> "RpmAck", octets |-> length, maxResp |-> maxResp])

-----------------------------------------------------------------------------
(* Who-Is and Who-Has *)

\* No limits, or those the device identifier is within.
Directed(limits) ==
  limits = <<>> \/ (limits[1] =< deviceId /\ deviceId =< limits[2])

\* handler_who_is(), handler_who_is_unicast()
HandleWhoIs(limits) ==
  /\ Serving
  /\ answer' = IF Directed(limits)
               THEN <<[pdu |-> "I-Am", device |-> deviceId]>> ELSE <<>>
  /\ UNCHANGED <<objectVars, rpmVars>>

IHave(type, id, text) ==
  [pdu |-> "I-Have", device |-> deviceId, type |-> type, id |-> id,
   name |-> text]

\* match_name_or_object(), by name and by identifier.
ByName(text) == {IHave(f.type, f.id, text) : f \in ObjectNamed(text)}
ByIdentifier(type, id) == {IHave(type, id, text) : text \in NameOf(type, id)}

\* handler_who_has(): Send_I_Have() is silent while the communication is
\* disabled, which the library keeps.
HandleWhoHas(limits, matches) ==
  /\ Serving
  /\ answer' \in {<<>>} \cup (IF Directed(limits) THEN {<<m>> : m \in matches}
                              ELSE {})
  /\ UNCHANGED <<objectVars, rpmVars>>

-----------------------------------------------------------------------------
(* The specification *)

Types == AddedTypes \cup {"device"}
Identifiers == Instances \cup DeviceIds \cup {Wildcard}
Limits == {<<>>} \cup (DeviceIds \X DeviceIds)

ReadOne ==
  \E type \in Types, id \in Identifiers, prop \in Props, index \in Indices,
     maxResp \in Accepted : HandleReadProperty(type, id, prop, index, maxResp)

\* Recipient lists and the properties of alarms are written elsewhere.
WriteOne ==
  \E type \in Types \ {"notification-class"}, id \in Identifiers,
     prop \in Props \ ToSet(AlarmProperties), index \in Indices,
     fate \in Fates, aborts \in {<<>>, <<Sent("Abort")>>,
                                <<Sent("Abort"), Sent("Abort")>>} :
    HandleWriteProperty(type, id, prop, index, fate, aborts)

RpmStep ==
  \/ RpmUndecodable \/ RpmObject \/ RpmProperty \/ RpmListed
  \/ RpmNothing \/ RpmIndexed \/ RpmClose
  \/ \E maxResp \in Accepted : RpmAnswer(maxResp)

Find ==
  \/ \E limits \in Limits : HandleWhoIs(limits)
  \/ \E limits \in Limits, text \in Names : HandleWhoHas(limits, ByName(text))
  \/ \E limits \in Limits, type \in Types, id \in Identifiers :
       HandleWhoHas(limits, ByIdentifier(type, id))

Begin == \E requested \in Requests : RpmBegin(requested)

Next ==
  \/ Configure \/ Change
  \/ ReadOne \/ WriteOne \/ Find \/ Delivered
  \/ Begin \/ RpmStep

Spec == Init /\ [][Next]_vars

-----------------------------------------------------------------------------
(* Properties *)

\* The variables have their types, and a request is worked on from its first
\* object to its last.
TypeOK ==
  /\ ObjectsTypeOK
  /\ stage \in {"idle", "object", "property", "close", "end"}
  /\ request \in Requests \cup {<<>>} /\ at \in Nat \X Nat \X Nat
  /\ stage # "idle" => /\ objects # <<>> /\ at[1] \in DOMAIN request
                       /\ Len(results) = IF stage = "object" THEN at[1] - 1
                                         ELSE at[1]
  /\ length \in Nat /\ Len(answer) =< 3

\* No two objects of a type answer to one identifier, whatever the
\* application makes of the device identifier and however often it starts
\* again: each lookup by type and identifier (container.cpp:143, 298, 331)
\* has at most one match.
IdentifiersUnique ==
  \A type \in Types, id \in Identifiers : Cardinality(Having(type, id)) =< 1

\* An object found by its name (Who-Has, container.cpp:106) is the one that
\* ReadProperty and Who-Has by identifier know under what was found, and they
\* give it that name.
LookupsAgree ==
  \A text \in Names : \A found \in ObjectNamed(text) :
    /\ NameOf(found.type, found.id) = {text}
    /\ LET read == ReadProperty(found.type, found.id, "OBJECT_NAME", All)
       IN read.kind = "value" /\ read.content = <<text>>

\* What is being built never exceeds MAX_APDU, over the tags, headers, errors
\* and values that are copied into it one behind the other (h_rpm.c:107, 241),
\* and what is sent is no longer than the client takes.
AnswersFit ==
  /\ length =< MaxApdu
  /\ \A i \in DOMAIN answer :
       answer[i].pdu \in {"ReadAck", "RpmAck"} => answer[i].octets =< answer[i].maxResp

\* What a reference asks for: the properties it stands for, with their index.
Meant(type, ref) ==
  IF ref.prop \notin Special \/ ref.index # All THEN {<<ref.prop, ref.index>>}
  ELSE IF Lists(type).required = <<>> THEN {}
  ELSE CASE ref.prop = "ALL" -> Handled(type) \X {All}
         [] ref.prop = "REQUIRED" -> ToSet(Required(type)) \X {All}
         [] OTHER -> (Handled(type) \ ToSet(Required(type))) \X {All}

\* What ReadProperty says of one of them.
SingleRead(object, prop, index) ==
  IF prop \in Special THEN Error("PROPERTY_IS_NOT_AN_ARRAY")
  ELSE ReadProperty(object.type, Asked(object.type, object.id), prop, index)

\* The results of an object are complete: each property its references stand
\* for is there as many times as there are such references, and no other.
Pair(entry) == <<entry.prop, entry.index>>
Times(list, p) == Cardinality({i \in DOMAIN list : Pair(list[i]) = p})
Wanted(asked, p) ==
  Cardinality({r \in DOMAIN asked.refs : p \in Meant(asked.type, asked.refs[r])})

Complete(asked, list) ==
  \A p \in {Pair(list[i]) : i \in DOMAIN list}
             \cup UNION {Meant(asked.type, asked.refs[r]) : r \in DOMAIN asked.refs} :
    Times(list, p) = Wanted(asked, p)

\* They say what ReadProperty says.
Agrees(asked, list) ==
  \A i \in DOMAIN list :
    list[i].result = SingleRead(asked, list[i].prop, list[i].index)

\* A ReadPropertyMultiple answer holds, for each object asked for, exactly the
\* properties its references stand for, once for each reference, and says of
\* each what ReadProperty says; what the lists of properties name is what the
\* switches read (h_rpm.c:51-104, 296-345).
AnswersComplete ==
  stage = "end" =>
    /\ Len(results) = Len(request)
    /\ \A o \in DOMAIN request :
         LET asked == request[o]
             got == results[o]
         IN /\ got.type = asked.type /\ got.id = Asked(asked.type, asked.id)
            /\ Complete(asked, got.list) /\ Agrees(asked, got.list)

\* What a write acknowledged is what is read: under the new identifier if that
\* was written.  Only a name the application refuses is acknowledged and not
\* kept (device.cpp:338).
AcknowledgedIsRead ==
  \A i \in DOMAIN answer :
    LET ack == answer[i]
    IN ack.pdu = "SimpleAck" /\ ack.prop # "OBJECT_NAME" =>
         LET read == ReadProperty(ack.type, ack.id, ack.prop, All)
         IN read.kind = "value" /\ read.content = <<ack.new>>

=============================================================================
