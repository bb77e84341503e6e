--------------------------- MODULE DeviceObjects ---------------------------
(***************************************************************************)
(* The objects of the device and their properties: the container           *)
(* (objects/container.cpp) with its lookups by identifier and by name, the *)
(* lists of properties used by ReadPropertyMultiple and the switches that  *)
(* read and write them (objects/device.cpp, analog_input.cpp,              *)
(* analog_input_intrinsic.cpp, analog_value.cpp, multi_state_input.cpp,    *)
(* multi_state_value.cpp, bitstring_value.cpp, characterstring_value.cpp,  *)
(* date_value.cpp, time_value.cpp, notification_class.cpp).                *)
(*                                                                         *)
(* A property is its name, without PROP_.  Names and present values belong *)
(* to the application, whose callbacks the objects are added with: it may  *)
(* change them at any time, and it may refuse a value.  What is written to *)
(* notification classes and to the algorithm of analog inputs is in        *)
(* RecipientStore and AnalogInputIntrinsic.                                *)
(***************************************************************************)
EXTENDS Integers, Sequences, FiniteSets, SequencesExt

CONSTANTS
  AddedTypes,       \* the types of the objects that are added
  MaxObjects,       \* most objects beside the device (a bound of the model)
  Names, DeviceIds, \* the names and device identifiers in use
  Values,           \* present values
  Wildcard,         \* BACNET_MAX_INSTANCE
  ArraySize,        \* elements of State_Text and Bit_Text
  MaxApdu,          \* MAX_APDU
  TextSize, ValueSize, \* octets of an encoded text and of any other value
  Intrinsic         \* the build has INTRINSIC_REPORTING

ASSUME ObjectsAssumption ==
  /\ "device" \notin AddedTypes /\ MaxObjects \in Nat
  /\ DeviceIds \subseteq Nat /\ DeviceIds # {} /\ Wildcard \notin DeviceIds
  /\ Names # {} /\ Values # {} /\ ArraySize \in Nat /\ Intrinsic \in BOOLEAN
  /\ MaxApdu \in Nat /\ TextSize \in Nat /\ ValueSize \in Nat

VARIABLES
  objects,          \* device->objects, the device itself first; <<>> without one
  instance,         \* the counter of instances
  deviceId,         \* the device identifier the application keeps
  name,             \* the name of each instance; the device has instance 0
  value             \* its present value

objectVars == <<objects, instance, deviceId, name, value>>

Instances == 0 .. MaxObjects
Objects == [type : AddedTypes \cup {"device"}, instance : Instances]
Device == [type |-> "device", instance |-> 0]

ObjectsTypeOK ==
  /\ objects \in Seq(Objects) /\ Len(objects) =< MaxObjects + 1
  /\ instance \in Instances
  /\ deviceId \in DeviceIds
  /\ name \in [Instances -> Names]
  /\ value \in [Instances -> Values]

ObjectsInit ==
  /\ objects = <<>> /\ instance = 0
  /\ deviceId \in DeviceIds
  /\ name \in [Instances -> Names]
  /\ value \in [Instances -> Values]

-----------------------------------------------------------------------------
(* The container *)

\* addDeviceObject(): a second device is refused.
AddDevice ==
  /\ objects = <<>>
  /\ objects' = <<Device>>
  /\ UNCHANGED <<instance, deviceId, name, value>>

\* One of the add...Object(): nothing is added without a device.
AddObject(type) ==
  /\ objects # <<>> /\ instance < MaxObjects
  /\ instance' = instance + 1
  /\ objects' = Append(objects, [type |-> type, instance |-> instance + 1])
  /\ UNCHANGED <<deviceId, name, value>>

\* Fault: only the counter is reset.
ResetCounter == objects

\* The objects left by reset(): it drops the device, and they with it.
ObjectsAfterReset == <<>>

\* reset()
Reset ==
  /\ instance' = 0
  /\ objects' = ObjectsAfterReset
  /\ UNCHANGED <<deviceId, name, value>>

\* read.object_identifier() of an object.
Identifier(object) ==
  IF object.type = "device" THEN deviceId ELSE object.instance

Having(type, id) == {i \in DOMAIN objects : objects[i].type = type
                                              /\ Identifier(objects[i]) = id}

First(S) == CHOOSE i \in S : \A j \in S : i =< j
Latest(S) == CHOOSE i \in S : \A j \in S : i >= j

\* Fault: the instance in the container is taken for the identifier.
FoundInstance(i) ==
  [type |-> objects[i].type, id |-> objects[i].instance]

\* What getValidObjectName() says of the object it has found.
Found(i) == [type |-> objects[i].type, id |-> Identifier(objects[i])]

Named(text) == {i \in DOMAIN objects : name[objects[i].instance] = text}

\* getValidObjectName(): the last object of that name, or none.
ObjectNamed(text) ==
  IF Named(text) = {} THEN {} ELSE {Found(Latest(Named(text)))}

\* copyObjectName()
NameOf(type, id) ==
  {name[objects[i].instance] : i \in Having(type, id)}

-----------------------------------------------------------------------------
(* The lists of properties *)

ThreeRequired == <<"OBJECT_IDENTIFIER", "OBJECT_NAME", "OBJECT_TYPE">>
ValueRequired == ThreeRequired \o <<"PRESENT_VALUE", "STATUS_FLAGS">>
PointRequired == ValueRequired \o <<"EVENT_STATE", "OUT_OF_SERVICE">>

AlarmProperties ==
  <<"EVENT_DETECTION_ENABLE", "TIME_DELAY", "NOTIFICATION_CLASS", "HIGH_LIMIT",
    "LOW_LIMIT", "DEADBAND", "LIMIT_ENABLE", "EVENT_ENABLE",
    "ACKED_TRANSITIONS", "NOTIFY_TYPE", "EVENT_TIME_STAMPS">>

DeviceRequired == ThreeRequired \o
  <<"SYSTEM_STATUS", "VENDOR_NAME", "VENDOR_IDENTIFIER", "MODEL_NAME",
    "FIRMWARE_REVISION", "APPLICATION_SOFTWARE_VERSION", "PROTOCOL_VERSION",
    "PROTOCOL_REVISION", "PROTOCOL_SERVICES_SUPPORTED",
    "PROTOCOL_OBJECT_TYPES_SUPPORTED", "OBJECT_LIST",
    "MAX_APDU_LENGTH_ACCEPTED", "SEGMENTATION_SUPPORTED", "APDU_TIMEOUT",
    "NUMBER_OF_APDU_RETRIES", "DEVICE_ADDRESS_BINDING", "DATABASE_REVISION">>
DeviceOptional == <<"DESCRIPTION", "LOCAL_TIME", "LOCAL_DATE", "LOCATION">>

AnalogValueOptional ==
  <<"DESCRIPTION", "MIN_PRES_VALUE", "MAX_PRES_VALUE", "RESOLUTION">>
AnalogInputOptional ==
  <<"DESCRIPTION", "DEVICE_TYPE", "MIN_PRES_VALUE", "MAX_PRES_VALUE",
    "RESOLUTION">> \o (IF Intrinsic THEN AlarmProperties ELSE <<>>)
MultiStateOptional == <<"DESCRIPTION", "STATE_TEXT">>
BitStringOptional == <<"DESCRIPTION", "BIT_TEXT", "EVENT_STATE", "OUT_OF_SERVICE">>
ValueOptional == <<"DESCRIPTION", "EVENT_STATE", "OUT_OF_SERVICE">>

\* The ..._Properties_Required of each type.
Required(type) ==
  CASE type = "device" -> DeviceRequired
    [] type \in {"analog-input", "analog-value"} -> PointRequired \o <<"UNITS">>
    [] type \in {"multi-state-input", "multi-state-value"} ->
         PointRequired \o <<"NUMBER_OF_STATES">>
    [] type = "notification-class" -> ThreeRequired \o
         <<"NOTIFICATION_CLASS", "PRIORITY", "ACK_REQUIRED", "RECIPIENT_LIST">>
    [] OTHER -> ValueRequired

\* The ..._Properties_Optional of each type; no type has proprietary ones.
Optional(type) ==
  CASE type = "device" -> DeviceOptional
    [] type = "analog-input" -> AnalogInputOptional
    [] type = "analog-value" -> AnalogValueOptional
    [] type \in {"multi-state-input", "multi-state-value"} -> MultiStateOptional
    [] type = "bitstring-value" -> BitStringOptional
    [] type = "notification-class" -> <<"DESCRIPTION">>
    [] OTHER -> ValueOptional

\* getObjectsPropertyList(): empty lists for a type that no object has.
Lists(type) ==
  IF \E i \in DOMAIN objects : objects[i].type = type
  THEN [required |-> Required(type), optional |-> Optional(type)]
  ELSE [required |-> <<>>, optional |-> <<>>]

-----------------------------------------------------------------------------
(* Reading and writing a property *)

All == -1           \* BACNET_ARRAY_ALL, no array index
IdentifierSize == 5 \* octets of an encoded object identifier

Value(content, size) == [kind |-> "value", content |-> content, size |-> size]
Error(code) == [kind |-> "error", code |-> code]
Abort == [kind |-> "abort"]

\* The cases of the read_property switches; the write_property switches know
\* the same properties.
ObjectHandled == {"OBJECT_IDENTIFIER", "OBJECT_NAME", "OBJECT_TYPE", "DESCRIPTION"}
ValueHandled == ObjectHandled \cup
  {"PRESENT_VALUE", "STATUS_FLAGS", "EVENT_STATE", "OUT_OF_SERVICE"}
MultiStateHandled == ValueHandled \cup {"NUMBER_OF_STATES", "STATE_TEXT"}
BitStringHandled == ValueHandled \cup {"BIT_TEXT"}
AnalogValueHandled == ValueHandled \cup
  {"UNITS", "MIN_PRES_VALUE", "MAX_PRES_VALUE", "RESOLUTION"}
AnalogInputHandled == AnalogValueHandled \cup {"DEVICE_TYPE"}
DeviceHandled == ObjectHandled \cup
  {"SYSTEM_STATUS", "VENDOR_NAME", "VENDOR_IDENTIFIER", "MODEL_NAME",
   "FIRMWARE_REVISION", "APPLICATION_SOFTWARE_VERSION", "LOCATION",
   "LOCAL_TIME", "LOCAL_DATE", "PROTOCOL_VERSION", "PROTOCOL_REVISION",
   "PROTOCOL_SERVICES_SUPPORTED", "PROTOCOL_OBJECT_TYPES_SUPPORTED",
   "OBJECT_LIST", "MAX_APDU_LENGTH_ACCEPTED", "SEGMENTATION_SUPPORTED",
   "APDU_TIMEOUT", "NUMBER_OF_APDU_RETRIES", "DEVICE_ADDRESS_BINDING",
   "DATABASE_REVISION"}

Handled(type) ==
  CASE type = "device" -> DeviceHandled
    [] type = "analog-input" ->
         AnalogInputHandled \cup (IF Intrinsic THEN ToSet(AlarmProperties) ELSE {})
    [] type = "analog-value" -> AnalogValueHandled
    [] type \in {"multi-state-input", "multi-state-value"} -> MultiStateHandled
    [] type = "bitstring-value" -> BitStringHandled
    [] type = "notification-class" -> ObjectHandled \cup
         {"NOTIFICATION_CLASS", "PRIORITY", "ACK_REQUIRED", "RECIPIENT_LIST"}
    [] OTHER -> ValueHandled

Texts == {"DESCRIPTION", "VENDOR_NAME", "MODEL_NAME",
          "FIRMWARE_REVISION", "APPLICATION_SOFTWARE_VERSION", "LOCATION",
          "DEVICE_TYPE"}

ObjectList == [i \in DOMAIN objects |-> Found(i)]

\* The number of elements of an array property of a type, none if it is not
\* an array.
ArrayLength(type, prop) ==
  CASE type = "device" /\ prop = "OBJECT_LIST" -> {Len(objects)}
    [] prop \in {"STATE_TEXT", "BIT_TEXT"} -> {ArraySize}
    [] prop \in {"PRIORITY", "EVENT_TIME_STAMPS"} -> {3}
    [] OTHER -> {}

ElementSize(prop) ==
  CASE prop = "OBJECT_LIST" -> IdentifierSize
    [] prop \in {"STATE_TEXT", "BIT_TEXT"} -> TextSize
    [] OTHER -> ValueSize

\* All the elements in one answer: OBJECT_LIST gives up when another element
\* might not fit, the texts when one does not.
TooLong(prop, count) ==
  CASE prop = "OBJECT_LIST" -> (count + 1) * IdentifierSize >= MaxApdu
    [] prop \in {"STATE_TEXT", "BIT_TEXT"} -> count * TextSize >= MaxApdu
    [] OTHER -> FALSE

\* An element, or the number of elements; what a text or a stamp holds is its
\* index.  The stamps are taken from the array at index, which is one too far.
ReadArray(prop, index, count) ==
  LET elements == CASE prop = "OBJECT_LIST" -> ObjectList
                    [] prop = "EVENT_TIME_STAMPS" /\ index # All ->
                         [i \in 1 .. count |-> i + 1]
                    [] OTHER -> [i \in 1 .. count |-> i]
  IN CASE index = 0 -> Value(<<count>>, ValueSize)
       [] index = All ->
            IF TooLong(prop, count) THEN Abort
            ELSE Value(elements, count * ElementSize(prop))
       [] index \in 1 .. count -> Value(<<elements[index]>>, ElementSize(prop))
       [] OTHER -> Error("INVALID_ARRAY_INDEX")

\* What is not an array.
ReadScalar(object, prop) ==
  CASE prop = "OBJECT_IDENTIFIER" ->
         Value(<<Identifier(object)>>, IdentifierSize)
    [] prop = "OBJECT_NAME" -> Value(<<name[object.instance]>>, TextSize)
    [] prop = "PRESENT_VALUE" -> Value(<<value[object.instance]>>, ValueSize)
    [] prop \in Texts -> Value(<<>>, TextSize)
    [] OTHER -> Value(<<>>, ValueSize)

\* readProperty(): by the first object of that type and identifier.
ReadProperty(type, id, prop, index) ==
  IF Having(type, id) = {} THEN Error("UNKNOWN_OBJECT")
  ELSE IF prop \notin Handled(type) THEN Error("UNKNOWN_PROPERTY")
  ELSE IF ArrayLength(type, prop) # {}
  THEN ReadArray(prop, index, CHOOSE n \in ArrayLength(type, prop) : TRUE)
  ELSE IF index # All THEN Error("PROPERTY_IS_NOT_AN_ARRAY")
  ELSE ReadScalar(objects[First(Having(type, id))], prop)

\* The types whose present value may be written.
Writable == {"analog-value", "multi-state-value", "bitstring-value",
             "characterstring-value", "date-value", "time-value"}

\* The properties of a type that are written with an array index.
Indexed(type) ==
  CASE type \in {"multi-state-input", "multi-state-value"} -> {"STATE_TEXT"}
    [] type = "bitstring-value" -> {"BIT_TEXT"}
    [] type = "device" -> {"OBJECT_LIST"}
    [] type = "notification-class" -> {"PRIORITY"}
    [] OTHER -> {"EVENT_TIME_STAMPS"}

\* How a written value fares: "undecodable", of another data type
\* ("mistyped"), refused by the handler of the object ("outside": the range,
\* the number of bits, a wildcard; another type of object for an identifier)
\* or by the application ("refused"), or "good".
Fates == {"undecodable", "mistyped", "outside", "refused", "good"}

MayBeWritten(type, prop) ==
  \/ type \in Writable /\ prop = "PRESENT_VALUE"
  \/ type = "device" /\ prop \in {"OBJECT_NAME", "OBJECT_IDENTIFIER"}

\* WPValidateString() of a text the object cannot take.
TextErrors(prop) ==
  {"NO_SPACE_TO_WRITE_PROPERTY", "CHARACTER_SET_NOT_SUPPORTED"}
    \cup (IF prop = "OBJECT_NAME" THEN {"VALUE_OUT_OF_RANGE"} ELSE {})

\* The errors of the handler of the object.  A name the application refuses is
\* a success.
FateErrors(type, prop, fate) ==
  CASE fate = "mistyped" -> {"INVALID_DATA_TYPE"}
    [] fate = "outside" ->
         IF prop = "OBJECT_NAME" \/ type = "characterstring-value"
         THEN TextErrors(prop) ELSE {"VALUE_OUT_OF_RANGE"}
    [] fate = "refused" ->
         (CASE prop = "OBJECT_NAME" -> {}
            [] prop = "OBJECT_IDENTIFIER" -> {"VALUE_OUT_OF_RANGE"}
            [] OTHER -> {"WRITE_ACCESS_DENIED", "VALUE_OUT_OF_RANGE"})
    [] OTHER -> {}

\* The errors writeProperty() may fail with: none if it succeeds.
WriteErrors(type, id, prop, index, fate) ==
  IF Having(type, id) = {} THEN {"UNKNOWN_OBJECT"}
  ELSE IF fate = "undecodable" THEN {"VALUE_OUT_OF_RANGE"}
  ELSE IF index # All /\ prop \notin Indexed(type)
  THEN {"PROPERTY_IS_NOT_AN_ARRAY"}
  ELSE IF prop \notin Handled(type)
  THEN IF type \in {"multi-state-input", "multi-state-value"}
       THEN {"REJECT_UNRECOGNIZED_SERVICE"} ELSE {"UNKNOWN_PROPERTY"}
  ELSE IF ~ MayBeWritten(type, prop) THEN {"WRITE_ACCESS_DENIED"}
  ELSE FateErrors(type, prop, fate)

\* Fault: the first object of the type is written.
TargetOfType(type, id) ==
  objects[First({i \in DOMAIN objects : objects[i].type = type})].instance

\* The instance the write callback is called with.
Target(type, id) == objects[First(Having(type, id))].instance

\* What a success leaves: the write callbacks have taken the new value, unless
\* it is the name they refused.
Written(type, id, prop, fate, new) ==
  LET i == Target(type, id)
  IN IF fate = "refused"
     THEN UNCHANGED <<deviceId, name, value>>
     ELSE /\ prop = "OBJECT_IDENTIFIER" =>
               deviceId' = new /\ UNCHANGED <<name, value>>
          /\ prop = "OBJECT_NAME" =>
               name' = [name EXCEPT ![i] = new] /\ UNCHANGED <<deviceId, value>>
          /\ prop = "PRESENT_VALUE" =>
               value' = [value EXCEPT ![i] = new] /\ UNCHANGED <<deviceId, name>>

=============================================================================
