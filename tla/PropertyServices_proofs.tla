------------------------ MODULE PropertyServices_proofs ------------------------
(***************************************************************************)
(* Identifiers, names and values of the objects of the device, and the     *)
(* lengths of the answers, for any numbers of objects, names and values,   *)
(* any sizes and any requests.                                             *)
(*                                                                         *)
(* What keeps the identifiers apart is the counter that all types of       *)
(* objects share: an object's instance is its place behind the device      *)
(* (ObjectsInv).  What makes an answer of ReadPropertyMultiple complete is *)
(* that no list names a property twice or one that its switch lacks        *)
(* (TablesSpell): then each result counts for one reference (Counted).     *)
(***************************************************************************)
EXTENDS PropertyServices, TLAPS, FiniteSetTheorems, SequenceTheorems,
        WellFoundedInduction

USE ObjectsAssumption, ServicesAssumption

-----------------------------------------------------------------------------
(* The first and the last of some places *)

LEMMA LeastNumber ==
  ASSUME NEW T, T \subseteq Nat, T # {}
  PROVE  \E x \in T : \A y \in T : x =< y
<1> DEFINE Less == {pair \in Nat \X Nat : pair[1] < pair[2]}
<1>1. IsWellFoundedOn(Less, Nat)
  BY NatLessThanWellFounded, Zenon DEF OpToRel
<1> HIDE DEF Less
<1>2. PICK x \in T : \A y \in T : ~ (<<y, x>> \in Less)
  BY <1>1, WFMin, Zenon
<1>3. ASSUME NEW y \in T PROVE x =< y
  <2>1. <<y, x>> \notin Less /\ x \in Nat /\ y \in Nat BY <1>2
  <2> QED BY <2>1 DEF Less
<1> QED BY <1>3

LEMMA LatestIsOne ==
  ASSUME NEW n \in Nat, NEW S, S \subseteq 1 .. n, S # {}
  PROVE  Latest(S) \in S
<1> DEFINE T == {n - i : i \in S}
<1>1. T \subseteq Nat /\ T # {}
  <2>1. PICK i : i \in S OBVIOUS
  <2>2. n - i \in T BY <2>1
  <2>3. \A j \in S : n - j \in Nat OBVIOUS
  <2> QED BY <2>2, <2>3
<1>2. PICK x \in T : \A y \in T : x =< y BY <1>1, LeastNumber
<1>3. PICK i \in S : x = n - i OBVIOUS
<1>4. \A j \in S : i >= j
  <2> SUFFICES ASSUME NEW j \in S PROVE i >= j OBVIOUS
  <2>1. x =< n - j BY <1>2
  <2> QED BY <1>3, <2>1
<1> QED BY <1>4, Zenon DEF Latest

-----------------------------------------------------------------------------
(* The objects *)

\* The device comes first, and the others carry the numbers of the counter.
ObjectsInv ==
  /\ ObjectsTypeOK
  /\ objects = <<>> => instance = 0
  /\ objects # <<>> => objects[1] = Device /\ instance = Len(objects) - 1
  /\ \A i \in DOMAIN objects :
       i # 1 => objects[i].type \in AddedTypes /\ objects[i].instance = i - 1

LEMMA ObjectFacts ==
  ASSUME ObjectsInv, NEW i \in DOMAIN objects
  PROVE  /\ i \in 1 .. Len(objects) /\ objects[i] \in Objects
         /\ objects[i].instance = i - 1 /\ i - 1 \in Instances
         /\ objects[i].type = "device" <=> i = 1
         /\ objects[1] = Device
<1>1. i \in 1 .. Len(objects) /\ objects[i] \in Objects /\ objects # <<>>
      /\ Len(objects) =< MaxObjects + 1 /\ Len(objects) \in Nat
  BY DEF ObjectsInv, ObjectsTypeOK
<1>2. objects[1] = Device BY <1>1 DEF ObjectsInv
<1>3. CASE i = 1 BY <1>1, <1>2, <1>3 DEF Device, Instances
<1>4. CASE i # 1
  <2>1. objects[i].type \in AddedTypes /\ objects[i].instance = i - 1
    BY <1>4 DEF ObjectsInv
  <2>2. i - 1 \in Instances
    <3>1. MaxObjects \in Nat BY ObjectsAssumption DEF ObjectsAssumption
    <3> QED BY <1>1, <1>4, <3>1 DEF Instances
  <2>3. objects[i].type # "device"
    BY <2>1, ObjectsAssumption, Zenon DEF ObjectsAssumption
  <2> QED BY <1>1, <1>2, <1>4, <2>1, <2>2, <2>3, Zenon
<1> QED BY <1>1, <1>2, <1>3, <1>4

\* A type and an identifier lead to one object at most.
LEMMA OneHaving ==
  ASSUME ObjectsInv, NEW type, NEW id, NEW i \in Having(type, id)
  PROVE  /\ i \in DOMAIN objects /\ objects[i].type = type
         /\ Identifier(objects[i]) = id
         /\ Having(type, id) = {i} /\ First(Having(type, id)) = i
<1>1. /\ i \in DOMAIN objects /\ objects[i].type = type
      /\ Identifier(objects[i]) = id
  BY DEF Having
<1>2. \A j \in Having(type, id) : j = i
  <2> SUFFICES ASSUME NEW j \in Having(type, id) PROVE j = i OBVIOUS
  <2>1. /\ j \in DOMAIN objects /\ objects[j].type = type
        /\ Identifier(objects[j]) = id
    BY DEF Having
  <2>2. /\ objects[i].type = "device" <=> i = 1
        /\ objects[i].instance = i - 1 /\ i \in 1 .. Len(objects)
    BY <1>1, ObjectFacts
  <2>3. /\ objects[j].type = "device" <=> j = 1
        /\ objects[j].instance = j - 1 /\ j \in 1 .. Len(objects)
    BY <2>1, ObjectFacts
  <2>4. CASE type = "device" BY <1>1, <2>1, <2>2, <2>3, <2>4, Zenon
  <2>5. CASE type # "device"
    <3>1. objects[i].instance = id /\ objects[j].instance = id
      BY <1>1, <2>1, <2>5, Zenon DEF Identifier
    <3> QED BY <2>2, <2>3, <3>1
  <2> QED BY <2>4, <2>5
<1>3. Having(type, id) = {i} BY <1>2
<1>4. i =< i BY <1>1, ObjectFacts
<1>5. First({i}) = i BY <1>4, Zenon DEF First
<1> QED BY <1>1, <1>3, <1>5

\* The switches of all types know the name; those of the writable ones their
\* present value.
LEMMA HandledFacts ==
  ASSUME NEW type
  PROVE  /\ "OBJECT_NAME" \in Handled(type)
         /\ "OBJECT_IDENTIFIER" \in Handled(type)
         /\ type \in Writable => "PRESENT_VALUE" \in Handled(type)
<1>1. /\ "OBJECT_NAME" \in ObjectHandled
      /\ "OBJECT_IDENTIFIER" \in ObjectHandled
      /\ "PRESENT_VALUE" \in ValueHandled
      /\ ObjectHandled \subseteq ValueHandled
  BY DEF ObjectHandled, ValueHandled
<1>2. /\ ObjectHandled \subseteq DeviceHandled
      /\ ValueHandled \subseteq MultiStateHandled
      /\ ValueHandled \subseteq BitStringHandled
      /\ ValueHandled \subseteq AnalogValueHandled
      /\ ValueHandled \subseteq AnalogInputHandled
  BY DEF DeviceHandled, MultiStateHandled, BitStringHandled,
         AnalogValueHandled, AnalogInputHandled
<1> HIDE DEF ObjectHandled
<1>3. CASE type = "device" BY <1>1, <1>2, <1>3 DEF Handled, Writable
<1>4. CASE type = "analog-input" BY <1>1, <1>2, <1>4 DEF Handled, Writable
<1>5. CASE type = "analog-value" BY <1>1, <1>2, <1>5 DEF Handled, Writable
<1>6. CASE type \in {"multi-state-input", "multi-state-value"}
  BY <1>1, <1>2, <1>6 DEF Handled, Writable
<1>7. CASE type = "bitstring-value" BY <1>1, <1>2, <1>7 DEF Handled, Writable
<1>8. CASE type = "notification-class" BY <1>1, <1>2, <1>8 DEF Handled, Writable
<1>9. CASE type \notin {"device", "analog-input", "analog-value",
                        "multi-state-input", "multi-state-value",
                        "bitstring-value", "notification-class"}
  BY <1>1, <1>2, <1>9 DEF Handled
<1> QED BY <1>3, <1>4, <1>5, <1>6, <1>7, <1>8, <1>9

LEMMA ValueParts ==
  ASSUME NEW content, NEW size
  PROVE  /\ Value(content, size).kind = "value"
         /\ Value(content, size).content = content
         /\ Value(content, size).size = size
BY DEF Value

LEMMA ScalarCases ==
  ASSUME NEW object, NEW prop
  PROVE  /\ prop = "OBJECT_NAME" =>
              ReadScalar(object, prop)
                = Value(<<name[object.instance]>>, TextSize)
         /\ prop = "OBJECT_IDENTIFIER" =>
              ReadScalar(object, prop)
                = Value(<<Identifier(object)>>, IdentifierSize)
         /\ prop = "PRESENT_VALUE" =>
              ReadScalar(object, prop)
                = Value(<<value[object.instance]>>, ValueSize)
<1> DEFINE identifier == Value(<<Identifier(object)>>, IdentifierSize)
           named == Value(<<name[object.instance]>>, TextSize)
           present == Value(<<value[object.instance]>>, ValueSize)
           text == Value(<<>>, TextSize)
           other == Value(<<>>, ValueSize)
<1>1. ReadScalar(object, prop)
        = CASE prop = "OBJECT_IDENTIFIER" -> identifier
            [] prop = "OBJECT_NAME" -> named
            [] prop = "PRESENT_VALUE" -> present
            [] prop \in Texts -> text
            [] OTHER -> other
  BY Zenon DEF ReadScalar
<1> HIDE DEF identifier, named, present, text, other
<1>2. /\ prop = "OBJECT_NAME" => ReadScalar(object, prop) = named
      /\ prop = "OBJECT_IDENTIFIER" => ReadScalar(object, prop) = identifier
      /\ prop = "PRESENT_VALUE" => ReadScalar(object, prop) = present
  BY <1>1 DEF Texts
<1> QED BY <1>2, Zenon DEF identifier, named, present

\* What is not an array is read of the object itself.
LEMMA ScalarRead ==
  ASSUME ObjectsInv, NEW type, NEW id, NEW i \in Having(type, id), NEW prop,
         prop \in {"OBJECT_NAME", "OBJECT_IDENTIFIER", "PRESENT_VALUE"},
         prop \in Handled(type)
  PROVE  /\ prop = "OBJECT_NAME" =>
              ReadProperty(type, id, prop, All)
                = Value(<<name[objects[i].instance]>>, TextSize)
         /\ prop = "OBJECT_IDENTIFIER" =>
              ReadProperty(type, id, prop, All) = Value(<<id>>, IdentifierSize)
         /\ prop = "PRESENT_VALUE" =>
              ReadProperty(type, id, prop, All)
                = Value(<<value[objects[i].instance]>>, ValueSize)
<1>1. Having(type, id) # {} OBVIOUS
<1>2. ArrayLength(type, prop) = {} BY DEF ArrayLength
<1>3. First(Having(type, id)) = i /\ Identifier(objects[i]) = id BY OneHaving
<1>4. ReadProperty(type, id, prop, All) = ReadScalar(objects[i], prop)
  BY <1>1, <1>2, <1>3 DEF ReadProperty
<1>5. CASE prop = "OBJECT_NAME"
  <2>1. ReadScalar(objects[i], prop)
          = Value(<<name[objects[i].instance]>>, TextSize)
    BY <1>5, ScalarCases, Zenon
  <2> QED BY <1>4, <1>5, <2>1, Zenon
<1>6. CASE prop = "OBJECT_IDENTIFIER"
  <2>1. ReadScalar(objects[i], prop)
          = Value(<<Identifier(objects[i])>>, IdentifierSize)
    BY <1>6, ScalarCases, Zenon
  <2> QED BY <1>3, <1>4, <1>6, <2>1, Zenon
<1>7. CASE prop = "PRESENT_VALUE"
  <2>1. ReadScalar(objects[i], prop)
          = Value(<<value[objects[i].instance]>>, ValueSize)
    BY <1>7, ScalarCases, Zenon
  <2> QED BY <1>4, <1>7, <2>1, Zenon
<1> QED BY <1>5, <1>6, <1>7

-----------------------------------------------------------------------------
(* Lookups *)

LEMMA IdentifiersDiffer ==
  ASSUME ObjectsInv
  PROVE  IdentifiersUnique
<1> SUFFICES ASSUME NEW type \in Types, NEW id \in Identifiers
             PROVE  Cardinality(Having(type, id)) =< 1
  BY DEF IdentifiersUnique
<1>1. CASE Having(type, id) = {}
  <2>1. Cardinality(Having(type, id)) = 0 BY <1>1, FS_EmptySet, Zenon
  <2> QED BY <2>1
<1>2. CASE Having(type, id) # {}
  <2>1. PICK i : i \in Having(type, id) BY <1>2
  <2>2. Having(type, id) = {i} BY <2>1, OneHaving
  <2>3. Cardinality(Having(type, id)) = 1 BY <2>2, FS_Singleton, Zenon
  <2> QED BY <2>3
<1> QED BY <1>1, <1>2

LEMMA NamesAgree ==
  ASSUME ObjectsInv
  PROVE  LookupsAgree
<1> SUFFICES ASSUME NEW text \in Names, NEW found \in ObjectNamed(text)
             PROVE  /\ NameOf(found.type, found.id) = {text}
                    /\ LET read == ReadProperty(found.type, found.id,
                                                "OBJECT_NAME", All)
                       IN read.kind = "value" /\ read.content = <<text>>
  BY DEF LookupsAgree
<1> DEFINE i == Latest(Named(text))
<1>1. Named(text) # {} /\ found = Found(i)
  BY Zenon DEF ObjectNamed
<1>2. i \in Named(text)
  <2>1. Len(objects) \in Nat /\ Named(text) \subseteq 1 .. Len(objects)
    BY DEF Named, ObjectsInv, ObjectsTypeOK
  <2> QED BY <1>1, <2>1, LatestIsOne
<1> HIDE DEF i
<1>3. i \in DOMAIN objects /\ name[objects[i].instance] = text
  BY <1>2 DEF Named
<1>4. found.type = objects[i].type /\ found.id = Identifier(objects[i])
  BY <1>1 DEF Found
<1>5. i \in Having(found.type, found.id) BY <1>3, <1>4 DEF Having
<1>6. Having(found.type, found.id) = {i} BY <1>5, OneHaving
<1>7. NameOf(found.type, found.id) = {text} BY <1>3, <1>6 DEF NameOf
<1>8. "OBJECT_NAME" \in Handled(found.type) BY HandledFacts
<1>9. ReadProperty(found.type, found.id, "OBJECT_NAME", All)
        = Value(<<text>>, TextSize)
  BY <1>3, <1>5, <1>8, ScalarRead
<1>10. /\ Value(<<text>>, TextSize).kind = "value"
       /\ Value(<<text>>, TextSize).content = <<text>>
  BY ValueParts
<1> QED BY <1>7, <1>9, <1>10

-----------------------------------------------------------------------------
(* The invariant *)

LEMMA ObjectsStart ==
  ASSUME Init
  PROVE  ObjectsInv
<1> USE DEF Init, ObjectsInit
<1>1. objects \in Seq(Objects) /\ Len(objects) = 0 /\ objects = <<>> OBVIOUS
<1>2. instance \in Instances /\ instance = 0 BY DEF Instances
<1>3. ObjectsTypeOK BY <1>1, <1>2 DEF ObjectsTypeOK
<1> QED BY <1>1, <1>2, <1>3 DEF ObjectsInv

\* What the application changes keeps the objects.
LEMMA ObjectsSame ==
  ASSUME ObjectsInv, UNCHANGED <<objects, instance>>, deviceId' \in DeviceIds,
         name' \in [Instances -> Names], value' \in [Instances -> Values]
  PROVE  ObjectsInv'
BY DEF ObjectsInv, ObjectsTypeOK

LEMMA DeviceAdded ==
  ASSUME ObjectsInv, AddDevice
  PROVE  ObjectsInv'
<1> USE DEF AddDevice
<1>1. Device \in Objects BY DEF Device, Objects, Instances
<1>2. objects' \in Seq(Objects) /\ Len(objects') = 1 /\ objects'[1] = Device
      /\ DOMAIN objects' = {1} /\ objects' # <<>>
  BY <1>1
<1>3. instance' = 0 BY DEF ObjectsInv
<1>4. ObjectsTypeOK' BY <1>2 DEF ObjectsTypeOK, ObjectsInv
<1> QED BY <1>2, <1>3, <1>4 DEF ObjectsInv

LEMMA ObjectAdded ==
  ASSUME ObjectsInv, NEW type \in AddedTypes, AddObject(type)
  PROVE  ObjectsInv'
<1> USE DEF AddObject
<1> DEFINE new == [type |-> type, instance |-> instance + 1]
<1>1. instance \in Nat /\ instance' \in Instances
  BY DEF ObjectsInv, ObjectsTypeOK, Instances
<1>2. new \in Objects /\ new.type = type /\ new.instance = instance'
  BY <1>1 DEF Objects
<1> HIDE DEF new
<1>3. objects' = Append(objects, new) BY DEF new
<1>4. objects \in Seq(Objects) /\ Len(objects) = instance + 1
      /\ objects[1] = Device
  BY DEF ObjectsInv, ObjectsTypeOK
<1>5. objects' \in Seq(Objects) /\ Len(objects') = Len(objects) + 1
      /\ objects' # <<>>
  BY <1>2, <1>3, <1>4
<1>6. /\ \A i \in DOMAIN objects : objects'[i] = objects[i]
      /\ objects'[Len(objects) + 1] = new
      /\ DOMAIN objects' = DOMAIN objects \cup {Len(objects) + 1}
  BY <1>3, <1>4
<1>7. ObjectsTypeOK'
  BY <1>1, <1>4, <1>5 DEF ObjectsTypeOK, ObjectsInv, Instances
<1>8. ASSUME NEW i \in DOMAIN objects', i # 1
      PROVE  objects'[i].type \in AddedTypes /\ objects'[i].instance = i - 1
  <2>1. CASE i \in DOMAIN objects BY <1>6, <1>8, <2>1 DEF ObjectsInv
  <2>2. CASE i = Len(objects) + 1 BY <1>1, <1>2, <1>4, <1>6, <2>2
  <2> QED BY <1>6, <2>1, <2>2
<1>9. 1 \in DOMAIN objects BY <1>1, <1>4
<1>10. objects'[1] = Device BY <1>4, <1>6, <1>9
<1>11. instance' = Len(objects') - 1 BY <1>1, <1>4, <1>5
<1> QED BY <1>5, <1>7, <1>8, <1>10, <1>11 DEF ObjectsInv

LEMMA ObjectsReset ==
  ASSUME ObjectsInv, Reset
  PROVE  ObjectsInv'
<1> USE DEF Reset, ObjectsAfterReset
<1>1. objects' \in Seq(Objects) /\ Len(objects') = 0 /\ objects' = <<>>
  OBVIOUS
<1>2. instance' \in Instances /\ instance' = 0 BY DEF Instances
<1>3. ObjectsTypeOK' BY <1>1, <1>2 DEF ObjectsTypeOK, ObjectsInv
<1> QED BY <1>1, <1>2, <1>3 DEF ObjectsInv

\* Errors are none only for what may be written, of an object there is.
LEMMA NoErrors ==
  ASSUME NEW type, NEW id, NEW prop, NEW index, NEW fate,
         WriteErrors(type, id, prop, index, fate) = {}
  PROVE  /\ Having(type, id) # {} /\ MayBeWritten(type, prop)
         /\ prop \in {"OBJECT_NAME", "OBJECT_IDENTIFIER", "PRESENT_VALUE"}
         /\ prop # "OBJECT_NAME" => fate # "refused"
         /\ prop \in Handled(type)
<1>1. Having(type, id) # {} /\ MayBeWritten(type, prop)
      /\ FateErrors(type, prop, fate) = {}
  BY DEF WriteErrors
<1>2. prop \in {"OBJECT_NAME", "OBJECT_IDENTIFIER", "PRESENT_VALUE"}
  BY <1>1 DEF MayBeWritten
<1>3. ASSUME prop # "OBJECT_NAME", fate = "refused" PROVE FALSE
  <2>1. FateErrors(type, prop, fate)
          \in {{"VALUE_OUT_OF_RANGE"}, {"WRITE_ACCESS_DENIED", "VALUE_OUT_OF_RANGE"}}
    BY <1>3 DEF FateErrors
  <2> QED BY <1>1, <2>1
<1>4. prop \in Handled(type) BY <1>1, <1>2, HandledFacts DEF MayBeWritten
<1> QED BY <1>1, <1>2, <1>3, <1>4

LEMMA WrittenKeeps ==
  ASSUME ObjectsInv, UNCHANGED <<objects, instance>>, NEW type, NEW id,
         NEW prop, NEW fate, NEW new \in NewValues(prop),
         MayBeWritten(type, prop), Having(type, id) # {},
         Written(type, id, prop, fate, new)
  PROVE  ObjectsInv'
<1>1. /\ deviceId \in DeviceIds /\ name \in [Instances -> Names]
      /\ value \in [Instances -> Values]
  BY DEF ObjectsInv, ObjectsTypeOK
<1>2. CASE fate = "refused"
  BY <1>1, <1>2, ObjectsSame DEF Written
<1>3. CASE fate # "refused" /\ prop = "OBJECT_IDENTIFIER"
  <2>1. deviceId' = new /\ UNCHANGED <<name, value>> BY <1>3 DEF Written
  <2>2. new \in DeviceIds BY <1>3 DEF NewValues
  <2> QED BY <1>1, <2>1, <2>2, ObjectsSame
<1>4. CASE fate # "refused" /\ prop = "OBJECT_NAME"
  <2>1. name' = [name EXCEPT ![Target(type, id)] = new]
        /\ UNCHANGED <<deviceId, value>>
    BY <1>4 DEF Written
  <2>2. new \in Names BY <1>4 DEF NewValues
  <2> QED BY <1>1, <2>1, <2>2, ObjectsSame
<1>5. CASE fate # "refused" /\ prop = "PRESENT_VALUE"
  <2>1. value' = [value EXCEPT ![Target(type, id)] = new]
        /\ UNCHANGED <<deviceId, name>>
    BY <1>5 DEF Written
  <2>2. new \in Values BY <1>5 DEF NewValues
  <2> QED BY <1>1, <2>1, <2>2, ObjectsSame
<1> QED BY <1>2, <1>3, <1>4, <1>5 DEF MayBeWritten

LEMMA WriteKeeps ==
  ASSUME ObjectsInv, NEW type, NEW id, NEW prop, NEW index, NEW fate,
         NEW aborts, HandleWriteProperty(type, id, prop, index, fate, aborts)
  PROVE  ObjectsInv'
<1> DEFINE errors == WriteErrors(type, id, prop, index, fate)
<1>1. UNCHANGED <<objects, instance>> BY DEF HandleWriteProperty
<1>2. CASE errors = {}
  <2>1. \E new \in NewValues(prop) : Written(type, id, prop, fate, new)
    BY <1>2, Zenon DEF HandleWriteProperty
  <2> QED BY <1>1, <1>2, <2>1, NoErrors, WrittenKeeps
<1>3. CASE errors # {}
  <2>1. UNCHANGED <<deviceId, name, value>>
    BY <1>3 DEF HandleWriteProperty
  <2> QED BY <1>1, <2>1, ObjectsSame DEF ObjectsInv, ObjectsTypeOK
<1> QED BY <1>2, <1>3

LEMMA ChangeKeeps ==
  ASSUME ObjectsInv, Change
  PROVE  ObjectsInv'
<1>1. UNCHANGED <<objects, instance>> BY DEF Change
<1>2. /\ deviceId \in DeviceIds /\ name \in [Instances -> Names]
      /\ value \in [Instances -> Values]
  BY DEF ObjectsInv, ObjectsTypeOK
<1>3. PICK i \in DOMAIN objects :
       \/ /\ \E text \in Names :
               name' = [name EXCEPT ![objects[i].instance] = text]
          /\ UNCHANGED <<deviceId, value>>
       \/ /\ \E v \in Values :
               value' = [value EXCEPT ![objects[i].instance] = v]
          /\ UNCHANGED <<deviceId, name>>
       \/ deviceId' \in DeviceIds /\ UNCHANGED <<name, value>>
  BY Zenon DEF Change
<1>4. CASE /\ \E text \in Names :
                name' = [name EXCEPT ![objects[i].instance] = text]
           /\ UNCHANGED <<deviceId, value>>
  <2>1. name' \in [Instances -> Names] BY <1>2, <1>4
  <2> QED BY <1>1, <1>2, <1>4, <2>1, ObjectsSame
<1>5. CASE /\ \E v \in Values :
                value' = [value EXCEPT ![objects[i].instance] = v]
           /\ UNCHANGED <<deviceId, name>>
  <2>1. value' \in [Instances -> Values] BY <1>2, <1>5
  <2> QED BY <1>1, <1>2, <1>5, <2>1, ObjectsSame
<1>6. CASE deviceId' \in DeviceIds /\ UNCHANGED <<name, value>>
  BY <1>1, <1>2, <1>6, ObjectsSame
<1> QED BY <1>3, <1>4, <1>5, <1>6

\* The other services, and each step of ReadPropertyMultiple, read only.
ReadingStep ==
  \/ ReadOne \/ Find \/ Delivered \/ Begin \/ RpmStep

LEMMA ReadingKeeps ==
  ASSUME ReadingStep
  PROVE  UNCHANGED objectVars
<1>1. CASE ReadOne BY <1>1 DEF ReadOne, HandleReadProperty
<1>2. CASE Find BY <1>2 DEF Find, HandleWhoIs, HandleWhoHas
<1>3. CASE Delivered BY <1>3 DEF Delivered
<1>4. CASE Begin BY <1>4 DEF Begin, RpmBegin, Finish
<1>5. CASE RpmUndecodable BY <1>5 DEF RpmUndecodable, Finish
<1>6. CASE RpmObject BY <1>6 DEF RpmObject, Finish
<1>7. ASSUME NEW prop, NEW index, NEW count,
             EncodeProperty(prop, index, count)
      PROVE  UNCHANGED objectVars
  BY <1>7, Zenon DEF EncodeProperty, Finish
<1>8. CASE RpmProperty BY <1>7, <1>8 DEF RpmProperty
<1>9. CASE RpmListed BY <1>7, <1>9 DEF RpmListed
<1>10. CASE RpmNothing BY <1>10 DEF RpmNothing
<1>11. CASE RpmIndexed BY <1>11 DEF RpmIndexed, Finish
<1>12. CASE RpmClose BY <1>12 DEF RpmClose, Finish
<1>13. CASE \E maxResp \in Accepted : RpmAnswer(maxResp)
  BY <1>13 DEF RpmAnswer, Finish
<1> QED BY <1>1, <1>2, <1>3, <1>4, <1>5, <1>6, <1>8, <1>9, <1>10, <1>11,
           <1>12, <1>13 DEF ReadingStep, RpmStep

LEMMA ObjectsStep ==
  ASSUME ObjectsInv, [Next]_vars
  PROVE  ObjectsInv'
<1>1. CASE UNCHANGED objectVars
  BY <1>1 DEF objectVars, ObjectsInv, ObjectsTypeOK
<1>2. CASE Configure
  BY <1>2, DeviceAdded, ObjectAdded, ObjectsReset DEF Configure
<1>3. CASE Change BY <1>3, ChangeKeeps
<1>4. CASE WriteOne BY <1>4, WriteKeeps DEF WriteOne
<1>5. CASE ReadingStep BY <1>1, <1>5, ReadingKeeps
<1>6. CASE UNCHANGED vars BY <1>1, <1>6 DEF vars
<1> QED BY <1>2, <1>3, <1>4, <1>5, <1>6 DEF Next, ReadingStep

LEMMA ObjectsKept ==
  Spec => []ObjectsInv
<1>1. Init => ObjectsInv BY ObjectsStart
<1>2. ObjectsInv /\ [Next]_vars => ObjectsInv' BY ObjectsStep
<1> QED BY <1>1, <1>2, PTL DEF Spec

\* However often the application starts again and whatever it makes of the
\* device identifier, a type and an identifier lead to one object at most.
THEOREM IdentifiersStayUnique == Spec => []IdentifiersUnique
<1>1. ObjectsInv => IdentifiersUnique BY IdentifiersDiffer
<1> QED BY <1>1, ObjectsKept, PTL

\* What Who-Has finds by name is the object that ReadProperty and Who-Has by
\* identifier know under what was found, and they give it that name.
THEOREM LookupsStayInAgreement == Spec => []LookupsAgree
<1>1. ObjectsInv => LookupsAgree BY NamesAgree
<1> QED BY <1>1, ObjectsKept, PTL

-----------------------------------------------------------------------------
(* Lengths and acknowledgements *)

\* What is read is an error, an abort, or of so many octets.
Readable(read) ==
  \/ read.kind = "error" \/ read.kind = "abort"
  \/ read.kind = "value" /\ read.size \in Nat

LEMMA ReadSizes ==
  ASSUME ObjectsInv, NEW type, NEW id, NEW prop, NEW index
  PROVE  Readable(ReadProperty(type, id, prop, index))
<1> DEFINE read == ReadProperty(type, id, prop, index)
           count == CHOOSE n \in ArrayLength(type, prop) : TRUE
<1>1. ASSUME NEW content, NEW size \in Nat
      PROVE  Readable(Value(content, size))
  BY ValueParts DEF Readable
<1>2. ASSUME NEW code PROVE Readable(Error(code)) BY DEF Readable, Error
<1>3. Readable(Abort) BY DEF Readable, Abort
<1>4. ElementSize(prop) \in Nat BY DEF ElementSize, IdentifierSize
<1>5. Len(objects) \in Nat BY DEF ObjectsInv, ObjectsTypeOK
<1>6. CASE read = Error("UNKNOWN_OBJECT") \/ read = Error("UNKNOWN_PROPERTY")
           \/ read = Error("PROPERTY_IS_NOT_AN_ARRAY")
  BY <1>2, <1>6
<1>7. CASE ArrayLength(type, prop) # {} /\ read = ReadArray(prop, index, count)
  <2>1. count \in Nat
    <3>1. ArrayLength(type, prop) \subseteq Nat BY <1>5 DEF ArrayLength
    <3> QED BY <1>7, <3>1
  <2> HIDE DEF count
  <2>2. count * ElementSize(prop) \in Nat BY <1>4, <2>1
  <2>3. \/ \E content : read = Value(content, ValueSize)
        \/ \E content : read = Value(content, count * ElementSize(prop))
        \/ \E content : read = Value(content, ElementSize(prop))
        \/ read = Abort \/ read = Error("INVALID_ARRAY_INDEX")
    BY <1>7 DEF ReadArray, All
  <2> QED BY <1>1, <1>2, <1>3, <1>4, <2>2, <2>3
<1>8. CASE \E object : read = ReadScalar(object, prop)
  <2>1. \E content : \/ read = Value(content, IdentifierSize)
                     \/ read = Value(content, TextSize)
                     \/ read = Value(content, ValueSize)
    BY <1>8 DEF ReadScalar
  <2>2. IdentifierSize \in Nat BY DEF IdentifierSize
  <2> QED BY <1>1, <2>1, <2>2
<1> QED BY <1>6, <1>7, <1>8, Zenon DEF ReadProperty

LEMMA ReferenceSize ==
  ASSUME NEW index
  PROVE  Reference(index) \in Nat /\ Header.error \in Nat /\ Header.object \in Nat
         /\ Header.end \in Nat /\ Header.init \in Nat
BY DEF Reference, ServicesAssumption

\* What an acknowledged write has left.
Holds(ack) ==
  /\ ack.prop \in {"OBJECT_IDENTIFIER", "PRESENT_VALUE"}
  /\ ack.prop \in Handled(ack.type)
  /\ \E i \in Having(ack.type, ack.id) :
       /\ ack.prop = "OBJECT_IDENTIFIER" => ack.new = ack.id
       /\ ack.prop = "PRESENT_VALUE" => value[objects[i].instance] = ack.new

Good(pdu) ==
  /\ pdu.pdu \in {"ReadAck", "RpmAck"} => pdu.octets =< pdu.maxResp
  /\ pdu.pdu = "SimpleAck" /\ pdu.prop # "OBJECT_NAME" => Holds(pdu)

\* While a request is being worked on nothing has been answered yet.
ServicesInv ==
  /\ length \in Nat /\ length =< MaxApdu
  /\ stage # "idle" => answer = <<>>
  /\ \A i \in DOMAIN answer : Good(answer[i])

LEMMA NoAnswer ==
  ASSUME length' \in Nat, length' =< MaxApdu, answer' = <<>>
  PROVE  ServicesInv'
BY DEF ServicesInv

LEMMA ErrorIsGood ==
  ASSUME NEW text, text \notin {"ReadAck", "RpmAck", "SimpleAck"}
  PROVE  /\ Good(Sent(text))' /\ \A code : Good(SentError(code))'
BY DEF Good, Sent, SentError

LEMMA FinishKeeps ==
  ASSUME NEW pdu, Finish(pdu), Good(pdu)'
  PROVE  ServicesInv'
<1>1. /\ length' = 0 /\ stage' = "idle" /\ answer' = <<pdu>>
  BY DEF Finish
<1>2. \A i \in DOMAIN answer' : answer'[i] = pdu BY <1>1
<1> QED BY <1>1, <1>2 DEF ServicesInv, ObjectsAssumption

LEMMA AbortKeeps ==
  ASSUME Finish(Sent("Abort")) \/ Finish(Sent("Reject"))
  PROVE  ServicesInv'
BY FinishKeeps, ErrorIsGood

\* One answer, and nothing is being built.
LEMMA OneAnswerKeeps ==
  ASSUME ServicesInv, Serving, UNCHANGED rpmVars, NEW pdu, answer' = <<pdu>>,
         Good(pdu)'
  PROVE  ServicesInv'
<1>1. UNCHANGED <<length, stage>> /\ stage = "idle"
  BY DEF rpmVars, Serving, Idle
<1>2. \A i \in DOMAIN answer' : answer'[i] = pdu OBVIOUS
<1> QED BY <1>1, <1>2 DEF ServicesInv

\* A client accepts some number of octets.
LEMMA AcceptedSizes ==
  ASSUME NEW maxResp \in Accepted
  PROVE  maxResp \in Nat
<1>1. MaxApdu \in Nat BY ObjectsAssumption DEF ObjectsAssumption
<1>2. maxResp \in 0 .. MaxApdu BY ServicesAssumption DEF ServicesAssumption
<1> QED BY <1>1, <1>2

LEMMA ReadOneKeeps ==
  ASSUME ObjectsInv, ServicesInv, ReadOne
  PROVE  ServicesInv'
<1>1. PICK type \in Types, id \in Identifiers, prop \in Props,
           index \in Indices, maxResp \in Accepted :
             HandleReadProperty(type, id, prop, index, maxResp)
  BY DEF ReadOne
<1> DEFINE read == ReadProperty(type, Asked(type, id), prop, index)
           octets == Header.init + Header.object + Reference(index)
                       + read.size + Header.end
           ack == [pdu |-> "ReadAck", octets |-> octets, maxResp |-> maxResp,
                   content |-> read.content]
<1> PICK pdu : pdu = ReadAnswer(type, id, prop, index, maxResp) OBVIOUS
<1>2. answer' = <<pdu>> /\ UNCHANGED rpmVars /\ Serving
  BY <1>1 DEF HandleReadProperty
<1>3. Readable(read) BY ReadSizes
<1>4. \/ \E code : pdu = SentError(code)
      \/ pdu = Sent("Abort")
      \/ pdu = ack /\ read.kind = "value" /\ ~ (octets > maxResp)
  BY <1>3 DEF ReadAnswer, Readable
<1>5. Good(pdu)'
  <2>1. CASE \E code : pdu = SentError(code)
    BY <2>1, ErrorIsGood
  <2>2. CASE pdu = Sent("Abort") BY <2>2, ErrorIsGood
  <2>3. CASE pdu = ack /\ read.kind = "value" /\ ~ (octets > maxResp)
    <3>1. octets \in Nat
      BY <1>3, <2>3, ReferenceSize DEF Readable
    <3>2. maxResp \in Nat BY AcceptedSizes
    <3> HIDE DEF octets
    <3>3. octets =< maxResp BY <2>3, <3>1, <3>2
    <3> QED BY <2>3, <3>3 DEF Good
  <2> QED BY <1>4, <2>1, <2>2, <2>3
<1> QED BY <1>2, <1>5, OneAnswerKeeps

LEMMA FindKeeps ==
  ASSUME ServicesInv, Find
  PROVE  ServicesInv'
<1>1. Serving /\ UNCHANGED rpmVars
  BY DEF Find, HandleWhoIs, HandleWhoHas
<1>2. answer' = <<>>
      \/ \E pdu : answer' = <<pdu>> /\ pdu.pdu \in {"I-Am", "I-Have"}
  <2>1. ASSUME NEW limits \in Limits, HandleWhoIs(limits)
        PROVE  answer' = <<>>
               \/ \E pdu : answer' = <<pdu>> /\ pdu.pdu \in {"I-Am", "I-Have"}
    BY <2>1 DEF HandleWhoIs
  <2>2. ASSUME NEW limits \in Limits, NEW matches, HandleWhoHas(limits, matches),
               \A m \in matches : m.pdu = "I-Have"
        PROVE  answer' = <<>>
               \/ \E pdu : answer' = <<pdu>> /\ pdu.pdu \in {"I-Am", "I-Have"}
    BY <2>2 DEF HandleWhoHas
  <2>3. \A text : \A m \in ByName(text) : m.pdu = "I-Have"
    BY DEF ByName, IHave
  <2>4. \A type, id : \A m \in ByIdentifier(type, id) : m.pdu = "I-Have"
    BY DEF ByIdentifier, IHave
  <2> QED BY <2>1, <2>2, <2>3, <2>4 DEF Find
<1>3. CASE answer' = <<>>
  BY <1>1, <1>3, NoAnswer DEF ServicesInv, rpmVars
<1>4. CASE \E pdu : answer' = <<pdu>> /\ pdu.pdu \in {"I-Am", "I-Have"}
  BY <1>1, <1>4, OneAnswerKeeps DEF Good
<1> QED BY <1>2, <1>3, <1>4

LEMMA BeginKeeps ==
  ASSUME Begin
  PROVE  ServicesInv'
<1>1. PICK requested \in Requests : RpmBegin(requested) BY DEF Begin
<1>2. CASE Finish(Sent("Abort")) BY <1>2, AbortKeeps
<1>3. CASE length' = Header.init /\ answer' = <<>>
  BY <1>3, ReferenceSize, NoAnswer DEF ServicesAssumption
<1> QED BY <1>1, <1>2, <1>3 DEF RpmBegin

\* Pieces that fit, while nothing has been answered.
LEMMA PieceKeeps ==
  ASSUME ServicesInv, stage # "idle", UNCHANGED answer, NEW octets \in Nat,
         Fits(octets), length' = length + octets
  PROVE  ServicesInv'
<1>1. answer' = <<>> /\ length \in Nat BY DEF ServicesInv
<1>2. length' \in Nat /\ length' =< MaxApdu BY <1>1 DEF Fits
<1> QED BY <1>1, <1>2, NoAnswer

\* Where there is room for a value, it fits with its tags and its reference.
LEMMA RoomFits ==
  ASSUME NEW index, Reference(index) \in Nat, length \in Nat,
         NEW size \in Nat, Room(index, size),
         NEW octets, octets = Reference(index) + (1 + size + 1)
  PROVE  octets \in Nat /\ Fits(octets)
<1>1. MaxApdu \in Nat BY ObjectsAssumption DEF ObjectsAssumption
<1>2. length + octets =< MaxApdu BY ONLY <1>1, Reference(index) \in Nat,
  length \in Nat, size \in Nat, Room(index, size),
  octets = Reference(index) + (1 + size + 1), SMTT(20) DEF Room
<1> QED BY <1>2, SMTT(20) DEF Fits

LEMMA PropertyKeeps ==
  ASSUME ObjectsInv, ServicesInv, stage # "idle", NEW prop, NEW index,
         NEW count, EncodeProperty(prop, index, count)
  PROVE  ServicesInv'
<1> DEFINE asked == results[at[1]]
           read == ReadProperty(asked.type, asked.id, prop, index)
           octets == Reference(index) + (IF read.kind = "error" THEN Header.error
                                         ELSE 1 + read.size + 1)
           fits == /\ read.kind # "abort" /\ Fits(Reference(index))
                   /\ IF read.kind = "error" THEN Fits(octets)
                      ELSE Room(index, read.size)
<1>1. \/ fits /\ Encoded(prop, index, read, octets) /\ UNCHANGED answer
      \/ Finish(Sent("Abort"))
  BY Zenon DEF EncodeProperty
<1>2. CASE Finish(Sent("Abort")) BY <1>2, AbortKeeps
<1>3. CASE fits /\ Encoded(prop, index, read, octets) /\ UNCHANGED answer
  <2>1. length' = length + octets BY <1>3, Zenon DEF Encoded
  <2>2. Readable(read) BY ReadSizes
  <2>3. Reference(index) \in Nat /\ Header.error \in Nat /\ length \in Nat
    BY ReferenceSize DEF ServicesInv
  <2>4. octets \in Nat /\ Fits(octets)
    <3>1. CASE read.kind = "error" BY <1>3, <2>3, <3>1
    <3>2. CASE read.kind = "value" /\ read.size \in Nat
      <4>1. Room(index, read.size) BY <1>3, <3>2
      <4>2. octets = Reference(index) + (1 + read.size + 1) BY <3>2
      <4> HIDE DEF octets, read, fits
      <4> QED BY <2>3, <3>2, <4>1, <4>2, RoomFits
    <3> QED BY <1>3, <2>2, <3>1, <3>2 DEF Readable
  <2> HIDE DEF octets
  <2> QED BY <1>3, <2>1, <2>4, PieceKeeps
<1> QED BY <1>1, <1>2, <1>3

LEMMA RpmKeeps ==
  ASSUME ObjectsInv, ServicesInv, RpmStep
  PROVE  ServicesInv'
<1> USE ReferenceSize
<1>1. CASE RpmUndecodable BY <1>1, AbortKeeps DEF RpmUndecodable
<1>2. CASE RpmObject
  <2>1. CASE Fits(Header.object) BY <1>2, <2>1, PieceKeeps DEF RpmObject
  <2>2. CASE ~ Fits(Header.object) BY <1>2, <2>2, AbortKeeps DEF RpmObject
  <2> QED BY <2>1, <2>2
<1>3. CASE RpmProperty BY <1>3, PropertyKeeps DEF RpmProperty
<1>4. CASE RpmListed BY <1>4, PropertyKeeps DEF RpmListed
<1>5. CASE RpmNothing BY <1>5, NoAnswer DEF RpmNothing, ServicesInv
<1>6. CASE RpmIndexed
  <2> DEFINE octets == Reference(Property.index) + Header.error
             error == Error("PROPERTY_IS_NOT_AN_ARRAY")
  <2>1. \/ /\ Fits(octets) /\ UNCHANGED answer
           /\ Encoded(Property.prop, Property.index, error, octets)
        \/ Finish(Sent("Abort"))
    BY <1>6, Zenon DEF RpmIndexed
  <2>2. CASE Finish(Sent("Abort")) BY <2>2, AbortKeeps
  <2>3. CASE /\ Fits(octets) /\ UNCHANGED answer
             /\ Encoded(Property.prop, Property.index, error, octets)
    <3>1. length' = length + octets BY <2>3, Zenon DEF Encoded
    <3>2. octets \in Nat OBVIOUS
    <3>3. stage # "idle" BY <1>6 DEF RpmIndexed
    <3> HIDE DEF octets
    <3> QED BY <2>3, <3>1, <3>2, <3>3, PieceKeeps
  <2> QED BY <2>1, <2>2, <2>3
<1>7. CASE RpmClose
  <2>1. CASE Fits(Header.end) BY <1>7, <2>1, PieceKeeps DEF RpmClose
  <2>2. CASE ~ Fits(Header.end) BY <1>7, <2>2, AbortKeeps DEF RpmClose
  <2> QED BY <2>1, <2>2
<1>8. ASSUME NEW maxResp \in Accepted, RpmAnswer(maxResp)
      PROVE  ServicesInv'
  <2> PICK ack : ack = [pdu |-> "RpmAck", octets |-> length,
                        maxResp |-> maxResp]
    OBVIOUS
  <2>1. Finish(IF length > maxResp THEN Sent("Abort") ELSE ack)
    BY <1>8 DEF RpmAnswer
  <2>2. CASE length > maxResp BY <2>1, <2>2, AbortKeeps
  <2>3. CASE ~ (length > maxResp)
    <3>1. maxResp \in Nat /\ length \in Nat
      BY AcceptedSizes DEF ServicesInv
    <3>2. length =< maxResp BY <2>3, <3>1
    <3>3. Good(ack)' BY <3>2 DEF Good
    <3>4. Finish(ack) BY <2>1, <2>3
    <3> QED BY <3>3, <3>4, FinishKeeps
  <2> QED BY <2>2, <2>3
<1> QED BY <1>1, <1>2, <1>3, <1>4, <1>5, <1>6, <1>7, <1>8 DEF RpmStep

\* A successful write of anything but a name leaves what it acknowledges.
LEMMA WriteHolds ==
  ASSUME ObjectsInv, UNCHANGED <<objects, instance>>, NEW type, NEW id,
         NEW prop, NEW index, NEW fate, NEW new \in NewValues(prop),
         WriteErrors(type, id, prop, index, fate) = {}, prop # "OBJECT_NAME",
         Written(type, id, prop, fate, new),
         NEW ack, ack.type = type, ack.prop = prop, ack.new = new,
         ack.id = IF prop = "OBJECT_IDENTIFIER" THEN new ELSE id
  PROVE  Holds(ack)'
<1>1. /\ fate # "refused" /\ prop \in {"OBJECT_IDENTIFIER", "PRESENT_VALUE"}
      /\ MayBeWritten(type, prop) /\ Having(type, id) # {}
      /\ prop \in Handled(type)
  BY NoErrors
<1>2. PICK i : i \in Having(type, id) BY <1>1
<1>3. /\ i \in DOMAIN objects /\ objects[i].type = type
      /\ Identifier(objects[i]) = id
      /\ First(Having(type, id)) = i
  BY <1>2, OneHaving
<1>4. objects[i].instance \in Instances BY <1>3, ObjectFacts
<1>5. Handled(type)' = Handled(type) OBVIOUS
<1>6. CASE prop = "OBJECT_IDENTIFIER"
  <2>1. deviceId' = new BY <1>1, <1>6, Zenon DEF Written
  <2>2. type = "device" BY <1>1, <1>6 DEF MayBeWritten
  <2>3. i \in Having(type, new)' BY <1>3, <2>1, <2>2 DEF Having, Identifier
  <2> QED BY <1>1, <1>6, <2>3 DEF Holds
<1>7. CASE prop = "PRESENT_VALUE"
  <2>1. value' = [value EXCEPT ![Target(type, id)] = new] /\ deviceId' = deviceId
    BY <1>1, <1>7, Zenon DEF Written
  <2>2. Target(type, id) = objects[i].instance BY <1>3 DEF Target
  <2>3. value'[objects'[i].instance] = new
    BY <1>4, <2>1, <2>2 DEF ObjectsInv, ObjectsTypeOK
  <2>4. i \in Having(type, id)' BY <1>3, <2>1 DEF Having, Identifier
  <2> QED BY <1>1, <1>7, <2>3, <2>4 DEF Holds
<1> QED BY <1>1, <1>6, <1>7

LEMMA WriteOneKeeps ==
  ASSUME ObjectsInv, ServicesInv, WriteOne
  PROVE  ServicesInv'
<1>1. PICK type \in Types \ {"notification-class"}, id \in Identifiers,
           prop \in Props \ ToSet(AlarmProperties), index \in Indices,
           fate \in Fates, aborts \in {<<>>, <<Sent("Abort")>>,
                                      <<Sent("Abort"), Sent("Abort")>>} :
             HandleWriteProperty(type, id, prop, index, fate, aborts)
  BY DEF WriteOne
<1>2. /\ Serving /\ UNCHANGED <<objects, instance, rpmVars>>
      /\ length \in Nat /\ length =< MaxApdu
  BY <1>1 DEF HandleWriteProperty, ServicesInv
<1>3. ASSUME NEW pdu, answer' = aborts \o <<pdu>>, Good(pdu)'
      PROVE  ServicesInv'
  <2>1. \A i \in DOMAIN answer' : answer'[i] = pdu \/ answer'[i] = Sent("Abort")
    <3>1. CASE aborts = <<>> BY <1>3, <3>1
    <3>2. CASE aborts = <<Sent("Abort")>> BY <1>3, <3>2
    <3>3. CASE aborts = <<Sent("Abort"), Sent("Abort")>> BY <1>3, <3>3
    <3> QED BY <3>1, <3>2, <3>3
  <2>2. ASSUME NEW i \in DOMAIN answer', NEW one, one = answer'[i]
        PROVE  Good(one)'
    BY <1>3, <2>1, <2>2, ErrorIsGood
  <2>3. stage' = "idle" /\ length' = length
    BY <1>2 DEF rpmVars, Serving, Idle
  <2> QED BY <1>2, <2>2, <2>3 DEF ServicesInv
<1> DEFINE errors == WriteErrors(type, id, prop, index, fate)
<1>4. ASSUME NEW code, answer' = aborts \o <<SentError(code)>>
      PROVE  ServicesInv'
  <2> PICK pdu : pdu = SentError(code) OBVIOUS
  <2>1. Good(pdu)' BY DEF Good, SentError
  <2> QED BY <1>3, <1>4, <2>1
<1>5. ASSUME errors = {}, NEW new \in NewValues(prop),
             Written(type, id, prop, fate, new), NEW ack,
             ack = [pdu |-> "SimpleAck", type |-> type, prop |-> prop,
                    new |-> new,
                    id |-> IF prop = "OBJECT_IDENTIFIER" THEN new ELSE id],
             answer' = aborts \o <<ack>>
      PROVE  ServicesInv'
  <2>1. ack.pdu = "SimpleAck" /\ ack.type = type /\ ack.prop = prop
        /\ ack.new = new
        /\ ack.id = IF prop = "OBJECT_IDENTIFIER" THEN new ELSE id
    BY <1>5
  <2>2. ASSUME prop # "OBJECT_NAME" PROVE Holds(ack)'
    <3>1. UNCHANGED <<objects, instance>> BY <1>2
    <3>2. WriteErrors(type, id, prop, index, fate) = {} BY <1>5
    <3>3. new \in NewValues(prop) /\ Written(type, id, prop, fate, new)
      BY <1>5
    <3> HIDE DEF errors
    <3> QED BY <2>1, <2>2, <3>1, <3>2, <3>3, WriteHolds, Zenon
  <2>3. Good(ack)' BY <2>1, <2>2 DEF Good
  <2> QED BY <1>3, <1>5, <2>3
<1>6. \/ \E code : answer' = aborts \o <<SentError(code)>>
      \/ /\ errors = {}
         /\ \E new \in NewValues(prop) :
              /\ \E ack :
                   /\ ack = [pdu |-> "SimpleAck", type |-> type, prop |-> prop,
                        new |-> new,
                        id |-> IF prop = "OBJECT_IDENTIFIER" THEN new ELSE id]
                   /\ answer' = aborts \o <<ack>>
              /\ Written(type, id, prop, fate, new)
  BY <1>1, Zenon DEF HandleWriteProperty
<1> QED BY <1>4, <1>5, <1>6, Zenon

LEMMA ServicesStart ==
  ASSUME Init
  PROVE  ServicesInv
BY DEF Init, ServicesInv, ObjectsAssumption

LEMMA ServicesStep ==
  ASSUME ObjectsInv, ServicesInv, [Next]_vars
  PROVE  ServicesInv'
<1>1. CASE Configure \/ Change
  BY <1>1, NoAnswer DEF Configure, Change, Idle, rpmVars, ServicesInv
<1>2. CASE ReadOne BY <1>2, ReadOneKeeps
<1>3. CASE WriteOne BY <1>3, WriteOneKeeps
<1>4. CASE Find BY <1>4, FindKeeps
<1>5. CASE Delivered
  BY <1>5, NoAnswer DEF Delivered, rpmVars, ServicesInv
<1>6. CASE Begin BY <1>6, BeginKeeps
<1>7. CASE RpmStep BY <1>7, RpmKeeps
<1>8. CASE UNCHANGED vars
  <2>1. \A ack : Holds(ack)' <=> Holds(ack)
    BY <1>8 DEF vars, objectVars, Holds, Having, Identifier
  <2> QED BY <1>8, <2>1 DEF ServicesInv, Good, vars, rpmVars
<1> QED BY <1>1, <1>2, <1>3, <1>4, <1>5, <1>6, <1>7, <1>8 DEF Next

LEMMA ServicesKept ==
  Spec => []ServicesInv
<1>1. Init => ServicesInv BY ServicesStart
<1>2. ObjectsInv /\ ServicesInv /\ [Next]_vars => ServicesInv'
  BY ServicesStep
<1> QED BY <1>1, <1>2, ObjectsKept, PTL DEF Spec

\* Whatever the sizes, nothing is copied past MAX_APDU octets of the answer
\* being built, and no client is sent more than it takes.
THEOREM AnswersAlwaysFit == Spec => []AnswersFit
<1>1. ServicesInv => AnswersFit BY DEF ServicesInv, Good, AnswersFit
<1> QED BY <1>1, ServicesKept, PTL

\* What a write acknowledged is read back, under the new identifier if it was
\* the identifier of the device.
THEOREM AcknowledgedIsKept == Spec => []AcknowledgedIsRead
<1>1. ASSUME ObjectsInv, ServicesInv PROVE AcknowledgedIsRead
  <2> SUFFICES ASSUME NEW k \in DOMAIN answer,
                      answer[k].pdu = "SimpleAck",
                      answer[k].prop # "OBJECT_NAME"
               PROVE  LET ack == answer[k]
                          read == ReadProperty(ack.type, ack.id, ack.prop, All)
                      IN read.kind = "value" /\ read.content = <<ack.new>>
    BY Zenon DEF AcknowledgedIsRead
  <2> PICK ack : ack = answer[k] OBVIOUS
  <2>1. Holds(ack) BY <1>1 DEF ServicesInv, Good
  <2>2. PICK i \in Having(ack.type, ack.id) :
          /\ ack.prop = "OBJECT_IDENTIFIER" => ack.new = ack.id
          /\ ack.prop = "PRESENT_VALUE" => value[objects[i].instance] = ack.new
    BY <2>1 DEF Holds
  <2>3. \E size : ReadProperty(ack.type, ack.id, ack.prop, All)
                    = Value(<<ack.new>>, size)
    <3>1. CASE ack.prop = "OBJECT_IDENTIFIER"
      <4>1. "OBJECT_IDENTIFIER" \in Handled(ack.type)
        BY <2>1, <3>1 DEF Holds
      <4>2. ReadProperty(ack.type, ack.id, "OBJECT_IDENTIFIER", All)
              = Value(<<ack.id>>, IdentifierSize)
        BY ONLY ObjectsInv, i \in Having(ack.type, ack.id), <4>1,
           ScalarRead, ZenonT(20)
      <4> QED BY <2>2, <3>1, <4>2
    <3>2. CASE ack.prop = "PRESENT_VALUE"
      <4>1. "PRESENT_VALUE" \in Handled(ack.type)
        BY <2>1, <3>2 DEF Holds
      <4>2. ReadProperty(ack.type, ack.id, "PRESENT_VALUE", All)
              = Value(<<value[objects[i].instance]>>, ValueSize)
        BY ONLY ObjectsInv, i \in Having(ack.type, ack.id), <4>1,
           ScalarRead, ZenonT(20)
      <4> QED BY <2>2, <3>2, <4>2
    <3> QED BY <2>1, <3>1, <3>2 DEF Holds
  <2> QED BY <2>3, ValueParts
<1> QED BY <1>1, ObjectsKept, ServicesKept, PTL

-----------------------------------------------------------------------------
(* The course of a ReadPropertyMultiple *)

IsSequence(s) == Len(s) \in Nat /\ s = [i \in 1 .. Len(s) |-> s[i]]

LEMMA TypedSequence ==
  ASSUME NEW n \in Nat, NEW f, f = [i \in 1 .. n |-> f[i]],
         NEW S, \A i \in 1 .. n : f[i] \in S
  PROVE  f \in Seq(S) /\ Len(f) = n
<1>1. f \in [1 .. n -> S] OBVIOUS
<1> QED BY <1>1, SeqDef

LEMMA ElementsSequence ==
  ASSUME NEW S, NEW s \in Seq(S)
  PROVE  IsSequence(s)
BY DEF IsSequence

LEMMA AppendedSequence ==
  ASSUME NEW s, IsSequence(s), NEW e
  PROVE  IsSequence(Append(s, e)) /\ Len(Append(s, e)) = Len(s) + 1
<1> PICK n \in Nat : n = Len(s) /\ s = [i \in 1 .. n |-> s[i]]
  BY DEF IsSequence
<1> PICK S : S = {s[i] : i \in 1 .. n} \cup {e} OBVIOUS
<1>1. e \in S /\ \A i \in 1 .. n : s[i] \in S BY Zenon
<1>2. s \in Seq(S)
  <2>1. s = [i \in 1 .. n |-> s[i]] OBVIOUS
  <2>2. \A i \in 1 .. n : s[i] \in S BY <1>1
  <2> QED BY ONLY <2>1, <2>2, n \in Nat, TypedSequence
<1>3. Append(s, e) \in Seq(S) /\ Len(Append(s, e)) = Len(s) + 1
  BY <1>1, <1>2, AppendProperties
<1> QED BY <1>3, ElementsSequence

LEMMA ChangedSequence ==
  ASSUME NEW s, IsSequence(s), NEW k, NEW e
  PROVE  /\ IsSequence([s EXCEPT ![k] = e])
         /\ Len([s EXCEPT ![k] = e]) = Len(s)
<1> PICK n \in Nat : n = Len(s) BY DEF IsSequence
<1> PICK f : f = [s EXCEPT ![k] = e] OBVIOUS
<1>1. f = [i \in 1 .. n |-> f[i]] BY DEF IsSequence
<1> PICK S : S = {f[i] : i \in 1 .. n} OBVIOUS
<1>2. \A i \in 1 .. n : f[i] \in S OBVIOUS
<1>3. f \in Seq(S) /\ Len(f) = n
  BY ONLY <1>1, <1>2, n \in Nat, TypedSequence
<1> QED BY <1>3, ElementsSequence

LEMMA RequestFacts ==
  ASSUME NEW requested \in Requests
  PROVE  Len(requested) \in Nat \ {0} /\ DOMAIN requested = 1 .. Len(requested)
<1>1. requested \in Seq(ToSet(requested)) /\ requested # <<>>
  BY ServicesAssumption DEF ServicesAssumption
<1> QED BY <1>1

Stages == {"idle", "object", "property", "close", "end"}

\* The objects before the current one have their results, and it has from its
\* beginning on.
Begun == IF stage = "object" THEN at[1] - 1 ELSE at[1]

CourseInv ==
  /\ stage \in Stages /\ at \in Nat \X Nat \X Nat
  /\ stage = "idle" => request = <<>>
  /\ stage # "idle" => /\ objects # <<>> /\ request \in Requests
                       /\ at[1] \in DOMAIN request
                       /\ IsSequence(results) /\ Len(results) = Begun
  /\ Len(answer) =< 3

\* The services that are one step leave the course alone; all answers are
\* short.
LEMMA SameCourse ==
  ASSUME CourseInv, UNCHANGED rpmVars, stage # "idle" => UNCHANGED objects,
         Len(answer') =< 3
  PROVE  CourseInv'
BY DEF CourseInv, Begun, rpmVars

LEMMA FinishCourse ==
  ASSUME NEW pdu, Finish(pdu)
  PROVE  CourseInv'
BY DEF Finish, CourseInv, Stages

LEMMA ServingCourse ==
  ASSUME CourseInv, Configure \/ Change \/ Delivered \/ ReadOne \/ Find
  PROVE  CourseInv'
<1>1. UNCHANGED rpmVars /\ (stage # "idle" => UNCHANGED objects)
  BY DEF Configure, Change, Idle, Delivered, ReadOne, HandleReadProperty,
     Find, HandleWhoIs, HandleWhoHas, objectVars
<1>2. Len(answer') =< 3
  <2>1. CASE Configure \/ Change BY <2>1 DEF Configure, Change, CourseInv
  <2>2. CASE Delivered BY <2>2 DEF Delivered
  <2>3. CASE ReadOne
    <3>1. PICK type \in Types, id \in Identifiers, prop \in Props,
               index \in Indices, maxResp \in Accepted :
                 HandleReadProperty(type, id, prop, index, maxResp)
      BY <2>3 DEF ReadOne
    <3> PICK pdu : pdu = ReadAnswer(type, id, prop, index, maxResp) OBVIOUS
    <3>2. answer' = <<pdu>> BY <3>1 DEF HandleReadProperty
    <3> QED BY <3>2
  <2>4. CASE Find
    <3>1. answer' = <<>> \/ \E pdu : answer' = <<pdu>>
      BY <2>4, Zenon DEF Find, HandleWhoIs, HandleWhoHas
    <3>2. CASE answer' = <<>> BY <3>2
    <3>3. ASSUME NEW pdu, answer' = <<pdu>> PROVE Len(answer') =< 3
      BY <3>3
    <3> QED BY <3>1, <3>2, <3>3
  <2> QED BY <2>1, <2>2, <2>3, <2>4
<1> QED BY <1>1, <1>2, SameCourse

LEMMA WriteCourse ==
  ASSUME CourseInv, WriteOne
  PROVE  CourseInv'
<1> DEFINE Aborts == {<<>>, <<Sent("Abort")>>, <<Sent("Abort"), Sent("Abort")>>}
<1>1. PICK type \in Types \ {"notification-class"}, id \in Identifiers,
           prop \in Props \ ToSet(AlarmProperties), index \in Indices,
           fate \in Fates, aborts \in Aborts :
             HandleWriteProperty(type, id, prop, index, fate, aborts)
  BY DEF WriteOne
<1>2. PICK pdu : answer' = aborts \o <<pdu>>
  BY <1>1, Zenon DEF HandleWriteProperty
<1> PICK abort : abort = Sent("Abort") OBVIOUS
<1>3. \/ answer' = <<>> \o <<pdu>> \/ answer' = <<abort>> \o <<pdu>>
      \/ answer' = <<abort, abort>> \o <<pdu>>
  BY <1>1, <1>2
<1>4. Len(answer') =< 3
  <2>1. CASE answer' = <<>> \o <<pdu>> BY <2>1
  <2>2. CASE answer' = <<abort>> \o <<pdu>> BY <2>2
  <2>3. CASE answer' = <<abort, abort>> \o <<pdu>> BY <2>3
  <2> QED BY <1>3, <2>1, <2>2, <2>3
<1>5. UNCHANGED <<objects, rpmVars>> BY <1>1 DEF HandleWriteProperty
<1> QED BY <1>4, <1>5, SameCourse

LEMMA BeginCourse ==
  ASSUME Begin
  PROVE  CourseInv'
<1>1. PICK requested \in Requests : RpmBegin(requested) BY DEF Begin
<1>2. CASE \E pdu : Finish(pdu) BY <1>2, FinishCourse
<1>3. CASE /\ stage' = "object" /\ request' = requested /\ at' = <<1, 0, 0>>
           /\ results' = <<>> /\ answer' = <<>> /\ UNCHANGED objects
  <2>1. objects' # <<>> BY <1>1, <1>3 DEF RpmBegin, Serving
  <2>2. 1 \in DOMAIN requested BY RequestFacts
  <2>3. IsSequence(results') /\ Len(results') = 0
    <3>1. <<>> \in Seq({}) /\ Len(<<>>) = 0 OBVIOUS
    <3> QED BY <1>3, <3>1, ElementsSequence, Zenon
  <2> QED BY <1>3, <2>1, <2>2, <2>3 DEF CourseInv, Stages, Begun
<1> QED BY <1>1, <1>2, <1>3, Zenon DEF RpmBegin, objectVars

\* The place in the request stays within its object.
LEMMA OnwardPlace ==
  ASSUME at \in Nat \X Nat \X Nat, stage = "property", NEW count,
         Onward(count)
  PROVE  /\ at' \in Nat \X Nat \X Nat /\ at'[1] = at[1]
         /\ stage' \in {"property", "close"}
<1> PICK o \in Nat, r \in Nat, k \in Nat : at = <<o, r, k>> OBVIOUS
<1>1. CASE at' = [at EXCEPT ![3] = @ + 1] /\ stage' = stage
  <2>1. at' = <<o, r, k + 1>> BY <1>1
  <2> QED BY <1>1, <2>1
<1>2. CASE at' = <<at[1], at[2] + 1, 0>> /\ stage' = stage BY <1>2
<1>3. CASE at' = at /\ stage' = "close" BY <1>3
<1> QED BY <1>1, <1>2, <1>3, Zenon DEF Onward

\* A result joins those of the object that is being read.
LEMMA ResultCourse ==
  ASSUME CourseInv, stage = "property", NEW prop, NEW index, NEW result,
         NEW octets, NEW count, Encoded(prop, index, result, octets),
         Onward(count), UNCHANGED <<objectVars, request, answer>>
  PROVE  CourseInv'
<1>1. IsSequence(results') /\ Len(results') = Len(results)
  <2>1. IsSequence(results) BY DEF CourseInv
  <2>2. PICK new : results' = [results EXCEPT ![at[1]] = new]
    BY Zenon DEF Encoded
  <2> QED BY <2>1, <2>2, ChangedSequence, Zenon
<1>2. /\ at' \in Nat \X Nat \X Nat /\ at'[1] = at[1]
      /\ stage' \in {"property", "close"}
  BY OnwardPlace DEF CourseInv
<1> QED BY <1>1, <1>2 DEF CourseInv, Stages, Begun, objectVars

LEMMA RpmCourse ==
  ASSUME CourseInv, RpmStep
  PROVE  CourseInv'
<1>1. ASSUME \E pdu : Finish(pdu) PROVE CourseInv' BY <1>1, FinishCourse
<1>2. ASSUME NEW prop, NEW index, NEW count, stage = "property",
             EncodeProperty(prop, index, count)
      PROVE  CourseInv'
  <2>1. \/ \E pdu : Finish(pdu)
        \/ /\ \E read, octets : Encoded(prop, index, read, octets)
           /\ Onward(count) /\ UNCHANGED <<objectVars, request, answer>>
    BY <1>2, Zenon DEF EncodeProperty
  <2> QED BY <1>1, <1>2, <2>1, ResultCourse
<1>3. CASE RpmUndecodable BY <1>1, <1>3, Zenon DEF RpmUndecodable
<1>4. CASE RpmObject
  <2>1. CASE \E pdu : Finish(pdu) BY <1>1, <2>1
  <2>2. CASE /\ stage' = "property" /\ at' = <<at[1], 1, 0>>
             /\ \E new : results' = Append(results, new)
             /\ UNCHANGED <<objectVars, request, answer>>
    <3>1. IsSequence(results) /\ Len(results) = at[1] - 1
      BY <1>4 DEF RpmObject, CourseInv, Begun
    <3>2. IsSequence(results') /\ Len(results') = (at[1] - 1) + 1
      BY <2>2, <3>1, AppendedSequence
    <3>3. /\ objects # <<>> /\ request \in Requests /\ at[1] \in DOMAIN request
          /\ at[1] \in Nat /\ Len(answer) =< 3
      BY <1>4 DEF RpmObject, CourseInv
    <3>4. at' \in Nat \X Nat \X Nat /\ at'[1] = at[1] BY <2>2, <3>3
    <3>5. Len(results') = Begun' BY <2>2, <3>2, <3>3, <3>4 DEF Begun
    <3> QED BY <2>2, <3>2, <3>3, <3>4, <3>5 DEF CourseInv, Stages, objectVars
  <2> QED BY <1>4, <2>1, <2>2, Zenon DEF RpmObject
<1>5. CASE RpmProperty BY <1>2, <1>5 DEF RpmProperty
<1>6. CASE RpmListed BY <1>2, <1>6 DEF RpmListed
<1>7. CASE RpmNothing
  <2>1. /\ at' \in Nat \X Nat \X Nat /\ at'[1] = at[1]
        /\ stage' \in {"property", "close"}
    BY <1>7, OnwardPlace DEF RpmNothing, CourseInv
  <2> QED BY <1>7, <2>1 DEF RpmNothing, CourseInv, Stages, Begun, objectVars
<1>8. CASE RpmIndexed
  <2>1. \/ \E pdu : Finish(pdu)
        \/ /\ \E prop, index, result, octets :
                Encoded(prop, index, result, octets)
           /\ Onward(1) /\ UNCHANGED <<objectVars, request, answer>>
    BY <1>8, Zenon DEF RpmIndexed
  <2>2. stage = "property" BY <1>8 DEF RpmIndexed
  <2> QED BY <1>1, <2>1, <2>2, ResultCourse
<1>9. CASE RpmClose
  <2>1. CASE \E pdu : Finish(pdu) BY <1>1, <2>1
  <2>2. CASE /\ IF at[1] < Len(request)
                THEN stage' = "object" /\ at' = <<at[1] + 1, 0, 0>>
                ELSE stage' = "end" /\ at' = at
             /\ UNCHANGED <<objectVars, request, results, answer>>
    <3>1. request \in Requests /\ stage = "close"
      BY <1>9 DEF RpmClose, CourseInv
    <3>2. DOMAIN request = 1 .. Len(request) /\ Len(request) \in Nat
      BY <3>1, RequestFacts
    <3>3. /\ at \in Nat \X Nat \X Nat /\ at[1] \in 1 .. Len(request)
          /\ objects # <<>> /\ IsSequence(results) /\ Len(results) = at[1]
          /\ Len(answer) =< 3
      BY <3>1, <3>2 DEF CourseInv, Begun
    <3>4. CASE stage' = "object" /\ at' = <<at[1] + 1, 0, 0>>
               /\ at[1] < Len(request)
      <4>1. at' \in Nat \X Nat \X Nat /\ at'[1] = at[1] + 1 BY <3>3, <3>4
      <4>2. at[1] \in Nat /\ at[1] + 1 \in 1 .. Len(request)
        BY <3>2, <3>3, <3>4
      <4>3. at'[1] \in DOMAIN request BY <3>2, <4>1, <4>2
      <4>4. Begun' = at'[1] - 1 BY <3>4, Zenon DEF Begun
      <4> HIDE DEF Begun
      <4>5. (at[1] + 1) - 1 = at[1] BY <4>2
      <4>6. Begun' = at[1] BY <4>1, <4>4, <4>5, Zenon
      <4> QED BY <2>2, <3>1, <3>3, <3>4, <4>1, <4>3, <4>6
          DEF CourseInv, Stages, objectVars
    <3>5. CASE stage' = "end" /\ at' = at
      BY <2>2, <3>1, <3>2, <3>3, <3>5 DEF CourseInv, Begun, Stages, objectVars
    <3> QED BY <2>2, <3>4, <3>5
  <2> QED BY <1>9, <2>1, <2>2, Zenon DEF RpmClose
<1>10. CASE \E maxResp \in Accepted : RpmAnswer(maxResp)
  BY <1>1, <1>10, Zenon DEF RpmAnswer
<1> QED BY <1>3, <1>4, <1>5, <1>6, <1>7, <1>8, <1>9, <1>10 DEF RpmStep

LEMMA CourseStep ==
  ASSUME CourseInv, [Next]_vars
  PROVE  CourseInv'
<1>1. CASE UNCHANGED vars
  BY <1>1, SameCourse DEF vars, objectVars, CourseInv
<1>2. CASE Configure \/ Change \/ Delivered \/ ReadOne \/ Find
  BY <1>2, ServingCourse
<1> QED BY <1>1, <1>2, WriteCourse, BeginCourse, RpmCourse DEF Next

\* A request is worked on from its first object to its last, with the results
\* of each object begun, and nothing else leaves its type.
THEOREM TypeCorrect == Spec => []TypeOK
<1>1. Init => CourseInv BY DEF Init, CourseInv, Stages
<1>2. CourseInv /\ [Next]_vars => CourseInv' BY CourseStep
<1>3. ObjectsInv /\ ServicesInv /\ CourseInv => TypeOK
  BY DEF ObjectsInv, ServicesInv, CourseInv, Begun, Stages, TypeOK
<1> QED BY <1>1, <1>2, <1>3, ObjectsKept, ServicesKept, PTL DEF Spec

-----------------------------------------------------------------------------
(* Nothing is read differently while the objects are the same *)

HIDE ServicesAssumption
HIDE ObjectsAssumption

LEMMA SameObjects ==
  ASSUME UNCHANGED objectVars
  PROVE  /\ \A type, id : Having(type, id)' = Having(type, id)
         /\ ObjectList' = ObjectList
         /\ \A type : Lists(type)' = Lists(type)
         /\ \A type, id : Asked(type, id)' = Asked(type, id)
<1>1. /\ objects' = objects /\ deviceId' = deviceId /\ name' = name
      /\ value' = value
  BY DEF objectVars
<1>2. \A type, id : Having(type, id)' = Having(type, id)
  BY <1>1 DEF Having, Identifier
<1>3. ObjectList' = ObjectList BY <1>1 DEF ObjectList, Found, Identifier
<1>4. \A type : Lists(type)' = Lists(type) BY <1>1 DEF Lists
<1>5. \A type, id : Asked(type, id)' = Asked(type, id) BY <1>1 DEF Asked
<1> QED BY <1>2, <1>3, <1>4, <1>5

LEMMA SameScalar ==
  ASSUME UNCHANGED objectVars, NEW object, NEW prop
  PROVE  ReadScalar(object, prop)' = ReadScalar(object, prop)
<1>1. /\ objects' = objects /\ deviceId' = deviceId /\ name' = name
      /\ value' = value
  BY DEF objectVars
<1> QED BY <1>1, Zenon DEF ReadScalar, Identifier

LEMMA SameArray ==
  ASSUME UNCHANGED objectVars, NEW prop, NEW index, NEW count
  PROVE  ReadArray(prop, index, count)' = ReadArray(prop, index, count)
<1>1. ObjectList' = ObjectList BY SameObjects
<1> QED BY <1>1, Zenon DEF ReadArray

LEMMA SameLength ==
  ASSUME UNCHANGED objectVars, NEW type, NEW prop
  PROVE  ArrayLength(type, prop)' = ArrayLength(type, prop)
<1>1. /\ objects' = objects
  BY DEF objectVars
<1> QED BY <1>1, Zenon DEF ArrayLength

LEMMA SameRead ==
  ASSUME UNCHANGED objectVars, NEW type, NEW id, NEW prop, NEW index
  PROVE  ReadProperty(type, id, prop, index)' = ReadProperty(type, id, prop, index)
<1> PICK o : o = objects[First(Having(type, id))] OBVIOUS
<1> PICK n : n = CHOOSE m \in ArrayLength(type, prop) : TRUE OBVIOUS
<1>0. objects' = objects BY DEF objectVars
<1>1. Having(type, id)' = Having(type, id) BY SameObjects
<1>2. ArrayLength(type, prop)' = ArrayLength(type, prop) BY SameLength
<1>3. ReadArray(prop, index, n)' = ReadArray(prop, index, n) BY SameArray
<1>4. ReadScalar(o, prop)' = ReadScalar(o, prop) BY SameScalar
<1>5. ReadProperty(type, id, prop, index) = 
  (IF Having(type, id) = {} THEN Error("UNKNOWN_OBJECT")
  ELSE IF prop \notin Handled(type) THEN Error("UNKNOWN_PROPERTY")
  ELSE IF ArrayLength(type, prop) # {}
  THEN ReadArray(prop, index, n)
  ELSE IF index # All THEN Error("PROPERTY_IS_NOT_AN_ARRAY")
  ELSE ReadScalar(o, prop)) BY DEF ReadProperty
<1>6. o = objects[First(Having(type, id))]' BY <1>0, <1>1 DEF First
<1>7. n = (CHOOSE m \in ArrayLength(type, prop) : TRUE)' BY <1>2
<1>8. ReadProperty(type, id, prop, index)' = 
  (IF Having(type, id)' = {} THEN Error("UNKNOWN_OBJECT")
  ELSE IF prop \notin Handled(type) THEN Error("UNKNOWN_PROPERTY")
  ELSE IF ArrayLength(type, prop)' # {}
  THEN ReadArray(prop, index, n)'
  ELSE IF index # All THEN Error("PROPERTY_IS_NOT_AN_ARRAY")
  ELSE ReadScalar(o, prop)') BY <1>6, <1>7, Zenon DEF ReadProperty
<1> QED BY <1>1, <1>2, <1>3, <1>4, <1>5, <1>8

-----------------------------------------------------------------------------
(* The lists of properties name what the switches read *)

\* A sequence of n names that spells the set S, each once.
Spells(s, n, S) ==
  /\ n \in Nat /\ Len(s) = n /\ DOMAIN s = 1 .. n
  /\ \A i, j \in 1 .. n : s[i] = s[j] => i = j
  /\ \A i \in 1 .. n : s[i] \in S
  /\ \A p \in S : \E i \in 1 .. n : s[i] = p

\* The lists of a type: what it handles are required and optional properties.
Spelled(required, optional, handled) ==
  /\ \E n \in Nat \ {0} : Spells(required, n, ToSet(required))
  /\ \E m \in Nat : Spells(optional, m, handled \ ToSet(required))
  /\ ToSet(required) \subseteq handled
  /\ handled \cap Special = {}

LEMMA SpelledBy ==
  ASSUME NEW required, NEW n \in Nat \ {0}, NEW S, Spells(required, n, S),
         NEW optional, NEW m, NEW T, Spells(optional, m, T),
         NEW handled, handled = S \cup T, S \cap T = {}, handled \cap Special = {}
  PROVE  Spelled(required, optional, handled)
<1>1. ToSet(required) = S BY DEF Spells, ToSet
<1>2. handled \ ToSet(required) = T BY <1>1
<1>3. m \in Nat BY DEF Spells
<1> QED BY <1>1, <1>2, <1>3 DEF Spelled

Three == {"OBJECT_IDENTIFIER", "OBJECT_NAME", "OBJECT_TYPE"}
Five == Three \cup {"PRESENT_VALUE", "STATUS_FLAGS"}
Seven == Five \cup {"EVENT_STATE", "OUT_OF_SERVICE"}
Eight(p) == Seven \cup {p}
DeviceExtra == {"DESCRIPTION", "LOCAL_TIME", "LOCAL_DATE", "LOCATION"}

LEMMA DeviceLists == Spelled(DeviceRequired, DeviceOptional, DeviceHandled)
<1>1. Spells(DeviceRequired, 20, DeviceHandled \ DeviceExtra)
  BY SMTT(60) DEF ThreeRequired, DeviceRequired, DeviceHandled, ObjectHandled,
                  DeviceExtra, Spells
<1>2. Spells(DeviceOptional, 4, DeviceExtra)
  BY DEF DeviceOptional, DeviceExtra, Spells
<1>3. DeviceExtra \subseteq DeviceHandled
  BY DEF DeviceExtra, DeviceHandled, ObjectHandled
<1>4. DeviceHandled \cap Special = {}
  BY DEF DeviceHandled, ObjectHandled, Special
<1>5. DeviceHandled = (DeviceHandled \ DeviceExtra) \cup DeviceExtra BY <1>3
<1> HIDE DEF DeviceExtra
<1> QED BY <1>1, <1>2, <1>4, <1>5, SpelledBy

LEMMA ValueLists == Spelled(ValueRequired, ValueOptional, ValueHandled)
<1>1. Spells(ValueRequired, 5, Five)
  BY DEF ThreeRequired, ValueRequired, Three, Five, Spells
<1> DEFINE T == {"DESCRIPTION", "EVENT_STATE", "OUT_OF_SERVICE"}
<1>2. Spells(ValueOptional, 3, T)
  BY DEF ValueOptional, Spells
<1>3. ValueHandled = Five \cup T /\ Five \cap T = {}
  BY DEF ValueHandled, ObjectHandled, Five, Three
<1>4. ValueHandled \cap Special = {}
  BY DEF ValueHandled, ObjectHandled, Special
<1> HIDE DEF T
<1> QED BY <1>1, <1>2, <1>3, <1>4, SpelledBy

LEMMA BitStringLists == Spelled(ValueRequired, BitStringOptional, BitStringHandled)
<1>1. Spells(ValueRequired, 5, Five)
  BY DEF ThreeRequired, ValueRequired, Three, Five, Spells
<1> DEFINE T == {"DESCRIPTION", "BIT_TEXT", "EVENT_STATE", "OUT_OF_SERVICE"}
<1>2. Spells(BitStringOptional, 4, T)
  BY DEF BitStringOptional, Spells
<1>3. BitStringHandled = Five \cup T /\ Five \cap T = {}
  BY DEF BitStringHandled, ValueHandled, ObjectHandled, Five, Three
<1>4. BitStringHandled \cap Special = {}
  BY DEF BitStringHandled, ValueHandled, ObjectHandled, Special
<1> HIDE DEF T
<1> QED BY <1>1, <1>2, <1>3, <1>4, SpelledBy

LEMMA PointSpells ==
  /\ Spells(PointRequired \o <<"UNITS">>, 8, Eight("UNITS"))
  /\ Spells(PointRequired \o <<"NUMBER_OF_STATES">>, 8, Eight("NUMBER_OF_STATES"))
BY DEF ThreeRequired, ValueRequired, PointRequired, Three, Five, Seven, Eight,
       Spells

LEMMA MultiStateLists ==
  Spelled(PointRequired \o <<"NUMBER_OF_STATES">>, MultiStateOptional,
          MultiStateHandled)
<1> DEFINE T == {"DESCRIPTION", "STATE_TEXT"}
           S == Eight("NUMBER_OF_STATES")
<1>1. Spells(PointRequired \o <<"NUMBER_OF_STATES">>, 8, S) BY PointSpells
<1>2. Spells(MultiStateOptional, 2, T) BY DEF MultiStateOptional, Spells
<1>3. MultiStateHandled = S \cup T /\ S \cap T = {}
  BY DEF MultiStateHandled, ValueHandled, ObjectHandled, Eight, Seven, Five, Three
<1>4. MultiStateHandled \cap Special = {}
  BY DEF MultiStateHandled, ValueHandled, ObjectHandled, Special
<1> HIDE DEF T, S
<1> QED BY <1>1, <1>2, <1>3, <1>4, SpelledBy

LEMMA AnalogValueLists ==
  Spelled(PointRequired \o <<"UNITS">>, AnalogValueOptional, AnalogValueHandled)
<1> DEFINE T == {"DESCRIPTION", "MIN_PRES_VALUE", "MAX_PRES_VALUE", "RESOLUTION"}
           S == Eight("UNITS")
<1>1. Spells(PointRequired \o <<"UNITS">>, 8, S) BY PointSpells
<1>2. Spells(AnalogValueOptional, 4, T) BY DEF AnalogValueOptional, Spells
<1>3. AnalogValueHandled = S \cup T /\ S \cap T = {}
  BY DEF AnalogValueHandled, ValueHandled, ObjectHandled, Eight, Seven, Five, Three
<1>4. AnalogValueHandled \cap Special = {}
  BY DEF AnalogValueHandled, ValueHandled, ObjectHandled, Special
<1> HIDE DEF T, S
<1> QED BY <1>1, <1>2, <1>3, <1>4, SpelledBy

LEMMA AnalogInputLists ==
  Spelled(PointRequired \o <<"UNITS">>, AnalogInputOptional,
          AnalogInputHandled
            \cup (IF Intrinsic THEN ToSet(AlarmProperties) ELSE {}))
<1> DEFINE T == {"DESCRIPTION", "DEVICE_TYPE", "MIN_PRES_VALUE",
                 "MAX_PRES_VALUE", "RESOLUTION"}
           A == {"EVENT_DETECTION_ENABLE", "TIME_DELAY", "NOTIFICATION_CLASS",
                 "HIGH_LIMIT", "LOW_LIMIT", "DEADBAND", "LIMIT_ENABLE",
                 "EVENT_ENABLE", "ACKED_TRANSITIONS", "NOTIFY_TYPE",
                 "EVENT_TIME_STAMPS"}
           S == Eight("UNITS")
<1>1. Spells(PointRequired \o <<"UNITS">>, 8, S) BY PointSpells
<1>2. /\ AnalogInputHandled = S \cup T /\ S \cap T = {}
      /\ S \cap (T \cup A) = {} /\ T \cap Special = {} /\ A \cap Special = {}
      /\ S \cap Special = {}
  BY DEF AnalogInputHandled, AnalogValueHandled, ValueHandled, ObjectHandled,
         Eight, Seven, Five, Three, Special
<1>3. ToSet(AlarmProperties) = A BY DEF AlarmProperties, ToSet
<1>4. CASE Intrinsic
  <2>1. Spells(AnalogInputOptional, 16, T \cup A)
    BY <1>4, SMTT(60) DEF AnalogInputOptional, AlarmProperties, Spells
  <2>2. AnalogInputHandled \cup A = S \cup (T \cup A) BY <1>2
  <2>3. (AnalogInputHandled \cup A) \cap Special = {} BY <1>2
  <2> HIDE DEF T, A, S
  <2> QED BY <1>1, <1>2, <1>3, <1>4, <2>1, <2>2, <2>3, SpelledBy
<1>5. CASE ~ Intrinsic
  <2>1. Spells(AnalogInputOptional, 5, T)
    BY <1>5 DEF AnalogInputOptional, Spells
  <2> HIDE DEF T, A, S
  <2>2. AnalogInputHandled \cap Special = {} BY <1>2
  <2>3. AnalogInputHandled \cup (IF Intrinsic THEN ToSet(AlarmProperties) ELSE {})
          = AnalogInputHandled
    BY <1>5
  <2> QED BY <1>1, <1>2, <2>1, <2>2, <2>3, SpelledBy
<1> QED BY <1>4, <1>5

LEMMA NotificationClassLists ==
  Spelled(ThreeRequired \o <<"NOTIFICATION_CLASS", "PRIORITY", "ACK_REQUIRED",
                             "RECIPIENT_LIST">>,
          <<"DESCRIPTION">>,
          ObjectHandled \cup {"NOTIFICATION_CLASS", "PRIORITY", "ACK_REQUIRED",
                              "RECIPIENT_LIST"})
<1> DEFINE T == {"DESCRIPTION"}
           N == {"NOTIFICATION_CLASS", "PRIORITY", "ACK_REQUIRED",
                 "RECIPIENT_LIST"}
           S == Three \cup N
<1>1. Spells(ThreeRequired \o <<"NOTIFICATION_CLASS", "PRIORITY",
                                "ACK_REQUIRED", "RECIPIENT_LIST">>, 7, S)
  BY DEF ThreeRequired, Three, Spells
<1>2. Spells(<<"DESCRIPTION">>, 1, T) BY DEF Spells
<1>3. ObjectHandled \cup N = S \cup T /\ S \cap T = {}
  BY DEF ObjectHandled, Three
<1>4. (ObjectHandled \cup N) \cap Special = {} BY DEF ObjectHandled, Special
<1> HIDE DEF T, S
<1> QED BY <1>1, <1>2, <1>3, <1>4, SpelledBy

\* What the two lists of a type name is what its switch reads, each property
\* once, and none of it stands for a list (read_property and the lists of the
\* types in objects/*.cpp).
THEOREM TablesSpell ==
  ASSUME NEW type
  PROVE  Spelled(Required(type), Optional(type), Handled(type))
<1>1. CASE type = "device"
  BY <1>1, DeviceLists DEF Required, Optional, Handled
<1>2. CASE type = "analog-input"
  BY <1>2, AnalogInputLists DEF Required, Optional, Handled
<1>3. CASE type = "analog-value"
  BY <1>3, AnalogValueLists DEF Required, Optional, Handled
<1>4. CASE type \in {"multi-state-input", "multi-state-value"}
  BY <1>4, MultiStateLists DEF Required, Optional, Handled
<1>5. CASE type = "bitstring-value"
  BY <1>5, BitStringLists DEF Required, Optional, Handled
<1>6. CASE type = "notification-class"
  BY <1>6, NotificationClassLists DEF Required, Optional, Handled
<1>7. CASE type \notin {"device", "analog-input", "analog-value",
                        "multi-state-input", "multi-state-value",
                        "bitstring-value", "notification-class"}
  BY <1>7, ValueLists DEF Required, Optional, Handled
<1> QED BY <1>1, <1>2, <1>3, <1>4, <1>5, <1>6, <1>7

-----------------------------------------------------------------------------
(* What a reference stands for, one after the other *)

Single(ref) == ref.prop \notin Special \/ ref.index # All

Count(type, ref) == IF Single(ref) THEN 1 ELSE PropertyCount(type, ref.prop)

\* The property read at place k, and those before it.
Nth(type, ref, k) ==
  IF Single(ref) THEN <<ref.prop, ref.index>>
  ELSE <<ObjectProperty(type, ref.prop, k), All>>
Before(type, ref, k) == {Nth(type, ref, j) : j \in 0 .. k - 1}

\* Each property of a list has its place, and none has two.
Enumerated(type, ref) ==
  /\ Count(type, ref) \in Nat
  /\ Before(type, ref, Count(type, ref)) = Meant(type, ref)
  /\ \A j, k \in 0 .. Count(type, ref) - 1 :
       Nth(type, ref, j) = Nth(type, ref, k) => j = k
  /\ Single(ref) \/ \A k \in 0 .. Count(type, ref) - 1 :
                      ObjectProperty(type, ref.prop, k) \notin Special

\* The places of a list: it names the properties of S, each once.
Places(type, special, S) ==
  LET count == PropertyCount(type, special)
  IN /\ count \in Nat
     /\ \A j, k \in 0 .. count - 1 :
          ObjectProperty(type, special, j) = ObjectProperty(type, special, k)
            => j = k
     /\ \A k \in 0 .. count - 1 : ObjectProperty(type, special, k) \in S
     /\ \A p \in S : \E k \in 0 .. count - 1 :
          ObjectProperty(type, special, k) = p

LEMMA PlacesOfOne ==
  ASSUME NEW type, NEW special, NEW s, NEW n, NEW S, Spells(s, n, S),
         PropertyCount(type, special) = n,
         \A k \in 0 .. n - 1 : ObjectProperty(type, special, k) = s[k + 1]
  PROVE  Places(type, special, S)
<1>1. n \in Nat BY DEF Spells
<1>2. \A k \in 0 .. n - 1 : k + 1 \in 1 .. n BY <1>1
<1>3. ASSUME NEW j \in 0 .. n - 1, NEW k \in 0 .. n - 1, s[j + 1] = s[k + 1]
      PROVE  j = k
  <2>1. j + 1 = k + 1 BY <1>2, <1>3 DEF Spells
  <2> QED BY <1>1, <2>1
<1>4. \A k \in 0 .. n - 1 : s[k + 1] \in S BY <1>2 DEF Spells
<1>5. ASSUME NEW p \in S PROVE \E k \in 0 .. n - 1 : s[k + 1] = p
  <2>1. PICK i \in 1 .. n : s[i] = p BY DEF Spells
  <2>2. i - 1 \in 0 .. n - 1 /\ (i - 1) + 1 = i BY <1>1
  <2> QED BY <2>1, <2>2
<1> QED BY <1>1, <1>3, <1>4, <1>5 DEF Places

LEMMA PlacesOfList ==
  ASSUME NEW type, NEW special \in Special, Lists(type).required # <<>>
  PROVE  Places(type, special,
           CASE special = "ALL" -> Handled(type)
             [] special = "REQUIRED" -> ToSet(Required(type))
             [] OTHER -> Handled(type) \ ToSet(Required(type)))
<1> PICK required : required = Required(type) OBVIOUS
<1> PICK optional : optional = Optional(type) OBVIOUS
<1> PICK handled : handled = Handled(type) OBVIOUS
<1>1. Lists(type).required = required /\ Lists(type).optional = optional
  BY DEF Lists
<1>2. Spelled(required, optional, handled) BY TablesSpell
<1>3. PICK n \in Nat \ {0} : Spells(required, n, ToSet(required))
  BY <1>2 DEF Spelled
<1>4. PICK m \in Nat : Spells(optional, m, handled \ ToSet(required))
  BY <1>2 DEF Spelled
<1>5. PICK S : S = ToSet(required) /\ S \subseteq handled BY <1>2 DEF Spelled
<1>6. Len(required) = n /\ Len(optional) = m BY <1>3, <1>4 DEF Spells
<1>7. CASE special = "REQUIRED"
  <2>1. PropertyCount(type, special) = n
    BY <1>1, <1>6, <1>7 DEF PropertyCount
  <2>2. \A k \in 0 .. n - 1 : ObjectProperty(type, special, k) = required[k + 1]
    BY <1>1, <1>6, <1>7 DEF ObjectProperty
  <2>3. Places(type, special, S) BY <1>3, <1>5, <2>1, <2>2, PlacesOfOne
  <2> QED BY <1>5, <1>7, <2>3
<1>8. CASE special = "OPTIONAL"
  <2>1. PropertyCount(type, special) = m
    BY <1>1, <1>6, <1>8 DEF PropertyCount
  <2>2. \A k \in 0 .. m - 1 : ObjectProperty(type, special, k) = optional[k + 1]
    BY <1>1, <1>6, <1>8 DEF ObjectProperty
  <2>3. Places(type, special, handled \ S)
    BY <1>4, <1>5, <2>1, <2>2, PlacesOfOne
  <2> QED BY <1>5, <1>8, <2>3
<1>9. CASE special = "ALL"
  <2>1. PropertyCount(type, special) = n + m
    BY <1>1, <1>6, <1>9 DEF PropertyCount
  <2>2. /\ \A k \in 0 .. n - 1 :
             ObjectProperty(type, special, k) = required[k + 1]
        /\ \A k \in n .. n + m - 1 :
             ObjectProperty(type, special, k) = optional[k - n + 1]
    BY <1>1, <1>6, <1>9 DEF ObjectProperty
  <2>3. /\ \A k \in 0 .. n - 1 : k + 1 \in 1 .. n
        /\ \A k \in n .. n + m - 1 : k - n + 1 \in 1 .. m
        /\ \A k \in 0 .. n + m - 1 : k \in 0 .. n - 1 \/ k \in n .. n + m - 1
        /\ \A i \in 1 .. n : i - 1 \in 0 .. n - 1 /\ (i - 1) + 1 = i
        /\ \A i \in 1 .. m : n + i - 1 \in n .. n + m - 1
                             /\ (n + i - 1) - n + 1 = i
    BY ONLY n \in Nat \ {0}, m \in Nat
  <2>4. /\ \A k \in 0 .. n - 1 : ObjectProperty(type, special, k) \in S
        /\ \A k \in n .. n + m - 1 :
             ObjectProperty(type, special, k) \in handled \ S
    BY <1>3, <1>4, <1>5, <2>2, <2>3 DEF Spells
  <2>5. ASSUME NEW j \in 0 .. n + m - 1, NEW k \in 0 .. n + m - 1,
               ObjectProperty(type, special, j)
                 = ObjectProperty(type, special, k)
        PROVE  j = k
    <3>1. CASE j \in 0 .. n - 1
      <4>1. k \in 0 .. n - 1 BY <2>3, <2>4, <2>5, <3>1
      <4>2. required[j + 1] = required[k + 1] BY <2>2, <2>5, <3>1, <4>1
      <4>3. j + 1 = k + 1 BY <1>3, <2>3, <3>1, <4>1, <4>2 DEF Spells
      <4> QED BY <3>1, <4>1, <4>3
    <3>2. CASE j \in n .. n + m - 1
      <4>1. k \in n .. n + m - 1 BY <2>3, <2>4, <2>5, <3>2
      <4>2. optional[j - n + 1] = optional[k - n + 1]
        BY <2>2, <2>5, <3>2, <4>1
      <4>3. j - n + 1 = k - n + 1 BY <1>4, <2>3, <3>2, <4>1, <4>2 DEF Spells
      <4> QED BY <3>2, <4>1, <4>3
    <3> QED BY <2>3, <3>1, <3>2
  <2>6. ASSUME NEW p \in handled
        PROVE  \E k \in 0 .. n + m - 1 : ObjectProperty(type, special, k) = p
    <3>1. CASE p \in S
      <4>1. PICK i \in 1 .. n : required[i] = p BY <1>3, <1>5, <3>1 DEF Spells
      <4>2. i - 1 \in 0 .. n - 1 /\ (i - 1) + 1 = i BY <2>3
      <4>3. ObjectProperty(type, special, i - 1) = p BY <2>2, <4>1, <4>2
      <4> QED BY <4>2, <4>3
    <3>2. CASE p \notin S
      <4>1. PICK i \in 1 .. m : optional[i] = p
        BY <1>4, <1>5, <2>6, <3>2 DEF Spells
      <4>2. n + i - 1 \in n .. n + m - 1 /\ (n + i - 1) - n + 1 = i BY <2>3
      <4>3. ObjectProperty(type, special, n + i - 1) = p BY <2>2, <4>1, <4>2
      <4> QED BY <4>2, <4>3
    <3> QED BY <3>1, <3>2
  <2>7. Places(type, special, handled)
    BY <1>5, <2>1, <2>3, <2>4, <2>5, <2>6 DEF Places
  <2> QED BY <1>9, <2>7
<1> QED BY <1>7, <1>8, <1>9 DEF Special

LEMMA ReferenceEnumerated ==
  ASSUME NEW type, NEW ref
  PROVE  Enumerated(type, ref)
<1>1. CASE Single(ref)
  <2>1. Count(type, ref) = 1 /\ Meant(type, ref) = {<<ref.prop, ref.index>>}
    BY <1>1 DEF Count, Single, Meant
  <2>2. \A k : Nth(type, ref, k) = <<ref.prop, ref.index>>
    BY <1>1 DEF Nth
  <2>3. 0 .. 1 - 1 = {0} OBVIOUS
  <2> QED BY <1>1, <2>1, <2>2, <2>3 DEF Enumerated, Before
<1>2. CASE ~ Single(ref) /\ Lists(type).required = <<>>
  <2>1. Lists(type).optional = <<>>
    <3>1. Required(type) # <<>>
      <4>1. PICK n \in Nat \ {0} : Spells(Required(type), n, ToSet(Required(type)))
        BY TablesSpell DEF Spelled
      <4>2. Len(Required(type)) = n /\ n # 0 BY <4>1 DEF Spells
      <4> QED BY <4>2
    <3> QED BY <1>2, <3>1 DEF Lists
  <2>2. PropertyCount(type, ref.prop) = 0 BY <1>2, <2>1 DEF PropertyCount
  <2>3. Count(type, ref) = 0 /\ Meant(type, ref) = {}
    BY <1>2, <2>2 DEF Count, Single, Meant
  <2>4. 0 .. 0 - 1 = {} OBVIOUS
  <2> QED BY <2>3, <2>4 DEF Enumerated, Before
<1>3. CASE ~ Single(ref) /\ Lists(type).required # <<>>
  <2> PICK special \in Special : special = ref.prop BY <1>3 DEF Single
  <2> PICK S : S = CASE special = "ALL" -> Handled(type)
                     [] special = "REQUIRED" -> ToSet(Required(type))
                     [] OTHER -> Handled(type) \ ToSet(Required(type))
    OBVIOUS
  <2>1. Places(type, special, S) BY <1>3, PlacesOfList, Zenon
  <2>2. Meant(type, ref) = S \X {All}
    BY <1>3 DEF Meant, Single, Special
  <2>3. Count(type, ref) = PropertyCount(type, special)
    BY <1>3 DEF Count
  <2> PICK count \in Nat : count = PropertyCount(type, special)
    BY <2>1 DEF Places
  <2>4. \A k : Nth(type, ref, k) = <<ObjectProperty(type, special, k), All>>
    BY <1>3 DEF Nth
  <2>5. Before(type, ref, count) = Meant(type, ref)
    BY <2>1, <2>2, <2>4 DEF Before, Places
  <2>6. S \cap Special = {}
    <3>1. Spelled(Required(type), Optional(type), Handled(type)) BY TablesSpell
    <3>2. S \subseteq Handled(type) BY <3>1 DEF Spelled, Special
    <3> QED BY <3>1, <3>2 DEF Spelled
  <2>7. \A k \in 0 .. count - 1 : ObjectProperty(type, special, k) \notin Special
    BY <2>1, <2>6 DEF Places
  <2>8. \A j, k \in 0 .. count - 1 : Nth(type, ref, j) = Nth(type, ref, k) => j = k
    BY <2>1, <2>4 DEF Places
  <2> QED BY <2>3, <2>5, <2>7, <2>8 DEF Enumerated
<1> QED BY <1>1, <1>2, <1>3

-----------------------------------------------------------------------------
(* How often a property is among the results *)

LEMMA AppendedElements ==
  ASSUME NEW s, IsSequence(s), NEW e
  PROVE  /\ IsSequence(Append(s, e)) /\ Len(s) \in Nat
         /\ DOMAIN s = 1 .. Len(s)
         /\ DOMAIN Append(s, e) = 1 .. Len(s) + 1
         /\ Append(s, e)[Len(s) + 1] = e
         /\ \A i \in 1 .. Len(s) : Append(s, e)[i] = s[i]
<1> PICK n \in Nat : n = Len(s) /\ s = [i \in 1 .. n |-> s[i]]
  BY DEF IsSequence
<1> PICK S : S = {s[i] : i \in 1 .. n} \cup {e} OBVIOUS
<1>1. e \in S /\ \A i \in 1 .. n : s[i] \in S BY Zenon
<1>2. s \in Seq(S)
  <2>1. s = [i \in 1 .. n |-> s[i]] OBVIOUS
  <2>2. \A i \in 1 .. n : s[i] \in S BY <1>1
  <2> QED BY ONLY <2>1, <2>2, n \in Nat, TypedSequence
<1>3. /\ Append(s, e) \in Seq(S) /\ Len(Append(s, e)) = n + 1
      /\ \A i \in 1 .. n : Append(s, e)[i] = s[i]
      /\ Append(s, e)[n + 1] = e
  BY <1>1, <1>2, AppendProperties
<1>4. DOMAIN Append(s, e) = 1 .. n + 1 BY <1>3
<1> QED BY <1>2, <1>3, <1>4, ElementsSequence

LEMMA SmallNumbers ==
  ASSUME NEW n \in Nat, NEW S, S \subseteq 1 .. n
  PROVE  IsFiniteSet(S) /\ Cardinality(S) \in Nat
<1>1. IsFiniteSet(1 .. n) BY FS_Interval
<1>2. IsFiniteSet(S) BY <1>1, FS_Subset
<1> QED BY <1>2, FS_CardinalityType

LEMMA OneMoreTime ==
  ASSUME NEW list, IsSequence(list), NEW e, NEW p
  PROVE  /\ Times(list, p) \in Nat
         /\ Times(Append(list, e), p)
              = Times(list, p) + (IF Pair(e) = p THEN 1 ELSE 0)
<1> PICK n \in Nat : n = Len(list) BY DEF IsSequence
<1> PICK longer : longer = Append(list, e) OBVIOUS
<1>1. /\ DOMAIN list = 1 .. n /\ DOMAIN longer = 1 .. n + 1
      /\ longer[n + 1] = e /\ \A i \in 1 .. n : longer[i] = list[i]
  BY AppendedElements
<1> DEFINE S == {i \in DOMAIN list : Pair(list[i]) = p}
           T == {i \in DOMAIN longer : Pair(longer[i]) = p}
<1>2. S \subseteq 1 .. n /\ n + 1 \notin S BY <1>1
<1>3. T = IF Pair(e) = p THEN S \cup {n + 1} ELSE S
  <2>1. ASSUME NEW i PROVE i \in T <=> i \in S \/ (Pair(e) = p /\ i = n + 1)
    <3>1. CASE i \in 1 .. n BY <1>1, <3>1
    <3>2. CASE i = n + 1 BY <1>1, <1>2, <3>2
    <3>3. CASE i \notin 1 .. n + 1 BY <1>1, <1>2, <3>3
    <3> QED BY <3>1, <3>2, <3>3
  <2> HIDE DEF S, T
  <2>2. CASE Pair(e) = p BY <2>1, <2>2
  <2>3. CASE Pair(e) # p BY <2>1, <2>3
  <2> QED BY <2>2, <2>3
<1>4. Times(list, p) = Cardinality(S) /\ Times(longer, p) = Cardinality(T)
  BY DEF Times
<1> HIDE DEF S, T
<1>5. IsFiniteSet(S) /\ Cardinality(S) \in Nat BY <1>2, SmallNumbers
<1>6. Cardinality(S \cup {n + 1}) = Cardinality(S) + 1
  BY <1>2, <1>5, FS_AddElement
<1> QED BY <1>3, <1>4, <1>5, <1>6

\* The references up to r of which p has been read, k properties of r itself.
Reached(asked, r, k, p) ==
  {q \in 1 .. r :
     p \in IF q < r THEN Meant(asked.type, asked.refs[q])
                    ELSE Before(asked.type, asked.refs[q], k)}

Counted(asked, list, r, k) ==
  \A p : Times(list, p) = Cardinality(Reached(asked, r, k, p))

LEMMA BeforeGrows ==
  ASSUME NEW type, NEW ref, NEW k \in Nat
  PROVE  /\ Before(type, ref, 0) = {}
         /\ Before(type, ref, k + 1)
              = Before(type, ref, k) \cup {Nth(type, ref, k)}
<1>1. 0 .. 0 - 1 = {} /\ 0 .. (k + 1) - 1 = (0 .. k - 1) \cup {k} OBVIOUS
<1> QED BY <1>1 DEF Before

LEMMA OneMoreReached ==
  ASSUME NEW asked, NEW r \in Nat \ {0}, NEW k \in Nat,
         k < Count(asked.type, asked.refs[r]), NEW p
  PROVE  /\ Cardinality(Reached(asked, r, k, p)) \in Nat
         /\ Cardinality(Reached(asked, r, k + 1, p))
              = Cardinality(Reached(asked, r, k, p))
                  + (IF Nth(asked.type, asked.refs[r], k) = p THEN 1 ELSE 0)
<1> PICK ref : ref = asked.refs[r] OBVIOUS
<1> PICK e : e = Nth(asked.type, ref, k) OBVIOUS
<1> DEFINE S == Reached(asked, r, k, p)
           T == Reached(asked, r, k + 1, p)
<1>1. Before(asked.type, ref, k + 1) = Before(asked.type, ref, k) \cup {e}
  BY BeforeGrows
<1>2. e \notin Before(asked.type, ref, k)
  <2>1. \A j \in 0 .. k - 1 : Nth(asked.type, ref, j) # e
    <3>1. /\ Count(asked.type, ref) \in Nat
          /\ \A i, j \in 0 .. Count(asked.type, ref) - 1 :
               Nth(asked.type, ref, i) = Nth(asked.type, ref, j) => i = j
      BY ReferenceEnumerated DEF Enumerated
    <3>2. \A j \in 0 .. k - 1 : j \in 0 .. Count(asked.type, ref) - 1 /\ j # k
      BY <3>1
    <3>3. k \in 0 .. Count(asked.type, ref) - 1 BY <3>1
    <3> QED BY <3>1, <3>2, <3>3
  <2> QED BY <2>1 DEF Before
<1>3. S \subseteq 1 .. r /\ T \subseteq 1 .. r BY DEF Reached
<1>4. \A q \in 1 .. r : q # r => (q \in T <=> q \in S)
  BY DEF Reached
<1>5. /\ r \in T <=> p \in Before(asked.type, ref, k) \/ p = e
      /\ r \in S <=> p \in Before(asked.type, ref, k)
  BY <1>1 DEF Reached
<1>6. T = IF e = p THEN S \cup {r} ELSE S
  <2> HIDE DEF S, T
  <2>1. CASE e = p
    <3>1. r \in T /\ r \in 1 .. r BY <1>5, <2>1
    <3>2. T = S \cup {r} BY <1>3, <1>4, <3>1
    <3> QED BY <2>1, <3>2
  <2>2. CASE e # p
    <3>1. r \in T <=> r \in S BY <1>5, <2>2
    <3>2. \A q : q \in T <=> q \in S BY <1>3, <1>4, <3>1
    <3>3. T = S BY <3>2
    <3> QED BY <2>2, <3>3
  <2> QED BY <2>1, <2>2
<1>7. e = p => r \notin S BY <1>2, <1>5
<1>8. IsFiniteSet(S) /\ Cardinality(S) \in Nat BY <1>3, SmallNumbers
<1> HIDE DEF S, T
<1>9. e = p => Cardinality(S \cup {r}) = Cardinality(S) + 1
  BY <1>7, <1>8, FS_AddElement
<1>10. /\ Cardinality(S) \in Nat
       /\ Cardinality(T) = Cardinality(S) + (IF e = p THEN 1 ELSE 0)
  BY <1>6, <1>8, <1>9
<1> QED BY <1>10 DEF S, T

LEMMA NoneCounted ==
  ASSUME NEW asked
  PROVE  Counted(asked, <<>>, 1, 0)
<1>1. ASSUME NEW p PROVE Times(<<>>, p) = Cardinality(Reached(asked, 1, 0, p))
  <2>1. Reached(asked, 1, 0, p) = {} BY BeforeGrows DEF Reached
  <2>2. {i \in DOMAIN <<>> : Pair(<<>>[i]) = p} = {} OBVIOUS
  <2> QED BY <2>1, <2>2 DEF Times
<1> QED BY <1>1 DEF Counted

LEMMA ResultCounted ==
  ASSUME NEW asked, NEW list, IsSequence(list), NEW r \in Nat \ {0},
         NEW k \in Nat, k < Count(asked.type, asked.refs[r]),
         Counted(asked, list, r, k),
         NEW e, Pair(e) = Nth(asked.type, asked.refs[r], k)
  PROVE  Counted(asked, Append(list, e), r, k + 1)
<1>1. ASSUME NEW p
      PROVE  Times(Append(list, e), p) = Cardinality(Reached(asked, r, k + 1, p))
  <2>1. Times(list, p) = Cardinality(Reached(asked, r, k, p)) BY DEF Counted
  <2>2. Times(Append(list, e), p)
          = Times(list, p) + (IF Pair(e) = p THEN 1 ELSE 0)
    BY OneMoreTime
  <2>3. Cardinality(Reached(asked, r, k + 1, p))
          = Cardinality(Reached(asked, r, k, p))
              + (IF Nth(asked.type, asked.refs[r], k) = p THEN 1 ELSE 0)
    BY OneMoreReached
  <2> QED BY <2>1, <2>2, <2>3
<1> QED BY <1>1 DEF Counted

\* The references up to r that stand for p.
Meaning(asked, r, p) == {q \in 1 .. r : p \in Meant(asked.type, asked.refs[q])}

\* A reference is over when all it stands for has been read.
LEMMA ReferenceOver ==
  ASSUME NEW asked, NEW list, NEW r \in Nat \ {0},
         Counted(asked, list, r, Count(asked.type, asked.refs[r]))
  PROVE  /\ Counted(asked, list, r + 1, 0)
         /\ \A p : Times(list, p) = Cardinality(Meaning(asked, r, p))
<1> PICK count : count = Count(asked.type, asked.refs[r]) OBVIOUS
<1>1. Before(asked.type, asked.refs[r], count) = Meant(asked.type, asked.refs[r])
  BY ReferenceEnumerated DEF Enumerated
<1>2. ASSUME NEW p
      PROVE  Reached(asked, r, count, p) = Meaning(asked, r, p)
  <2>1. \A q \in 1 .. r : q < r \/ q = r OBVIOUS
  <2> QED BY <1>1, <2>1 DEF Reached, Meaning
<1>3. ASSUME NEW p
      PROVE  Reached(asked, r + 1, 0, p) = Meaning(asked, r, p)
  <2>1. /\ \A q \in 1 .. r : q \in 1 .. r + 1 /\ q < r + 1
        /\ \A q \in 1 .. r + 1 : q \in 1 .. r \/ (q = r + 1 /\ ~ (q < r + 1))
    OBVIOUS
  <2>2. \A q : p \notin Before(asked.type, asked.refs[q], 0) BY BeforeGrows
  <2> QED BY <2>1, <2>2 DEF Reached, Meaning
<1> QED BY <1>2, <1>3 DEF Counted

LEMMA LastReference ==
  ASSUME NEW asked, NEW list, NEW r \in Nat \ {0}, DOMAIN asked.refs = 1 .. r,
         Counted(asked, list, r, Count(asked.type, asked.refs[r]))
  PROVE  Complete(asked, list)
<1>1. \A p : Times(list, p) = Cardinality(Meaning(asked, r, p))
  BY ReferenceOver
<1>2. \A p : Meaning(asked, r, p)
              = {q \in DOMAIN asked.refs : p \in Meant(asked.type, asked.refs[q])}
  BY DEF Meaning
<1>3. \A p : Times(list, p) = Wanted(asked, p) BY <1>1, <1>2, Zenon DEF Wanted
<1> QED BY <1>3, Zenon DEF Complete

-----------------------------------------------------------------------------
(* The results of the objects *)

\* The result of an object bears its type and the identifier it was found by,
\* and says of each property what ReadProperty says.
Honest(asked, got) ==
  /\ got = [type |-> asked.type, id |-> Asked(asked.type, asked.id),
            list |-> got.list]
  /\ IsSequence(got.list)
  /\ Agrees(asked, got.list)

\* An object is being read, at place k of its reference r.
Under(asked, list, r, k) ==
  /\ r \in DOMAIN asked.refs /\ k \in Nat
  /\ k = 0 \/ k < Count(asked.type, asked.refs[r])
  /\ Counted(asked, list, r, k)

\* The objects before it have all their results.
Finished == IF stage \in {"close", "end"} THEN at[1] ELSE at[1] - 1

ObjectInv(o, asked, got) ==
  /\ o \in 1 .. Begun => Honest(asked, got)
  /\ o \in 1 .. Finished => Complete(asked, got.list)
  /\ stage = "property" /\ o = at[1] =>
       \E r, k : at[2] = r /\ at[3] = k /\ Under(asked, got.list, r, k)

ResultsInv ==
  stage # "idle" =>
    /\ \A o, asked, got : asked = request[o] /\ got = results[o]
                            => ObjectInv(o, asked, got)
    /\ stage = "end" => at[1] = Len(request)

LEMMA ObjectReferences ==
  ASSUME NEW requested \in Requests, NEW o \in DOMAIN requested
  PROVE  \E n \in Nat \ {0} : /\ Len(requested[o].refs) = n
                              /\ DOMAIN requested[o].refs = 1 .. n
<1> PICK refs : refs = requested[o].refs OBVIOUS
<1>1. refs \in Seq(ToSet(refs)) /\ refs # <<>>
  BY ServicesAssumption DEF ServicesAssumption
<1>2. Len(refs) \in Nat \ {0} /\ DOMAIN refs = 1 .. Len(refs) BY <1>1
<1> QED BY <1>2

LEMMA SameMeaning ==
  ASSUME UNCHANGED objectVars, NEW type, NEW ref
  PROVE  /\ Count(type, ref)' = Count(type, ref)
         /\ \A k : Before(type, ref, k)' = Before(type, ref, k)
         /\ Meant(type, ref)' = Meant(type, ref)
<1>1. Lists(type)' = Lists(type) BY SameObjects
<1>2. \A special : PropertyCount(type, special)' = PropertyCount(type, special)
  BY <1>1 DEF PropertyCount
<1>3. \A special, k : ObjectProperty(type, special, k)'
                        = ObjectProperty(type, special, k)
  BY <1>1, <1>2 DEF ObjectProperty
<1>4. Count(type, ref)' = Count(type, ref) BY <1>2 DEF Count
<1>5. \A k : Nth(type, ref, k)' = Nth(type, ref, k) BY <1>3 DEF Nth
<1>6. Meant(type, ref)' = Meant(type, ref) BY <1>1, Zenon DEF Meant
<1> QED BY <1>4, <1>5, <1>6 DEF Before

LEMMA SameUnder ==
  ASSUME UNCHANGED objectVars, NEW asked, NEW list, NEW r, NEW k
  PROVE  Under(asked, list, r, k)' <=> Under(asked, list, r, k)
<1>1. \A q : /\ Count(asked.type, asked.refs[q])' = Count(asked.type, asked.refs[q])
             /\ Before(asked.type, asked.refs[q], k)'
                  = Before(asked.type, asked.refs[q], k)
             /\ Meant(asked.type, asked.refs[q])' = Meant(asked.type, asked.refs[q])
  BY SameMeaning
<1>2. \A p : Reached(asked, r, k, p)' = Reached(asked, r, k, p)
  BY <1>1 DEF Reached
<1>3. Counted(asked, list, r, k)' <=> Counted(asked, list, r, k)
  BY <1>2 DEF Counted
<1> QED BY <1>1, <1>3 DEF Under

LEMMA SameComplete ==
  ASSUME UNCHANGED objectVars, NEW asked, NEW list
  PROVE  Complete(asked, list)' <=> Complete(asked, list)
<1>1. \A q : Meant(asked.type, asked.refs[q])' = Meant(asked.type, asked.refs[q])
  BY SameMeaning
<1>2. \A p : Wanted(asked, p)' = Wanted(asked, p) BY <1>1 DEF Wanted
<1> QED BY <1>1, <1>2 DEF Complete

LEMMA SameSingle ==
  ASSUME UNCHANGED objectVars, NEW asked, NEW prop, NEW index
  PROVE  SingleRead(asked, prop, index)' = SingleRead(asked, prop, index)
<1> PICK id : id = Asked(asked.type, asked.id) OBVIOUS
<1>1. id = Asked(asked.type, asked.id)' BY SameObjects
<1>2. ReadProperty(asked.type, id, prop, index)'
        = ReadProperty(asked.type, id, prop, index)
  BY SameRead
<1> QED BY <1>1, <1>2, Zenon DEF SingleRead

LEMMA SameHonest ==
  ASSUME UNCHANGED objectVars, NEW asked, NEW got
  PROVE  Honest(asked, got)' <=> Honest(asked, got)
<1>1. Asked(asked.type, asked.id)' = Asked(asked.type, asked.id) BY SameObjects
<1>2. Agrees(asked, got.list)' <=> Agrees(asked, got.list)
  BY SameSingle DEF Agrees
<1> QED BY <1>1, <1>2 DEF Honest

\* After a result, or an empty list, either something is left to be read or the
\* results of the object are complete.
LEMMA OnwardReaches ==
  ASSUME at \in Nat \X Nat \X Nat, stage = "property",
         NEW asked, asked = request[at[1]], NEW list,
         NEW n \in Nat \ {0}, Len(asked.refs) = n, DOMAIN asked.refs = 1 .. n,
         NEW r \in 1 .. n, at[2] = r, NEW k \in Nat, at[3] = k,
         NEW count \in Nat, count = Count(asked.type, asked.refs[r]),
         k = 0 \/ k < count,
         Counted(asked, list, r, IF count = 0 THEN 0 ELSE k + 1),
         Onward(count)
  PROVE  \/ /\ stage' = "property"
            /\ \E q, j : at'[2] = q /\ at'[3] = j /\ Under(asked, list, q, j)
         \/ stage' = "close" /\ Complete(asked, list)
<1>1. CASE k + 1 < count
  <2>1. at' = [at EXCEPT ![3] = @ + 1] /\ stage' = stage
    BY <1>1, Zenon DEF Onward
  <2>2. at'[2] = r /\ at'[3] = k + 1 BY <2>1
  <2>3. Under(asked, list, r, k + 1) BY <1>1 DEF Under
  <2> QED BY <2>1, <2>2, <2>3
<1>2. CASE ~ (k + 1 < count)
  <2>1. Counted(asked, list, r, count)
    <3>1. CASE count = 0 BY <3>1
    <3>2. CASE count # 0
      <4>1. k + 1 = count BY <1>2, <3>2
      <4> QED BY <3>2, <4>1
    <3> QED BY <3>1, <3>2
  <2>2. CASE r < n
    <3>1. at' = <<at[1], r + 1, 0>> /\ stage' = stage
      BY <1>2, <2>2, Zenon DEF Onward, Object
    <3>2. at'[2] = r + 1 /\ at'[3] = 0 BY <3>1
    <3>3. Counted(asked, list, r + 1, 0) BY <2>1, ReferenceOver
    <3>4. Under(asked, list, r + 1, 0) BY <2>2, <3>3 DEF Under
    <3> QED BY <3>1, <3>2, <3>4
  <2>3. CASE ~ (r < n)
    <3>1. stage' = "close" BY <1>2, <2>3, Zenon DEF Onward, Object
    <3>2. r = n BY <2>3
    <3>3. Complete(asked, list) BY <2>1, <3>2, LastReference
    <3> QED BY <3>1, <3>3
  <2> QED BY <2>2, <2>3
<1> QED BY <1>1, <1>2

LEMMA KeptObject ==
  ASSUME UNCHANGED objectVars, NEW o, NEW asked, NEW got,
         ObjectInv(o, asked, got),
         o \in 1 .. Begun' => o \in 1 .. Begun,
         o \in 1 .. Finished' => o \in 1 .. Finished,
         ~ (stage' = "property" /\ o = at'[1])
  PROVE  ObjectInv(o, asked, got)'
<1>1. Honest(asked, got)' <=> Honest(asked, got) BY SameHonest
<1>2. Complete(asked, got.list)' <=> Complete(asked, got.list) BY SameComplete
<1> QED BY <1>1, <1>2, Zenon DEF ObjectInv

LEMMA FinishResults ==
  ASSUME NEW pdu, Finish(pdu)
  PROVE  ResultsInv'
BY DEF Finish, ResultsInv

LEMMA ListChanged ==
  ASSUME NEW type, NEW id, NEW l, NEW m, NEW got,
         got = [type |-> type, id |-> id, list |-> l]
  PROVE  [got EXCEPT !.list = m] = [type |-> type, id |-> id, list |-> m]
OBVIOUS

LEMMA PlaceChanged ==
  ASSUME NEW s, NEW n \in Nat, s = [i \in 1 .. n |-> s[i]], NEW o \in 1 .. n,
         NEW e
  PROVE  /\ [s EXCEPT ![o] = e][o] = e
         /\ \A i \in 1 .. n : i # o => [s EXCEPT ![o] = e][i] = s[i]
<1> PICK T : T = {s[i] : i \in 1 .. n} OBVIOUS
<1>1. s \in [1 .. n -> T] OBVIOUS
<1> QED BY ONLY <1>1, o \in 1 .. n

\* Where a request that is being read stands.
LEMMA PlaceFacts ==
  ASSUME CourseInv, ResultsInv, stage = "property"
  PROVE  \E o, asked, got, r, k :
           /\ o \in Nat \ {0} /\ o = at[1] /\ asked = request[o] /\ got = results[o]
           /\ r = at[2] /\ k = at[3]
           /\ Begun = o /\ Finished = o - 1
           /\ o \in DOMAIN request /\ request \in Requests
           /\ IsSequence(results) /\ Len(results) = o
           /\ Honest(asked, got) /\ Under(asked, got.list, r, k)
<1>1. at \in Nat \X Nat \X Nat /\ request \in Requests /\ at[1] \in DOMAIN request
      /\ IsSequence(results) /\ Len(results) = at[1]
      /\ Begun = at[1] /\ Finished = at[1] - 1
  BY DEF CourseInv, Begun, Finished
<1>2. DOMAIN request = 1 .. Len(request) /\ Len(request) \in Nat
  BY <1>1, RequestFacts
<1> PICK o \in Nat \ {0} : o = at[1] BY <1>1, <1>2
<1> PICK asked : asked = request[o] OBVIOUS
<1> PICK got : got = results[o] OBVIOUS
<1>3. ObjectInv(o, asked, got) BY DEF ResultsInv
<1>4. Honest(asked, got) BY <1>1, <1>3 DEF ObjectInv
<1>5. PICK r, k : at[2] = r /\ at[3] = k /\ Under(asked, got.list, r, k)
  BY <1>3 DEF ObjectInv
<1> QED BY <1>1, <1>4, <1>5

LEMMA AgreesWithOneMore ==
  ASSUME NEW asked, NEW list, IsSequence(list), Agrees(asked, list), NEW entry,
         entry.result = SingleRead(asked, entry.prop, entry.index)
  PROVE  Agrees(asked, Append(list, entry)) /\ IsSequence(Append(list, entry))
<1> PICK n : n = Len(list) OBVIOUS
<1> PICK longer : longer = Append(list, entry) OBVIOUS
<1>1. /\ IsSequence(longer) /\ n \in Nat /\ DOMAIN list = 1 .. n
      /\ DOMAIN longer = 1 .. n + 1 /\ longer[n + 1] = entry
      /\ \A i \in 1 .. n : longer[i] = list[i]
  BY AppendedElements
<1>2. ASSUME NEW i \in DOMAIN longer
      PROVE  longer[i].result = SingleRead(asked, longer[i].prop, longer[i].index)
  <2>1. CASE i \in 1 .. n BY <1>1, <2>1 DEF Agrees
  <2>2. CASE i = n + 1 BY <1>1, <2>2
  <2>3. i \in 1 .. n \/ i = n + 1 BY <1>1
  <2> QED BY <2>1, <2>2, <2>3
<1> QED BY <1>1, <1>2 DEF Agrees

\* A property's result joins those of its object.
LEMMA ResultJoins ==
  ASSUME CourseInv, ResultsInv, stage = "property",
         NEW prop, NEW index, NEW result, NEW octets, NEW count,
         Encoded(prop, index, result, octets), Onward(count),
         UNCHANGED <<objectVars, request, answer>>,
         count = Count(Object.type, Property), at[3] < count,
         <<prop, index>> = Nth(Object.type, Property, at[3]),
         result = SingleRead(Object, prop, index)
  PROVE  ResultsInv'
<1> PICK o, asked, got, r, k :
           /\ o \in Nat \ {0} /\ o = at[1] /\ asked = request[o] /\ got = results[o]
           /\ r = at[2] /\ k = at[3]
           /\ Begun = o /\ Finished = o - 1
           /\ o \in DOMAIN request /\ request \in Requests
           /\ IsSequence(results) /\ Len(results) = o
           /\ Honest(asked, got) /\ Under(asked, got.list, r, k)
  BY PlaceFacts
<1>1. UNCHANGED objectVars /\ request' = request OBVIOUS
<1>2. PICK n \in Nat \ {0} : Len(asked.refs) = n /\ DOMAIN asked.refs = 1 .. n
  BY ObjectReferences
<1>3. Object = asked /\ Property = asked.refs[r] BY DEF Object, Property
<1>4. count = Count(asked.type, asked.refs[r]) /\ count \in Nat
      /\ r \in 1 .. n /\ k \in Nat /\ k < count
  BY <1>2, <1>3, ReferenceEnumerated DEF Enumerated, Under
<1> PICK entry : entry = [prop |-> prop, index |-> index, result |-> result]
  OBVIOUS
<1> PICK list : list = Append(got.list, entry) OBVIOUS
<1> PICK new : new = [type |-> got.type, id |-> got.id, list |-> list] OBVIOUS
<1>5. IsSequence(got.list) /\ Agrees(asked, got.list)
      /\ got = [type |-> asked.type, id |-> Asked(asked.type, asked.id),
                list |-> got.list]
  BY DEF Honest
<1>6. new = [got EXCEPT !.list = list] /\ new.list = list
      /\ new = [type |-> asked.type, id |-> Asked(asked.type, asked.id),
                list |-> list]
  <2> PICK id : id = Asked(asked.type, asked.id) OBVIOUS
  <2> PICK l : l = got.list OBVIOUS
  <2>1. got = [type |-> asked.type, id |-> id, list |-> l] BY <1>5
  <2>2. got.type = asked.type /\ got.id = id BY ONLY <2>1
  <2>3. [got EXCEPT !.list = list]
          = [type |-> asked.type, id |-> id, list |-> list]
    BY ONLY <2>1, ListChanged
  <2>4. new = [type |-> asked.type, id |-> id, list |-> list] BY <2>2
  <2> QED BY <2>3, <2>4
<1>7. results' = [results EXCEPT ![o] = new]
  BY <1>6, Zenon DEF Encoded
<1>8. o \in DOMAIN results /\ DOMAIN results = 1 .. o BY DEF IsSequence
<1>9. results'[o] = new /\ \A i \in 1 .. o - 1 : results'[i] = results[i]
  <2>1. results = [i \in 1 .. o |-> results[i]] /\ o \in 1 .. o
    BY DEF IsSequence
  <2>2. \A i \in 1 .. o - 1 : i \in 1 .. o /\ i # o OBVIOUS
  <2> QED BY <1>7, <2>1, <2>2, PlaceChanged
<1>10. Honest(asked, new)
  <2>1. Agrees(asked, list) /\ IsSequence(list)
    <3>1. entry.result = SingleRead(asked, entry.prop, entry.index) BY <1>3
    <3> QED BY <1>5, <3>1, AgreesWithOneMore
  <2>2. new = [type |-> asked.type, id |-> Asked(asked.type, asked.id),
               list |-> new.list]
    BY <1>6, Zenon
  <2> QED BY <1>6, <2>1, <2>2 DEF Honest
<1>11. Counted(asked, list, r, IF count = 0 THEN 0 ELSE k + 1)
  <2>1. Pair(entry) = Nth(asked.type, asked.refs[r], k) BY <1>3 DEF Pair
  <2>2. Counted(asked, got.list, r, k) BY DEF Under
  <2>3. r \in Nat \ {0} /\ k \in Nat /\ k < Count(asked.type, asked.refs[r])
        /\ count # 0
    BY ONLY <1>4, n \in Nat \ {0}
  <2>4. Counted(asked, list, r, k + 1)
    BY <1>5, <2>1, <2>2, <2>3, ResultCounted
  <2> QED BY <2>3, <2>4, Zenon
<1>12. at \in Nat \X Nat \X Nat /\ at'[1] = at[1]
  BY OnwardPlace DEF CourseInv
<1>13. \/ /\ stage' = "property"
          /\ \E q, j : at'[2] = q /\ at'[3] = j /\ Under(asked, list, q, j)
       \/ stage' = "close" /\ Complete(asked, list)
  <2> QED BY <1>2, <1>4, <1>11, <1>12, OnwardReaches
<1>14. Begun' = o /\ Finished' \in {o - 1, o}
       /\ (stage' = "property" => Finished' = o - 1)
  BY <1>12, <1>13 DEF Begun, Finished
<1>15. ASSUME NEW i, NEW object, NEW found,
              object = request'[i], found = results'[i]
       PROVE  ObjectInv(i, object, found)'
  <2>1. CASE i = o
    <3>1. object = asked /\ found = new BY <1>1, <1>9, <1>15, <2>1
    <3>2. Honest(asked, new)' BY <1>1, <1>10, SameHonest
    <3>3. CASE stage' = "property"
      <4>1. PICK q, j : at'[2] = q /\ at'[3] = j /\ Under(asked, list, q, j)
        BY <1>13, <3>3
      <4>2. Under(asked, list, q, j)' BY <1>1, <4>1, SameUnder
      <4>3. i \notin 1 .. Finished' BY <1>14, <2>1, <3>3
      <4>4. found.list = list BY <1>6, <3>1
      <4> HIDE DEF Begun, Finished
      <4> QED BY <3>1, <3>2, <4>1, <4>2, <4>3, <4>4 DEF ObjectInv
    <3>4. CASE stage' = "close"
      <4>1. Complete(asked, list)' BY <1>1, <1>13, <3>4, SameComplete
      <4> QED BY <1>6, <3>1, <3>2, <3>4, <4>1, Zenon DEF ObjectInv
    <3> QED BY <1>13, <3>3, <3>4
  <2>2. CASE i # o /\ i \in 1 .. o
    <3>1. i \in 1 .. o - 1 BY <2>2
    <3>2. object = request[i] /\ found = results[i] BY <1>1, <1>9, <1>15, <3>1
    <3>3. ObjectInv(i, object, found) BY <3>2 DEF ResultsInv
    <3>4. /\ i \in 1 .. Begun /\ i \in 1 .. Finished
          /\ ~ (stage' = "property" /\ i = at'[1])
      BY <1>12, <2>2, <3>1
    <3> QED BY <1>1, <3>3, <3>4, KeptObject
  <2>3. CASE i \notin 1 .. o
    <3>1. i \notin 1 .. Begun' /\ i \notin 1 .. Finished' /\ i # at'[1]
      BY <1>12, <1>14, <2>3
    <3> QED BY <3>1, Zenon DEF ObjectInv
  <2> QED BY <2>1, <2>2, <2>3
<1> QED BY <1>13, <1>15, Zenon DEF ResultsInv


\* An empty list has no results.
LEMMA NothingJoins ==
  ASSUME CourseInv, ResultsInv, stage = "property", Onward(0),
         UNCHANGED <<objectVars, request, length, results, answer>>,
         Count(Object.type, Property) = 0
  PROVE  ResultsInv'
<1> PICK o, asked, got, r, k :
           /\ o \in Nat \ {0} /\ o = at[1] /\ asked = request[o] /\ got = results[o]
           /\ r = at[2] /\ k = at[3]
           /\ Begun = o /\ Finished = o - 1
           /\ o \in DOMAIN request /\ request \in Requests
           /\ IsSequence(results) /\ Len(results) = o
           /\ Honest(asked, got) /\ Under(asked, got.list, r, k)
  BY PlaceFacts
<1>1. UNCHANGED objectVars /\ request' = request /\ results' = results
  OBVIOUS
<1>2. PICK n \in Nat \ {0} : Len(asked.refs) = n /\ DOMAIN asked.refs = 1 .. n
  BY ObjectReferences
<1>3. Count(asked.type, asked.refs[r]) = 0 BY DEF Object, Property
<1>4. r \in 1 .. n /\ k = 0 /\ Counted(asked, got.list, r, 0)
  BY <1>2, <1>3 DEF Under
<1>5. at \in Nat \X Nat \X Nat /\ at'[1] = at[1]
  BY OnwardPlace DEF CourseInv
<1>6. \/ /\ stage' = "property"
         /\ \E q, j : at'[2] = q /\ at'[3] = j /\ Under(asked, got.list, q, j)
      \/ stage' = "close" /\ Complete(asked, got.list)
  <2>1. Counted(asked, got.list, r, IF 0 = 0 THEN 0 ELSE k + 1) BY <1>4
  <2> QED BY ONLY stage = "property", Onward(0), o = at[1], asked = request[o],
       r = at[2], k = at[3], n \in Nat \ {0}, <1>2, <1>3, <1>4, <1>5, <2>1,
       OnwardReaches
<1>7. Begun' = o /\ Finished' \in {o - 1, o}
      /\ (stage' = "property" => Finished' = o - 1)
  BY <1>5, <1>6 DEF Begun, Finished
<1>8. ASSUME NEW i, NEW object, NEW found,
             object = request'[i], found = results'[i]
      PROVE  ObjectInv(i, object, found)'
  <2>1. object = request[i] /\ found = results[i] BY <1>1, <1>8
  <2>2. ObjectInv(i, object, found) BY <2>1 DEF ResultsInv
  <2>3. CASE i = o
    <3>1. object = asked /\ found = got BY <2>1, <2>3
    <3>2. Honest(asked, got)' BY <1>1, SameHonest
    <3>3. CASE stage' = "property"
      <4>1. PICK q, j : at'[2] = q /\ at'[3] = j /\ Under(asked, got.list, q, j)
        BY <1>6, <3>3
      <4>2. Under(asked, got.list, q, j)' BY <1>1, <4>1, SameUnder
      <4>3. i \notin 1 .. Finished' BY <1>7, <2>3, <3>3
      <4> HIDE DEF Begun, Finished
      <4> QED BY <3>1, <3>2, <4>1, <4>2, <4>3 DEF ObjectInv
    <3>4. CASE stage' = "close"
      <4>1. Complete(asked, got.list)' BY <1>1, <1>6, <3>4, SameComplete
      <4> QED BY <3>1, <3>2, <3>4, <4>1, Zenon DEF ObjectInv
    <3> QED BY <1>6, <3>3, <3>4
  <2>4. CASE i # o
    <3>1. i \in 1 .. Finished' => i \in 1 .. Finished
      BY <1>7, <2>4
    <3> QED BY <1>1, <1>5, <1>7, <2>2, <2>4, <3>1, KeptObject
  <2> QED BY <2>3, <2>4
<1> QED BY <1>6, <1>8, Zenon DEF ResultsInv

\* RPM_Encode_Property() says what ReadProperty says.
LEMMA EncodeJoins ==
  ASSUME CourseInv, ResultsInv, stage = "property",
         NEW prop, NEW index, NEW count, EncodeProperty(prop, index, count),
         count = Count(Object.type, Property), at[3] < count,
         <<prop, index>> = Nth(Object.type, Property, at[3]),
         prop \notin Special
  PROVE  ResultsInv'
<1> PICK o, asked, got, r, k :
           /\ o \in Nat \ {0} /\ o = at[1] /\ asked = request[o] /\ got = results[o]
           /\ r = at[2] /\ k = at[3]
           /\ Begun = o /\ Finished = o - 1
           /\ o \in DOMAIN request /\ request \in Requests
           /\ IsSequence(results) /\ Len(results) = o
           /\ Honest(asked, got) /\ Under(asked, got.list, r, k)
  BY PlaceFacts
<1> PICK read : read = ReadProperty(got.type, got.id, prop, index) OBVIOUS
<1>1. read = SingleRead(Object, prop, index)
  <2> PICK id : id = Asked(asked.type, asked.id) OBVIOUS
  <2> PICK l : l = got.list OBVIOUS
  <2>1. got = [type |-> asked.type, id |-> id, list |-> l] BY DEF Honest
  <2>2. got.type = asked.type /\ got.id = id BY ONLY <2>1
  <2>3. Object = asked BY DEF Object
  <2> QED BY <2>2, <2>3 DEF SingleRead
<1>2. \/ \E pdu : Finish(pdu)
      \/ \E octets : /\ Encoded(prop, index, read, octets) /\ Onward(count)
                     /\ UNCHANGED <<objectVars, request, answer>>
  BY Zenon DEF EncodeProperty
<1>3. CASE \E pdu : Finish(pdu) BY <1>3, FinishResults
<1>4. CASE \E octets : /\ Encoded(prop, index, read, octets) /\ Onward(count)
                       /\ UNCHANGED <<objectVars, request, answer>>
  BY <1>1, <1>4, ResultJoins
<1> QED BY <1>2, <1>3, <1>4

LEMMA PropertyResults ==
  ASSUME CourseInv, ResultsInv, RpmProperty
  PROVE  ResultsInv'
<1> USE DEF RpmProperty
<1>1. Single(Property) /\ Count(Object.type, Property) = 1
  BY DEF Single, Count
<1>2. Nth(Object.type, Property, at[3]) = <<Property.prop, Property.index>>
  BY <1>1 DEF Nth
<1>3. at[3] < 1
  <2>1. PICK k \in Nat : k = at[3] /\ (k = 0 \/ k < Count(Object.type, Property))
    BY PlaceFacts DEF Under, Object, Property
  <2> QED BY <1>1, <2>1
<1> QED BY <1>1, <1>2, <1>3, EncodeJoins

LEMMA ListedResults ==
  ASSUME CourseInv, ResultsInv, RpmListed
  PROVE  ResultsInv'
<1> PICK object : object = Object OBVIOUS
<1> PICK ref : ref = Property OBVIOUS
<1> PICK k : k = at[3] OBVIOUS
<1> PICK count : count = PropertyCount(object.type, ref.prop) OBVIOUS
<1> PICK prop : prop = ObjectProperty(object.type, ref.prop, k) OBVIOUS
<1>1. stage = "property" /\ k < count /\ ref.index = All
      /\ EncodeProperty(prop, All, count)
  BY DEF RpmListed
<1>2. ~ Single(ref) BY DEF RpmListed, Single
<1>3. Count(object.type, ref) = count BY <1>2 DEF Count
<1>4. Nth(object.type, ref, k) = <<prop, All>> BY <1>2 DEF Nth
<1>5. k \in Nat BY <1>1, PlaceFacts DEF Under
<1>6. prop \notin Special
  <2>1. /\ count \in Nat
        /\ \A j \in 0 .. count - 1 :
             ObjectProperty(object.type, ref.prop, j) \notin Special
    BY <1>2, <1>3, ReferenceEnumerated DEF Enumerated
  <2>2. k \in 0 .. count - 1 BY <1>1, <1>5, <2>1
  <2> QED BY <2>1, <2>2
<1> QED BY <1>1, <1>3, <1>4, <1>6, EncodeJoins

LEMMA IndexedResults ==
  ASSUME CourseInv, ResultsInv, RpmIndexed
  PROVE  ResultsInv'
<1> PICK error : error = Error("PROPERTY_IS_NOT_AN_ARRAY") OBVIOUS
<1>1. Single(Property) /\ Count(Object.type, Property) = 1
  BY DEF RpmIndexed, Single, Count
<1>2. Nth(Object.type, Property, at[3]) = <<Property.prop, Property.index>>
  BY <1>1 DEF Nth
<1>3. at[3] < 1
  <2>1. PICK k \in Nat : k = at[3] /\ (k = 0 \/ k < Count(Object.type, Property))
    BY PlaceFacts DEF Under, Object, Property, RpmIndexed
  <2> QED BY <1>1, <2>1
<1>4. error = SingleRead(Object, Property.prop, Property.index)
  BY DEF RpmIndexed, SingleRead
<1>5. \/ \E pdu : Finish(pdu)
      \/ \E octets :
           /\ Encoded(Property.prop, Property.index, error, octets)
           /\ Onward(1) /\ UNCHANGED <<objectVars, request, answer>>
  BY Zenon DEF RpmIndexed
<1>6. CASE \E pdu : Finish(pdu) BY <1>6, FinishResults
<1>7. CASE \E octets :
             /\ Encoded(Property.prop, Property.index, error, octets)
             /\ Onward(1) /\ UNCHANGED <<objectVars, request, answer>>
  BY <1>1, <1>2, <1>3, <1>4, <1>7, ResultJoins DEF RpmIndexed
<1> QED BY <1>5, <1>6, <1>7

LEMMA ObjectResults ==
  ASSUME CourseInv, ResultsInv, RpmObject
  PROVE  ResultsInv'
<1>1. CASE \E pdu : Finish(pdu) BY <1>1, FinishResults
<1>2. CASE /\ stage' = "property" /\ at' = <<at[1], 1, 0>>
           /\ results' = Append(results,
                [type |-> Object.type, id |-> Asked(Object.type, Object.id),
                 list |-> <<>>])
           /\ UNCHANGED <<objectVars, request, answer>>
  <2>1. stage = "object" /\ request \in Requests /\ at[1] \in DOMAIN request
        /\ IsSequence(results) /\ Len(results) = at[1] - 1
    BY DEF RpmObject, CourseInv, Begun
  <2>2. DOMAIN request = 1 .. Len(request) /\ Len(request) \in Nat
    BY <2>1, RequestFacts
  <2> PICK o \in Nat \ {0} : o = at[1] BY <2>1, <2>2
  <2> PICK asked : asked = request[o] OBVIOUS
  <2> PICK id : id = Asked(asked.type, asked.id) OBVIOUS
  <2> PICK new : new = [type |-> asked.type, id |-> id, list |-> <<>>] OBVIOUS
  <2>3. results' = Append(results, new) BY <1>2 DEF Object
  <2>4. results'[o] = new /\ \A i \in 1 .. o - 1 : results'[i] = results[i]
    <3>1. Len(results) = o - 1 /\ (o - 1) + 1 = o BY <2>1
    <3> QED BY <2>1, <2>3, <3>1, AppendedElements
  <2>5. UNCHANGED objectVars /\ request' = request BY <1>2
  <2>6. at'[1] = o /\ at'[2] = 1 /\ at'[3] = 0 BY <1>2
  <2>7. Begun' = o /\ Finished' = o - 1 /\ Begun = o - 1 /\ Finished = o - 1
    BY <1>2, <2>1, <2>6 DEF Begun, Finished
  <2>8. Honest(asked, new)
    <3>1. <<>> \in Seq({}) /\ DOMAIN <<>> = {} OBVIOUS
    <3>2. IsSequence(<<>>) BY <3>1, ElementsSequence
    <3>3. Agrees(asked, <<>>) BY <3>1 DEF Agrees
    <3>4. new.list = <<>> OBVIOUS
    <3> QED BY <3>2, <3>3, <3>4 DEF Honest
  <2>9. Under(asked, <<>>, 1, 0)
    <3>1. PICK n \in Nat \ {0} : DOMAIN asked.refs = 1 .. n
      BY <2>1, ObjectReferences
    <3>2. 1 \in DOMAIN asked.refs BY <3>1
    <3> QED BY <3>2, NoneCounted DEF Under
  <2>10. Honest(asked, new)' /\ Under(asked, <<>>, 1, 0)'
    BY <2>5, <2>8, <2>9, SameHonest, SameUnder
  <2>11. ASSUME NEW i, NEW object, NEW found,
                object = request'[i], found = results'[i]
         PROVE  ObjectInv(i, object, found)'
    <3>1. CASE i = o
      <4>1. object = asked /\ found = new BY <2>4, <2>5, <2>11, <3>1
      <4>2. found.list = <<>> BY <4>1
      <4>3. i \notin 1 .. Finished' BY <2>7, <3>1
      <4> HIDE DEF Begun, Finished
      <4> QED BY <2>6, <2>10, <4>1, <4>2, <4>3 DEF ObjectInv
    <3>2. CASE i \in 1 .. o - 1
      <4>1. object = request[i] /\ found = results[i]
        BY <2>4, <2>5, <2>11, <3>2
      <4>2. ObjectInv(i, object, found) BY <2>1, <4>1 DEF ResultsInv
      <4>3. i # at'[1] BY <2>6, <3>2
      <4> QED BY <2>5, <2>7, <3>2, <4>2, <4>3, KeptObject
    <3>3. CASE i \notin 1 .. o
      <4>1. i \notin 1 .. Begun' /\ i \notin 1 .. Finished' /\ i # at'[1]
        BY <2>6, <2>7, <3>3
      <4> QED BY <4>1, Zenon DEF ObjectInv
    <3>4. i = o \/ i \in 1 .. o - 1 \/ i \notin 1 .. o OBVIOUS
    <3> QED BY <3>1, <3>2, <3>3, <3>4
  <2> QED BY <1>2, <2>11, Zenon DEF ResultsInv
<1> QED BY <1>1, <1>2, Zenon DEF RpmObject

LEMMA CloseResults ==
  ASSUME CourseInv, ResultsInv, RpmClose
  PROVE  ResultsInv'
<1>1. CASE \E pdu : Finish(pdu) BY <1>1, FinishResults
<1>2. CASE /\ \/ /\ at[1] < Len(request)
                 /\ stage' = "object" /\ at' = <<at[1] + 1, 0, 0>>
              \/ ~ (at[1] < Len(request)) /\ stage' = "end" /\ at' = at
           /\ UNCHANGED <<objectVars, request, results, answer>>
  <2>1. stage = "close" /\ request \in Requests /\ at[1] \in DOMAIN request
    BY DEF RpmClose, CourseInv
  <2>2. DOMAIN request = 1 .. Len(request) /\ Len(request) \in Nat
    BY <2>1, RequestFacts
  <2> PICK o \in Nat : o = at[1] /\ o \in 1 .. Len(request) BY <2>1, <2>2
  <2>3. UNCHANGED objectVars /\ request' = request /\ results' = results
    BY <1>2
  <2>4. Begun' = o /\ Finished' = o /\ Begun = o /\ Finished = o
    <3>1. CASE stage' = "object" /\ at' = <<at[1] + 1, 0, 0>>
      <4>1. at'[1] = o + 1 /\ (o + 1) - 1 = o BY <3>1
      <4> QED BY <2>1, <3>1, <4>1 DEF Begun, Finished
    <3>2. CASE stage' = "end" /\ at' = at
      BY <2>1, <3>2 DEF Begun, Finished
    <3> QED BY <1>2, <3>1, <3>2
  <2>5. stage' = "end" => at'[1] = Len(request')
    <3>1. CASE stage' = "end" /\ at' = at /\ ~ (at[1] < Len(request))
      <4>1. o = Len(request) BY <2>2, <3>1
      <4> QED BY <2>3, <3>1, <4>1
    <3> QED BY <1>2, <3>1
  <2>6. ASSUME NEW i, NEW object, NEW found,
               object = request'[i], found = results'[i]
        PROVE  ObjectInv(i, object, found)'
    <3>1. ObjectInv(i, object, found) BY <2>1, <2>3, <2>6 DEF ResultsInv
    <3>2. stage' # "property" BY <1>2
    <3> QED BY <2>3, <2>4, <3>1, <3>2, KeptObject
  <2> QED BY <2>5, <2>6, Zenon DEF ResultsInv
<1> QED BY <1>1, <1>2, Zenon DEF RpmClose

LEMMA BeginResults ==
  ASSUME Begin
  PROVE  ResultsInv'
<1>1. PICK requested \in Requests : RpmBegin(requested) BY DEF Begin
<1>2. CASE \E pdu : Finish(pdu) BY <1>2, FinishResults
<1>3. CASE stage' = "object" /\ at' = <<1, 0, 0>>
  <2>1. at'[1] = 1 BY <1>3
  <2>2. Begun' = 0 /\ Finished' = 0 BY <1>3, <2>1 DEF Begun, Finished
  <2>3. 1 .. 0 = {} OBVIOUS
  <2>4. \A i, object, found : ObjectInv(i, object, found)'
    BY <1>3, <2>2, <2>3, Zenon DEF ObjectInv
  <2> QED BY <1>3, <2>4, Zenon DEF ResultsInv
<1> QED BY <1>1, <1>2, <1>3, Zenon DEF RpmBegin

LEMMA SameResults ==
  ASSUME ResultsInv, UNCHANGED rpmVars, stage # "idle" => UNCHANGED objectVars
  PROVE  ResultsInv'
<1>1. stage' = stage /\ at' = at /\ request' = request /\ results' = results
      /\ Begun' = Begun /\ Finished' = Finished
  BY DEF rpmVars, Begun, Finished
<1>2. CASE stage = "idle" BY <1>1, <1>2 DEF ResultsInv
<1>3. CASE stage # "idle"
  <2>1. ASSUME NEW i, NEW object, NEW found,
               object = request'[i], found = results'[i]
        PROVE  ObjectInv(i, object, found)'
    <3>1. ObjectInv(i, object, found) BY <1>1, <1>3, <2>1 DEF ResultsInv
    <3>2. Honest(object, found)' <=> Honest(object, found)
      BY <1>3, SameHonest
    <3>3. Complete(object, found.list)' <=> Complete(object, found.list)
      BY <1>3, SameComplete
    <3>4. \A r, k : Under(object, found.list, r, k)'
                      <=> Under(object, found.list, r, k)
      BY <1>3, SameUnder
    <3> QED BY <1>1, <3>1, <3>2, <3>3, <3>4, Zenon DEF ObjectInv
  <2>2. stage' = "end" => at'[1] = Len(request') BY <1>1, <1>3 DEF ResultsInv
  <2> QED BY <2>1, <2>2, Zenon DEF ResultsInv
<1> QED BY <1>2, <1>3

LEMMA ResultsStep ==
  ASSUME CourseInv, ResultsInv, [Next]_vars
  PROVE  ResultsInv'
<1>1. CASE UNCHANGED vars BY <1>1, SameResults DEF vars
<1>2. CASE Configure \/ Change \/ Delivered \/ ReadOne \/ WriteOne \/ Find
  <2>1. UNCHANGED rpmVars /\ (stage # "idle" => UNCHANGED objectVars)
    BY <1>2 DEF Configure, Change, Idle, Delivered, Serving, ReadOne,
       HandleReadProperty, WriteOne, HandleWriteProperty, Find, HandleWhoIs,
       HandleWhoHas
  <2> QED BY <2>1, SameResults
<1>3. CASE RpmStep
  <2>1. CASE RpmUndecodable BY <2>1, FinishResults DEF RpmUndecodable
  <2>2. CASE RpmNothing
    <3>1. Count(Object.type, Property) = 0 /\ stage = "property" /\ Onward(0)
          /\ UNCHANGED <<objectVars, request, length, results, answer>>
      BY <2>2 DEF RpmNothing, Count, Single
    <3> QED BY <3>1, NothingJoins
  <2>3. CASE \E maxResp \in Accepted : RpmAnswer(maxResp)
    <3>1. \E pdu : Finish(pdu) BY <2>3, Zenon DEF RpmAnswer
    <3> QED BY <3>1, FinishResults
  <2> QED BY <1>3, <2>1, <2>2, <2>3, ObjectResults, PropertyResults,
       ListedResults, IndexedResults, CloseResults DEF RpmStep
<1> QED BY <1>1, <1>2, <1>3, BeginResults DEF Next

\* An answer that is about to be sent has a result for each object asked for:
\* exactly the properties its references stand for, once for each reference,
\* and of each what ReadProperty says.
THEOREM AnswersAreComplete == Spec => []AnswersComplete
<1>1. Init => CourseInv BY DEF Init, CourseInv, Stages
<1>2. CourseInv /\ [Next]_vars => CourseInv' BY CourseStep
<1>3. Init => ResultsInv BY DEF Init, ResultsInv
<1>4. CourseInv /\ ResultsInv /\ [Next]_vars => ResultsInv' BY ResultsStep
<1>5. ASSUME CourseInv, ResultsInv PROVE AnswersComplete
  <2> SUFFICES ASSUME stage = "end"
               PROVE  /\ Len(results) = Len(request)
                      /\ \A o \in DOMAIN request :
                           LET asked == request[o]
                               got == results[o]
                           IN /\ got.type = asked.type
                              /\ got.id = Asked(asked.type, asked.id)
                              /\ Complete(asked, got.list)
                              /\ Agrees(asked, got.list)
    BY Zenon DEF AnswersComplete
  <2>1. request \in Requests /\ Len(results) = at[1] /\ at[1] = Len(request)
        /\ Begun = at[1] /\ Finished = at[1]
    BY <1>5 DEF CourseInv, ResultsInv, Begun, Finished
  <2>2. ASSUME NEW o \in DOMAIN request, NEW asked, asked = request[o],
               NEW got, got = results[o]
        PROVE  /\ got.type = asked.type /\ got.id = Asked(asked.type, asked.id)
               /\ Complete(asked, got.list) /\ Agrees(asked, got.list)
    <3>1. o \in 1 .. Begun /\ o \in 1 .. Finished BY <2>1, RequestFacts
    <3>2. ObjectInv(o, asked, got) BY <1>5, <2>2 DEF ResultsInv
    <3>3. Honest(asked, got) /\ Complete(asked, got.list)
      BY <3>1, <3>2, Zenon DEF ObjectInv
    <3> PICK id : id = Asked(asked.type, asked.id) OBVIOUS
    <3> PICK l : l = got.list OBVIOUS
    <3>4. got = [type |-> asked.type, id |-> id, list |-> l]
      BY <3>3 DEF Honest
    <3>5. got.type = asked.type /\ got.id = id BY ONLY <3>4
    <3> QED BY <3>3, <3>5 DEF Honest
  <2> QED BY <2>1, <2>2
<1> QED BY <1>1, <1>2, <1>3, <1>4, <1>5, PTL DEF Spec

=============================================================================
