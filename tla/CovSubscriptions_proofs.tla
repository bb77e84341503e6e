------------------------ MODULE CovSubscriptions_proofs ------------------------
(***************************************************************************)
(* The tables of the COV handler, for any number of subscriptions, places  *)
(* for addresses, transactions, clients and objects.                       *)
(***************************************************************************)
EXTENDS CovSubscriptions, TLAPS, FiniteSetTheorems, WellFoundedInduction

USE CovAssumption

-----------------------------------------------------------------------------
(* The first of some numbers *)

LEMMA LeastNumber ==
  ASSUME NEW T, T \subseteq Nat, T # {}
  PROVE  \E x \in T : \A y \in T : x <= y
<1> DEFINE Below == {ss \in Nat \X Nat : ss[1] < ss[2]}
<1>1. IsWellFoundedOn(Below, Nat)
  BY NatLessThanWellFounded, Zenon DEF OpToRel
<1> HIDE DEF Below
<1>2. PICK x \in T : \A y \in T : ~ (<<y, x>> \in Below)
  BY <1>1, WFMin, Zenon
<1>3. ASSUME NEW y \in T PROVE x <= y
  <2>1. <<y, x>> \notin Below /\ x \in Nat /\ y \in Nat BY <1>2
  <2> QED BY <2>1 DEF Below
<1> QED BY <1>3

\* Where a loop that stops at the first hit stops is a hit.
LEMMA FirstIsOne ==
  ASSUME NEW T, T \subseteq Nat, T # {}
  PROVE  First(T) \in T
<1>1. \E x \in T : \A y \in T : x <= y BY LeastNumber
<1> QED BY <1>1, Zenon DEF First

-----------------------------------------------------------------------------
(* The parts of the invariant *)

\* A transaction belongs to one entry, and only an entry in use with confirmed
\* notifications has one.
OwnersInv ==
  /\ \A id \in InvokeIds :
       tsm[id] # "free" => \E i \in Slots : subs[i].invokeID = id
  /\ \A i \in Slots :
       subs[i].invokeID # NoInvokeId => subs[i].valid /\ subs[i].confirmed
  /\ \A i, j \in Slots :
       subs[i].invokeID = subs[j].invokeID /\ subs[i].invokeID # NoInvokeId
       => i = j

\* Every entry in use was asked for in a context, by the client at its address.
ContextsInv ==
  \A i \in Slots : subs[i].valid =>
    \E c \in Contexts :
      /\ subs[i].object = c.object /\ subs[i].process = c.process
      /\ HasAddress(subs[i]) => addresses[subs[i].dest] = c.client

\* With a place for every client, every entry in use has one.
PlacesInv ==
  Cardinality(Clients) <= MaxAddresses =>
    \A i \in Slots : subs[i].valid => subs[i].dest # NoPlace

\* With one subscriber each, an object has one entry.
ObjectsInv ==
  OneSubscriberEach =>
    \A i, j \in Slots :
      subs[i].valid /\ subs[j].valid /\ i # j => subs[i].object # subs[j].object

\* Only entries in use wait for a notification.
WaitingInv == unreported \subseteq {i \in Slots : subs[i].valid}

\* What depends on addresses and contexts.
AddressInv ==
  AddressesTight /\ ContextsInv /\ PlacesInv /\ OneEntryPerContext /\ ObjectsInv

-----------------------------------------------------------------------------
(* What the operators on the tables do *)

\* The place for an address holds it or is unused, and the others stay.
LEMMA PlaceFacts ==
  ASSUME TypeOK, NEW a \in Clients
  PROVE  /\ PlaceFor(a) \in Places \cup {NoPlace}
         /\ PlaceFor(a) # NoPlace =>
              addresses[PlaceFor(a)] \in {a, NoAddress}
         /\ PlaceFor(a) # NoPlace /\ addresses[PlaceFor(a)] = NoAddress =>
              \A p \in Places : addresses[p] # a
         /\ PlaceFor(a) = NoPlace =>
              \A p \in Places : addresses[p] \notin {a, NoAddress}
         /\ AddressesWith(a) \in [Places -> Clients \cup {NoAddress}]
<1> DEFINE own == {p \in Places : addresses[p] = a}
           unused == {p \in Places : addresses[p] = NoAddress}
<1>0. Places \subseteq Nat /\ NoPlace \notin Places BY DEF Places, NoPlace
<1>1. CASE own # {}
  <2>1. PlaceFor(a) = First(own) BY <1>1 DEF PlaceFor
  <2>2. First(own) \in own BY <1>0, <1>1, FirstIsOne
  <2> QED BY <1>0, <2>1, <2>2 DEF AddressesWith, TypeOK
<1>2. CASE own = {} /\ unused # {}
  <2>1. PlaceFor(a) = First(unused) BY <1>2 DEF PlaceFor
  <2>2. First(unused) \in unused BY <1>0, <1>2, FirstIsOne
  <2> QED BY <1>0, <1>2, <2>1, <2>2 DEF AddressesWith, TypeOK
<1>3. CASE own = {} /\ unused = {}
  <2>1. PlaceFor(a) = NoPlace BY <1>3 DEF PlaceFor
  <2> QED BY <1>0, <1>3, <2>1 DEF AddressesWith, TypeOK
<1> QED BY <1>1, <1>2, <1>3

\* What Renew does to each entry.
LEMMA RenewFacts ==
  ASSUME TypeOK, NEW c \in Contexts, NEW lifetime \in Lifetimes,
         NEW confirmed \in Confirmations, Renew(c, lifetime, confirmed)
  PROVE  \E i \in Matches(c) :
           /\ subs' \in [Slots -> Entries]
           /\ \A j \in Slots \ {i} : subs'[j] = subs[j]
           /\ subs'[i].valid /\ subs'[i].sendRequested
           /\ subs'[i].invokeID = NoInvokeId
           /\ subs'[i].dest = PlaceFor(c.client)
           /\ subs'[i].object = c.object /\ subs'[i].process = c.process
           /\ tsm' = Freed({subs[i].invokeID})
           /\ unreported' = unreported \cup {i}
<1> DEFINE i == First(Matches(c))
           entry == [subs[i] EXCEPT !.dest = PlaceFor(c.client),
                       !.confirmed = confirmed, !.lifetime = lifetime,
                       !.sendRequested = TRUE, !.invokeID = NoInvokeId]
<1>0. Matches(c) # {} /\ Matches(c) \subseteq Nat
  <2>1. Matches(c) # {} BY Zenon DEF Renew
  <2>2. Matches(c) \subseteq Nat BY DEF Matches, Slots
  <2> QED BY <2>1, <2>2
<1>1. i \in Matches(c)
  BY <1>0, FirstIsOne
<1>2. i \in Slots /\ subs[i].valid /\ subs[i].object = c.object
      /\ subs[i].process = c.process
  BY <1>1 DEF Matches
<1>3. subs' = [subs EXCEPT ![i] = entry] BY DEF Renew
<1>4. subs[i] \in Entries BY <1>2 DEF TypeOK
<1>5. PlaceFor(c.client) \in Places \cup {NoPlace} /\ lifetime \in Nat
      /\ confirmed \in BOOLEAN
  BY PlaceFacts DEF Clients
<1>6. /\ entry \in Entries
      /\ entry.valid = subs[i].valid /\ entry.sendRequested
      /\ entry.invokeID = NoInvokeId /\ entry.dest = PlaceFor(c.client)
      /\ entry.object = subs[i].object /\ entry.process = subs[i].process
  BY <1>4, <1>5 DEF Entries
<1> HIDE DEF entry, i
<1>7. /\ subs' \in [Slots -> Entries]
      /\ \A j \in Slots \ {i} : subs'[j] = subs[j]
      /\ subs'[i] = entry
  BY <1>2, <1>3, <1>6 DEF TypeOK
<1>8. tsm' = Freed({subs[i].invokeID}) /\ unreported' = unreported \cup {i}
  BY DEF Renew, i
<1> QED BY <1>1, <1>2, <1>6, <1>7, <1>8

\* What Subscribe does to each entry.
LEMMA SubscribeFacts ==
  ASSUME TypeOK, NEW c \in Contexts, NEW lifetime \in Lifetimes,
         NEW confirmed \in Confirmations, Subscribe(c, lifetime, confirmed)
  PROVE  \E i \in Slots :
           /\ ~subs[i].valid
           /\ subs' \in [Slots -> Entries]
           /\ \A j \in Slots \ {i} : subs'[j] = subs[j]
           /\ subs'[i].valid /\ subs'[i].sendRequested
           /\ subs'[i].invokeID = NoInvokeId
           /\ subs'[i].dest = PlaceFor(c.client)
           /\ subs'[i].object = c.object /\ subs'[i].process = c.process
           /\ unreported' = unreported \cup {i}
<1> DEFINE i == First(Invalid)
           entry == [valid |-> TRUE, confirmed |-> confirmed,
                     sendRequested |-> TRUE, dest |-> PlaceFor(c.client),
                     invokeID |-> NoInvokeId, process |-> c.process,
                     object |-> c.object, lifetime |-> lifetime]
<1>0. Invalid # {} /\ Invalid \subseteq Nat
  BY DEF Subscribe, Invalid, Slots
<1>1. i \in Invalid BY <1>0, FirstIsOne
<1>2. i \in Slots /\ ~subs[i].valid BY <1>1 DEF Invalid
<1>3. subs' = [subs EXCEPT ![i] = entry] /\ unreported' = unreported \cup {i}
  BY DEF Subscribe
<1>4. entry \in Entries
  <2>1. PlaceFor(c.client) \in Places \cup {NoPlace} BY PlaceFacts DEF Clients
  <2>2. c.process \in {d.process : d \in Contexts} /\ c.object \in Objects
    BY DEF Objects
  <2> QED BY <2>1, <2>2 DEF Entries
<1>5. /\ entry.valid /\ entry.sendRequested
      /\ entry.invokeID = NoInvokeId /\ entry.dest = PlaceFor(c.client)
      /\ entry.object = c.object /\ entry.process = c.process
  OBVIOUS
<1> HIDE DEF entry, i
<1>6. /\ subs' \in [Slots -> Entries]
      /\ \A j \in Slots \ {i} : subs'[j] = subs[j]
      /\ subs'[i] = entry
  BY <1>2, <1>3, <1>4 DEF TypeOK
<1> QED BY <1>2, <1>3, <1>5, <1>6

\* The addresses that are left when only those of entries in use are kept.
OnlyUsedStay ==
  \A p \in Places :
    addresses'[p] = IF \E i \in Slots : subs'[i].valid /\ subs'[i].dest = p
                    THEN addresses[p] ELSE NoAddress

\* What Cancel does to each entry.
LEMMA CancelFacts ==
  ASSUME TypeOK, NEW c \in Contexts, Cancel(c)
  PROVE  /\ addresses' \in [Places -> Clients \cup {NoAddress}]
         /\ OnlyUsedStay
         /\ \E i \in Matches(c) :
           /\ subs' \in [Slots -> Entries]
           /\ \A j \in Slots \ {i} : subs'[j] = subs[j]
           /\ ~subs'[i].valid /\ subs'[i].invokeID = NoInvokeId
           /\ tsm' = Freed({subs[i].invokeID})
           /\ unreported' = unreported \ {i}
<1> DEFINE i == First(Matches(c))
           without == [subs EXCEPT ![i] = [@ EXCEPT !.valid = FALSE,
                                                    !.dest = NoPlace]]
<1>0. Matches(c) # {} /\ Matches(c) \subseteq Nat
  <2>1. Matches(c) # {} BY Zenon DEF Cancel
  <2>2. Matches(c) \subseteq Nat BY DEF Matches, Slots
  <2> QED BY <2>1, <2>2
<1>1. i \in Matches(c) BY <1>0, FirstIsOne
<1>2. i \in Slots BY <1>1 DEF Matches
<1>3. /\ subs' = [without EXCEPT ![i].invokeID = NoInvokeId]
      /\ addresses' = AddressesInUse(without)
      /\ tsm' = Freed({subs[i].invokeID}) /\ unreported' = unreported \ {i}
  BY DEF Cancel
<1>4. subs[i] \in Entries /\ subs \in [Slots -> Entries] BY <1>2 DEF TypeOK
<1> HIDE DEF i
<1>5. /\ without \in [Slots -> Entries]
      /\ \A j \in Slots \ {i} : without[j] = subs[j]
      /\ without[i].valid = FALSE /\ without[i].dest = NoPlace
  BY <1>2, <1>4 DEF Entries
<1> HIDE DEF without
<1>6. /\ subs' \in [Slots -> Entries]
      /\ \A j \in Slots \ {i} : subs'[j] = subs[j]
      /\ subs'[i].valid = FALSE /\ subs'[i].invokeID = NoInvokeId
      /\ \A j \in Slots : /\ subs'[j].valid = without[j].valid
                          /\ subs'[j].dest = without[j].dest
  <2> DEFINE entry == [without[i] EXCEPT !.invokeID = NoInvokeId]
  <2>1. subs' = [without EXCEPT ![i] = entry] BY <1>3, Zenon
  <2>2. without[i] \in Entries BY <1>2, <1>5
  <2>3. /\ entry \in Entries /\ entry.invokeID = NoInvokeId
        /\ entry.valid = without[i].valid /\ entry.dest = without[i].dest
    BY <2>2 DEF Entries
  <2> HIDE DEF entry
  <2> QED BY <1>2, <1>5, <2>1, <2>3
<1>7. OnlyUsedStay /\ addresses' \in [Places -> Clients \cup {NoAddress}]
  BY <1>3, <1>6 DEF AddressesInUse, OnlyUsedStay, TypeOK
<1> QED BY <1>1, <1>3, <1>6, <1>7

\* What the second timer does to each entry.
LEMMA TimerFacts ==
  ASSUME TypeOK, AddressesTight, NEW seconds \in Elapses, TimerSeconds(seconds)
  PROVE  /\ subs' \in [Slots -> Entries]
         /\ addresses' \in [Places -> Clients \cup {NoAddress}]
         /\ OnlyUsedStay
         /\ \A j \in Slots :
              /\ subs'[j].valid <=> subs[j].valid /\ j \notin Expired(seconds)
              /\ subs'[j].valid =>
                   subs'[j].dest = subs[j].dest /\ subs'[j].invokeID = subs[j].invokeID
              /\ subs'[j].invokeID =
                   IF j \in Expired(seconds) /\ subs[j].confirmed
                   THEN NoInvokeId ELSE subs[j].invokeID
              /\ subs'[j].object = subs[j].object
              /\ subs'[j].process = subs[j].process
              /\ subs'[j].confirmed = subs[j].confirmed
              /\ subs'[j].sendRequested = subs[j].sendRequested
<1> DEFINE ending == Expired(seconds)
           confirmed == {i \in ending : subs[i].confirmed}
           after(i) ==
             IF i \notin Definite THEN subs[i]
             ELSE [subs[i] EXCEPT
                     !.lifetime = Remaining(i, seconds),
                     !.valid = i \notin ending,
                     !.dest = IF i \in ending THEN NoPlace ELSE @,
                     !.invokeID = IF i \in confirmed THEN NoInvokeId ELSE @]
<1>1. subs' = [i \in Slots |-> after(i)]
  BY DEF TimerSeconds
<1>2. ASSUME NEW j \in Slots
      PROVE  /\ after(j) \in Entries
             /\ after(j).valid <=> subs[j].valid /\ j \notin ending
             /\ after(j).valid =>
                  after(j).dest = subs[j].dest /\ after(j).invokeID = subs[j].invokeID
             /\ after(j).invokeID = IF j \in confirmed THEN NoInvokeId
                                    ELSE subs[j].invokeID
             /\ after(j).object = subs[j].object
             /\ after(j).process = subs[j].process
             /\ after(j).confirmed = subs[j].confirmed
             /\ after(j).sendRequested = subs[j].sendRequested
  <2>1. subs[j] \in Entries BY DEF TypeOK
  <2>2. CASE j \notin Definite
    BY <2>1, <2>2 DEF Expired
  <2>3. CASE j \in Definite
    <3>1. Remaining(j, seconds) \in Nat BY <2>1 DEF Remaining, Entries
    <3>2. subs[j].valid BY <2>3 DEF Definite
    <3> QED BY <2>1, <2>3, <3>1, <3>2 DEF Entries
  <2> QED BY <2>2, <2>3
<1> HIDE DEF after
<1>3. subs' \in [Slots -> Entries] /\ \A j \in Slots : subs'[j] = after(j)
  BY <1>1, <1>2
<1>4. addresses' \in [Places -> Clients \cup {NoAddress}] /\ OnlyUsedStay
  <2>1. CASE ending = {}
    <3>1. addresses' = addresses BY <2>1 DEF TimerSeconds
    <3>2. \A j \in Slots : subs'[j].valid <=> subs[j].valid
      BY <1>2, <1>3, <2>1
    <3>3. \A j \in Slots : subs'[j].valid => subs'[j].dest = subs[j].dest
      BY <1>2, <1>3
    <3> QED BY <3>1, <3>2, <3>3 DEF AddressesTight, OnlyUsedStay, TypeOK
  <2>2. CASE ending # {}
    <3>1. addresses' = AddressesInUse(subs') BY <2>2 DEF TimerSeconds
    <3> QED BY <3>1 DEF AddressesInUse, OnlyUsedStay, TypeOK
  <2> QED BY <2>1, <2>2
<1> QED BY <1>2, <1>3, <1>4

\* The index of the task stays within the table.
LEMMA AdvanceFacts ==
  ASSUME TypeOK, NEW phase \in Phases, NEW next \in Phases, Advance(phase, next)
  PROVE  task.index \in Slots /\ task' \in [phase : Phases, index : Slots]
<1>1. task \in [phase : Phases, index : Slots] BY DEF TypeOK
<1>2. CASE task.index < MaxSubscriptions
  <2>1. task' = [task EXCEPT !.index = @ + 1] BY <1>2, Zenon DEF Advance
  <2>2. task.index + 1 \in Slots BY <1>1, <1>2 DEF Slots
  <2> QED BY <1>1, <2>1, <2>2
<1>3. CASE ~(task.index < MaxSubscriptions)
  <2>1. task' = [phase |-> next, index |-> 1] BY <1>3, Zenon DEF Advance
  <2> QED BY <1>1, <2>1 DEF Slots
<1> QED BY <1>2, <1>3

\* There is an invoke ID that is free and that no entry holds: there are more
\* of them than entries, and one that is not free has its entry.
LEMMA AnInvokeIdIsFree ==
  ASSUME TypeOK, OwnersInv
  PROVE  /\ NextInvokeId \in InvokeIds /\ tsm[NextInvokeId] = "free"
         /\ \A i \in Slots : subs[i].invokeID # NextInvokeId
<1> DEFINE usable == {id \in InvokeIds : tsm[id] = "free"}
                       \ {subs[i].invokeID : i \in Slots}
<1>1. usable # {}
  <2> SUFFICES ASSUME usable = {} PROVE FALSE OBVIOUS
  <2> DEFINE holder == [id \in InvokeIds |->
                          CHOOSE i \in Slots : subs[i].invokeID = id]
  <2>1. \A id \in InvokeIds : \E i \in Slots : subs[i].invokeID = id
    BY DEF OwnersInv
  <2>2. \A id \in InvokeIds :
          holder[id] \in Slots /\ subs[holder[id]].invokeID = id
    BY <2>1
  <2>3. IsFiniteSet(Slots) /\ Cardinality(Slots) = MaxSubscriptions
    <3>1. 1 \in Int /\ MaxSubscriptions \in Int /\ ~(1 > MaxSubscriptions)
      OBVIOUS
    <3>2. /\ IsFiniteSet(1 .. MaxSubscriptions)
          /\ Cardinality(1 .. MaxSubscriptions) = MaxSubscriptions - 1 + 1
      BY <3>1, FS_Interval, Zenon
    <3> QED BY <3>2 DEF Slots
  <2>4. holder \in [InvokeIds -> Slots] BY <2>2
  <2> HIDE DEF holder
  <2>5. Cardinality(Slots) < Cardinality(InvokeIds)
    <3>1. Cardinality(InvokeIds) \in Nat BY FS_CardinalityType
    <3> QED BY <2>3, <3>1
  <2>6. \E x, y \in InvokeIds : x # y /\ holder[x] = holder[y]
    BY <2>3, <2>4, <2>5, FS_PigeonHole
  <2> QED BY <2>2, <2>6
<1>2. NextInvokeId \in usable
  <2>1. usable \subseteq Nat OBVIOUS
  <2> HIDE DEF usable
  <2>2. First(usable) \in usable BY <1>1, <2>1, FirstIsOne
  <2> QED BY <2>2 DEF NextInvokeId, usable
<1> QED BY <1>2

\* What sending does to the entry it is for.
LEMMA SendFacts ==
  ASSUME TypeOK, OwnersInv, NEW sent \in BOOLEAN, SendRequest(sent)
  PROVE  LET i == task.index
         IN /\ i \in Slots
            /\ subs' \in [Slots -> Entries]
            /\ \A j \in Slots \ {i} : subs'[j] = subs[j]
            /\ subs[i].valid
            /\ subs'[i].valid = subs[i].valid
            /\ subs'[i].confirmed = subs[i].confirmed
            /\ subs'[i].dest = subs[i].dest
            /\ subs'[i].object = subs[i].object
            /\ subs'[i].process = subs[i].process
            /\ subs'[i].sendRequested = ~sent
            /\ subs'[i].invokeID =
                 IF subs[i].confirmed THEN NextInvokeId ELSE subs[i].invokeID
            /\ subs[i].confirmed => subs[i].invokeID = NoInvokeId
            /\ tsm' = IF subs[i].confirmed
                      THEN [tsm EXCEPT ![NextInvokeId] = "waiting"] ELSE tsm
<1> DEFINE i == task.index
<1>1. i \in Slots BY AdvanceFacts DEF SendRequest, Phases
<1>2. subs[i] \in Entries /\ subs \in [Slots -> Entries] BY <1>1 DEF TypeOK
<1>3. /\ subs[i].valid
      /\ subs[i].confirmed => subs[i].invokeID = NoInvokeId
  BY DEF SendRequest, Due, Current
<1>4. CASE subs[i].confirmed
  <2> DEFINE entry == [subs[i] EXCEPT !.sendRequested = ~sent,
                                      !.invokeID = NextInvokeId]
  <2>1. subs' = [subs EXCEPT ![i] = entry]
        /\ tsm' = [tsm EXCEPT ![NextInvokeId] = "waiting"]
    BY <1>4, Zenon DEF SendRequest, Current
  <2>2. /\ entry \in Entries /\ entry.valid = subs[i].valid
        /\ entry.confirmed = subs[i].confirmed
        /\ entry.dest = subs[i].dest /\ entry.object = subs[i].object
        /\ entry.process = subs[i].process /\ entry.sendRequested = ~sent
        /\ entry.invokeID = NextInvokeId
    BY <1>2, AnInvokeIdIsFree DEF Entries
  <2> HIDE DEF entry
  <2>3. /\ subs' \in [Slots -> Entries] /\ subs'[i] = entry
        /\ \A j \in Slots \ {i} : subs'[j] = subs[j]
    BY <1>1, <1>2, <2>1, <2>2
  <2> QED BY <1>1, <1>3, <1>4, <2>1, <2>2, <2>3
<1>5. CASE ~subs[i].confirmed
  <2> DEFINE entry == [subs[i] EXCEPT !.sendRequested = ~sent]
  <2>1. subs' = [subs EXCEPT ![i] = entry] /\ tsm' = tsm
    BY <1>5, Zenon DEF SendRequest, Current
  <2>2. /\ entry \in Entries /\ entry.valid = subs[i].valid
        /\ entry.confirmed = subs[i].confirmed
        /\ entry.dest = subs[i].dest /\ entry.object = subs[i].object
        /\ entry.process = subs[i].process /\ entry.sendRequested = ~sent
        /\ entry.invokeID = subs[i].invokeID
    BY <1>2 DEF Entries
  <2> HIDE DEF entry
  <2>3. /\ subs' \in [Slots -> Entries] /\ subs'[i] = entry
        /\ \A j \in Slots \ {i} : subs'[j] = subs[j]
    BY <1>1, <1>2, <2>1, <2>2
  <2> QED BY <1>1, <1>3, <1>5, <2>1, <2>2, <2>3
<1> QED BY <1>4, <1>5

\* What marking does to the entry it is for.
LEMMA MarkFacts ==
  ASSUME TypeOK, Mark
  PROVE  LET i == task.index
         IN /\ i \in Slots
            /\ subs' \in [Slots -> Entries]
            /\ \A j \in Slots \ {i} : subs'[j] = subs[j]
            /\ subs'[i].valid = subs[i].valid
            /\ subs'[i].confirmed = subs[i].confirmed
            /\ subs'[i].invokeID = subs[i].invokeID
            /\ subs'[i].dest = subs[i].dest
            /\ subs'[i].object = subs[i].object
            /\ subs'[i].process = subs[i].process
            /\ subs'[i].sendRequested = Marked
<1> DEFINE i == task.index
           entry == [subs[i] EXCEPT !.sendRequested = Marked]
<1>1. i \in Slots BY AdvanceFacts DEF Mark, Phases
<1>2. subs[i] \in Entries /\ subs \in [Slots -> Entries] BY <1>1 DEF TypeOK
<1>3. Marked \in BOOLEAN
  BY <1>2 DEF Marked, Current, Entries, TypeOK
<1>4. subs' = [subs EXCEPT ![i] = entry]
  BY Zenon DEF Mark, Current
<1>5. /\ entry \in Entries /\ entry.valid = subs[i].valid
      /\ entry.confirmed = subs[i].confirmed
      /\ entry.dest = subs[i].dest /\ entry.object = subs[i].object
      /\ entry.process = subs[i].process /\ entry.sendRequested = Marked
      /\ entry.invokeID = subs[i].invokeID
  BY <1>2, <1>3 DEF Entries
<1> HIDE DEF entry
<1>6. /\ subs' \in [Slots -> Entries] /\ subs'[i] = entry
      /\ \A j \in Slots \ {i} : subs'[j] = subs[j]
  BY <1>1, <1>2, <1>4, <1>5
<1> QED BY <1>1, <1>5, <1>6

\* What looking for ended transactions does to the entry it is for.
LEMMA FreeFacts ==
  ASSUME TypeOK, Free
  PROVE  LET i == task.index
         IN /\ i \in Slots
            /\ subs' \in [Slots -> Entries]
            /\ \A j \in Slots \ {i} : subs'[j] = subs[j]
            /\ subs'[i].valid = subs[i].valid
            /\ subs'[i].confirmed = subs[i].confirmed
            /\ subs'[i].dest = subs[i].dest
            /\ subs'[i].object = subs[i].object
            /\ subs'[i].process = subs[i].process
            /\ subs'[i].sendRequested = subs[i].sendRequested
            /\ subs'[i].invokeID = IF Ended(subs[i]) THEN NoInvokeId
                                   ELSE subs[i].invokeID
            /\ tsm' = IF Ended(subs[i]) THEN Freed({subs[i].invokeID}) ELSE tsm
<1> DEFINE i == task.index
           entry == [subs[i] EXCEPT !.invokeID = NoInvokeId]
<1>1. i \in Slots BY AdvanceFacts DEF Free, Phases
<1>2. subs[i] \in Entries /\ subs \in [Slots -> Entries] BY <1>1 DEF TypeOK
<1>3. CASE Ended(subs[i])
  <2>1. subs' = [subs EXCEPT ![i] = entry] /\ tsm' = Freed({subs[i].invokeID})
    BY <1>3, Zenon DEF Free, Current
  <2>2. /\ entry \in Entries /\ entry.valid = subs[i].valid
        /\ entry.confirmed = subs[i].confirmed
        /\ entry.dest = subs[i].dest /\ entry.object = subs[i].object
        /\ entry.process = subs[i].process /\ entry.invokeID = NoInvokeId
        /\ entry.sendRequested = subs[i].sendRequested
    BY <1>2 DEF Entries
  <2> HIDE DEF entry
  <2>3. /\ subs' \in [Slots -> Entries] /\ subs'[i] = entry
        /\ \A j \in Slots \ {i} : subs'[j] = subs[j]
    BY <1>1, <1>2, <2>1, <2>2
  <2> QED BY <1>1, <1>3, <2>1, <2>2, <2>3
<1>4. CASE ~Ended(subs[i])
  <2>1. subs' = subs /\ tsm' = tsm BY <1>4, Zenon DEF Free, Current
  <2> QED BY <1>1, <1>2, <1>4, <2>1
<1> QED BY <1>3, <1>4

-----------------------------------------------------------------------------
(* Addresses and contexts *)

\* They hold on while no entry changes what it is about.
LEMMA SameKeeps ==
  ASSUME AddressInv, addresses' = addresses,
         \A j \in Slots :
           /\ subs'[j].valid = subs[j].valid /\ subs'[j].dest = subs[j].dest
           /\ subs'[j].object = subs[j].object
           /\ subs'[j].process = subs[j].process
  PROVE  AddressInv'
BY DEF AddressInv, AddressesTight, HasAddress, ContextsInv, PlacesInv,
       OneEntryPerContext, ObjectsInv

\* They hold on when entries end and give up their places.
LEMMA ShrinkKeeps ==
  ASSUME TypeOK, AddressInv, OnlyUsedStay, subs' \in [Slots -> Entries],
         \A j \in Slots : subs'[j].valid =>
           /\ subs[j].valid /\ subs'[j].dest = subs[j].dest
           /\ subs'[j].object = subs[j].object
           /\ subs'[j].process = subs[j].process
  PROVE  AddressInv'
<1>1. ASSUME NEW j \in Slots, subs'[j].valid
      PROVE  /\ subs'[j].dest # NoPlace => subs'[j].dest \in Places
             /\ subs'[j].dest # NoPlace =>
                  addresses'[subs'[j].dest] = addresses[subs[j].dest]
             /\ HasAddress(subs[j]) <=> HasAddress(subs[j])'
             /\ subs'[j].dest # NoPlace => HasAddress(subs[j])
  <2>1. subs'[j].dest \in Places \cup {NoPlace} BY DEF Entries
  <2>2. subs'[j].dest # NoPlace =>
          addresses'[subs'[j].dest] = addresses[subs[j].dest]
    BY <1>1, <2>1 DEF OnlyUsedStay
  <2>3. subs'[j].dest # NoPlace => HasAddress(subs[j])
    BY <1>1 DEF AddressInv, AddressesTight
  <2> QED BY <1>1, <2>1, <2>2, <2>3 DEF HasAddress
<1>2. AddressesTight'
  <2>1. ASSUME NEW p \in Places, addresses'[p] # NoAddress
        PROVE  /\ \E i \in Slots : subs'[i].valid /\ subs'[i].dest = p
               /\ addresses'[p] = addresses[p]
    BY <2>1 DEF OnlyUsedStay
  <2>2. \A p, q \in Places :
          addresses'[p] # NoAddress /\ p # q => addresses'[q] # addresses'[p]
    BY <2>1 DEF AddressInv, AddressesTight
  <2>3. \A j \in Slots : subs'[j].valid /\ subs'[j].dest # NoPlace =>
          HasAddress(subs[j])'
    BY <1>1
  <2> QED BY <2>1, <2>2, <2>3 DEF AddressesTight
<1>3. ContextsInv'
  <2> SUFFICES ASSUME NEW i \in Slots, subs'[i].valid
               PROVE  \E c \in Contexts :
                        /\ subs'[i].object = c.object
                        /\ subs'[i].process = c.process
                        /\ HasAddress(subs[i])' =>
                             addresses'[subs'[i].dest] = c.client
    BY DEF ContextsInv
  <2>1. PICK c \in Contexts :
          /\ subs[i].object = c.object /\ subs[i].process = c.process
          /\ HasAddress(subs[i]) => addresses[subs[i].dest] = c.client
    BY DEF AddressInv, ContextsInv
  <2> QED BY <1>1, <2>1 DEF HasAddress
<1>4. PlacesInv'
  BY DEF AddressInv, PlacesInv
<1>5. OneEntryPerContext'
  <2> SUFFICES ASSUME Cardinality(Clients) <= MaxAddresses,
                      NEW i \in Slots, NEW j \in Slots,
                      subs'[i].valid, subs'[j].valid, i # j
               PROVE  \/ subs'[i].object # subs'[j].object
                      \/ subs'[i].process # subs'[j].process
                      \/ addresses'[subs'[i].dest] # addresses'[subs'[j].dest]
    BY DEF OneEntryPerContext
  <2>1. subs'[i].dest # NoPlace /\ subs'[j].dest # NoPlace
    BY DEF AddressInv, PlacesInv
  <2> QED BY <1>1, <2>1 DEF AddressInv, OneEntryPerContext
<1>6. ObjectsInv'
  BY DEF AddressInv, ObjectsInv
<1> QED BY <1>2, <1>3, <1>4, <1>5, <1>6 DEF AddressInv

\* With a place for every client, there is one for each.
LEMMA EveryClientHasAPlace ==
  ASSUME TypeOK, AddressesTight, NEW a \in Clients,
         Cardinality(Clients) <= MaxAddresses
  PROVE  PlaceFor(a) # NoPlace
<1> SUFFICES ASSUME PlaceFor(a) = NoPlace PROVE FALSE
  OBVIOUS
<1>1. \A p \in Places : addresses[p] \notin {a, NoAddress} BY PlaceFacts
<1>2. addresses \in [Places -> Clients \ {a}] BY <1>1 DEF TypeOK
<1>3. /\ IsFiniteSet(Clients \ {a})
      /\ Cardinality(Clients \ {a}) = Cardinality(Clients) - 1
  BY FS_RemoveElement
<1>4. Cardinality(Clients) \in Nat BY FS_CardinalityType
<1>5. Cardinality(Clients) # 0 BY FS_EmptySet
<1>6. IsFiniteSet(Places) /\ Cardinality(Places) = MaxAddresses
  <2>1. 1 \in Int /\ MaxAddresses \in Int /\ ~(1 > MaxAddresses)
    BY <1>4, <1>5
  <2>2. /\ IsFiniteSet(1 .. MaxAddresses)
        /\ Cardinality(1 .. MaxAddresses) = MaxAddresses - 1 + 1
    BY <2>1, FS_Interval, Zenon
  <2> QED BY <2>2 DEF Places
<1>7. Cardinality(Clients \ {a}) < Cardinality(Places) BY <1>3, <1>4, <1>6
<1>8. \E x, y \in Places : x # y /\ addresses[x] = addresses[y]
  BY <1>2, <1>3, <1>6, <1>7, FS_PigeonHole
<1> QED BY <1>1, <1>8 DEF AddressesTight

\* They hold on when a context is subscribed to, anew or again.
LEMMA GrowKeeps ==
  ASSUME TypeOK, AddressInv, NEW c \in Contexts, NEW i \in Slots,
         subs' \in [Slots -> Entries],
         \A j \in Slots \ {i} : subs'[j] = subs[j],
         subs'[i].valid, subs'[i].dest = PlaceFor(c.client),
         subs'[i].object = c.object, subs'[i].process = c.process,
         addresses' = AddressesWith(c.client),
         i \in Matches(c) \/ (~subs[i].valid /\ Matches(c) = {})
  PROVE  AddressInv'
<1> DEFINE a == c.client
           q == PlaceFor(a)
<1>0. a \in Clients /\ a # NoAddress BY DEF Clients
<1>1. /\ q \in Places \cup {NoPlace}
      /\ q # NoPlace => addresses[q] \in {a, NoAddress}
      /\ q # NoPlace /\ addresses[q] = NoAddress =>
           \A p \in Places : addresses[p] # a
      /\ q = NoPlace => \A p \in Places : addresses[p] \notin {a, NoAddress}
  BY <1>0, PlaceFacts
<1> HIDE DEF q
<1>2. /\ \A p \in Places : addresses'[p] = IF p = q THEN a ELSE addresses[p]
      /\ NoPlace \notin Places
  BY DEF AddressesWith, q, Places, NoPlace
<1>3. ASSUME NEW j \in Slots PROVE subs[j].dest \in Places \cup {NoPlace}
  BY DEF TypeOK, Entries
<1>4. \A p \in Places : addresses[p] # NoAddress => addresses'[p] = addresses[p]
  BY <1>1, <1>2
<1>5. ASSUME NEW j \in Slots \ {i}, subs[j].valid, subs[j].dest # NoPlace
      PROVE  /\ subs'[j].dest \in Places /\ HasAddress(subs[j])
             /\ HasAddress(subs[j])'
             /\ addresses'[subs'[j].dest] = addresses[subs[j].dest]
  BY <1>3, <1>4, <1>5 DEF AddressInv, AddressesTight, HasAddress
<1>6. i \in Matches(c) /\ subs[i].dest # NoPlace => q = subs[i].dest
  <2> SUFFICES ASSUME i \in Matches(c), subs[i].dest # NoPlace
               PROVE  q = subs[i].dest
    OBVIOUS
  <2>1. HasAddress(subs[i]) /\ addresses[subs[i].dest] = a
        /\ subs[i].dest \in Places
    BY <1>3 DEF AddressInv, AddressesTight, Matches
  <2>2. q \in Places /\ addresses[q] = a BY <1>1, <2>1
  <2> QED BY <1>0, <2>1, <2>2 DEF AddressInv, AddressesTight
<1>7. AddressesTight'
  <2>1. ASSUME NEW p \in Places, addresses'[p] # NoAddress
        PROVE  \E j \in Slots : subs'[j].valid /\ subs'[j].dest = p
    <3>1. CASE p = q BY <3>1 DEF q
    <3>2. CASE p # q
      <4>1. PICK j \in Slots : subs[j].valid /\ subs[j].dest = p
        BY <1>2, <2>1, <3>2 DEF AddressInv, AddressesTight
      <4>2. j # i BY <1>2, <1>6, <3>2, <4>1
      <4> QED BY <4>1, <4>2
    <3> QED BY <3>1, <3>2
  <2>2. ASSUME NEW p \in Places, NEW r \in Places \ {p},
               addresses'[p] # NoAddress
        PROVE  addresses'[r] # addresses'[p]
    BY <1>0, <1>1, <1>2, <2>2 DEF AddressInv, AddressesTight
  <2>3. ASSUME NEW j \in Slots, subs'[j].valid, subs'[j].dest # NoPlace
        PROVE  HasAddress(subs[j])'
    <3>1. CASE j = i BY <1>0, <1>1, <1>2, <2>3, <3>1 DEF HasAddress, q
    <3>2. CASE j # i BY <1>5, <2>3, <3>2
    <3> QED BY <3>1, <3>2
  <2> QED BY <2>1, <2>2, <2>3 DEF AddressesTight
<1>8. ContextsInv'
  <2> SUFFICES ASSUME NEW j \in Slots, subs'[j].valid
               PROVE  \E d \in Contexts :
                        /\ subs'[j].object = d.object
                        /\ subs'[j].process = d.process
                        /\ HasAddress(subs[j])' =>
                             addresses'[subs'[j].dest] = d.client
    BY DEF ContextsInv
  <2>1. CASE j = i
    BY <1>1, <1>2, <2>1 DEF HasAddress, q
  <2>2. CASE j # i
    <3>1. PICK d \in Contexts :
            /\ subs[j].object = d.object /\ subs[j].process = d.process
            /\ HasAddress(subs[j]) => addresses[subs[j].dest] = d.client
      BY <2>2 DEF AddressInv, ContextsInv
    <3> QED BY <1>5, <2>2, <3>1 DEF HasAddress
  <2> QED BY <2>1, <2>2
<1>9. PlacesInv'
  <2>1. Cardinality(Clients) <= MaxAddresses => q # NoPlace
    BY <1>0, EveryClientHasAPlace DEF AddressInv, q
  <2> QED BY <2>1 DEF AddressInv, PlacesInv, q
\* Another entry in use of this object and process has another address.
<1>10. ASSUME NEW j \in Slots \ {i}, subs[j].valid,
              subs[j].object = c.object, subs[j].process = c.process,
              i \notin Matches(c)
       PROVE  HasAddress(subs[j]) /\ addresses[subs[j].dest] # a
  BY <1>10 DEF Matches
<1>11. OneEntryPerContext'
  <2> DEFINE Differ(j, k) ==
               \/ subs'[j].object # subs'[k].object
               \/ subs'[j].process # subs'[k].process
               \/ addresses'[subs'[j].dest] # addresses'[subs'[k].dest]
  <2> SUFFICES ASSUME Cardinality(Clients) <= MaxAddresses
               PROVE  \A j, k \in Slots :
                        subs'[j].valid /\ subs'[k].valid /\ j # k => Differ(j, k)
    BY DEF OneEntryPerContext
  <2>0. \A j \in Slots : subs[j].valid => subs[j].dest # NoPlace
    BY DEF AddressInv, PlacesInv
  <2>1. ASSUME NEW j \in Slots \ {i}, NEW k \in Slots \ {i}, j # k,
               subs'[j].valid, subs'[k].valid
        PROVE  Differ(j, k)
    BY <1>5, <2>0, <2>1 DEF AddressInv, OneEntryPerContext
  <2>2. ASSUME NEW j \in Slots \ {i}, subs[j].valid,
               subs[j].object = c.object, subs[j].process = c.process
        PROVE  addresses'[q] # addresses'[subs'[j].dest]
    <3>1. q \in Places /\ addresses'[q] = a
      BY <1>0, <1>1, <1>2, EveryClientHasAPlace DEF AddressInv, q
    <3>2. addresses'[subs'[j].dest] = addresses[subs[j].dest]
      BY <1>5, <2>0, <2>2
    <3>3. CASE i \notin Matches(c)
      BY <1>10, <2>2, <3>1, <3>2, <3>3
    <3>4. CASE i \in Matches(c)
      <4>1. /\ subs[i].valid /\ subs[i].object = c.object
            /\ subs[i].process = c.process /\ subs[i].dest # NoPlace
        BY <2>0, <3>4 DEF Matches
      <4>2. addresses[subs[i].dest] = a
        BY <3>4, <4>1 DEF Matches, AddressInv, AddressesTight
      <4> QED BY <2>2, <3>1, <3>2, <4>1, <4>2
                 DEF AddressInv, OneEntryPerContext
    <3> QED BY <3>3, <3>4
  <2>3. ASSUME NEW j \in Slots \ {i}, subs'[j].valid
        PROVE  Differ(j, i) /\ Differ(i, j)
    BY <2>2, <2>3 DEF q
  <2> QED BY <2>1, <2>3
<1>12. ObjectsInv'
  <2> SUFFICES ASSUME OneSubscriberEach, NEW j \in Slots \ {i}, subs[j].valid,
                      subs[j].object = c.object
               PROVE  FALSE
    BY DEF AddressInv, ObjectsInv
  <2>1. PICK d \in Contexts :
          /\ subs[j].object = d.object /\ subs[j].process = d.process
          /\ HasAddress(subs[j]) => addresses[subs[j].dest] = d.client
    BY DEF AddressInv, ContextsInv
  <2>2. d = c BY <2>1, Zenon DEF OneSubscriberEach
  <2>3. j \in Matches(c) BY <2>1, <2>2 DEF Matches
  <2>4. subs[i].valid /\ subs[i].object = c.object BY <2>3 DEF Matches
  <2> QED BY <2>4 DEF AddressInv, ObjectsInv
<1> QED BY <1>7, <1>8, <1>9, <1>11, <1>12 DEF AddressInv

-----------------------------------------------------------------------------
(* The invariant, step by step *)

Inv == TypeOK /\ OwnersInv /\ AddressInv /\ WaitingInv /\ NoChangeForgotten

LEMMA FreedFacts ==
  ASSUME TypeOK, NEW ids
  PROVE  /\ Freed(ids) \in [InvokeIds -> {"free", "waiting", "failed"}]
         /\ \A id \in InvokeIds :
              Freed(ids)[id] = IF id \in ids THEN "free" ELSE tsm[id]
BY DEF Freed, TypeOK

\* Each step keeps it.
LEMMA RenewKeeps ==
  ASSUME Inv, NEW c \in Contexts, NEW lifetime \in Lifetimes,
         NEW confirmed \in Confirmations, Renew(c, lifetime, confirmed)
  PROVE  Inv'
<1> USE DEF Inv
<1>1. PICK i \in Matches(c) :
        /\ subs' \in [Slots -> Entries]
        /\ \A j \in Slots \ {i} : subs'[j] = subs[j]
        /\ subs'[i].valid /\ subs'[i].sendRequested
        /\ subs'[i].invokeID = NoInvokeId
        /\ subs'[i].dest = PlaceFor(c.client)
        /\ subs'[i].object = c.object /\ subs'[i].process = c.process
        /\ tsm' = Freed({subs[i].invokeID})
        /\ unreported' = unreported \cup {i}
  BY RenewFacts
<1>2. /\ i \in Slots /\ addresses' = AddressesWith(c.client)
      /\ UNCHANGED <<task, changed, dcc>>
  BY <1>1 DEF Matches, Renew
<1>3. TypeOK'
  <2>1. addresses' \in [Places -> Clients \cup {NoAddress}]
    BY <1>2, PlaceFacts DEF Clients
  <2> QED BY <1>1, <1>2, <2>1, FreedFacts DEF TypeOK
<1>4. OwnersInv' BY <1>1, <1>2, FreedFacts DEF OwnersInv
<1>5. AddressInv' BY <1>1, <1>2, GrowKeeps
<1>6. WaitingInv' BY <1>1, <1>2 DEF WaitingInv
<1>7. NoChangeForgotten' BY <1>1, <1>2 DEF NoChangeForgotten, WaitingInv
<1> QED BY <1>3, <1>4, <1>5, <1>6, <1>7

LEMMA SubscribeKeeps ==
  ASSUME Inv, NEW c \in Contexts, NEW lifetime \in Lifetimes,
         NEW confirmed \in Confirmations, Subscribe(c, lifetime, confirmed)
  PROVE  Inv'
<1> USE DEF Inv
<1>1. PICK i \in Slots :
        /\ ~subs[i].valid
        /\ subs' \in [Slots -> Entries]
        /\ \A j \in Slots \ {i} : subs'[j] = subs[j]
        /\ subs'[i].valid /\ subs'[i].sendRequested
        /\ subs'[i].invokeID = NoInvokeId
        /\ subs'[i].dest = PlaceFor(c.client)
        /\ subs'[i].object = c.object /\ subs'[i].process = c.process
        /\ unreported' = unreported \cup {i}
  BY SubscribeFacts
<1>2. /\ addresses' = AddressesWith(c.client) /\ Matches(c) = {}
      /\ UNCHANGED <<task, changed, tsm, dcc>>
  BY DEF Subscribe
<1>3. TypeOK'
  <2>1. addresses' \in [Places -> Clients \cup {NoAddress}]
    BY <1>2, PlaceFacts DEF Clients
  <2> QED BY <1>1, <1>2, <2>1 DEF TypeOK
<1>4. OwnersInv' BY <1>1, <1>2 DEF OwnersInv, TypeOK
<1>5. AddressInv' BY <1>1, <1>2, GrowKeeps
<1>6. WaitingInv' BY <1>1, <1>2 DEF WaitingInv
<1>7. NoChangeForgotten' BY <1>1, <1>2 DEF NoChangeForgotten, WaitingInv
<1> QED BY <1>3, <1>4, <1>5, <1>6, <1>7

LEMMA CancelKeeps ==
  ASSUME Inv, NEW c \in Contexts, Cancel(c)
  PROVE  Inv'
<1> USE DEF Inv
<1>1. PICK i \in Matches(c) :
        /\ subs' \in [Slots -> Entries]
        /\ \A j \in Slots \ {i} : subs'[j] = subs[j]
        /\ ~subs'[i].valid /\ subs'[i].invokeID = NoInvokeId
        /\ tsm' = Freed({subs[i].invokeID})
        /\ unreported' = unreported \ {i}
  BY CancelFacts
<1>2. i \in Slots /\ UNCHANGED <<task, changed, dcc>>
  BY <1>1 DEF Matches, Cancel
<1>3. OnlyUsedStay /\ addresses' \in [Places -> Clients \cup {NoAddress}]
  BY CancelFacts
<1>4. TypeOK' BY <1>1, <1>2, <1>3, FreedFacts DEF TypeOK
<1>5. OwnersInv' BY <1>1, <1>2, FreedFacts DEF OwnersInv
<1>6. AddressInv' BY <1>1, <1>2, <1>3, ShrinkKeeps
<1>7. WaitingInv' BY <1>1, <1>2 DEF WaitingInv
<1>8. NoChangeForgotten' BY <1>1, <1>2 DEF NoChangeForgotten, WaitingInv
<1> QED BY <1>4, <1>5, <1>6, <1>7, <1>8

LEMMA TimerKeeps ==
  ASSUME Inv, NEW seconds \in Elapses, TimerSeconds(seconds)
  PROVE  Inv'
<1> USE DEF Inv
<1> DEFINE ending == Expired(seconds)
           gone == {subs[i].invokeID : i \in {j \in ending : subs[j].confirmed}}
<1>0. AddressesTight BY DEF AddressInv
<1>1. /\ subs' \in [Slots -> Entries]
      /\ addresses' \in [Places -> Clients \cup {NoAddress}]
      /\ OnlyUsedStay
      /\ \A j \in Slots :
           /\ subs'[j].valid <=> subs[j].valid /\ j \notin ending
           /\ subs'[j].valid =>
                subs'[j].dest = subs[j].dest /\ subs'[j].invokeID = subs[j].invokeID
           /\ subs'[j].invokeID = IF j \in ending /\ subs[j].confirmed
                                  THEN NoInvokeId ELSE subs[j].invokeID
           /\ subs'[j].object = subs[j].object
           /\ subs'[j].process = subs[j].process
           /\ subs'[j].confirmed = subs[j].confirmed
           /\ subs'[j].sendRequested = subs[j].sendRequested
  BY <1>0, TimerFacts
<1>2. /\ tsm' = Freed(gone) /\ unreported' = unreported \ ending
      /\ UNCHANGED <<task, changed, dcc>>
      /\ ending \subseteq Slots
  BY Zenon DEF TimerSeconds, Expired, Definite
<1> HIDE DEF ending
<1>3. TypeOK' BY <1>1, <1>2, FreedFacts DEF TypeOK
<1>4. OwnersInv'
  <2>1. ASSUME NEW id \in InvokeIds, tsm'[id] # "free"
        PROVE  \E i \in Slots : subs'[i].invokeID = id
    <3>1. id \notin gone /\ tsm[id] # "free" BY <1>2, <2>1, FreedFacts
    <3>2. PICK i \in Slots : subs[i].invokeID = id BY <3>1 DEF OwnersInv
    <3> QED BY <1>1, <3>1, <3>2
  <2>2. ASSUME NEW i \in Slots, subs'[i].invokeID # NoInvokeId
        PROVE  subs'[i].valid /\ subs'[i].confirmed
    BY <1>1, <2>2 DEF OwnersInv
  <2>3. ASSUME NEW i \in Slots, NEW j \in Slots,
               subs'[i].invokeID = subs'[j].invokeID,
               subs'[i].invokeID # NoInvokeId
        PROVE  i = j
    BY <1>1, <2>3 DEF OwnersInv
  <2> QED BY <2>1, <2>2, <2>3 DEF OwnersInv
<1>5. AddressInv' BY <1>1, ShrinkKeeps
<1>6. WaitingInv' BY <1>1, <1>2 DEF WaitingInv
<1>7. NoChangeForgotten'
  BY <1>1, <1>2 DEF NoChangeForgotten, WaitingInv
<1> QED BY <1>3, <1>4, <1>5, <1>6, <1>7

LEMMA MarkKeeps ==
  ASSUME Inv, Mark
  PROVE  Inv'
<1> USE DEF Inv
<1> DEFINE i == task.index
<1>1. /\ i \in Slots
      /\ subs' \in [Slots -> Entries]
      /\ \A j \in Slots \ {i} : subs'[j] = subs[j]
      /\ subs'[i].valid = subs[i].valid
      /\ subs'[i].confirmed = subs[i].confirmed
      /\ subs'[i].invokeID = subs[i].invokeID
      /\ subs'[i].dest = subs[i].dest
      /\ subs'[i].object = subs[i].object /\ subs'[i].process = subs[i].process
      /\ subs'[i].sendRequested = Marked
  BY MarkFacts
<1>2. /\ task' \in [phase : Phases, index : Slots]
      /\ UNCHANGED <<addresses, changed, tsm, dcc, unreported>>
  BY AdvanceFacts DEF Mark, Phases
<1> HIDE DEF i
<1>3. TypeOK' BY <1>1, <1>2 DEF TypeOK
<1>4. OwnersInv' BY <1>1, <1>2 DEF OwnersInv
<1>5. AddressInv'
  <2>1. \A j \in Slots :
          /\ subs'[j].valid = subs[j].valid /\ subs'[j].dest = subs[j].dest
          /\ subs'[j].object = subs[j].object
          /\ subs'[j].process = subs[j].process
    BY <1>1
  <2> QED BY <1>2, <2>1, SameKeeps
<1>6. WaitingInv' BY <1>1, <1>2 DEF WaitingInv
<1>7. NoChangeForgotten'
  BY <1>1, <1>2 DEF NoChangeForgotten, WaitingInv, Marked, Current, i
<1> QED BY <1>3, <1>4, <1>5, <1>6, <1>7

LEMMA ClearKeeps ==
  ASSUME Inv, Clear
  PROVE  Inv'
<1> USE DEF Inv
<1>1. /\ task.index \in Slots /\ task' \in [phase : Phases, index : Slots]
      /\ changed' = [changed EXCEPT ![Current.object] = @ /\ ~Clears]
      /\ UNCHANGED <<subs, addresses, tsm, dcc, unreported>>
  BY AdvanceFacts DEF Clear, Phases
<1>2. Current \in Entries BY <1>1 DEF Current, TypeOK
<1>3. changed' \in [Objects -> BOOLEAN]
      /\ \A o \in Objects : changed'[o] = (changed[o] /\ ~(o = Current.object /\ Clears))
  <2>1. Clears \in BOOLEAN BY <1>2 DEF Clears, Entries
  <2>2. Current.object \in Objects BY <1>2 DEF Entries
  <2> QED BY <1>1, <2>1, <2>2 DEF TypeOK
<1>4. TypeOK' BY <1>1, <1>3 DEF TypeOK
<1>5. OwnersInv' BY <1>1 DEF OwnersInv
<1>6. AddressInv' BY <1>1, SameKeeps
<1>7. WaitingInv' BY <1>1 DEF WaitingInv
<1>8. NoChangeForgotten'
  <2> SUFFICES ASSUME OneSubscriberEach, NEW i \in unreported
               PROVE  subs[i].sendRequested \/ changed'[subs[i].object]
    BY <1>1 DEF NoChangeForgotten
  <2>1. i \in Slots /\ subs[i].valid /\ subs[i].object \in Objects
    BY DEF WaitingInv, TypeOK, Entries
  <2>2. CASE i = task.index
    BY <1>3, <2>1, <2>2 DEF NoChangeForgotten, Clears, Current
  <2>3. CASE i # task.index
    <3>1. Clears => subs[i].object # Current.object
      BY <1>1, <2>1, <2>3 DEF Clears, Current, AddressInv, ObjectsInv
    <3> QED BY <1>3, <2>1, <3>1 DEF NoChangeForgotten
  <2> QED BY <2>2, <2>3
<1> QED BY <1>4, <1>5, <1>6, <1>7, <1>8

LEMMA FreeKeeps ==
  ASSUME Inv, Free
  PROVE  Inv'
<1> USE DEF Inv
<1> DEFINE i == task.index
<1>1. /\ i \in Slots
      /\ subs' \in [Slots -> Entries]
      /\ \A j \in Slots \ {i} : subs'[j] = subs[j]
      /\ subs'[i].valid = subs[i].valid
      /\ subs'[i].confirmed = subs[i].confirmed
      /\ subs'[i].dest = subs[i].dest
      /\ subs'[i].object = subs[i].object /\ subs'[i].process = subs[i].process
      /\ subs'[i].sendRequested = subs[i].sendRequested
      /\ subs'[i].invokeID = IF Ended(subs[i]) THEN NoInvokeId
                             ELSE subs[i].invokeID
      /\ tsm' = IF Ended(subs[i]) THEN Freed({subs[i].invokeID}) ELSE tsm
  BY FreeFacts
<1>2. /\ task' \in [phase : Phases, index : Slots]
      /\ UNCHANGED <<addresses, changed, dcc, unreported>>
  BY AdvanceFacts DEF Free, Phases
<1> HIDE DEF i
<1>3. TypeOK' BY <1>1, <1>2, FreedFacts DEF TypeOK
<1>4. OwnersInv' BY <1>1, <1>2, FreedFacts DEF OwnersInv
<1>5. AddressInv'
  <2>1. \A j \in Slots :
          /\ subs'[j].valid = subs[j].valid /\ subs'[j].dest = subs[j].dest
          /\ subs'[j].object = subs[j].object
          /\ subs'[j].process = subs[j].process
    BY <1>1
  <2> QED BY <1>2, <2>1, SameKeeps
<1>6. WaitingInv' BY <1>1, <1>2 DEF WaitingInv
<1>7. NoChangeForgotten'
  BY <1>1, <1>2 DEF NoChangeForgotten, WaitingInv
<1> QED BY <1>3, <1>4, <1>5, <1>6, <1>7

LEMMA SendKeeps ==
  ASSUME Inv, NEW sent \in BOOLEAN, SendRequest(sent)
  PROVE  Inv'
<1> USE DEF Inv
<1> DEFINE i == task.index
<1>1. /\ i \in Slots
      /\ subs' \in [Slots -> Entries]
      /\ \A j \in Slots \ {i} : subs'[j] = subs[j]
      /\ subs[i].valid
      /\ subs'[i].valid = subs[i].valid
      /\ subs'[i].confirmed = subs[i].confirmed
      /\ subs'[i].dest = subs[i].dest
      /\ subs'[i].object = subs[i].object /\ subs'[i].process = subs[i].process
      /\ subs'[i].sendRequested = ~sent
      /\ subs'[i].invokeID =
           IF subs[i].confirmed THEN NextInvokeId ELSE subs[i].invokeID
      /\ subs[i].confirmed => subs[i].invokeID = NoInvokeId
      /\ tsm' = IF subs[i].confirmed
                THEN [tsm EXCEPT ![NextInvokeId] = "waiting"] ELSE tsm
  BY SendFacts
<1>2. /\ task' \in [phase : Phases, index : Slots]
      /\ UNCHANGED <<addresses, changed, dcc>>
      /\ unreported' = IF sent THEN unreported \ {i} ELSE unreported
  BY AdvanceFacts DEF SendRequest, Phases
<1>3. /\ NextInvokeId \in InvokeIds /\ tsm[NextInvokeId] = "free"
      /\ \A j \in Slots : subs[j].invokeID # NextInvokeId
  BY AnInvokeIdIsFree
<1> HIDE DEF i
<1>4. TypeOK'
  <2>1. tsm \in [InvokeIds -> {"free", "waiting", "failed"}] BY DEF TypeOK
  <2>2. tsm' \in [InvokeIds -> {"free", "waiting", "failed"}]
    BY <1>1, <1>3, <2>1
  <2>3. unreported' \in SUBSET Slots BY <1>2 DEF TypeOK
  <2> QED BY <1>1, <1>2, <2>2, <2>3 DEF TypeOK
<1>5. OwnersInv'
  <2>1. CASE ~subs[i].confirmed
    <3>1. /\ tsm' = tsm
          /\ \A j \in Slots : /\ subs'[j].invokeID = subs[j].invokeID
                              /\ subs'[j].valid = subs[j].valid
                              /\ subs'[j].confirmed = subs[j].confirmed
      BY <1>1, <2>1
    <3> QED BY <3>1 DEF OwnersInv
  <2>2. CASE subs[i].confirmed
    <3>1. /\ \A id \in InvokeIds :
               tsm'[id] # "free" => tsm[id] # "free" \/ id = NextInvokeId
          /\ subs'[i].invokeID = NextInvokeId /\ subs[i].invokeID = NoInvokeId
          /\ subs'[i].valid /\ subs'[i].confirmed
      BY <1>1, <1>3, <2>2 DEF TypeOK
    <3>2. NextInvokeId # NoInvokeId BY <1>3
    <3>3. ASSUME NEW id \in InvokeIds, tsm'[id] # "free"
          PROVE  \E j \in Slots : subs'[j].invokeID = id
      <4>1. CASE id = NextInvokeId BY <1>1, <3>1, <4>1
      <4>2. CASE id # NextInvokeId
        <5>1. PICK j \in Slots : subs[j].invokeID = id
          BY <3>1, <3>3, <4>2 DEF OwnersInv
        <5>2. j # i BY <3>1, <5>1
        <5> QED BY <1>1, <5>1, <5>2
      <4> QED BY <4>1, <4>2
    <3>4. ASSUME NEW j \in Slots, subs'[j].invokeID # NoInvokeId
          PROVE  subs'[j].valid /\ subs'[j].confirmed
      BY <1>1, <3>1, <3>4 DEF OwnersInv
    <3>5. ASSUME NEW j \in Slots, NEW k \in Slots, j # k,
                 subs'[j].invokeID # NoInvokeId
          PROVE  subs'[j].invokeID # subs'[k].invokeID
      BY <1>1, <1>3, <3>1, <3>5 DEF OwnersInv
    <3> QED BY <3>3, <3>4, <3>5 DEF OwnersInv
  <2> QED BY <2>1, <2>2
<1>6. AddressInv'
  <2>1. \A j \in Slots :
          /\ subs'[j].valid = subs[j].valid /\ subs'[j].dest = subs[j].dest
          /\ subs'[j].object = subs[j].object
          /\ subs'[j].process = subs[j].process
    BY <1>1
  <2> QED BY <1>2, <2>1, SameKeeps
<1>7. WaitingInv' BY <1>1, <1>2 DEF WaitingInv
<1>8. NoChangeForgotten'
  BY <1>1, <1>2 DEF NoChangeForgotten, WaitingInv
<1> QED BY <1>4, <1>5, <1>6, <1>7, <1>8

\* What is around the handler changes no entry.
LEMMA SurroundingsKeep ==
  ASSUME Inv,
         \/ Idle \/ SendNothing \/ Control
         \/ \E o \in Objects : Change(o)
         \/ \E id \in InvokeIds : Answer(id)
  PROVE  Inv'
<1> USE DEF Inv
<1>1. subs' = subs /\ addresses' = addresses
  BY DEF Idle, SendNothing, Control, Change, Answer
<1>2. AddressInv' BY <1>1, SameKeeps
<1>3. CASE Idle
  <2>1. task' \in [phase : Phases, index : Slots]
    BY <1>3 DEF Idle, Phases, Slots
  <2>2. TypeOK' /\ OwnersInv' /\ WaitingInv' /\ NoChangeForgotten'
    BY <1>3, <2>1 DEF Idle, TypeOK, OwnersInv, WaitingInv, NoChangeForgotten
  <2> QED BY <1>2, <2>2
<1>4. CASE SendNothing
  <2>1. task' \in [phase : Phases, index : Slots]
    BY <1>4, AdvanceFacts DEF SendNothing, Phases
  <2>2. TypeOK' /\ OwnersInv' /\ WaitingInv' /\ NoChangeForgotten'
    BY <1>4, <2>1
       DEF SendNothing, TypeOK, OwnersInv, WaitingInv, NoChangeForgotten
  <2> QED BY <1>2, <2>2
<1>5. CASE Control
  BY <1>2, <1>5 DEF Control, TypeOK, OwnersInv, WaitingInv, NoChangeForgotten
<1>6. ASSUME NEW o \in Objects, Change(o) PROVE Inv'
  <2>1. /\ changed' = [changed EXCEPT ![o] = TRUE]
        /\ unreported' = unreported \cup
             {i \in Slots : subs[i].valid /\ subs[i].object = o}
        /\ UNCHANGED <<subs, addresses, task, tsm, dcc>>
    BY <1>6 DEF Change
  <2>2. TypeOK' BY <2>1 DEF TypeOK
  <2>3. OwnersInv' /\ WaitingInv' BY <2>1 DEF OwnersInv, WaitingInv
  <2>4. NoChangeForgotten'
    BY <2>1 DEF NoChangeForgotten, WaitingInv, TypeOK, Entries
  <2> QED BY <1>2, <2>2, <2>3, <2>4
<1>7. ASSUME NEW id \in InvokeIds, Answer(id) PROVE Inv'
  <2>1. PICK result \in {"free", "failed"} : tsm' = [tsm EXCEPT ![id] = result]
    BY <1>7 DEF Answer
  <2>2. /\ tsm[id] = "waiting"
        /\ UNCHANGED <<subs, addresses, task, changed, dcc, unreported>>
    BY <1>7 DEF Answer
  <2>3. TypeOK' BY <2>1, <2>2 DEF TypeOK
  <2>4. OwnersInv' BY <2>1, <2>2 DEF OwnersInv, TypeOK
  <2>5. WaitingInv' /\ NoChangeForgotten'
    BY <2>2 DEF WaitingInv, NoChangeForgotten
  <2> QED BY <1>2, <2>3, <2>4, <2>5
<1> QED BY <1>3, <1>4, <1>5, <1>6, <1>7

-----------------------------------------------------------------------------
(* The theorems *)

LEMMA Inductive == Spec => []Inv
<1>1. Init => Inv
  <2> SUFFICES ASSUME Init PROVE Inv OBVIOUS
  <2>1. PICK any \in Contexts :
          subs = [i \in Slots |->
                    [valid |-> FALSE, confirmed |-> FALSE,
                     sendRequested |-> FALSE, dest |-> NoPlace,
                     invokeID |-> NoInvokeId, process |-> any.process,
                     object |-> any.object, lifetime |-> 0]]
    BY DEF Init
  <2>2. TypeOK
    <3>1. any.process \in {c.process : c \in Contexts} /\ any.object \in Objects
      BY DEF Objects
    <3>2. subs \in [Slots -> Entries] BY <2>1, <3>1 DEF Entries
    <3>3. task \in [phase : Phases, index : Slots] BY DEF Init, Phases, Slots
    <3> QED BY <3>2, <3>3 DEF Init, TypeOK
  <2>3. \A i \in Slots : ~subs[i].valid /\ subs[i].invokeID = NoInvokeId
    BY <2>1
  <2>4. OwnersInv /\ WaitingInv /\ NoChangeForgotten
    BY <2>3 DEF Init, OwnersInv, WaitingInv, NoChangeForgotten
  <2>5. AddressInv
    BY <2>3 DEF Init, AddressInv, AddressesTight, ContextsInv, PlacesInv,
                OneEntryPerContext, ObjectsInv
  <2> QED BY <2>2, <2>4, <2>5 DEF Inv
<1>2. Inv /\ [Next]_vars => Inv'
  <2> SUFFICES ASSUME Inv, [Next]_vars PROVE Inv' OBVIOUS
  <2>1. CASE Service
    <3>1. PICK c \in Contexts :
            \/ Cancel(c)
            \/ \E lifetime \in Lifetimes, confirmed \in Confirmations :
                 \/ Renew(c, lifetime, confirmed)
                 \/ Subscribe(c, lifetime, confirmed)
      BY <2>1 DEF Service
    <3> QED BY <3>1, CancelKeeps, RenewKeeps, SubscribeKeeps
  <2>2. CASE Task
    BY <2>2, MarkKeeps, ClearKeeps, FreeKeeps, SendKeeps, SurroundingsKeep
       DEF Task, Send
  <2>3. ASSUME NEW seconds \in Elapses, TimerSeconds(seconds) PROVE Inv'
    BY <2>3, TimerKeeps
  <2>4. CASE \/ Control \/ \E o \in Objects : Change(o)
             \/ \E id \in InvokeIds : Answer(id)
    BY <2>4, SurroundingsKeep
  <2>5. CASE UNCHANGED vars
    BY <2>5, SameKeeps
       DEF vars, Inv, TypeOK, OwnersInv, WaitingInv, NoChangeForgotten
  <2> QED BY <2>1, <2>2, <2>3, <2>4, <2>5 DEF Next
<1> QED BY <1>1, <1>2, PTL DEF Spec

\* The tables stay well-typed, whatever the numbers of their entries.
THEOREM TypeCorrect == Spec => []TypeOK
<1>1. Inv => TypeOK BY DEF Inv
<1> QED BY <1>1, Inductive, PTL

\* No place for an address is leaked, shared or lost (h_cov.c:107-170).
THEOREM AddressesStayTight == Spec => []AddressesTight
<1>1. Inv => AddressesTight BY DEF Inv, AddressInv
<1> QED BY <1>1, Inductive, PTL

\* Every transaction has its one entry, which will free it (h_cov.c:365-371,
\* 499-505, 611-627).
THEOREM TransactionsHaveOwners == Spec => []TransactionsOwned
<1>1. Inv => TransactionsOwned
  <2> SUFFICES ASSUME Inv, NEW id \in InvokeIds, tsm[id] # "free"
               PROVE  Cardinality({i \in Slots : /\ subs[i].invokeID = id
                                                 /\ subs[i].valid
                                                 /\ subs[i].confirmed}) = 1
    BY DEF TransactionsOwned
  <2>1. PICK i \in Slots : subs[i].invokeID = id BY DEF Inv, OwnersInv
  <2>2. {j \in Slots : subs[j].invokeID = id /\ subs[j].valid
                         /\ subs[j].confirmed} = {i}
    BY <2>1 DEF Inv, OwnersInv
  <2> QED BY <2>2, FS_Singleton
<1> QED BY <1>1, Inductive, PTL

\* A context is subscribed to once if every client has a place for its address
\* (h_cov.c:328-409).
THEOREM OneEntryForAContext == Spec => []OneEntryPerContext
<1>1. Inv => OneEntryPerContext BY DEF Inv, AddressInv
<1> QED BY <1>1, Inductive, PTL

\* No change is forgotten while every object has one subscriber, for any number
\* of objects and whatever happens between two steps of the task
\* (h_cov.c:556-671).
THEOREM ChangesAreKept == Spec => []NoChangeForgotten
<1>1. Inv => NoChangeForgotten BY DEF Inv
<1> QED BY <1>1, Inductive, PTL

\* A lifetime that ends never leaves a valid entry with the lifetime 0, which
\* would mean for ever: what reaches 0 has ended (h_cov.c:481-517, 538-554).
THEOREM LifetimesEnd == Spec => DefiniteStaysDefinite
<1>1. ASSUME TypeOK, NEW i \in Definite, NEW seconds \in Elapses,
             TimerSeconds(seconds), subs'[i].valid
      PROVE  subs'[i].lifetime > 0
  <2>1. i \in Slots /\ subs[i] \in Entries /\ subs[i].lifetime \in Nat
        /\ seconds \in Nat
    BY <1>1, CovAssumption DEF TypeOK, Definite, Entries, CovAssumption
  <2>2. subs'[i] = [subs[i] EXCEPT
          !.lifetime = Remaining(i, seconds),
          !.valid = i \notin Expired(seconds),
          !.dest = IF i \in Expired(seconds) THEN NoPlace ELSE @,
          !.invokeID = IF i \in {j \in Expired(seconds) : subs[j].confirmed}
                       THEN NoInvokeId ELSE @]
    BY <1>1, <2>1 DEF TimerSeconds
  <2>3. /\ subs'[i].valid = (i \notin Expired(seconds))
        /\ subs'[i].lifetime = Remaining(i, seconds)
    BY <2>1, <2>2 DEF Entries
  <2>4. ~(subs[i].lifetime <= seconds) BY <1>1, <2>3 DEF Expired
  <2> QED BY <2>1, <2>3, <2>4 DEF Remaining
<1>2. TypeOK /\ [Next]_vars =>
        [\A i \in Definite, seconds \in Elapses :
           TimerSeconds(seconds) /\ subs'[i].valid => subs'[i].lifetime > 0]_vars
  BY <1>1
<1> QED BY <1>2, TypeCorrect, PTL DEF Spec, DefiniteStaysDefinite

=============================================================================
