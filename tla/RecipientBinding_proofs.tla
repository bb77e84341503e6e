------------------------ MODULE RecipientBinding_proofs ------------------------
(***************************************************************************)
(* Every recipient is asked for in time and no binding outlives its time,  *)
(* for every number of devices, every list and every setting of the        *)
(* timers.                                                                 *)
(*                                                                         *)
(* Neither property is inductive.  That of the scan is, once the time a    *)
(* recipient waits is compared with the timer of the scan (WaitingInv);    *)
(* that of the bindings, once the age of a binding and the time it has     *)
(* left are compared with the timer of the cache (AgeInv).                 *)
(***************************************************************************)
EXTENDS RecipientBinding, TLAPS

\* A scan is a step of the same call; none waits longer than since the last.
WaitingInv == \A d \in Devices : waited[d] =< scanTmr

\* What a binding has been used and what it has left make up the time to live,
\* but for the seconds the cache has not been told of.
AgeInv ==
  \A d \in Devices :
    IF Bound(cache, d) THEN heard[d] + cache[d].ttl =< TimeToLive + bindingTmr
    ELSE heard[d] = 0

-----------------------------------------------------------------------------
(* The cache *)

\* Ageing keeps the type of the cache (address_cache_timer).
LEMMA AgedType ==
  ASSUME NEW c \in [Devices -> Entries], NEW s \in Nat
  PROVE  Aged(c, s) \in [Devices -> Entries]
<1> SUFFICES ASSUME NEW d \in Devices PROVE Aged(c, s)[d] \in Entries
  BY DEF Aged
<1>1. CASE c[d].state # "free" /\ c[d].ttl >= s
  <2>1. /\ c[d] \in Entries
        /\ c[d].ttl - s \in 0 .. TimeToLive
    BY <1>1, BindingAssumption DEF Entries
  <2>2. Aged(c, s)[d] = [c[d] EXCEPT !.ttl = @ - s]
    BY <1>1 DEF Aged
  <2> QED BY <2>1, <2>2 DEF Entries
<1>2. CASE ~ (c[d].state # "free" /\ c[d].ttl >= s)
  <2>1. Aged(c, s)[d] = Free BY <1>2 DEF Aged
  <2> QED BY <2>1, BindingAssumption DEF Free, Entries
<1> QED BY <1>1, <1>2

\* Requests for bindings keep it too, and leave a device with its binding and
\* without one as it was (address_bind_request).
LEMMA BindRequestedType ==
  ASSUME NEW c \in [Devices -> Entries], NEW ids
  PROVE  /\ BindRequested(c, ids) \in [Devices -> Entries]
         /\ \A d \in Devices :
              Bound(BindRequested(c, ids), d) <=> Bound(c, d)
         /\ \A d \in Devices :
              Bound(c, d) => BindRequested(c, ids)[d] = c[d]
<1> DEFINE requested == [state |-> "requested", address |-> NoAddress,
                         ttl |-> TimeToLive]
<1>1. requested \in Entries BY BindingAssumption DEF Entries
<1>2. \A d \in Devices : BindRequested(c, ids)[d]
                           = IF d \in ids /\ c[d].state = "free"
                             THEN requested ELSE c[d]
  BY DEF BindRequested
<1>3. BindRequested(c, ids) \in [Devices -> Entries]
  BY <1>1 DEF BindRequested
<1> QED BY <1>2, <1>3 DEF Bound

\* A device that is still bound after its turn was bound before it.
LEMMA AgedBound ==
  ASSUME NEW c \in [Devices -> Entries], NEW s \in Nat, NEW d \in Devices,
         Bound(Aged(c, s), d)
  PROVE  Bound(c, d) /\ Aged(c, s)[d].ttl = c[d].ttl - s
<1>1. c[d].state # "free" /\ c[d].ttl >= s
  BY DEF Bound, Aged, Free
<1>2. Aged(c, s)[d] = [c[d] EXCEPT !.ttl = @ - s]
  BY <1>1 DEF Aged
<1>3. c[d] \in Entries OBVIOUS
<1> QED BY <1>2, <1>3 DEF Bound, Entries

\* A written list is one of RecipientLists; the others change nothing.
LEMMA ListType ==
  ASSUME TypeOK, NEW m \in Messages
  PROVE  ListAfter(m) \in Seq(Recipients)
BY BindingAssumption
DEF TypeOK, Messages, ListAfter, NoMessage, IAms

\* Receiving a datagram keeps the type of the cache; what is not told of the
\* device leaves a binding as it was, and makes none.
LEMMA ReceivedType ==
  ASSUME TypeOK, NEW m \in Messages
  PROVE  /\ CacheAfter(m) \in [Devices -> Entries]
         /\ \A d \in Devices :
              Bound(CacheAfter(m), d) /\ ~ (m.type = "I-Am" /\ m.device = d)
              => Bound(cache, d) /\ CacheAfter(m)[d] = cache[d]
<1>1. cache \in [Devices -> Entries] BY DEF TypeOK
<1>2. CASE m.type = "I-Am"
  <2>1. m \in IAms
    BY <1>2 DEF Messages, NoMessage, TypeOK
  <2>2. CacheAfter(m) = AddressAdd(cache, m.device, m.address)
    BY <1>2 DEF CacheAfter
  <2>3. [state |-> "bound", address |-> m.address, ttl |-> TimeToLive] \in Entries
    BY <2>1, BindingAssumption DEF IAms, Entries
  <2> QED BY <1>1, <1>2, <2>1, <2>2, <2>3 DEF AddressAdd, Bound, IAms
<1>3. CASE m.type = "write"
  <2>1. CacheAfter(m) = BindRequested(cache, DevicesIn(m.list))
    BY <1>3 DEF CacheAfter
  <2> QED BY <1>1, <2>1, BindRequestedType
<1>4. CASE m.type \notin {"I-Am", "write"}
  BY <1>1, <1>4 DEF CacheAfter
<1> QED BY <1>2, <1>3, <1>4

\* The devices a scan asks for exist, and every recipient without a binding is
\* among them.
LEMMA ScanAsks ==
  ASSUME NEW list \in Seq(Recipients), NEW c, NEW ids \in Scans(list, c)
  PROVE  /\ ids.asked \subseteq Devices
         /\ \A d \in DevicesIn(list) : Bound(c, d) \/ d \in ids.asked
<1>1. PICK id \in DeviceIDs(list, c) : ids.asked = AskedIn(list, id, c)
  BY DEF Scans
<1>2. DevicesIn(list) \subseteq Devices
  BY DEF DevicesIn, Recipients
<1> QED BY <1>1, <1>2 DEF AskedIn

-----------------------------------------------------------------------------
(* The steps *)

\* What a call of execute() does, with what its scan asked for.
LEMMA ExecuteFacts ==
  ASSUME TypeOK, NEW m \in Messages, NEW s \in 0 .. MaxLag, Execute(m, s)
  PROVE  LET list == ListAfter(m)
             aged == AgedWhenDue(CacheAfter(m), s)
         IN /\ list \in Seq(Recipients)
            /\ aged \in [Devices -> Entries]
            /\ s \in Nat
            /\ \E ids \in Scans(list, aged) \cup {NoScan} :
                 /\ ScanDue(m, s) => ids \in Scans(list, aged)
                 /\ ids.asked \subseteq Devices
                 /\ cache' = BindRequested(aged, ids.bound)
                 /\ announced' = (announced \ {m})
                                   \cup {IAm(d, home[d]) : d \in ids.asked}
                 /\ waited' = [d \in Devices |->
                      IF \/ d \notin DevicesIn(list) \/ Bound(cache', d)
                         \/ d \in ids.asked
                      THEN 0 ELSE waited[d] + s]
<1> DEFINE list == ListAfter(m)
           aged == AgedWhenDue(CacheAfter(m), s)
<1>1. list \in Seq(Recipients) BY ListType
<1>2. s \in Nat /\ bindingTmr + s \in Nat BY BindingAssumption DEF TypeOK
<1>3. aged \in [Devices -> Entries]
  BY <1>2, ReceivedType, AgedType DEF AgedWhenDue
<1>4. PICK ids \in IF ScanDue(m, s) THEN Scans(list, aged) ELSE {NoScan} :
        /\ cache' = BindRequested(aged, ids.bound)
        /\ announced' = (announced \ {m}) \cup {IAm(d, home[d]) : d \in ids.asked}
        /\ waited' = [d \in Devices |->
             IF d \notin DevicesIn(list) \/ Bound(cache', d) \/ d \in ids.asked
             THEN 0 ELSE waited[d] + s]
  BY DEF Execute
<1>5. ids.asked \subseteq Devices
  BY <1>1, <1>4, ScanAsks DEF NoScan
<1> HIDE DEF list, aged
<1>6. /\ ids \in Scans(list, aged) \cup {NoScan}
      /\ ScanDue(m, s) => ids \in Scans(list, aged)
  BY <1>4
<1> QED BY <1>1, <1>2, <1>3, <1>4, <1>5, <1>6 DEF list, aged

\* A call keeps the types.
LEMMA ExecuteType ==
  ASSUME TypeOK, NEW m \in Messages, NEW s \in 0 .. MaxLag, Execute(m, s)
  PROVE  TypeOK'
<1> DEFINE list == ListAfter(m)
           aged == AgedWhenDue(CacheAfter(m), s)
<1>1. /\ list \in Seq(Recipients) /\ aged \in [Devices -> Entries] /\ s \in Nat
      /\ recipients' = list /\ changed' = FALSE /\ home' = home
  BY ExecuteFacts DEF Execute
<1>2. PICK ids :
        /\ ids.asked \subseteq Devices
        /\ cache' = BindRequested(aged, ids.bound)
        /\ announced' = (announced \ {m}) \cup {IAm(d, home[d]) : d \in ids.asked}
        /\ waited' = [d \in Devices |->
             IF d \notin DevicesIn(list) \/ Bound(cache', d) \/ d \in ids.asked
             THEN 0 ELSE waited[d] + s]
  BY ExecuteFacts
<1>3. scanTmr' \in 0 .. Rescan - 1
  BY <1>1, BindingAssumption DEF TypeOK, Execute, ScanDue
<1>4. bindingTmr' \in 0 .. BindingTime - 1
  BY <1>1, BindingAssumption DEF TypeOK, Execute, BindingTimer
<1> HIDE DEF list, aged
<1>5. cache' \in [Devices -> Entries] BY <1>1, <1>2, BindRequestedType
<1>6. announced' \subseteq IAms
  BY <1>2 DEF TypeOK, IAm, IAms
<1>7. waited' \in [Devices -> Nat] BY <1>1, <1>2 DEF TypeOK
<1>8. heard' \in [Devices -> Nat] BY <1>1 DEF TypeOK, Execute
<1> QED BY <1>1, <1>3, <1>4, <1>5, <1>6, <1>7, <1>8 DEF TypeOK

\* A call keeps the bound on the waiting.
LEMMA ExecuteWaiting ==
  ASSUME TypeOK, WaitingInv, NEW m \in Messages, NEW s \in 0 .. MaxLag,
         Execute(m, s)
  PROVE  WaitingInv'
<1> DEFINE list == ListAfter(m)
           aged == AgedWhenDue(CacheAfter(m), s)
<1>1. PICK ids \in Scans(list, aged) \cup {NoScan} :
        /\ ScanDue(m, s) => ids \in Scans(list, aged)
        /\ cache' = BindRequested(aged, ids.bound)
        /\ waited' = [d \in Devices |->
             IF d \notin DevicesIn(list) \/ Bound(cache', d) \/ d \in ids.asked
             THEN 0 ELSE waited[d] + s]
  BY ExecuteFacts
<1>2. list \in Seq(Recipients) /\ aged \in [Devices -> Entries] /\ s \in Nat
  BY ExecuteFacts
<1>3. /\ ScanDue(m, s) => scanTmr' = 0
      /\ ~ScanDue(m, s) => scanTmr' = scanTmr + s
      /\ scanTmr \in Nat /\ waited \in [Devices -> Nat]
  BY BindingAssumption DEF Execute, TypeOK
<1> HIDE DEF list, aged
<1> SUFFICES ASSUME NEW d \in Devices PROVE waited'[d] =< scanTmr'
  BY DEF WaitingInv
<1>4. CASE ScanDue(m, s)
  <2>1. d \in DevicesIn(list) => Bound(aged, d) \/ d \in ids.asked
    BY <1>1, <1>2, <1>4, ScanAsks
  <2>2. Bound(cache', d) <=> Bound(aged, d)
    BY <1>1, <1>2, BindRequestedType
  <2> QED BY <1>1, <1>3, <1>4, <2>1, <2>2
<1>5. CASE ~ScanDue(m, s)
  BY <1>1, <1>2, <1>3, <1>5 DEF WaitingInv
<1> QED BY <1>4, <1>5

\* A call keeps the bound on the age of the bindings.
LEMMA ExecuteAge ==
  ASSUME TypeOK, AgeInv, NEW m \in Messages, NEW s \in 0 .. MaxLag,
         Execute(m, s)
  PROVE  AgeInv'
<1> DEFINE received == CacheAfter(m)
           aged == AgedWhenDue(received, s)
<1> SUFFICES ASSUME NEW d \in Devices
             PROVE  IF Bound(cache', d)
                    THEN heard'[d] + cache'[d].ttl =< TimeToLive + bindingTmr'
                    ELSE heard'[d] = 0
  BY DEF AgeInv, Bound
<1>1. /\ aged \in [Devices -> Entries] /\ s \in Nat
      /\ \E ids : cache' = BindRequested(aged, ids.bound)
  BY ExecuteFacts
<1>2. received \in [Devices -> Entries] BY ReceivedType
<1>3. /\ bindingTmr \in Nat /\ bindingTmr' \in Nat /\ TimeToLive \in Nat
      /\ heard \in [Devices -> Nat] /\ cache \in [Devices -> Entries]
      /\ TypeOK'
  BY ExecuteType, BindingAssumption DEF TypeOK
<1>4. heard' = [e \in Devices |->
        IF ~Bound(cache', e) \/ (m.type = "I-Am" /\ m.device = e)
        THEN 0 ELSE heard[e] + s]
  BY DEF Execute
<1>5. CASE ~Bound(cache', d)
  BY <1>4, <1>5
<1>6. CASE Bound(cache', d) /\ m.type = "I-Am" /\ m.device = d
  <2>1. cache'[d].ttl \in 0 .. TimeToLive BY <1>3 DEF TypeOK, Entries
  <2> QED BY <1>3, <1>4, <1>6, <2>1
<1>7. CASE Bound(cache', d) /\ ~(m.type = "I-Am" /\ m.device = d)
  <2> HIDE DEF received, aged
  <2>1. Bound(aged, d) /\ cache'[d] = aged[d]
    BY <1>1, <1>7, BindRequestedType
  <2>2. heard'[d] = heard[d] + s BY <1>4, <1>7
  <2>3. CASE bindingTmr + s >= BindingTime
    <3>1. aged = Aged(received, bindingTmr + s) /\ bindingTmr + s \in Nat
          /\ bindingTmr' = 0
      BY <1>1, <1>3, <2>3 DEF aged, AgedWhenDue, Execute, BindingTimer
    <3>2. Bound(received, d) /\ aged[d].ttl = received[d].ttl - (bindingTmr + s)
      BY <1>2, <2>1, <3>1, AgedBound
    <3>3. Bound(cache, d) /\ received[d] = cache[d]
      BY <1>7, <3>2, ReceivedType DEF received
    <3>4. cache[d].ttl \in Nat BY <1>3 DEF Entries
    <3> QED BY <1>1, <1>3, <1>7, <2>1, <2>2, <3>1, <3>2, <3>3, <3>4 DEF AgeInv
  <2>4. CASE ~(bindingTmr + s >= BindingTime)
    <3>1. aged = received /\ bindingTmr' = bindingTmr + s
      BY <2>4 DEF aged, AgedWhenDue, Execute, BindingTimer
    <3>2. Bound(cache, d) /\ received[d] = cache[d]
      BY <1>7, <2>1, <3>1, ReceivedType DEF received
    <3>3. cache[d].ttl \in Nat BY <1>3 DEF Entries
    <3> QED BY <1>1, <1>3, <1>7, <2>1, <2>2, <3>1, <3>2, <3>3 DEF AgeInv
  <2> QED BY <2>3, <2>4
<1> QED BY <1>5, <1>6, <1>7

-----------------------------------------------------------------------------
(* The theorems *)

Inv == TypeOK /\ WaitingInv /\ AgeInv

\* The invariant holds of a process that starts, and every step keeps it.
LEMMA Inductive == Spec => []Inv
<1>1. Init => Inv
  <2> SUFFICES ASSUME Init PROVE Inv OBVIOUS
  <2>1. TypeOK
    <3>1. recipients \in Seq(Recipients) BY DEF Init
    <3>2. Free \in Entries BY BindingAssumption DEF Free, Entries
    <3> QED BY <3>1, <3>2, BindingAssumption DEF Init, TypeOK
  <2>2. WaitingInv BY DEF Init, WaitingInv
  <2>3. AgeInv BY DEF Init, AgeInv, Bound, Free
  <2> QED BY <2>1, <2>2, <2>3 DEF Inv
<1>2. Inv /\ [Next]_vars => Inv'
  <2> SUFFICES ASSUME Inv, [Next]_vars PROVE Inv' OBVIOUS
  <2> USE DEF Inv
  <2>1. ASSUME NEW m \in Messages, NEW s \in 0 .. MaxLag, Execute(m, s)
        PROVE  Inv'
    BY <2>1, ExecuteType, ExecuteWaiting, ExecuteAge
  <2>2. ASSUME NEW d \in Devices, Move(d) PROVE Inv'
    BY <2>2, BindingAssumption DEF Move, TypeOK, WaitingInv, AgeInv, Bound
  <2>3. CASE Lose
    BY <2>3 DEF Lose, TypeOK, WaitingInv, AgeInv, Bound
  <2>4. CASE Restart
    <3>1. Free \in Entries BY BindingAssumption DEF Free, Entries
    <3>2. TypeOK' BY <2>4, <3>1, BindingAssumption DEF Restart, TypeOK
    <3>3. WaitingInv' BY <2>4 DEF Restart, WaitingInv
    <3>4. AgeInv' BY <2>4 DEF Restart, AgeInv, Bound, Free
    <3> QED BY <3>2, <3>3, <3>4
  <2>5. CASE UNCHANGED vars
    BY <2>5 DEF vars, TypeOK, WaitingInv, AgeInv, Bound
  <2> QED BY <2>1, <2>2, <2>3, <2>4, <2>5 DEF Next
<1> QED BY <1>1, <1>2, PTL DEF Spec

\* The timers stay below their periods and the cache within its type, for any
\* lists, periods and lags.
THEOREM TypeCorrect == Spec => []TypeOK
<1>1. Inv => TypeOK BY DEF Inv
<1> QED BY <1>1, Inductive, PTL

\* No recipient without a binding waits for a scan as long as Rescan seconds
\* (notification_class.cpp:797-829, bacnet.cpp:177-188).
THEOREM EverybodyAskedInTime == Spec => []AskedInTime
<1>1. Inv => AskedInTime
  <2> SUFFICES ASSUME Inv, NEW d \in Devices PROVE waited[d] < Rescan
    BY DEF AskedInTime
  <2> QED BY BindingAssumption DEF Inv, TypeOK, WaitingInv
<1> QED BY <1>1, Inductive, PTL

\* No binding is used longer than the cache keeps it and one of its turns
\* (bacnet.cpp:170-175).
THEOREM NoBindingOutlivesItsTime == Spec => []BindingsAge
<1>1. Inv => BindingsAge
  <2> SUFFICES ASSUME Inv, NEW d \in Devices
               PROVE  heard[d] < TimeToLive + BindingTime
    BY DEF BindingsAge
  <2>1. /\ bindingTmr \in 0 .. BindingTime - 1 /\ heard[d] \in Nat
        /\ cache[d].ttl \in Nat /\ TimeToLive \in Nat /\ BindingTime \in Nat
        /\ BindingTime > 0
    BY BindingAssumption DEF Inv, TypeOK, Entries
  <2> QED BY <2>1 DEF Inv, AgeInv
<1> QED BY <1>1, Inductive, PTL

=============================================================================
