-------------------------- MODULE RecipientBinding --------------------------
(***************************************************************************)
(* The recipients of a notification class and the addresses of their       *)
(* devices: the write of Recipient_List, the scan for addresses, the       *)
(* ageing of the address cache (objects/notification_class.cpp,            *)
(* src/bacnet.cpp, handlers/h_iam.c, s_whois.c).                           *)
(*                                                                         *)
(* One call of execute() is one step: it receives at most one datagram,    *)
(* then accounts for the seconds that have passed.  There is one class;    *)
(* with several, the scan goes through their lists one after the other, as *)
(* through one longer list.                                                *)
(*                                                                         *)
(* A device answers a Who-Is at once, and its I-Am may be under way for    *)
(* any time; a Who-Is that is lost is an I-Am that is lost.                *)
(*                                                                         *)
(* Outside src/: the address cache (address_...), the remote devices and   *)
(* the network.                                                            *)
(***************************************************************************)
EXTENDS Integers, Sequences, FiniteSets, FiniteSetsExt, SequencesExt

CONSTANTS
  Devices,          \* the remote devices, by device instance
  Addresses,        \* the addresses they may have
  NoAddress,
  NoDevice,         \* an instance no device has: nobody answers for it,
                    \* and its entry in the cache is left out
  RecipientLists,   \* the lists that are written
  Rescan,           \* NC_RESCAN_RECIPIENTS_SECS
  BindingTime,      \* ADDRESS_BINDING_TIME_SECS
  TimeToLive,       \* seconds the cache keeps an entry
  MaxLag,           \* most seconds between two calls of execute()
  Start,            \* the address each device has at first
  Moving            \* devices that may get another address

NoMessage == [type |-> "none"]

\* A recipient is a device or an address; its days, times and transitions,
\* which the scan does not look at, are left out.
Recipients ==
  [type : {"device"}, to : Devices, confirmed : BOOLEAN]
  \cup
  [type : {"address"}, to : Addresses, confirmed : BOOLEAN]

ASSUME BindingAssumption ==
  /\ NoDevice \notin Devices /\ NoAddress \notin Addresses
  /\ RecipientLists \subseteq Seq(Recipients)
  /\ Rescan \in Nat \ {0} /\ BindingTime \in Nat \ {0}
  /\ TimeToLive \in Nat /\ BindingTime =< TimeToLive
  /\ MaxLag \in Nat /\ Moving \subseteq Devices
  /\ Start \in [Devices -> Addresses]

VARIABLES
  recipients,       \* the recipients of the class
  changed,          \* hasRecipientListChanged
  scanTmr,          \* recipient_scan_tmr
  bindingTmr,       \* address_binding_tmr
  cache,            \* the address cache
  announced,        \* I-Am under way
  home,             \* the address each device has
  waited,           \* history: seconds a recipient without a binding has
                    \* not been asked for
  heard             \* history: seconds since the I-Am of a bound device

vars == <<recipients, changed, scanTmr, bindingTmr, cache,
          announced, home, waited, heard>>

Free == [state |-> "free", address |-> NoAddress, ttl |-> 0]

Entries ==
  [state : {"free", "requested", "bound"},
   address : Addresses \cup {NoAddress}, ttl : 0 .. TimeToLive]

IAm(d, a) == [type |-> "I-Am", device |-> d, address |-> a]
IAms == [type : {"I-Am"}, device : Devices, address : Addresses]

TypeOK ==
  /\ recipients \in Seq(Recipients)
  /\ changed \in BOOLEAN
  /\ scanTmr \in 0 .. Rescan - 1 /\ bindingTmr \in 0 .. BindingTime - 1
  /\ cache \in [Devices -> Entries]
  /\ announced \subseteq IAms
  /\ home \in [Devices -> Addresses]
  /\ waited \in [Devices -> Nat] /\ heard \in [Devices -> Nat]

\* A process that starts adds its class, which raises the flag.
Init ==
  /\ recipients = <<>>
  /\ changed = TRUE
  /\ scanTmr = 0 /\ bindingTmr = 0
  /\ cache = [d \in Devices |-> Free]
  /\ announced = {}
  /\ home = Start
  /\ waited = [d \in Devices |-> 0] /\ heard = [d \in Devices |-> 0]

-----------------------------------------------------------------------------
(* The address cache *)

Bound(c, d) == d \in Devices /\ c[d].state = "bound"

\* address_add(), by handler_i_am_add().
AddressAdd(c, d, a) ==
  [c EXCEPT ![d] = [state |-> "bound", address |-> a, ttl |-> TimeToLive]]

\* address_bind_request() for each of `ids': those without an entry get one.
BindRequested(c, ids) ==
  [d \in Devices |->
     IF d \in ids /\ c[d].state = "free"
     THEN [state |-> "requested", address |-> NoAddress, ttl |-> TimeToLive]
     ELSE c[d]]

\* address_cache_timer().
Aged(c, seconds) ==
  [d \in Devices |->
     IF c[d].state # "free" /\ c[d].ttl >= seconds
     THEN [c[d] EXCEPT !.ttl = @ - seconds]
     ELSE Free]

\* address_get_device_id(): the devices the cache has at an address.
KnownAt(c, a) == {d \in Devices : Bound(c, d) /\ c[d].address = a}

-----------------------------------------------------------------------------
(* notificationClassFindRecipient() *)

DevicesIn(list) ==
  {list[i].to : i \in {j \in DOMAIN list : list[j].type = "device"}}

\* The recipients that are addresses to be reached by confirmed requests.
ConfirmedAddresses(list) ==
  {i \in DOMAIN list : list[i].type = "address" /\ list[i].confirmed}

\* DeviceID after a recipient, from what it was before it.
NextDeviceID(recipient, id, c) ==
  IF recipient.type = "device" THEN {recipient.to}
  ELSE IF recipient.confirmed /\ ~Bound(c, id) /\ KnownAt(c, recipient.to) # {}
       THEN KnownAt(c, recipient.to)
       ELSE {id}

\* DeviceID before and after each recipient.  It is uninitialised at the first
\* one, and still that, or what an earlier one left, at one given by address.
DeviceIDs(list, c) ==
  FoldLeft(LAMBDA ids, recipient :
             UNION {{Append(id, next) :
                       next \in NextDeviceID(recipient, Last(id), c)} : id \in ids},
           {<<id>> : id \in Devices \cup {NoDevice}}, list)

\* The device instances bindings are requested for.
RequestedIn(list, id) ==
  DevicesIn(list) \cup {id[i] : i \in ConfirmedAddresses(list)}

\* Fault: only the devices without an entry are asked for, as if one request
\* could not be lost.
AskedOnce(list, id, c) ==
  {d \in DevicesIn(list) : c[d].state = "free"}

\* The device instances Who-Is is sent for.
AskedIn(list, id, c) ==
  {d \in DevicesIn(list) : ~Bound(c, d)}
  \cup
  ({id[i] : i \in {j \in ConfirmedAddresses(list) :
                     ~Bound(c, id[j]) /\ KnownAt(c, list[j].to) = {}}} \cap Devices)

\* What a scan requests bindings of and sends Who-Is for.
Scans(list, c) ==
  {[bound |-> RequestedIn(list, id), asked |-> AskedIn(list, id, c)] :
     id \in DeviceIDs(list, c)}
NoScan == [bound |-> {}, asked |-> {}]

-----------------------------------------------------------------------------
(* execute() *)

Messages == {NoMessage} \cup announced
            \cup {[type |-> "write", list |-> l] : l \in RecipientLists}

ListAfter(m) == IF m.type = "write" THEN m.list ELSE recipients

\* handler_i_am_add(), and the bind requests of notification_class_write_property().
CacheAfter(m) ==
  CASE m.type = "I-Am" -> AddressAdd(cache, m.device, m.address)
    [] m.type = "write" -> BindRequested(cache, DevicesIn(m.list))
    [] OTHER -> cache

\* Fault: the cache is told of the seconds of this call only.
AgedByLastSeconds(c, seconds) ==
  IF bindingTmr + seconds >= BindingTime THEN Aged(c, seconds) ELSE c

\* The cache's turn comes when its timer does.
AgedWhenDue(c, seconds) ==
  IF bindingTmr + seconds >= BindingTime THEN Aged(c, bindingTmr + seconds) ELSE c

\* Fault: a list that has changed is all that is scanned for.
ScanIfChanged(m, seconds) == changed \/ m.type = "write"

ScanDue(m, seconds) ==
  scanTmr + seconds >= Rescan \/ changed \/ m.type = "write"

BindingTimer(seconds) ==
  IF bindingTmr + seconds >= BindingTime THEN 0 ELSE bindingTmr + seconds

Execute(m, seconds) ==
  LET list == ListAfter(m)
      received == CacheAfter(m)
      aged == AgedWhenDue(received, seconds)
      due == ScanDue(m, seconds)
  IN
  /\ recipients' = list
  /\ home' = home
  /\ bindingTmr' = BindingTimer(seconds)
  /\ changed' = FALSE
  /\ scanTmr' = IF due THEN 0 ELSE scanTmr + seconds
  /\ \E ids \in IF due THEN Scans(list, aged) ELSE {NoScan} :
       /\ cache' = BindRequested(aged, ids.bound)
       /\ announced' = (announced \ {m}) \cup {IAm(d, home[d]) : d \in ids.asked}
       /\ waited' = [d \in Devices |->
            IF d \notin DevicesIn(list) \/ Bound(cache', d) \/ d \in ids.asked
            THEN 0 ELSE waited[d] + seconds]
  /\ heard' = [d \in Devices |->
       IF ~Bound(cache', d) \/ (m.type = "I-Am" /\ m.device = d)
       THEN 0 ELSE heard[d] + seconds]

-----------------------------------------------------------------------------
(* Around it *)

\* The process ends and starts again: the list is imported, the rest is lost.
Restart ==
  /\ changed' = TRUE /\ scanTmr' = 0 /\ bindingTmr' = 0
  /\ cache' = [d \in Devices |-> Free]
  /\ waited' = [d \in Devices |-> 0] /\ heard' = [d \in Devices |-> 0]
  /\ UNCHANGED <<recipients, announced, home>>

\* A Who-Is or the I-Am that answers it is lost.
Lose ==
  /\ \E m \in announced : announced' = announced \ {m}
  /\ UNCHANGED <<recipients, changed, scanTmr, bindingTmr, cache, home, waited, heard>>

\* A device gets another address; nobody is told.
Move(d) ==
  /\ d \in Moving
  /\ \E a \in Addresses \ {home[d]} : home' = [home EXCEPT ![d] = a]
  /\ UNCHANGED <<recipients, changed, scanTmr, bindingTmr, cache, announced, waited, heard>>

Next ==
  \/ \E m \in Messages, seconds \in 0 .. MaxLag : Execute(m, seconds)
  \/ \E d \in Devices : Move(d)
  \/ Lose \/ Restart

Spec == Init /\ [][Next]_vars

\* The application goes on calling execute(), most of the time with nothing
\* received and often within the same second; the answer of a device that is
\* asked again and again arrives in the end.
FairSpec ==
  /\ Spec
  /\ WF_vars(Execute(NoMessage, 1))
  /\ \A d \in Devices :
       SF_vars(\E m \in announced : m.device = d /\ Execute(m, 0))

-----------------------------------------------------------------------------
(* Properties *)

\* Comment before notificationClassFindRecipient() (lines 797-798): it tries to
\* find the addresses of the devices and is called once per minute.  A recipient
\* without a binding is asked for before Rescan seconds have passed, whenever
\* it was written, its binding expired, a request was lost, or the process
\* restarted, and however late execute() is called.
AskedInTime == \A d \in Devices : waited[d] < Rescan

\* A binding is used no longer than the cache keeps it plus the time between
\* two of its turns: a device that has moved is not notified at its old
\* address for longer, although the scan touches its entry every Rescan seconds.
BindingsAge == \A d \in Devices : heard[d] < TimeToLive + BindingTime

\* A device that stays a recipient is bound again and again, whatever is lost
\* and whenever its binding expires or the process restarts.
RecipientsGetBound ==
  \A d \in Devices : []<>(d \notin DevicesIn(recipients) \/ Bound(cache, d))

=============================================================================
