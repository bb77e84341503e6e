--------------------------- MODULE LeaseRegistry ---------------------------
(***************************************************************************)
(* What a BBMD promises the foreign devices that register with it: a lease *)
(* per device, granted or refused, renewed, cancelled, and running out.    *)
(* Slots, their order and their reuse are not part of the promise.         *)
(***************************************************************************)
EXTENDS Integers, FiniteSets

CONSTANTS
  Addresses,        \* B/IP addresses, port included, of the foreign devices
  Capacity,         \* how many leases there may be at a time
  Grace,            \* seconds a lease lasts beyond its Time-to-Live
  Ttls,             \* Time-to-Live values that devices ask for
  Elapses           \* how many seconds may pass between two looks at the clock

VARIABLES
  lease,            \* seconds until the device is dropped, 0 if it has none
  answer            \* result sent by the last step: address and success

Leased == {a \in Addresses : lease[a] > 0}

NoAnswer == [to |-> "nobody", ok |-> FALSE]
Answer(a, ok) == [to |-> a, ok |-> ok]

Init ==
  /\ lease = [a \in Addresses |-> 0]
  /\ answer = NoAnswer

\* A device that has a lease is always granted a new one in its place.
Grant(a, ttl) ==
  /\ lease[a] > 0 \/ Cardinality(Leased) < Capacity
  /\ lease' = [lease EXCEPT ![a] = ttl + Grace]
  /\ answer' = Answer(a, TRUE)

\* Only a registry with no room refuses, and only a newcomer.
Refuse(a) ==
  /\ lease[a] = 0 /\ Cardinality(Leased) >= Capacity
  /\ answer' = Answer(a, FALSE)
  /\ UNCHANGED lease

\* Anybody may cancel a lease; the answer goes to whoever asked.
Cancel(a, asker) ==
  /\ lease' = [lease EXCEPT ![a] = 0]
  /\ answer' = Answer(asker, lease[a] > 0)

Remaining(n, seconds) == IF n > seconds THEN n - seconds ELSE 0

Elapse(seconds) ==
  /\ lease' = [a \in Addresses |-> Remaining(lease[a], seconds)]
  /\ answer' = NoAnswer

\* Reading the registry changes nothing.
Consult == answer' = NoAnswer /\ UNCHANGED lease

Next ==
  \/ \E a \in Addresses, ttl \in Ttls : Grant(a, ttl)
  \/ \E a \in Addresses : Refuse(a)
  \/ \E a, asker \in Addresses : Cancel(a, asker)
  \/ \E seconds \in Elapses : Elapse(seconds)
  \/ Consult

Spec == Init /\ [][Next]_<<lease, answer>>

=============================================================================
