-------------------------------- MODULE Fdt --------------------------------
(***************************************************************************)
(* The Foreign Device Table of a BBMD (src/bvlc.cpp, BBMD_ENABLED): the    *)
(* array FD_Table and the functions that read and change it.  A table is a *)
(* value, so that every BBMD of a network can have one.                    *)
(***************************************************************************)
EXTENDS Integers, FiniteSets

CONSTANTS
  Addresses,        \* B/IP addresses, port included, of the foreign devices
  NoAddress,        \* 0.0.0.0:0
  MaxFdEntries,     \* MAX_FD_ENTRIES
  Grace,            \* the grace period of 30 seconds
  Ttls,             \* Time-to-Live values that devices ask for
  Wire              \* 2^16, what a two-octet field counts up to

ASSUME TableAssumption ==
  /\ IsFiniteSet(Addresses) /\ NoAddress \notin Addresses
  /\ MaxFdEntries \in Nat
  /\ Grace \in Nat \ {0}
  /\ Ttls \subseteq Nat /\ Wire \in Nat \ {0}

Slots == 1 .. MaxFdEntries

Entries == [valid : BOOLEAN, addr : Addresses \cup {NoAddress},
            ttl : Nat, remaining : Nat]
Tables == [Slots -> Entries]

EmptyTable ==
  [s \in Slots |->
     [valid |-> FALSE, addr |-> NoAddress, ttl |-> 0, remaining |-> 0]]

Held(t, a) == {s \in Slots : t[s].valid /\ t[s].addr = a}
Unused(t) == {s \in Slots : ~t[s].valid}

\* The loops stop at the first slot that fits.
First(S) == CHOOSE s \in S : \A r \in S : s <= r

Listed(t, a) == Held(t, a) # {}
Lease(t, a) == IF Listed(t, a) THEN t[First(Held(t, a))].remaining ELSE 0

-----------------------------------------------------------------------------
(* bvlc_register_foreign_device() *)

HasRoomFor(t, a) == Listed(t, a) \/ Unused(t) # {}

\* Fault: an entry the device already has is not looked for.
AlwaysAdded(t, a, ttl) ==
  [t EXCEPT ![First(IF Unused(t) # {} THEN Unused(t) ELSE Held(t, a))] =
     [valid |-> TRUE, addr |-> a, ttl |-> ttl, remaining |-> ttl + Grace]]

\* Fault: a renewal stores the new Time-to-Live but leaves the timer running.
TimerNotRestarted(t, a, ttl) ==
  IF Listed(t, a)
  THEN [t EXCEPT ![First(Held(t, a))].ttl = ttl]
  ELSE [t EXCEPT ![First(Unused(t))] =
          [valid |-> TRUE, addr |-> a, ttl |-> ttl, remaining |-> ttl + Grace]]

Registered(t, a, ttl) ==
  [t EXCEPT ![First(IF Listed(t, a) THEN Held(t, a) ELSE Unused(t))] =
     [valid |-> TRUE, addr |-> a, ttl |-> ttl, remaining |-> ttl + Grace]]

-----------------------------------------------------------------------------
(* bvlc_delete_foreign_device() *)

Deleted(t, a) ==
  IF Listed(t, a)
  THEN [t EXCEPT ![First(Held(t, a))] =
          [@ EXCEPT !.valid = FALSE, !.remaining = 0]]
  ELSE t

-----------------------------------------------------------------------------
(* bvlc_maintenance_timer() *)

\* Fault: the entry whose time is over stays valid.
KeptWhenExpired(t, seconds) ==
  [s \in Slots |->
     IF t[s].valid /\ t[s].remaining > 0
     THEN [t[s] EXCEPT !.remaining =
             IF @ < seconds THEN 0 ELSE @ - seconds]
     ELSE t[s]]

\* Fault: the seconds are subtracted without comparing first.
AgedBelowZero(t, seconds) ==
  [s \in Slots |->
     IF ~t[s].valid \/ t[s].remaining = 0 THEN t[s]
     ELSE IF t[s].remaining = seconds
     THEN [t[s] EXCEPT !.valid = FALSE, !.remaining = 0]
     ELSE [t[s] EXCEPT !.remaining = @ - seconds]]

\* An entry with no time left would never be cleared: it is not looked at.
Aged(t, seconds) ==
  [s \in Slots |->
     IF ~t[s].valid \/ t[s].remaining = 0 THEN t[s]
     ELSE IF t[s].remaining <= seconds
     THEN [t[s] EXCEPT !.valid = FALSE, !.remaining = 0]
     ELSE [t[s] EXCEPT !.remaining = @ - seconds]]

=============================================================================
