------------------------ MODULE ForeignDeviceTable -------------------------
(***************************************************************************)
(* The Foreign Device Table of one BBMD as its clients use it: requests    *)
(* that bvlc_receive() answers (src/bvlc.cpp, BBMD_ENABLED) and the        *)
(* seconds that bvlc_maintenance_timer() is told of.                       *)
(***************************************************************************)
EXTENDS Fdt

CONSTANTS
  Elapses,          \* arguments of bvlc_maintenance_timer()
  AckRoom           \* entries that fit a Read-FDT-Ack

ASSUME RequestAssumption ==
  /\ Elapses \subseteq Nat /\ AckRoom \in Nat

VARIABLES
  table,            \* FD_Table
  reply             \* what the last step sent

tableVars == <<table, reply>>

NoReply == [kind |-> "none"]
Result(to, code) == [kind |-> "BVLC-Result", to |-> to, code |-> code]

Replies ==
  {NoReply}
    \cup [kind : {"BVLC-Result"}, to : Addresses,
          code : {"SUCCESSFUL_COMPLETION", "REGISTER_NAK", "DELETE_NAK",
                  "READ_NAK"}]
    \cup [kind : {"Read-FDT-Ack"}, to : Addresses,
          entries : SUBSET [addr : Addresses \cup {NoAddress}, ttl : Nat, remaining : Nat]]

TableTypeOK == table \in Tables /\ reply \in Replies

TableInit == table = EmptyTable /\ reply = NoReply

Register(a, ttl) ==
  \/ /\ HasRoomFor(table, a)
     /\ table' = Registered(table, a, ttl)
     /\ reply' = Result(a, "SUCCESSFUL_COMPLETION")
  \/ /\ ~HasRoomFor(table, a)
     /\ reply' = Result(a, "REGISTER_NAK")
     /\ UNCHANGED table

\* The asker names the entry to delete: anybody's.
Delete(a, asker) ==
  /\ table' = Deleted(table, a)
  /\ reply' = Result(asker, IF Listed(table, a) THEN "SUCCESSFUL_COMPLETION"
                                              ELSE "DELETE_NAK")

\* The remaining seconds are cut to two octets on their way out.
WireEntry(e) ==
  [addr |-> e.addr, ttl |-> e.ttl, remaining |-> e.remaining % Wire]

InUse == {s \in Slots : table[s].valid}

ReadFdt(asker) ==
  /\ reply' = IF Cardinality(InUse) <= AckRoom
              THEN [kind |-> "Read-FDT-Ack", to |-> asker,
                    entries |-> {WireEntry(table[s]) : s \in InUse}]
              ELSE Result(asker, "READ_NAK")
  /\ UNCHANGED table

MaintenanceTimer(seconds) ==
  /\ table' = Aged(table, seconds)
  /\ reply' = NoReply

TableNext ==
  \/ \E a \in Addresses, ttl \in Ttls : Register(a, ttl)
  \/ \E a, asker \in Addresses : Delete(a, asker)
  \/ \E asker \in Addresses : ReadFdt(asker)
  \/ \E seconds \in Elapses : MaintenanceTimer(seconds)

TableSpec == TableInit /\ [][TableNext]_tableVars

-----------------------------------------------------------------------------
(* Properties *)

\* A device has one entry however often, and after whatever expiries and
\* deletions before it in the array, it registers: one copy of each broadcast.
OneEntryPerDevice ==
  \A r, s \in InUse : table[r].addr = table[s].addr => r = s

\* An entry in use has time left: bvlc_maintenance_timer() passes over one
\* that has none, so that it could never be cleared, and forwarding too.
EntriesExpire == \A s \in InUse : table[s].remaining > 0

\* The table is a registry of leases: the mapping forgets the slots.
Registry ==
  INSTANCE LeaseRegistry WITH
    Capacity <- MaxFdEntries,
    lease <- [a \in Addresses |-> Lease(table, a)],
    answer <- IF reply.kind = "BVLC-Result" /\ reply.code # "READ_NAK"
              THEN [to |-> reply.to, ok |-> reply.code = "SUCCESSFUL_COMPLETION"]
              ELSE [to |-> "nobody", ok |-> FALSE]

\* Comment at lines 1231-1239: a registration starts or restarts the timer
\* with the Time-to-Live plus the grace period, and a device is dropped when,
\* and only when, its timer expires or somebody deletes its entry.
ImplementsRegistry == Registry!Spec

=============================================================================
