------------------------ MODULE ForeignDevices_proofs ------------------------
(***************************************************************************)
(* Machine-checked proofs about the registration of foreign devices, for   *)
(* any number of devices, BBMDs and entries and all Times-to-Live.         *)
(*                                                                         *)
(* ForeignDeviceTable: the array never holds two entries of one device,    *)
(* every entry in use expires, and the table implements LeaseRegistry.     *)
(*                                                                         *)
(* FdNetwork: whatever the network does to the datagrams and whoever       *)
(* restarts, the broadcasts of a registered device have somewhere to go,   *)
(* and the state has its type.  What the first part says of the leases of  *)
(* one table the second part uses for the tables of all BBMDs.  With one   *)
(* BBMD, one Time-to-Live and datagrams that take less than two ticks, a   *)
(* device that believes itself registered is listed, and its lease stays   *)
(* out of the grace period while no registration of it is lost.            *)
(***************************************************************************)
EXTENDS ForeignDeviceTable, FdNetwork, TLAPS, FiniteSetTheorems,
        WellFoundedInduction

USE TableAssumption, RequestAssumption, DeviceAssumption, NetworkAssumption

-----------------------------------------------------------------------------
(* The slot a loop stops at *)

LEMMA LeastElement ==
  ASSUME NEW T, T \subseteq Nat, T # {}
  PROVE  \E x \in T : \A y \in T : x <= y
<1> DEFINE R == {ss \in Nat \X Nat : ss[1] < ss[2]}
<1>1. IsWellFoundedOn(R, Nat)
  BY NatLessThanWellFounded, Zenon DEF OpToRel
<1> HIDE DEF R
<1>2. PICK x \in T : \A y \in T : ~ (<<y, x>> \in R)
  BY <1>1, WFMin, Zenon
<1>3. ASSUME NEW y \in T PROVE x <= y
  <2>1. <<y, x>> \notin R
    BY <1>2
  <2>2. x \in Nat /\ y \in Nat
    OBVIOUS
  <2> QED BY <2>1, <2>2 DEF R
<1> QED BY <1>3

LEMMA FirstIsIn ==
  ASSUME NEW S, S \subseteq Slots, S # {}
  PROVE  First(S) \in S
<1>1. S \subseteq Nat
  BY DEF Slots
<1>2. \E x \in S : \A y \in S : x <= y
  BY <1>1, LeastElement
<1> QED BY <1>2, Zenon DEF First

\* The whole of a table's invariant, as a predicate of the table.
Good(t) ==
  /\ t \in Tables
  /\ \A r, s \in Slots :
       t[r].valid /\ t[s].valid /\ t[r].addr = t[s].addr => r = s
  /\ \A s \in Slots : t[s].valid => t[s].remaining > 0 /\ t[s].addr \in Addresses

\* The slot that the lease of a is kept in.
LEMMA LeaseSlot ==
  ASSUME NEW t, Good(t), NEW s \in Slots, t[s].valid
  PROVE  /\ Listed(t, t[s].addr) /\ First(Held(t, t[s].addr)) = s
         /\ Lease(t, t[s].addr) = t[s].remaining
<1>1. s \in Held(t, t[s].addr)
  BY DEF Held
<1>2. First(Held(t, t[s].addr)) \in Held(t, t[s].addr)
  BY <1>1, FirstIsIn DEF Held
<1> QED BY <1>1, <1>2 DEF Held, Listed, Lease, Good

LEMMA LeaseOfListed ==
  ASSUME NEW t, Good(t), NEW a
  PROVE  /\ Lease(t, a) \in Nat
         /\ Listed(t, a) <=> Lease(t, a) > 0
         /\ Listed(t, a) <=> \E s \in Slots : t[s].valid /\ t[s].addr = a
<1>1. CASE Listed(t, a)
  <2>1. PICK s \in Slots : t[s].valid /\ t[s].addr = a
    BY <1>1 DEF Listed, Held
  <2>2. Lease(t, a) = t[s].remaining
    BY <2>1, LeaseSlot
  <2> QED BY <1>1, <2>1, <2>2 DEF Good, Tables, Entries
<1>2. CASE ~Listed(t, a)
  BY <1>2 DEF Listed, Held, Lease
<1> QED BY <1>1, <1>2

-----------------------------------------------------------------------------
(* What the three functions do to a good table *)

LEMMA RegisteredTable ==
  ASSUME NEW t, Good(t), NEW a \in Addresses, NEW ttl \in Nat, HasRoomFor(t, a)
  PROVE  /\ Good(Registered(t, a, ttl))
         /\ Lease(Registered(t, a, ttl), a) = ttl + Grace
         /\ \A b \in Addresses \ {a} :
              Lease(Registered(t, a, ttl), b) = Lease(t, b)
<1> DEFINE where == First(IF Listed(t, a) THEN Held(t, a) ELSE Unused(t))
           new == [valid |-> TRUE, addr |-> a, ttl |-> ttl,
                   remaining |-> ttl + Grace]
           u == Registered(t, a, ttl)
<1>1. where \in Slots /\ (t[where].valid => t[where].addr = a)
  <2>1. CASE Listed(t, a)
    <3>1. where \in Held(t, a)
      BY <2>1, FirstIsIn DEF Listed, Held
    <3> QED BY <3>1 DEF Held
  <2>2. CASE ~Listed(t, a)
    <3>1. where \in Unused(t)
      BY <2>2, FirstIsIn DEF HasRoomFor, Unused
    <3> QED BY <3>1 DEF Unused
  <2> QED BY <2>1, <2>2
<1>2. \A s \in Slots : s # where /\ t[s].valid => t[s].addr # a
  <2> SUFFICES ASSUME NEW s \in Slots, s # where, t[s].valid, t[s].addr = a
               PROVE  FALSE
    OBVIOUS
  <2>1. Listed(t, a) /\ First(Held(t, a)) = s
    BY LeaseSlot
  <2> QED BY <2>1
<1>3. u = [t EXCEPT ![where] = new]
  BY DEF Registered
<1> HIDE DEF where
<1>4. new \in Entries
  BY DEF Entries
<1>5. /\ u \in Tables /\ u[where] = new
      /\ \A s \in Slots : s # where => u[s] = t[s]
  BY <1>1, <1>3, <1>4 DEF Good, Tables
<1> HIDE DEF u
<1>6. Good(u)
  <2>1. \A s \in Slots : u[s].valid => u[s].remaining > 0 /\ u[s].addr \in Addresses
    BY <1>5 DEF Good
  <2>2. \A r, s \in Slots :
          u[r].valid /\ u[s].valid /\ u[r].addr = u[s].addr => r = s
    BY <1>2, <1>5 DEF Good
  <2> QED BY <1>5, <2>1, <2>2 DEF Good
<1>7. Lease(u, a) = ttl + Grace
  BY <1>1, <1>5, <1>6, LeaseSlot
<1>8. ASSUME NEW b \in Addresses \ {a} PROVE Lease(u, b) = Lease(t, b)
  <2>1. CASE Listed(t, b)
    <3>1. PICK s \in Slots : t[s].valid /\ t[s].addr = b
      BY <2>1 DEF Listed, Held
    <3>2. s # where /\ u[s] = t[s]
      BY <1>1, <1>5, <3>1
    <3> QED BY <1>6, <3>1, <3>2, LeaseSlot
  <2>2. CASE ~Listed(t, b)
    <3>1. ~Listed(u, b)
      BY <1>5, <2>2 DEF Listed, Held
    <3> QED BY <2>2, <3>1 DEF Lease
  <2> QED BY <2>1, <2>2
<1> QED BY <1>6, <1>7, <1>8 DEF u

LEMMA DeletedTable ==
  ASSUME NEW t, Good(t), NEW a \in Addresses
  PROVE  /\ Good(Deleted(t, a))
         /\ Lease(Deleted(t, a), a) = 0
         /\ \A b \in Addresses \ {a} : Lease(Deleted(t, a), b) = Lease(t, b)
<1>1. CASE ~Listed(t, a)
  BY <1>1 DEF Deleted, Lease
<1>2. CASE Listed(t, a)
  <2> DEFINE where == First(Held(t, a))
             u == Deleted(t, a)
  <2>1. where \in Slots /\ t[where].valid /\ t[where].addr = a
    <3>1. where \in Held(t, a)
      BY <1>2, FirstIsIn DEF Listed, Held
    <3> QED BY <3>1 DEF Held
  <2>2. u = [t EXCEPT ![where] = [@ EXCEPT !.valid = FALSE, !.remaining = 0]]
    BY <1>2 DEF Deleted
  <2> DEFINE cleared == [t[where] EXCEPT !.valid = FALSE, !.remaining = 0]
  <2> HIDE DEF where
  <2>a. cleared \in Entries /\ ~cleared.valid
    BY <2>1 DEF Good, Tables, Entries
  <2>b. u = [t EXCEPT ![where] = cleared]
    BY <2>1, <2>2 DEF Good, Tables
  <2> HIDE DEF cleared, u
  <2>3. /\ u \in Tables /\ ~u[where].valid
        /\ \A s \in Slots : s # where => u[s] = t[s]
    BY <2>1, <2>a, <2>b DEF Good, Tables
  <2>4. Good(u)
    BY <2>3 DEF Good
  <2>5. Lease(u, a) = 0
    <3>1. Held(u, a) = {}
      BY <2>1, <2>3 DEF Held, Good
    <3> QED BY <3>1 DEF Lease, Listed
  <2>6. ASSUME NEW b \in Addresses \ {a} PROVE Lease(u, b) = Lease(t, b)
    <3>1. CASE Listed(t, b)
      <4>1. PICK s \in Slots : t[s].valid /\ t[s].addr = b
        BY <3>1 DEF Listed, Held
      <4>2. u[s] = t[s]
        BY <2>1, <2>3, <4>1
      <4> QED BY <2>4, <4>1, <4>2, LeaseSlot
    <3>2. CASE ~Listed(t, b)
      <4>1. ~Listed(u, b)
        BY <2>3, <3>2 DEF Listed, Held
      <4> QED BY <3>2, <4>1 DEF Lease
    <3> QED BY <3>1, <3>2
  <2> QED BY <2>4, <2>5, <2>6 DEF u
<1> QED BY <1>1, <1>2

Left(n, seconds) == IF n > seconds THEN n - seconds ELSE 0

LEMMA AgedTable ==
  ASSUME NEW t, Good(t), NEW seconds \in Nat
  PROVE  /\ Good(Aged(t, seconds))
         /\ \A a \in Addresses :
              Lease(Aged(t, seconds), a) = Left(Lease(t, a), seconds)
<1> DEFINE u == Aged(t, seconds)
<1>1. u \in Tables
  <2>1. ASSUME NEW s \in Slots
        PROVE  (IF ~t[s].valid \/ t[s].remaining = 0 THEN t[s]
                ELSE IF t[s].remaining <= seconds
                THEN [t[s] EXCEPT !.valid = FALSE, !.remaining = 0]
                ELSE [t[s] EXCEPT !.remaining = @ - seconds]) \in Entries
    <3>1. t[s] \in Entries
      BY DEF Good, Tables
    <3>2. [t[s] EXCEPT !.valid = FALSE, !.remaining = 0] \in Entries
      BY <3>1 DEF Entries
    <3>3. ~(t[s].remaining <= seconds) =>
            [t[s] EXCEPT !.remaining = @ - seconds] \in Entries
      BY <3>1 DEF Entries
    <3> QED BY <3>1, <3>2, <3>3
  <2> QED BY <2>1, Zenon DEF Aged, Tables
<1>2. ASSUME NEW s \in Slots
      PROVE  /\ u[s].addr = t[s].addr
             /\ u[s].valid <=> t[s].valid /\ t[s].remaining > seconds
             /\ u[s].valid => u[s].remaining = t[s].remaining - seconds
  BY DEF Aged, Good, Tables, Entries
<1> HIDE DEF u
<1>3. Good(u)
  <2>1. ASSUME NEW s \in Slots, u[s].valid
        PROVE  u[s].remaining > 0 /\ u[s].addr \in Addresses
    BY <1>2, <2>1 DEF Good, Tables, Entries
  <2>2. ASSUME NEW r \in Slots, NEW s \in Slots, u[r].valid, u[s].valid,
               u[r].addr = u[s].addr
        PROVE  r = s
    BY <1>2, <2>2 DEF Good
  <2> QED BY <1>1, <2>1, <2>2 DEF Good
<1>4. ASSUME NEW a \in Addresses
      PROVE  Lease(u, a) = Left(Lease(t, a), seconds)
  <2>1. CASE ~Listed(t, a)
    <3>1. ~Listed(u, a)
      BY <1>2, <2>1 DEF Listed, Held
    <3> QED BY <2>1, <3>1 DEF Lease, Left
  <2>2. CASE Listed(t, a)
    <3>1. PICK s \in Slots : t[s].valid /\ t[s].addr = a
      BY <2>2 DEF Listed, Held
    <3>2. Lease(t, a) = t[s].remaining /\ t[s].remaining \in Nat
      BY <3>1, LeaseSlot DEF Good, Tables, Entries
    <3>3. CASE t[s].remaining > seconds
      <4>1. u[s].valid /\ u[s].addr = a /\ u[s].remaining = t[s].remaining - seconds
        BY <1>2, <3>1, <3>3
      <4>2. Lease(u, a) = u[s].remaining
        BY <1>3, <4>1, LeaseSlot
      <4> QED BY <3>2, <3>3, <4>1, <4>2 DEF Left
    <3>4. CASE ~(t[s].remaining > seconds)
      <4>1. \A r \in Slots : ~(u[r].valid /\ u[r].addr = a)
        BY <1>2, <3>1, <3>4 DEF Good
      <4>2. Lease(u, a) = 0
        BY <4>1 DEF Lease, Listed, Held
      <4> QED BY <3>2, <3>4, <4>2 DEF Left
    <3> QED BY <3>3, <3>4
  <2> QED BY <2>1, <2>2
<1> QED BY <1>3, <1>4 DEF u

-----------------------------------------------------------------------------
(* The specification *)

\* Inductive invariant: the table is good.
TableInv == Good(table)

LEMMA InitGood == TableInit => TableInv
  BY DEF TableInit, TableInv, Good, EmptyTable, Tables, Entries

LEMMA NextGood ==
  ASSUME TableInv, [TableNext]_tableVars PROVE TableInv'
<1>1. ASSUME NEW a \in Addresses, NEW ttl \in Ttls, Register(a, ttl)
      PROVE  TableInv'
  BY <1>1, RegisteredTable DEF Register, TableInv
<1>2. ASSUME NEW a \in Addresses, NEW asker \in Addresses, Delete(a, asker)
      PROVE  TableInv'
  BY <1>2, DeletedTable DEF Delete, TableInv
<1>3. ASSUME NEW asker \in Addresses, ReadFdt(asker)
      PROVE  TableInv'
  BY <1>3 DEF ReadFdt, TableInv
<1>4. ASSUME NEW seconds \in Elapses, MaintenanceTimer(seconds)
      PROVE  TableInv'
  BY <1>4, AgedTable DEF MaintenanceTimer, TableInv
<1>5. CASE UNCHANGED tableVars
  BY <1>5 DEF tableVars, TableInv
<1> QED BY <1>1, <1>2, <1>3, <1>4, <1>5 DEF TableNext

LEMMA TableGood == TableSpec => []TableInv
  BY InitGood, NextGood, PTL DEF TableSpec

\* However often a device registers, and after whatever expiries and deletions
\* before it in the array, it has one entry: one copy of each broadcast.
THEOREM OneEntryEach == TableSpec => []OneEntryPerDevice
<1>1. TableInv => OneEntryPerDevice
  BY DEF TableInv, Good, OneEntryPerDevice, InUse
<1> QED BY <1>1, TableGood, PTL

\* No entry in use is without time left, where the timer would pass over it.
THEOREM EntriesHaveTime == TableSpec => []EntriesExpire
<1>1. TableInv => EntriesExpire
  BY DEF TableInv, Good, EntriesExpire, InUse
<1> QED BY <1>1, TableGood, PTL

\* What Read-FDT sends is cut to two octets, and is then still a number.
LEMMA NextReply ==
  ASSUME TableTypeOK, TableInv, TableInv', [TableNext]_tableVars PROVE reply' \in Replies
<1>1. ASSUME NEW a \in Addresses, NEW ttl \in Ttls, Register(a, ttl)
      PROVE  reply' \in Replies
  BY <1>1 DEF Register, Replies, Result
<1>2. ASSUME NEW a \in Addresses, NEW asker \in Addresses, Delete(a, asker)
      PROVE  reply' \in Replies
  BY <1>2 DEF Delete, Replies, Result
<1>3. ASSUME NEW asker \in Addresses, ReadFdt(asker)
      PROVE  reply' \in Replies
  <2> DEFINE entries == {WireEntry(table[s]) : s \in InUse}
             WireEntries == [addr : Addresses \cup {NoAddress}, ttl : Nat,
                             remaining : Nat]
  <2>1. ASSUME NEW s \in InUse PROVE WireEntry(table[s]) \in WireEntries
    <3>1. table[s] \in Entries BY DEF InUse, TableTypeOK, Tables
    <3>2. table[s].remaining % Wire \in Nat BY <3>1 DEF Entries
    <3> QED BY <3>1, <3>2 DEF WireEntry, Entries
  <2>2. entries \in SUBSET WireEntries BY <2>1
  <2>3. reply' = [kind |-> "Read-FDT-Ack", to |-> asker, entries |-> entries]
        \/ reply' = Result(asker, "READ_NAK")
    BY <1>3 DEF ReadFdt
  <2> HIDE DEF entries, WireEntries
  <2>4. CASE reply' = [kind |-> "Read-FDT-Ack", to |-> asker,
                       entries |-> entries]
    <3>1. reply' \in [kind : {"Read-FDT-Ack"}, to : Addresses,
                      entries : SUBSET WireEntries]
      BY <2>2, <2>4
    <3> QED BY <3>1, Zenon DEF Replies, WireEntries
  <2>5. CASE reply' = Result(asker, "READ_NAK")
    BY <2>5 DEF Replies, Result
  <2> QED BY <2>3, <2>4, <2>5
<1>4. ASSUME NEW seconds \in Elapses, MaintenanceTimer(seconds)
      PROVE  reply' \in Replies
  BY <1>4 DEF MaintenanceTimer, Replies
<1>5. CASE UNCHANGED tableVars BY <1>5 DEF tableVars, TableTypeOK
<1> QED BY <1>1, <1>2, <1>3, <1>4, <1>5 DEF TableNext

\* Type correctness.
THEOREM TableTypeCorrect == TableSpec => []TableTypeOK
<1>1. TableInv => table \in Tables BY DEF TableInv, Good
<1>2. TableInit => TableTypeOK BY InitGood, <1>1 DEF TableInit, TableTypeOK, Replies
<1>3. TableTypeOK /\ TableInv /\ TableInv' /\ [TableNext]_tableVars => TableTypeOK'
  BY NextReply DEF TableTypeOK, TableInv, Good
<1> QED BY <1>2, <1>3, TableGood, PTL DEF TableSpec

-----------------------------------------------------------------------------
(* Refinement *)

leases == [a \in Addresses |-> Lease(table, a)]

\* A device is refused only when every slot holds another device's lease.
LEMMA FullTable ==
  ASSUME TableInv, NEW a \in Addresses, ~HasRoomFor(table, a)
  PROVE  leases[a] = 0 /\ Cardinality(Registry!Leased) >= MaxFdEntries
<1>1. leases[a] = 0
  BY DEF HasRoomFor, Lease, leases
<1>2. \A s \in Slots : table[s].valid
  BY DEF HasRoomFor, Unused
<1>3. Registry!Leased = {b \in Addresses : Lease(table, b) > 0}
  BY DEF Registry!Leased
<1>4. \A s \in Slots : table[s].addr \in Registry!Leased
  <2> SUFFICES ASSUME NEW s \in Slots PROVE table[s].addr \in Registry!Leased
    OBVIOUS
  <2>1. table[s].valid /\ table[s].addr \in Addresses /\ table[s].remaining > 0
    BY <1>2 DEF TableInv, Good
  <2>2. Lease(table, table[s].addr) = table[s].remaining
    BY <2>1, LeaseSlot DEF TableInv
  <2> QED BY <1>3, <2>1, <2>2
<1> DEFINE f == [s \in Slots |-> table[s].addr]
<1>5. f \in Injection(Slots, Registry!Leased)
  BY <1>2, <1>4 DEF Injection, IsInjective, TableInv, Good
<1>6. IsFiniteSet(Registry!Leased)
  BY <1>3, FS_Subset
<1>7. Cardinality(Slots) <= Cardinality(Registry!Leased)
  BY <1>5, <1>6, FS_Injection
<1>8. Cardinality(Slots) = MaxFdEntries
  BY FS_Interval DEF Slots
<1> QED BY <1>1, <1>7, <1>8

\* A device that has no lease yet but finds a slot: not all of them are leased.
LEMMA RoomInTable ==
  ASSUME TableInv, NEW a \in Addresses, HasRoomFor(table, a)
  PROVE  leases[a] > 0 \/ Cardinality(Registry!Leased) < MaxFdEntries
<1>1. CASE Listed(table, a)
  BY <1>1, LeaseOfListed DEF TableInv, leases
<1>2. CASE ~Listed(table, a)
  <2>1. PICK free \in Slots : ~table[free].valid
    BY <1>2 DEF HasRoomFor, Unused
  <2> DEFINE S == Slots \ {free}
             L == Registry!Leased
             g == [b \in L |-> First(Held(table, b))]
  <2>2. L = {b \in Addresses : Lease(table, b) > 0}
    BY DEF Registry!Leased
  <2>3. ASSUME NEW b \in L
        PROVE  g[b] \in S /\ table[g[b]].addr = b
    <3>1. PICK s \in Slots : table[s].valid /\ table[s].addr = b
      BY <2>2, LeaseOfListed DEF TableInv
    <3>2. First(Held(table, b)) = s
      BY <3>1, LeaseSlot DEF TableInv
    <3> QED BY <2>1, <3>1, <3>2
  <2>4. g \in Injection(L, S)
    BY <2>3 DEF Injection, IsInjective
  <2>5. IsFiniteSet(Slots) /\ Cardinality(Slots) = MaxFdEntries
    BY FS_Interval DEF Slots
  <2>6. IsFiniteSet(S) /\ Cardinality(S) = MaxFdEntries - 1
    BY <2>5, FS_RemoveElement
  <2>7. Cardinality(L) <= Cardinality(S) /\ IsFiniteSet(L)
    BY <2>4, <2>6, FS_Injection
  <2> QED BY <2>6, <2>7, FS_CardinalityType
<1> QED BY <1>1, <1>2

\* An answer to a registration or a deletion maps to the registry's answer.
LEMMA AnswerMap ==
  ASSUME NEW to, NEW code, code # "READ_NAK", reply' = Result(to, code)
  PROVE  (IF reply'.kind = "BVLC-Result" /\ reply'.code # "READ_NAK"
          THEN [to |-> reply'.to, ok |-> reply'.code = "SUCCESSFUL_COMPLETION"]
          ELSE [to |-> "nobody", ok |-> FALSE])
         = [to |-> to, ok |-> code = "SUCCESSFUL_COMPLETION"]
  BY DEF Result

LEMMA InitRefines == TableInit => Registry!Init
<1> SUFFICES ASSUME TableInit PROVE Registry!Init
  OBVIOUS
<1>1. \A a \in Addresses : Lease(table, a) = 0
  BY DEF TableInit, EmptyTable, Lease, Listed, Held
<1> QED BY <1>1 DEF TableInit, NoReply, Registry!Init, Registry!NoAnswer

LEMMA SameCardinality ==
  ASSUME NEW S PROVE Registry!Cardinality(S) = Cardinality(S)
  BY Zenon DEF Registry!Cardinality, Cardinality, Registry!IsFiniteSet, IsFiniteSet

LEMMA RegisterRefines ==
  ASSUME TableInv,
         NEW a \in Addresses, NEW ttl \in Ttls, Register(a, ttl)
  PROVE  Registry!Grant(a, ttl) \/ Registry!Refuse(a)
<1>1. CASE HasRoomFor(table, a)
  <2>1. table' = Registered(table, a, ttl) /\ reply' = Result(a, "SUCCESSFUL_COMPLETION")
    BY <1>1 DEF Register
  <2>2. ttl \in Nat
    OBVIOUS
  <2>3. /\ Lease(table', a) = ttl + Grace
        /\ \A b \in Addresses \ {a} : Lease(table', b) = Lease(table, b)
    BY <1>1, <2>1, <2>2, RegisteredTable DEF TableInv
  <2>4. [b \in Addresses |-> Lease(table, b)]' = [leases EXCEPT ![a] = ttl + Grace]
    BY <2>3, Zenon DEF leases
  <2>5. leases[a] > 0 \/ Cardinality(Registry!Leased) < MaxFdEntries
    BY <1>1, RoomInTable
  <2>6. Registry!Grant(a, ttl)
    BY <2>1, <2>4, <2>5, AnswerMap, SameCardinality DEF Registry!Grant, Registry!Answer, leases
  <2> QED BY <2>6
<1>2. CASE ~HasRoomFor(table, a)
  <2>1. table' = table /\ reply' = Result(a, "REGISTER_NAK")
    BY <1>2 DEF Register
  <2>2. leases[a] = 0 /\ Cardinality(Registry!Leased) >= MaxFdEntries
    BY <1>2, FullTable
  <2>3. UNCHANGED [b \in Addresses |-> Lease(table, b)]
    BY <2>1, Zenon
  <2>4. leases[a] = 0 /\ Registry!Cardinality(Registry!Leased) >= MaxFdEntries
    BY <2>2, SameCardinality
  <2>5. ("REGISTER_NAK" = "SUCCESSFUL_COMPLETION") = FALSE
    OBVIOUS
  <2>6. (IF reply'.kind = "BVLC-Result" /\ reply'.code # "READ_NAK"
         THEN [to |-> reply'.to, ok |-> reply'.code = "SUCCESSFUL_COMPLETION"]
         ELSE [to |-> "nobody", ok |-> FALSE]) = [to |-> a, ok |-> FALSE]
    BY <2>1, <2>5 DEF Result
  <2>7. Registry!Refuse(a)
    BY <2>3, <2>4, <2>6 DEF Registry!Refuse, Registry!Answer, leases
  <2> QED BY <2>7
<1> QED BY <1>1, <1>2

LEMMA DeleteRefines ==
  ASSUME TableInv, NEW a \in Addresses, NEW asker \in Addresses,
         Delete(a, asker)
  PROVE  Registry!Cancel(a, asker)
<1>0. /\ Lease(table', a) = 0
      /\ \A b \in Addresses \ {a} : Lease(table', b) = Lease(table, b)
  BY DeletedTable DEF Delete, TableInv
<1>1. [b \in Addresses |-> Lease(table, b)]' = [leases EXCEPT ![a] = 0]
  BY <1>0, Zenon DEF leases
<1>2. Listed(table, a) <=> leases[a] > 0
  BY LeaseOfListed DEF TableInv, leases
<1>3. CASE Listed(table, a)
  BY <1>1, <1>2, <1>3, AnswerMap DEF Delete, Registry!Cancel, Registry!Answer, leases
<1>4. CASE ~Listed(table, a)
  BY <1>1, <1>2, <1>4, AnswerMap DEF Delete, Registry!Cancel, Registry!Answer, leases
<1> QED BY <1>3, <1>4

LEMMA TimerRefines ==
  ASSUME TableInv, NEW seconds \in Elapses, MaintenanceTimer(seconds)
  PROVE  Registry!Elapse(seconds)
<1>1. \A a \in Addresses : Lease(table', a) = Left(Lease(table, a), seconds)
  BY AgedTable DEF MaintenanceTimer, TableInv
<1> QED BY <1>1
        DEF MaintenanceTimer, NoReply, Left, Registry!Elapse,
            Registry!Remaining, Registry!NoAnswer

LEMMA ReadRefines ==
  ASSUME NEW asker \in Addresses, ReadFdt(asker)
  PROVE  Registry!Consult
  BY DEF ReadFdt, Result, Registry!Consult, Registry!NoAnswer

\* The array behaves as the registry of leases: a
\* device is dropped exactly when its timer expires or its entry is deleted,
\* and refused only when all the slots are leased to others.
THEOREM TableImplementsRegistry == TableSpec => ImplementsRegistry
<1>1. TableInv /\ [TableNext]_tableVars
        => [Registry!Next]_<<[a \in Addresses |-> Lease(table, a)],
             IF reply.kind = "BVLC-Result" /\ reply.code # "READ_NAK"
             THEN [to |-> reply.to, ok |-> reply.code = "SUCCESSFUL_COMPLETION"]
             ELSE [to |-> "nobody", ok |-> FALSE]>>
  <2> SUFFICES ASSUME TableInv, TableNext PROVE Registry!Next
    BY DEF tableVars
  <2>1. ASSUME NEW a \in Addresses, NEW ttl \in Ttls, Register(a, ttl)
        PROVE  Registry!Next
    BY <2>1, RegisterRefines DEF Registry!Next
  <2>2. ASSUME NEW a \in Addresses, NEW asker \in Addresses, Delete(a, asker)
        PROVE  Registry!Next
    BY <2>2, DeleteRefines DEF Registry!Next
  <2>3. ASSUME NEW asker \in Addresses, ReadFdt(asker) PROVE Registry!Next
    BY <2>3, ReadRefines DEF Registry!Next
  <2>4. ASSUME NEW seconds \in Elapses, MaintenanceTimer(seconds)
        PROVE  Registry!Next
    BY <2>4, TimerRefines DEF Registry!Next
  <2> QED BY <2>1, <2>2, <2>3, <2>4 DEF TableNext
<1> QED BY <1>1, InitRefines, InitGood, NextGood, PTL
        DEF TableSpec, ImplementsRegistry, Registry!Spec

-----------------------------------------------------------------------------
(* FdNetwork.  That a registered device knows its BBMD is not inductive:   *)
(* the answer that makes it registered may find it with the flag set by an *)
(* earlier registration.  RemoteInv says of the flag what is claimed of    *)
(* the status.                                                             *)

\* A device that is registered, or waits for the answer to a registration,
\* knows the BBMD it registers with and has it for its remote one.
KnowsBbmd(s) ==
  s.status = "SUCCESS" \/ s.awaiting => s.remote \in Bbmds /\ s.bbmd \in Bbmds

RemoteInv == \A d \in Addresses : KnowsBbmd(fd[d])

-----------------------------------------------------------------------------
(* Bags of datagrams *)

LEMMA BagFacts ==
  ASSUME NEW A, NEW B
  PROVE  /\ BagToSet(A (+) B) = BagToSet(A) \cup BagToSet(B)
         /\ BagToSet(A (-) B) \subseteq BagToSet(A)
<1>1. BagToSet(A (+) B) = BagToSet(A) \cup BagToSet(B)
  BY DEF BagToSet, (+)
<1>2. BagToSet(A (-) B) \subseteq BagToSet(A)
  BY DEF BagToSet, (-)
<1> QED BY <1>1, <1>2

LEMMA SmallBags ==
  /\ BagToSet(EmptyBag) = {}
  /\ \A m : BagToSet(One(m)) = {m}
BY DEF BagToSet, EmptyBag, SetToBag, One

\* Only datagrams are in flight.
NetOK == BagToSet(fresh) \cup BagToSet(old) \subseteq Datagrams

LEMMA PostKeeps ==
  ASSUME NetOK, NEW sent, BagToSet(sent) \subseteq Datagrams, Post(sent)
  PROVE  NetOK'
<1>1. /\ fresh' = fresh (+) sent /\ old' = old
  BY DEF Post
<1>2. BagToSet(fresh (+) sent) = BagToSet(fresh) \cup BagToSet(sent)
  BY BagFacts
<1> QED BY <1>1, <1>2 DEF NetOK

LEMMA ExchangeKeeps ==
  ASSUME NetOK, NEW sent, BagToSet(sent) \subseteq Datagrams,
         NEW m, Exchange(m, sent)
  PROVE  NetOK' /\ m \in Datagrams
<1>1. CASE /\ BagIn(m, fresh) /\ fresh' = (fresh (-) One(m)) (+) sent
           /\ old' = old
  <2>1. BagToSet(fresh') = BagToSet(fresh (-) One(m)) \cup BagToSet(sent)
    BY <1>1, BagFacts
  <2>2. BagToSet(fresh (-) One(m)) \subseteq BagToSet(fresh)
    BY BagFacts
  <2>3. m \in BagToSet(fresh) BY <1>1 DEF BagIn
  <2> QED BY <1>1, <2>1, <2>2, <2>3 DEF NetOK
<1>2. CASE /\ BagIn(m, old) /\ old' = old (-) One(m)
           /\ fresh' = fresh (+) sent
  <2>1. BagToSet(fresh') = BagToSet(fresh) \cup BagToSet(sent)
    BY <1>2, BagFacts
  <2>2. BagToSet(old') \subseteq BagToSet(old) BY <1>2, BagFacts
  <2>3. m \in BagToSet(old) BY <1>2 DEF BagIn
  <2> QED BY <2>1, <2>2, <2>3 DEF NetOK
<1> QED BY <1>1, <1>2 DEF Exchange

-----------------------------------------------------------------------------
(* A device *)

DeviceOK(s) == s \in DeviceStates

\* What happens to the state of a device keeps its type.
LEMMA DeviceTypes ==
  ASSUME NEW s \in DeviceStates
  PROVE  /\ Initialized(s) \in DeviceStates
         /\ \A code : ResultReceived(s, code) \in DeviceStates
         /\ \A b \in Bbmds, ttl \in Nat : \A outcome :
              RegisteredForeign(s, b, ttl, outcome) \in DeviceStates
         /\ \A seconds \in Nat : \A outcome :
              Kept(s, seconds, outcome) \in DeviceStates
<1>1. Initialized(s) \in DeviceStates
  BY DEF Initialized, DeviceStates, Statuses
<1>2. ASSUME NEW code PROVE ResultReceived(s, code) \in DeviceStates
  BY DEF ResultReceived, DeviceStates, Statuses
<1>3. ASSUME NEW b \in Bbmds \cup {NoBbmd}, NEW outcome
      PROVE  Asked(s, b, outcome) \in DeviceStates
  BY DEF Asked, DeviceStates
<1>4. ASSUME NEW b \in Bbmds, NEW ttl \in Nat, NEW outcome
      PROVE  RegisteredForeign(s, b, ttl, outcome) \in DeviceStates
  BY <1>3 DEF RegisteredForeign, DeviceStates
<1>5. ASSUME NEW seconds \in Nat, NEW outcome
      PROVE  Kept(s, seconds, outcome) \in DeviceStates
  <2>1. Asked(s, s.bbmd, outcome) \in DeviceStates BY <1>3 DEF DeviceStates
  <2>2. CASE s.status = "NO_REGISTRATION" BY <2>2 DEF Kept, RenewalDue
  <2>3. CASE s.status = "FAIL" BY <2>3 DEF Kept, RenewalDue, DeviceStates
  <2>4. CASE RenewalDue(s, seconds)
    <3> PICK r : r = Asked(s, s.bbmd, outcome) OBVIOUS
    <3>1. Kept(s, seconds, outcome)
            = [r EXCEPT !.renewTmr = 0,
                        !.status = IF outcome = "failed" THEN "FAIL" ELSE @]
      BY <2>4 DEF Kept, RenewalDue
    <3>2. r \in DeviceStates BY <2>1
    <3> DEFINE st == IF outcome = "failed" THEN "FAIL" ELSE r.status
    <3>3. st \in Statuses BY <3>2 DEF DeviceStates, Statuses
    <3>4. Kept(s, seconds, outcome) = [r EXCEPT !.renewTmr = 0, !.status = st]
      BY <3>1, Zenon
    <3>5. ASSUME NEW x \in DeviceStates, NEW y \in Statuses
          PROVE  [x EXCEPT !.renewTmr = 0, !.status = y] \in DeviceStates
      BY DEF DeviceStates
    <3> HIDE DEF st
    <3>6. [r EXCEPT !.renewTmr = 0, !.status = st] \in DeviceStates
      BY <3>2, <3>3, <3>5
    <3> QED BY <3>4, <3>6, Zenon
  <2>5. CASE s.status = "SUCCESS" /\ ~ RenewalDue(s, seconds)
    <3>1. Kept(s, seconds, outcome) = [s EXCEPT !.renewTmr = @ + seconds]
      BY <2>5 DEF Kept
    <3> QED BY <3>1 DEF DeviceStates
  <2> QED BY <2>2, <2>3, <2>4, <2>5 DEF DeviceStates, Statuses
<1> QED BY <1>1, <1>2, <1>4, <1>5

\* It keeps what a device knows of its BBMD, unless sendto() fails.
LEMMA DeviceKnows ==
  ASSUME NEW s \in DeviceStates, KnowsBbmd(s)
  PROVE  /\ KnowsBbmd(Initialized(s))
         /\ \A code : KnowsBbmd(ResultReceived(s, code))
         /\ \A b \in Bbmds, ttl \in Nat, outcome \in {"sent", "closed"} :
              KnowsBbmd(RegisteredForeign(s, b, ttl, outcome))
         /\ \A seconds \in Nat, outcome \in {"sent", "closed"} :
              KnowsBbmd(Kept(s, seconds, outcome))
<1>1. KnowsBbmd(Initialized(s))
  BY DEF Initialized, DeviceStates, KnowsBbmd
<1>2. ASSUME NEW code PROVE KnowsBbmd(ResultReceived(s, code))
  BY DEF ResultReceived, DeviceStates, KnowsBbmd
<1>3. ASSUME NEW b \in Bbmds, NEW ttl \in Nat, NEW outcome \in {"sent", "closed"}
      PROVE  KnowsBbmd(RegisteredForeign(s, b, ttl, outcome))
  BY DEF RegisteredForeign, Asked, DeviceStates, KnowsBbmd
<1>4. ASSUME NEW seconds \in Nat, NEW outcome \in {"sent", "closed"}
      PROVE  KnowsBbmd(Kept(s, seconds, outcome))
  <2>2. CASE s.status = "NO_REGISTRATION" BY <2>2 DEF Kept, RenewalDue
  <2>3. CASE s.status = "FAIL"
    BY <2>3 DEF Kept, RenewalDue, DeviceStates, KnowsBbmd
  <2>4. CASE RenewalDue(s, seconds)
    <3>1. Kept(s, seconds, outcome)
            = [Asked(s, s.bbmd, outcome) EXCEPT !.renewTmr = 0]
      BY <2>4 DEF Kept, RenewalDue, Asked, DeviceStates
    <3> QED BY <2>4, <3>1 DEF Asked, RenewalDue, DeviceStates, KnowsBbmd
  <2>5. CASE s.status = "SUCCESS" /\ ~ RenewalDue(s, seconds)
    <3>1. Kept(s, seconds, outcome) = [s EXCEPT !.renewTmr = @ + seconds]
      BY <2>5 DEF Kept
    <3> QED BY <3>1 DEF DeviceStates, KnowsBbmd
  <2> QED BY <2>2, <2>3, <2>4, <2>5 DEF DeviceStates, Statuses
<1> QED BY <1>1, <1>2, <1>3, <1>4

LEMMA RegistrationIsDatagram ==
  ASSUME NEW d \in Addresses, NEW b \in Bbmds \cup {NoBbmd}, NEW ttl \in Nat,
         NEW outcome
  PROVE  BagToSet(SentRegistration(d, b, ttl, outcome)) \subseteq Datagrams
<1>1. CASE outcome = "sent" /\ b # NoBbmd
  <2>1. ttl % Wire \in 0 .. Wire - 1 OBVIOUS
  <2>2. Registration(d, b, ttl) \in Datagrams
    BY <1>1, <2>1 DEF Registration, Datagrams
  <2> QED BY <1>1, <2>2, SmallBags DEF SentRegistration
<1>2. CASE ~ (outcome = "sent" /\ b # NoBbmd)
  BY <1>2, SmallBags DEF SentRegistration
<1> QED BY <1>1, <1>2

-----------------------------------------------------------------------------
(* A table *)

LEMMA TableTypes ==
  ASSUME NEW t \in Tables
  PROVE  /\ \A a \in Addresses, ttl \in Nat : Registered(t, a, ttl) \in Tables
         /\ \A a : Deleted(t, a) \in Tables
         /\ Aged(t, 1) \in Tables
<1>1. ASSUME NEW a \in Addresses, NEW ttl \in Nat
      PROVE  Registered(t, a, ttl) \in Tables
  <2> DEFINE e == [valid |-> TRUE, addr |-> a, ttl |-> ttl,
                   remaining |-> ttl + Grace]
             i == First(IF Listed(t, a) THEN Held(t, a) ELSE Unused(t))
  <2>1. e \in Entries BY DEF Entries
  <2>2. Registered(t, a, ttl) = [t EXCEPT ![i] = e] BY DEF Registered
  <2> HIDE DEF e, i
  <2> QED BY <2>1, <2>2 DEF Tables
<1>2. ASSUME NEW a PROVE Deleted(t, a) \in Tables
  <2> DEFINE i == First(Held(t, a))
  <2>1. CASE Listed(t, a)
    <3>1. Deleted(t, a)
            = [t EXCEPT ![i] = [@ EXCEPT !.valid = FALSE, !.remaining = 0]]
      BY <2>1 DEF Deleted
    <3> HIDE DEF i
    <3>2. CASE i \in Slots
      <4> PICK e : e = t[i] OBVIOUS
      <4>1. e \in Entries BY <3>2 DEF Tables
      <4>2. [e EXCEPT !.valid = FALSE, !.remaining = 0] \in Entries
        BY <4>1 DEF Entries
      <4> QED BY <3>1, <3>2, <4>2 DEF Tables
    <3>3. CASE i \notin Slots BY <3>1, <3>3 DEF Tables
    <3> QED BY <3>2, <3>3
  <2>2. CASE ~ Listed(t, a) BY <2>2 DEF Deleted
  <2> QED BY <2>1, <2>2
<1>3. Aged(t, 1) \in Tables
  <2> SUFFICES ASSUME NEW s \in Slots PROVE Aged(t, 1)[s] \in Entries
    BY DEF Aged, Tables
  <2> PICK e : e = t[s] OBVIOUS
  <2>1. e \in Entries BY DEF Tables
  <2>2. Aged(t, 1)[s]
          = IF ~ e.valid \/ e.remaining = 0 THEN e
            ELSE IF e.remaining =< 1
                 THEN [e EXCEPT !.valid = FALSE, !.remaining = 0]
                 ELSE [e EXCEPT !.remaining = @ - 1]
    BY DEF Aged
  <2>3. CASE e.remaining =< 1
    <3>1. [e EXCEPT !.valid = FALSE, !.remaining = 0] \in Entries
      BY <2>1 DEF Entries
    <3> QED BY <2>1, <2>2, <2>3, <3>1
  <2>4. CASE e.remaining > 1
    <3>1. [e EXCEPT !.remaining = @ - 1] \in Entries
      BY <2>1, <2>4 DEF Entries
    <3> QED BY <2>1, <2>2, <2>4, <3>1 DEF Entries
  <2> QED BY <2>1, <2>3, <2>4 DEF Entries
<1> QED BY <1>1, <1>2, <1>3

-----------------------------------------------------------------------------
(* The steps *)

\* The state of one device is all that a step may change of fd, to one of the
\* values the lemmas above are about.
DeviceStep ==
  \/ UNCHANGED fd
  \/ \E d \in Addresses :
       \/ fd' = [fd EXCEPT ![d] = NewDevice]
       \/ fd' = [fd EXCEPT ![d] = Initialized(@)]
       \/ \E b \in Bbmds, ttl \in Nat, outcome \in {"closed"} \cup Outcomes :
            fd' = [fd EXCEPT ![d] = RegisteredForeign(@, b, ttl, outcome)]
       \/ \E outcome \in {"closed"} \cup Outcomes :
            \/ fd' = [fd EXCEPT ![d] = Kept(@, elapsed[d], outcome)]
            \/ \E code : fd' = [fd EXCEPT ![d] =
                   Kept(ResultReceived(@, code), elapsed[d], outcome)]

LEMMA StepsOfDevices ==
  ASSUME [Next]_vars
  PROVE  DeviceStep
<1>1. CASE Application
  <2>1. PICK d \in Addresses, b \in Bbmds, ttl \in Ttls,
             outcome \in SendOutcomes : RegisterForeign(d, b, ttl, outcome)
    BY <1>1 DEF Application
  <2>2. ttl \in Nat /\ outcome \in {"closed"} \cup Outcomes
    BY <2>1 DEF RegisterForeign, OutcomesOf
  <2>3. fd' = [fd EXCEPT ![d] = RegisteredForeign(@, b, ttl, outcome)]
    BY <2>1 DEF RegisterForeign
  <2> QED BY <2>2, <2>3, Zenon DEF DeviceStep
<1>2. CASE Reset
  BY <1>2, Zenon DEF Reset, Deinitialize, Initialize, Restart, BbmdRestart,
                     DeleteEntry, DeviceStep
<1>3. CASE Tick BY <1>3 DEF Tick, DeviceStep
<1>4. ASSUME NEW d \in Addresses, Execute(d)
      PROVE  DeviceStep
  <2>1. PICK outcome \in SendOutcomes :
          \/ ExecuteIdle(d, outcome)
          \/ \E m \in Messages : ExecuteReceiving(d, m, outcome)
    BY <1>4 DEF Execute
  <2>2. outcome \in {"closed"} \cup Outcomes
    BY <2>1 DEF ExecuteIdle, ExecuteReceiving, KeepRegistration, OutcomesOf
  <2>3. CASE ExecuteIdle(d, outcome)
    <3>1. fd' = [fd EXCEPT ![d] = Kept(@, elapsed[d], outcome)]
      BY <2>3 DEF ExecuteIdle, KeepRegistration
    <3> QED BY <2>2, <3>1, Zenon DEF DeviceStep
  <2>4. ASSUME NEW m, ExecuteReceiving(d, m, outcome) PROVE DeviceStep
    <3>1. fd' = [fd EXCEPT ![d] =
                   Kept(ResultReceived(@, m.code), elapsed[d], outcome)]
      BY <2>4 DEF ExecuteReceiving, KeepRegistration
    <3> QED BY <2>2, <3>1, Zenon DEF DeviceStep
  <2> QED BY <2>1, <2>3, <2>4
<1>5. ASSUME NEW d \in Addresses, Serve(d) PROVE DeviceStep
  BY <1>5 DEF Serve, BbmdReceive, DeviceStep
<1>6. ASSUME NEW m, Lose(m) \/ Duplicate(m) \/ Drop(m) PROVE DeviceStep
  BY <1>6 DEF Lose, Duplicate, Drop, DeviceStep
<1>7. CASE UNCHANGED vars BY <1>7 DEF vars, DeviceStep
<1> QED BY <1>1, <1>2, <1>3, <1>4, <1>5, <1>6, <1>7 DEF Next

\* What holds of every device before a step of one, and of what that one
\* becomes, holds of every device behind it.
LEMMA DeviceStepType ==
  ASSUME fd \in [Addresses -> DeviceStates], elapsed \in [Addresses -> Nat],
         DeviceStep
  PROVE  /\ fd' \in [Addresses -> DeviceStates]
         /\ "failed" \notin Outcomes /\ RemoteInv => RemoteInv'
<1>1. ASSUME NEW d \in Addresses, NEW s \in DeviceStates,
             fd' = [fd EXCEPT ![d] = s]
      PROVE  /\ fd' \in [Addresses -> DeviceStates]
             /\ RemoteInv /\ KnowsBbmd(s) => RemoteInv'
  <2>1. fd' \in [Addresses -> DeviceStates] BY <1>1
  <2>2. \A e \in Addresses : fd'[e] = IF e = d THEN s ELSE fd[e] BY <1>1
  <2> QED BY <2>1, <2>2, Zenon DEF RemoteInv
<1>2. CASE UNCHANGED fd BY <1>2 DEF RemoteInv
<1>3. ASSUME NEW d \in Addresses,
             \/ fd' = [fd EXCEPT ![d] = NewDevice]
             \/ fd' = [fd EXCEPT ![d] = Initialized(@)]
             \/ \E b \in Bbmds, ttl \in Nat,
                   outcome \in {"closed"} \cup Outcomes :
                  fd' = [fd EXCEPT ![d] = RegisteredForeign(@, b, ttl, outcome)]
             \/ \E outcome \in {"closed"} \cup Outcomes :
                  \/ fd' = [fd EXCEPT ![d] = Kept(@, elapsed[d], outcome)]
                  \/ \E code : fd' = [fd EXCEPT ![d] =
                         Kept(ResultReceived(@, code), elapsed[d], outcome)]
      PROVE  /\ fd' \in [Addresses -> DeviceStates]
             /\ "failed" \notin Outcomes /\ RemoteInv => RemoteInv'
  <2> PICK s : s = fd[d] OBVIOUS
  <2>0. s \in DeviceStates /\ elapsed[d] \in Nat OBVIOUS
  <2>k. RemoteInv => KnowsBbmd(s) BY DEF RemoteInv
  <2>1. CASE fd' = [fd EXCEPT ![d] = NewDevice]
    <3>1. NewDevice \in DeviceStates /\ KnowsBbmd(NewDevice)
      BY DEF NewDevice, DeviceStates, Statuses, KnowsBbmd
    <3> QED BY <1>1, <2>1, <3>1
  <2>2. CASE fd' = [fd EXCEPT ![d] = Initialized(@)]
    <3>1. fd' = [fd EXCEPT ![d] = Initialized(s)] BY <2>2
    <3>2. Initialized(s) \in DeviceStates BY <2>0, DeviceTypes
    <3>3. KnowsBbmd(s) => KnowsBbmd(Initialized(s)) BY <2>0, DeviceKnows
    <3> QED BY <1>1, <2>k, <3>1, <3>2, <3>3
  <2>3. ASSUME NEW b \in Bbmds, NEW ttl \in Nat,
               NEW outcome \in {"closed"} \cup Outcomes,
               fd' = [fd EXCEPT ![d] = RegisteredForeign(@, b, ttl, outcome)]
        PROVE  /\ fd' \in [Addresses -> DeviceStates]
               /\ "failed" \notin Outcomes /\ RemoteInv => RemoteInv'
    <3>1. fd' = [fd EXCEPT ![d] = RegisteredForeign(s, b, ttl, outcome)]
      BY <2>3
    <3>2. RegisteredForeign(s, b, ttl, outcome) \in DeviceStates
      BY <2>0, DeviceTypes
    <3>3. "failed" \notin Outcomes => outcome \in {"sent", "closed"} OBVIOUS
    <3>4. KnowsBbmd(s) /\ outcome \in {"sent", "closed"} =>
            KnowsBbmd(RegisteredForeign(s, b, ttl, outcome))
      BY <2>0, DeviceKnows
    <3> QED BY <1>1, <2>k, <3>1, <3>2, <3>3, <3>4
  <2>4. ASSUME NEW r \in DeviceStates, KnowsBbmd(s) => KnowsBbmd(r),
               NEW outcome \in {"closed"} \cup Outcomes,
               fd' = [fd EXCEPT ![d] = Kept(r, elapsed[d], outcome)]
        PROVE  /\ fd' \in [Addresses -> DeviceStates]
               /\ "failed" \notin Outcomes /\ RemoteInv => RemoteInv'
    <3>2. Kept(r, elapsed[d], outcome) \in DeviceStates
      BY <2>0, DeviceTypes
    <3>3. "failed" \notin Outcomes => outcome \in {"sent", "closed"} OBVIOUS
    <3>4. KnowsBbmd(r) /\ outcome \in {"sent", "closed"} =>
            KnowsBbmd(Kept(r, elapsed[d], outcome))
      BY <2>0, DeviceKnows
    <3> QED BY <1>1, <2>k, <2>4, <3>2, <3>3, <3>4
  <2>5. ASSUME NEW outcome \in {"closed"} \cup Outcomes,
               fd' = [fd EXCEPT ![d] = Kept(@, elapsed[d], outcome)]
        PROVE  /\ fd' \in [Addresses -> DeviceStates]
               /\ "failed" \notin Outcomes /\ RemoteInv => RemoteInv'
    <3>1. fd' = [fd EXCEPT ![d] = Kept(s, elapsed[d], outcome)] BY <2>5
    <3> QED BY <2>0, <2>4, <3>1
  <2>6. ASSUME NEW outcome \in {"closed"} \cup Outcomes, NEW code,
               fd' = [fd EXCEPT ![d] =
                        Kept(ResultReceived(@, code), elapsed[d], outcome)]
        PROVE  /\ fd' \in [Addresses -> DeviceStates]
               /\ "failed" \notin Outcomes /\ RemoteInv => RemoteInv'
    <3> PICK r : r = ResultReceived(s, code) OBVIOUS
    <3>1. fd' = [fd EXCEPT ![d] = Kept(r, elapsed[d], outcome)] BY <2>6
    <3>2. r \in DeviceStates BY <2>0, DeviceTypes
    <3>3. KnowsBbmd(s) => KnowsBbmd(r) BY <2>0, DeviceKnows
    <3> QED BY <2>4, <3>1, <3>2, <3>3
  <2> QED BY <1>3, <2>1, <2>2, <2>3, <2>5, <2>6
<1> QED BY <1>2, <1>3 DEF DeviceStep

-----------------------------------------------------------------------------
(* The two results *)

\* TypeOK, with the datagrams named.
LEMMA TypeParts == TypeOK <=> /\ fd \in [Addresses -> DeviceStates]
                              /\ open \in [Addresses -> BOOLEAN]
                              /\ elapsed \in [Addresses -> 0 .. MaxLag]
                              /\ fdt \in [Bbmds -> Tables]
                              /\ NetOK
                              /\ losses \in [Addresses -> 0 .. MaxLosses]
BY DEF TypeOK, NetOK

LEMMA InitialState ==
  ASSUME Init
  PROVE  TypeOK /\ RemoteInv
<1>1. NewDevice \in DeviceStates /\ KnowsBbmd(NewDevice)
  BY DEF NewDevice, DeviceStates, Statuses, KnowsBbmd
<1>2. EmptyTable \in Tables BY DEF EmptyTable, Tables, Entries
<1>3. NetOK BY SmallBags DEF Init, NetOK
<1>4. 0 \in 0 .. MaxLag /\ 0 \in 0 .. MaxLosses OBVIOUS
<1>5. RemoteInv BY <1>1 DEF Init, RemoteInv
<1>6. fd \in [Addresses -> DeviceStates] BY <1>1 DEF Init
<1>7. fdt \in [Bbmds -> Tables] BY <1>2 DEF Init
<1>8. /\ open \in [Addresses -> BOOLEAN]
      /\ elapsed \in [Addresses -> 0 .. MaxLag]
      /\ losses \in [Addresses -> 0 .. MaxLosses]
  BY <1>4 DEF Init
<1> QED BY <1>3, <1>5, <1>6, <1>7, <1>8, TypeParts

\* A datagram of the network has the fields its type says.
LEMMA DatagramFields ==
  ASSUME NEW m \in Datagrams
  PROVE  /\ m.type = "Register" => m.from \in Addresses /\ m.to \in Bbmds
                                   /\ m.ttl \in Nat
         /\ m.type = "Result" => m.from \in Bbmds /\ m.to \in Addresses
         /\ [m EXCEPT !.copy = TRUE] \in Datagrams
<1>1. CASE m \in [type : {"Register"}, from : Addresses, to : Bbmds,
                  ttl : 0 .. Wire - 1, copy : BOOLEAN]
  <2>1. m.ttl \in Nat BY <1>1
  <2>2. m.type = "Register" /\ m.from \in Addresses /\ m.to \in Bbmds BY <1>1
  <2>3. [m EXCEPT !.copy = TRUE]
          \in [type : {"Register"}, from : Addresses, to : Bbmds,
              ttl : 0 .. Wire - 1, copy : BOOLEAN]
    BY <1>1
  <2> QED BY <2>1, <2>2, <2>3 DEF Datagrams
<1>2. CASE m \in [type : {"Result"}, from : Bbmds, to : Addresses,
                  code : ResultCodes, copy : BOOLEAN]
  <2>1. m.type = "Result" /\ m.from \in Bbmds /\ m.to \in Addresses BY <1>2
  <2>2. [m EXCEPT !.copy = TRUE]
          \in [type : {"Result"}, from : Bbmds, to : Addresses,
              code : ResultCodes, copy : BOOLEAN]
    BY <1>2
  <2> QED BY <2>1, <2>2 DEF Datagrams
<1> QED BY <1>1, <1>2 DEF Datagrams

\* Steps of the devices and of those who use them.
LEMMA DeviceSideTypes ==
  ASSUME TypeOK, Application \/ (\E d \in Addresses : Execute(d))
  PROVE  /\ NetOK' /\ open' = open /\ fdt' = fdt /\ losses' = losses
         /\ elapsed' \in [Addresses -> 0 .. MaxLag]
<1>0. NetOK BY TypeParts
<1>1. CASE Application
  <2>1. PICK d \in Addresses, b \in Bbmds, ttl \in Ttls,
             outcome \in SendOutcomes : RegisterForeign(d, b, ttl, outcome)
    BY <1>1 DEF Application
  <2>2. BagToSet(SentRegistration(d, b, ttl, outcome)) \subseteq Datagrams
    BY RegistrationIsDatagram
  <2>3. /\ Post(SentRegistration(d, b, ttl, outcome))
        /\ UNCHANGED <<open, elapsed, fdt, losses>>
    BY <2>1 DEF RegisterForeign
  <2>4. NetOK' BY <1>0, <2>2, <2>3, PostKeeps
  <2> QED BY <2>3, <2>4 DEF TypeOK
<1>2. ASSUME NEW d \in Addresses, Execute(d)
      PROVE  /\ NetOK' /\ open' = open /\ fdt' = fdt /\ losses' = losses
             /\ elapsed' \in [Addresses -> 0 .. MaxLag]
  <2>1. PICK outcome \in SendOutcomes :
          \/ ExecuteIdle(d, outcome)
          \/ \E m \in Messages : ExecuteReceiving(d, m, outcome)
    BY <1>2 DEF Execute
  <2>2. fd[d] \in DeviceStates BY DEF TypeOK
  <2>3. ASSUME NEW r \in DeviceStates
        PROVE  BagToSet(Renewal(d, r, outcome)) \subseteq Datagrams
    <3>1. r.bbmd \in Bbmds \cup {NoBbmd} /\ r.ttl \in Nat BY DEF DeviceStates
    <3>2. BagToSet(SentRegistration(d, r.bbmd, r.ttl, outcome))
            \subseteq Datagrams
      BY <3>1, RegistrationIsDatagram
    <3> QED BY <3>2, SmallBags DEF Renewal
  <2>4. NetOK' /\ \E r : KeepRegistration(d, r, outcome)
    <3>1. CASE ExecuteIdle(d, outcome)
      <4>1. /\ Post(Renewal(d, fd[d], outcome))
            /\ KeepRegistration(d, fd[d], outcome)
        BY <3>1 DEF ExecuteIdle
      <4>2. BagToSet(Renewal(d, fd[d], outcome)) \subseteq Datagrams
        BY <2>2, <2>3
      <4> QED BY <1>0, <4>1, <4>2, PostKeeps
    <3>2. ASSUME NEW m, ExecuteReceiving(d, m, outcome)
          PROVE  NetOK' /\ \E r : KeepRegistration(d, r, outcome)
      <4> PICK r : r = ResultReceived(fd[d], m.code) OBVIOUS
      <4>1. /\ Exchange(m, Renewal(d, r, outcome))
            /\ KeepRegistration(d, r, outcome)
        BY <3>2 DEF ExecuteReceiving
      <4>2. r \in DeviceStates BY <2>2, DeviceTypes
      <4>3. BagToSet(Renewal(d, r, outcome)) \subseteq Datagrams
        BY <2>3, <4>2
      <4>4. NetOK' BY <1>0, <4>1, <4>3, ExchangeKeeps
      <4> QED BY <4>1, <4>4
    <3> QED BY <2>1, <3>1, <3>2
  <2>5. /\ elapsed' = [elapsed EXCEPT ![d] = 0]
        /\ UNCHANGED <<open, fdt, losses>>
    BY <2>4 DEF KeepRegistration
  <2> QED BY <2>4, <2>5 DEF TypeOK
<1> QED BY <1>1, <1>2

\* Steps that reset something, and the passing of time.
LEMMA ResetTypes ==
  ASSUME TypeOK, Reset \/ Tick
  PROVE  /\ NetOK' /\ open' \in [Addresses -> BOOLEAN] /\ losses' = losses
         /\ elapsed' \in [Addresses -> 0 .. MaxLag]
         /\ fdt' \in [Bbmds -> Tables]
<1>0. NetOK BY TypeParts
<1>1. CASE Tick
  <2>1. /\ \A d \in Addresses : elapsed[d] < MaxLag
        /\ elapsed' = [d \in Addresses |-> elapsed[d] + 1]
        /\ fdt' = [b \in Bbmds |-> Aged(fdt[b], 1)]
        /\ old' = old (+) fresh /\ fresh' = EmptyBag
        /\ UNCHANGED <<fd, open, losses>>
    BY <1>1 DEF Tick
  <2>2. \A b \in Bbmds : Aged(fdt[b], 1) \in Tables
    BY TableTypes DEF TypeOK
  <2>3. \A d \in Addresses : elapsed[d] + 1 \in 0 .. MaxLag
    BY <2>1 DEF TypeOK
  <2>4. NetOK'
    <3>1. BagToSet(old') = BagToSet(old) \cup BagToSet(fresh)
      BY <2>1, BagFacts
    <3>2. BagToSet(fresh') = {} BY <2>1, SmallBags
    <3> QED BY <1>0, <3>1, <3>2 DEF NetOK
  <2> QED BY <2>1, <2>2, <2>3, <2>4 DEF TypeOK
<1>2. ASSUME NEW d \in Addresses, Deinitialize(d) \/ Initialize(d) \/ Restart(d)
      PROVE  /\ NetOK' /\ open' \in [Addresses -> BOOLEAN] /\ losses' = losses
             /\ elapsed' \in [Addresses -> 0 .. MaxLag]
             /\ fdt' \in [Bbmds -> Tables]
  <2>1. 0 \in 0 .. MaxLag OBVIOUS
  <2>2. UNCHANGED <<fdt, fresh, old, losses>>
    BY <1>2 DEF Deinitialize, Initialize, Restart, net
  <2>3. NetOK' BY <1>0, <2>2 DEF NetOK
  <2>4. open' \in [Addresses -> BOOLEAN]
    BY <1>2 DEF Deinitialize, Initialize, Restart, TypeOK
  <2>5. elapsed' \in [Addresses -> 0 .. MaxLag]
    BY <1>2, <2>1 DEF Deinitialize, Initialize, Restart, TypeOK
  <2> QED BY <2>2, <2>3, <2>4, <2>5 DEF TypeOK
<1>3. ASSUME NEW b \in Bbmds,
             BbmdRestart(b) \/ \E d \in Addresses : DeleteEntry(b, d)
      PROVE  /\ NetOK' /\ open' \in [Addresses -> BOOLEAN] /\ losses' = losses
             /\ elapsed' \in [Addresses -> 0 .. MaxLag]
             /\ fdt' \in [Bbmds -> Tables]
  <2>1. UNCHANGED <<open, elapsed, fresh, old, losses>>
    BY <1>3 DEF BbmdRestart, DeleteEntry, net
  <2>2. NetOK' BY <1>0, <2>1 DEF NetOK
  <2>3. EmptyTable \in Tables BY DEF EmptyTable, Tables, Entries
  <2>4. fdt[b] \in Tables BY DEF TypeOK
  <2>5. \A d : Deleted(fdt[b], d) \in Tables BY <2>4, TableTypes
  <2>6. fdt' \in [Bbmds -> Tables]
    BY <1>3, <2>3, <2>5 DEF BbmdRestart, DeleteEntry, TypeOK
  <2> QED BY <2>1, <2>2, <2>6 DEF TypeOK
<1> QED BY <1>1, <1>2, <1>3 DEF Reset

\* Steps of the network and of a BBMD.
LEMMA NetworkTypes ==
  ASSUME TypeOK,
         \/ \E d \in Addresses : Serve(d)
         \/ \E m \in Messages : Lose(m) \/ Duplicate(m) \/ Drop(m)
  PROVE  /\ NetOK' /\ open' = open /\ elapsed' = elapsed
         /\ fdt' \in [Bbmds -> Tables]
         /\ losses' \in [Addresses -> 0 .. MaxLosses]
<1>0. NetOK BY TypeParts
<1>1. \A m \in Messages : m \in Datagrams BY <1>0 DEF Messages, NetOK
<1>2. BagToSet(EmptyBag) \subseteq Datagrams BY SmallBags
<1>3. ASSUME NEW m \in Messages, BbmdReceive(m)
      PROVE  /\ NetOK' /\ open' = open /\ elapsed' = elapsed
             /\ fdt' \in [Bbmds -> Tables]
             /\ losses' \in [Addresses -> 0 .. MaxLosses]
  <2>1. m \in Datagrams /\ m.type = "Register" BY <1>1, <1>3 DEF BbmdReceive
  <2>2. m.from \in Addresses /\ m.to \in Bbmds /\ m.ttl \in Nat
    BY <2>1, DatagramFields
  <2> PICK t : t = fdt[m.to] OBVIOUS
  <2>3. t \in Tables BY <2>2 DEF TypeOK
  <2>k. HasRoomFor(t, m.from) \in BOOLEAN BY DEF HasRoomFor, Listed
  <2> PICK granted \in BOOLEAN : granted = HasRoomFor(t, m.from) BY <2>k
  <2> PICK code : code = IF granted THEN "SUCCESSFUL_COMPLETION"
                                    ELSE "REGISTER_NAK"
    OBVIOUS
  <2>4. /\ fdt' = [fdt EXCEPT ![m.to] =
                     IF granted THEN Registered(t, m.from, m.ttl) ELSE t]
        /\ Exchange(m, One(ResultTo(m.from, m.to, code)))
        /\ losses' = [losses EXCEPT ![m.from] = 0]
        /\ UNCHANGED <<fd, open, elapsed>>
    BY <1>3 DEF BbmdReceive
  <2>5. code \in ResultCodes BY DEF ResultCodes
  <2>6. ResultTo(m.from, m.to, code) \in Datagrams
    BY <2>2, <2>5 DEF ResultTo, Datagrams
  <2>7. BagToSet(One(ResultTo(m.from, m.to, code))) \subseteq Datagrams
    BY <2>6, SmallBags
  <2>8. NetOK' BY <1>0, <2>4, <2>7, ExchangeKeeps
  <2>9. Registered(t, m.from, m.ttl) \in Tables BY <2>2, <2>3, TableTypes
  <2>10. fdt' \in [Bbmds -> Tables] BY <2>3, <2>4, <2>9 DEF TypeOK
  <2>11. losses' \in [Addresses -> 0 .. MaxLosses]
    <3>1. 0 \in 0 .. MaxLosses OBVIOUS
    <3> QED BY <2>4, <3>1 DEF TypeOK
  <2> QED BY <2>4, <2>8, <2>10, <2>11
<1>4. ASSUME NEW m \in Messages, Lose(m)
      PROVE  /\ NetOK' /\ open' = open /\ elapsed' = elapsed
             /\ fdt' \in [Bbmds -> Tables]
             /\ losses' \in [Addresses -> 0 .. MaxLosses]
  <2>1. /\ Exchange(m, EmptyBag) /\ UNCHANGED <<fd, open, elapsed, fdt>>
    BY <1>4 DEF Lose
  <2>2. NetOK' BY <1>0, <1>2, <2>1, ExchangeKeeps
  <2>3. CASE m.type = "Register" /\ ~ m.copy
    <3>1. m.from \in Addresses BY <1>1, <2>3, DatagramFields
    <3>2. /\ losses[m.from] < MaxLosses
          /\ losses' = [losses EXCEPT ![m.from] = @ + 1]
      BY <1>4, <2>3 DEF Lose
    <3>3. losses[m.from] + 1 \in 0 .. MaxLosses BY <3>1, <3>2 DEF TypeOK
    <3> QED BY <2>1, <2>2, <3>1, <3>2, <3>3 DEF TypeOK
  <2>4. CASE ~ (m.type = "Register" /\ ~ m.copy)
    <3>1. losses' = losses BY <1>4, <2>4 DEF Lose
    <3> QED BY <2>1, <2>2, <3>1 DEF TypeOK
  <2> QED BY <2>3, <2>4
<1>5. ASSUME NEW m \in Messages, Duplicate(m) \/ Drop(m)
      PROVE  /\ NetOK' /\ open' = open /\ elapsed' = elapsed
             /\ fdt' \in [Bbmds -> Tables]
             /\ losses' \in [Addresses -> 0 .. MaxLosses]
  <2>1. UNCHANGED <<open, elapsed, fdt, losses>>
    BY <1>5 DEF Duplicate, Drop
  <2>2. CASE Duplicate(m)
    <3>1. Post(One([m EXCEPT !.copy = TRUE])) BY <2>2 DEF Duplicate
    <3>2. [m EXCEPT !.copy = TRUE] \in Datagrams BY <1>1, DatagramFields
    <3>3. BagToSet(One([m EXCEPT !.copy = TRUE])) \subseteq Datagrams
      BY <3>2, SmallBags
    <3>4. NetOK' BY <1>0, <3>1, <3>3, PostKeeps
    <3> QED BY <2>1, <3>4 DEF TypeOK
  <2>3. CASE Drop(m)
    <3>1. Exchange(m, EmptyBag) BY <2>3 DEF Drop
    <3>2. NetOK' BY <1>0, <1>2, <3>1, ExchangeKeeps
    <3> QED BY <2>1, <3>2 DEF TypeOK
  <2> QED BY <1>5, <2>2, <2>3
<1> QED BY <1>3, <1>4, <1>5 DEF Serve

LEMMA Step ==
  ASSUME TypeOK, [Next]_vars
  PROVE  TypeOK' /\ ("failed" \notin Outcomes /\ RemoteInv => RemoteInv')
<1>1. /\ fd' \in [Addresses -> DeviceStates]
      /\ "failed" \notin Outcomes /\ RemoteInv => RemoteInv'
  <2>1. /\ fd \in [Addresses -> DeviceStates]
        /\ elapsed \in [Addresses -> Nat]
    BY DEF TypeOK
  <2> QED BY <2>1, StepsOfDevices, DeviceStepType
<1>2. /\ NetOK' /\ open' \in [Addresses -> BOOLEAN]
      /\ elapsed' \in [Addresses -> 0 .. MaxLag]
      /\ fdt' \in [Bbmds -> Tables]
      /\ losses' \in [Addresses -> 0 .. MaxLosses]
  <2>1. CASE UNCHANGED vars BY <2>1, TypeParts DEF vars, NetOK
  <2>2. CASE Application \/ \E d \in Addresses : Execute(d)
    BY <2>2, DeviceSideTypes, TypeParts
  <2>3. CASE Reset \/ Tick BY <2>3, ResetTypes, TypeParts
  <2>4. CASE \/ \E d \in Addresses : Serve(d)
             \/ \E m \in Messages : Lose(m) \/ Duplicate(m) \/ Drop(m)
    BY <2>4, NetworkTypes, TypeParts
  <2> QED BY <2>1, <2>2, <2>3, <2>4 DEF Next
<1>3. TypeOK' BY <1>1, <1>2 DEF TypeOK, NetOK
<1> QED BY <1>1, <1>3

\* The devices, the tables and the datagrams in flight have their types,
\* whatever is lost, duplicated, delayed or restarted (bvlc.cpp, bacnet.cpp).
THEOREM TypeCorrect == Spec => []TypeOK
<1>1. Init => TypeOK BY InitialState
<1>2. TypeOK /\ [Next]_vars => TypeOK' BY Step
<1> QED BY <1>1, <1>2, PTL DEF Spec

\* A registered device always has a BBMD to distribute its broadcasts through
\* (bip_send_pdu()), whatever results arrive late, twice or out of order and
\* whoever restarts, unless sendto() fails.
THEOREM RegisteredDistributes == Spec => []DistributesSomewhere
<1>1. CASE "failed" \in Outcomes
  <2>1. DistributesSomewhere BY <1>1 DEF DistributesSomewhere
  <2> QED BY <2>1, PTL
<1>2. CASE "failed" \notin Outcomes
  <2>1. Init => TypeOK /\ RemoteInv BY InitialState
  <2>2. TypeOK /\ RemoteInv /\ [Next]_vars => TypeOK' /\ RemoteInv'
    BY <1>2, Step
  <2>3. RemoteInv => DistributesSomewhere
    BY DEF RemoteInv, KnowsBbmd, DistributesSomewhere
  <2> QED BY <2>1, <2>2, <2>3, PTL DEF Spec
<1> QED BY <1>1, <1>2

-----------------------------------------------------------------------------
(* A registered device keeps its entry.  The age of the entry cannot be    *)
(* bounded by itself: it grows with time, and a registration that is lost  *)
(* stays unnoticed.  What bounds it is the time since the last renewal was *)
(* sent, a period for each renewal that was lost or is under way, and the  *)
(* second a datagram may need.                                             *)
(*                                                                         *)
(* Two Times-to-Live, or two BBMDs, are out of the question: registerForeign() *)
(* takes the new ones before the BBMD has granted them, and of two         *)
(* registrations under way the older may arrive last.                      *)

TheBbmd == CHOOSE b : b \in Bbmds
TheTtl == CHOOSE ttl : ttl \in Ttls

\* Of a network where all devices use one BBMD and one Time-to-Live that fits
\* in its two octets, nobody restarts and datagrams take less than two ticks.
OneLease ==
  /\ Timely /\ Faults = {}
  /\ \E b : Bbmds = {b}
  /\ \E ttl : Ttls = {ttl} /\ ttl < Wire

Regular == OneLease /\ LossesFitLease

Period == RenewalPeriod(TheTtl)
FullLease == TheTtl + Grace

\* A renewal is due in the execute() after so many seconds.
Quiet == IF TheTtl > SafeTime THEN TheTtl - SafeTime ELSE 1

\* The seconds that n renewals take.
Rounds(n) == n * Period

LEMMA Monotone ==
  ASSUME NEW i \in Nat, NEW j \in Nat, NEW k \in Nat, i <= j
  PROVE  i * k <= j * k
<1>1. (j - i) * k >= 0 OBVIOUS
<1>2. j * k = i * k + (j - i) * k OBVIOUS
<1> QED BY <1>1, <1>2

LEMMA RegularFacts ==
  ASSUME Regular
  PROVE  /\ Bbmds = {TheBbmd} /\ Ttls = {TheTtl}
         /\ TheTtl \in Nat /\ TheTtl % Wire = TheTtl
         /\ FullLease \in Nat /\ FullLease > 0 /\ FullLease = TheTtl + Grace
         /\ Quiet \in Nat /\ Quiet > 0
         /\ Period \in Nat /\ Period > 0 /\ Quiet - 1 + MaxLag = Period
         /\ Rounds(MaxLosses + 1) + 2 < FullLease
<1>1. Bbmds = {TheBbmd}
  <2>1. PICK b : Bbmds = {b} BY DEF Regular, OneLease
  <2> QED BY <2>1 DEF TheBbmd
<1>2. Ttls = {TheTtl} /\ TheTtl < Wire
  <2>1. PICK ttl : Ttls = {ttl} /\ ttl < Wire BY DEF Regular, OneLease
  <2> QED BY <2>1 DEF TheTtl
<1>3. TheTtl \in Nat BY <1>2
<1>4. TheTtl % Wire = TheTtl BY <1>2, <1>3
<1>5. FullLease \in Nat /\ FullLease > 0 BY <1>3 DEF FullLease
<1>6. /\ Quiet \in Nat /\ Quiet > 0
      /\ Period \in Nat /\ Period > 0 /\ Quiet - 1 + MaxLag = Period
  BY <1>3 DEF Quiet, Period, RenewalPeriod
<1>7. Rounds(MaxLosses + 1) + 2 < FullLease
  BY <1>2 DEF Regular, LossesFitLease, Rounds, Period, FullLease
<1> QED BY <1>1, <1>2, <1>3, <1>4, <1>5, <1>6, <1>7 DEF FullLease

LEMMA RoundsFacts ==
  ASSUME Regular
  PROVE  /\ Rounds(0) = 0 /\ Rounds(1) = Period
         /\ \A n \in Nat : Rounds(n) \in Nat
                           /\ Rounds(n + 1) = Rounds(n) + Period
         /\ \A i, j \in Nat : i <= j => Rounds(i) <= Rounds(j)
<1>1. Period \in Nat BY RegularFacts
<1> HIDE DEF Period
<1>2. \A n \in Nat : Rounds(n) \in Nat /\ Rounds(n + 1) = Rounds(n) + Period
  BY <1>1 DEF Rounds
<1>3. \A i, j \in Nat : i <= j => Rounds(i) <= Rounds(j)
  BY <1>1, Monotone DEF Rounds
<1> QED BY <1>1, <1>2, <1>3 DEF Rounds

-----------------------------------------------------------------------------
(* Which datagrams are in flight *)

Fresh == BagToSet(fresh)
Old == BagToSet(old)

Positive(B) == \A m \in BagToSet(B) : B[m] \in Nat /\ B[m] > 0

LEMMA PositiveBags ==
  ASSUME NEW A, NEW B, Positive(A), Positive(B)
  PROVE  Positive(A (+) B)
BY DEF Positive, BagToSet, (+)

LEMMA OneLess ==
  ASSUME NEW A, NEW m, Positive(A)
  PROVE  /\ Positive(A (-) One(m))
         /\ BagToSet(A) \ {m} \subseteq BagToSet(A (-) One(m))
<1> DEFINE B == [e \in DOMAIN A |-> IF e \in {m} THEN A[e] - 1 ELSE A[e]]
           C == [e \in DOMAIN A |-> IF e \in DOMAIN One(m)
                                    THEN A[e] - One(m)[e] ELSE A[e]]
<1>1. One(m) = [e \in {m} |-> 1] BY DEF One, SetToBag
<1>2. C = B BY <1>1
<1>3. A (-) One(m) = [e \in {d \in DOMAIN C : C[d] > 0} |-> C[e]] BY DEF (-)
<1> HIDE DEF C
<1>4. A (-) One(m) = [e \in {d \in DOMAIN B : B[d] > 0} |-> B[e]]
  BY <1>2, <1>3
<1>5. \A e \in DOMAIN A : e # m => B[e] = A[e] OBVIOUS
<1>6. \A e \in DOMAIN A : B[e] \in Int BY DEF Positive, BagToSet
<1> HIDE DEF B
<1>7. DOMAIN B = DOMAIN A BY DEF B
<1> QED BY <1>4, <1>5, <1>6, <1>7 DEF Positive, BagToSet

LEMMA SmallPositive ==
  Positive(EmptyBag) /\ \A m : Positive(One(m))
BY DEF Positive, BagToSet, EmptyBag, SetToBag, One

\* What an exchange does to the two sets.
Exchanged(m, new) ==
  \/ /\ m \in Fresh /\ (Fresh \ {m}) \cup new \subseteq Fresh'
     /\ Fresh' \subseteq Fresh \cup new /\ Old' = Old
  \/ /\ m \in Old /\ Fresh' = Fresh \cup new
     /\ Old \ {m} \subseteq Old' /\ Old' \subseteq Old

LEMMA ExchangeFacts ==
  ASSUME Positive(fresh), Positive(old), NEW sent, Positive(sent), NEW m,
         Exchange(m, sent)
  PROVE  Positive(fresh)' /\ Positive(old)' /\ Exchanged(m, BagToSet(sent))
<1>1. CASE /\ BagIn(m, fresh) /\ fresh' = (fresh (-) One(m)) (+) sent
           /\ old' = old
  <2> DEFINE rest == fresh (-) One(m)
  <2>1. /\ Positive(rest) /\ BagToSet(fresh) \ {m} \subseteq BagToSet(rest)
        /\ BagToSet(rest) \subseteq BagToSet(fresh)
    BY OneLess, BagFacts
  <2> HIDE DEF rest
  <2>2. fresh' = rest (+) sent BY <1>1 DEF rest
  <2>3. Positive(rest (+) sent) BY <2>1, PositiveBags
  <2>4. BagToSet(rest (+) sent) = BagToSet(rest) \cup BagToSet(sent)
    BY BagFacts
  <2>5. Positive(fresh') /\ Positive(old') BY <1>1, <2>2, <2>3
  <2>6. m \in BagToSet(fresh) BY <1>1 DEF BagIn
  <2>7. BagToSet(fresh') = BagToSet(rest) \cup BagToSet(sent) BY <2>2, <2>4
  <2> QED BY <1>1, <2>1, <2>5, <2>6, <2>7 DEF Exchanged, Fresh, Old, Positive
<1>2. CASE /\ BagIn(m, old) /\ old' = old (-) One(m)
           /\ fresh' = fresh (+) sent
  <2> DEFINE rest == old (-) One(m)
  <2>1. /\ Positive(rest) /\ BagToSet(old) \ {m} \subseteq BagToSet(rest)
        /\ BagToSet(rest) \subseteq BagToSet(old)
    BY OneLess, BagFacts
  <2> HIDE DEF rest
  <2>2. old' = rest BY <1>2 DEF rest
  <2>3. Positive(fresh (+) sent) BY PositiveBags
  <2>4. BagToSet(fresh (+) sent) = BagToSet(fresh) \cup BagToSet(sent)
    BY BagFacts
  <2>5. Positive(fresh') /\ Positive(old') BY <1>2, <2>1, <2>2, <2>3
  <2>6. m \in BagToSet(old) BY <1>2 DEF BagIn
  <2> QED BY <1>2, <2>1, <2>2, <2>4, <2>5, <2>6
          DEF Exchanged, Fresh, Old, Positive
<1> QED BY <1>1, <1>2 DEF Exchange

LEMMA PostFacts ==
  ASSUME Positive(fresh), Positive(old), NEW sent, Positive(sent), Post(sent)
  PROVE  /\ Positive(fresh)' /\ Positive(old)'
         /\ Fresh' = Fresh \cup BagToSet(sent) /\ Old' = Old
<1>1. fresh' = fresh (+) sent /\ old' = old BY DEF Post
<1>2. Positive(fresh (+) sent) BY PositiveBags
<1>3. BagToSet(fresh (+) sent) = BagToSet(fresh) \cup BagToSet(sent)
  BY BagFacts
<1> QED BY <1>1, <1>2, <1>3 DEF Fresh, Old, Positive

-----------------------------------------------------------------------------
(* The invariant *)

Configured(d) == fd[d].bbmd = TheBbmd /\ fd[d].ttl = TheTtl

Age(d) == FullLease - Lease(fdt[TheBbmd], d)
Waited(d) == fd[d].renewTmr + elapsed[d]

\* A registration of d that is not a copy: its loss is counted.
IsOriginal(m, d) == m.type = "Register" /\ m.from = d /\ ~ m.copy
Among(S, d) == \E m \in S : IsOriginal(m, d)

Granting(m) == m.type = "Result" /\ m.code = "SUCCESSFUL_COMPLETION"

Limit(d) ==
  Rounds(losses[d] + (IF Among(Old, d) THEN 1 ELSE 0))
    + (IF Among(Fresh, d) THEN Period ELSE Waited(d)) + 1

AgeInv(d) ==
  /\ Age(d) <= Limit(d)
  /\ Age(d) <= Rounds(MaxLosses + 1) + 2
  /\ losses[d] = 0 => Age(d) <= Period + 2

DeviceInv(d) ==
  /\ fd[d].renewTmr < Quiet
  /\ fd[d].status = "SUCCESS" => Configured(d) /\ AgeInv(d)

\* What the datagrams under way say of their devices.
Told(m) ==
  /\ m.type = "Register" => m.ttl = TheTtl /\ Configured(m.from)
  /\ m.type = "Result" => Configured(m.to)

FlightInv ==
  /\ Positive(fresh) /\ Positive(old)
  /\ \A m \in Fresh \cup Old : Told(m)
  /\ \A m \in Fresh : Granting(m) => Age(m.to) <= 0
  /\ \A m \in Old : Granting(m) => Age(m.to) <= 1

KInv ==
  /\ TypeOK
  /\ Good(fdt[TheBbmd])
  /\ \A d \in Addresses : open[d]
  /\ FlightInv
  /\ \A d \in Addresses : DeviceInv(d)

LEMMA DeviceNumbers ==
  ASSUME Regular, TypeOK, NEW d \in Addresses
  PROVE  /\ fd[d] \in DeviceStates /\ fd[d].renewTmr \in Nat
         /\ elapsed[d] \in Nat /\ elapsed[d] <= MaxLag
         /\ losses[d] \in Nat /\ losses[d] <= MaxLosses
         /\ Waited(d) \in Nat
         /\ fd[d].renewTmr < Quiet => Waited(d) <= Period
<1>1. /\ fd[d] \in DeviceStates /\ elapsed[d] \in 0 .. MaxLag
      /\ losses[d] \in 0 .. MaxLosses
  BY DEF TypeOK
<1>2. fd[d].renewTmr \in Nat BY <1>1 DEF DeviceStates
<1> QED BY <1>1, <1>2, RegularFacts DEF Waited

LEMMA AgeType ==
  ASSUME Regular, Good(fdt[TheBbmd]), NEW d
  PROVE  Age(d) \in Int /\ Age(d) <= FullLease
BY RegularFacts, LeaseOfListed DEF Age

LEMMA LimitType ==
  ASSUME Regular, TypeOK, NEW d \in Addresses
  PROVE  Limit(d) \in Nat /\ Limit(d) >= 1
<1> DEFINE o == IF Among(Old, d) THEN 1 ELSE 0
<1>1. losses[d] + o \in Nat BY DeviceNumbers
<1>2. Rounds(losses[d] + o) \in Nat BY <1>1, RoundsFacts
<1> HIDE DEF o
<1>3. Waited(d) \in Nat /\ Period \in Nat BY DeviceNumbers, RegularFacts
<1> QED BY <1>2, <1>3 DEF Limit, o

\* The limit does not fall as long as no original is forgotten.
LEMMA LimitGrows ==
  ASSUME Regular, TypeOK, TypeOK', NEW d \in Addresses, fd[d].renewTmr < Quiet,
         Among(Old, d) => Among(Old', d), losses[d] <= losses'[d],
         \/ Among(Fresh', d)
         \/ ~ Among(Fresh, d) /\ Waited(d) <= Waited(d)'
  PROVE  /\ Limit(d) \in Nat /\ Limit(d) >= 1
         /\ Limit(d)' \in Nat /\ Limit(d) <= Limit(d)'
<1> DEFINE o == IF Among(Old, d) THEN 1 ELSE 0
           op == IF Among(Old', d) THEN 1 ELSE 0
           f == IF Among(Fresh, d) THEN Period ELSE Waited(d)
           fp == IF Among(Fresh', d) THEN Period ELSE Waited(d)'
<1>1. /\ losses[d] \in Nat /\ Waited(d) \in Nat /\ Waited(d) <= Period
      /\ Period \in Nat
  BY DeviceNumbers, RegularFacts
<1>2. losses'[d] \in Nat BY DEF TypeOK
<1>3. Waited(d)' \in Nat
  <2>1. /\ fd'[d] \in DeviceStates /\ elapsed'[d] \in 0 .. MaxLag
    BY DEF TypeOK
  <2> QED BY <2>1 DEF Waited, DeviceStates
<1>4. f <= fp /\ f \in Nat /\ fp \in Nat BY <1>1, <1>3
<1>5. losses[d] + o \in Nat /\ losses'[d] + op \in Nat
      /\ losses[d] + o <= losses'[d] + op
  BY <1>1, <1>2
<1> HIDE DEF o, op, f, fp
<1>6. /\ Rounds(losses[d] + o) <= Rounds(losses'[d] + op)
      /\ Rounds(losses[d] + o) \in Nat /\ Rounds(losses'[d] + op) \in Nat
  BY <1>5, RoundsFacts
<1>7. Limit(d) = Rounds(losses[d] + o) + f + 1 BY DEF Limit, o, f
<1>8. Limit(d)' = Rounds(losses'[d] + op) + fp + 1 BY DEF Limit, op, fp
<1> QED BY <1>4, <1>6, <1>7, <1>8

\* A device to which nothing happens, or whose application registers again.
LEMMA Undisturbed ==
  ASSUME Regular, TypeOK, TypeOK', Good(fdt[TheBbmd]),
         NEW d \in Addresses, DeviceInv(d),
         fd'[d].status = fd[d].status, fd'[d].renewTmr = fd[d].renewTmr,
         elapsed'[d] = elapsed[d], losses'[d] = losses[d],
         Configured(d) => Configured(d)', Age(d)' = Age(d),
         Among(Fresh, d) => Among(Fresh', d), Among(Old, d) => Among(Old', d)
  PROVE  DeviceInv(d)'
<1>1. fd'[d].renewTmr < Quiet BY DEF DeviceInv
<1>2. ASSUME fd[d].status = "SUCCESS" PROVE Configured(d)' /\ AgeInv(d)'
  <2>1. Configured(d) /\ AgeInv(d) BY <1>2 DEF DeviceInv
  <2>2. Waited(d)' = Waited(d) BY DEF Waited
  <2>3. Waited(d) \in Nat /\ losses[d] \in Nat BY DeviceNumbers
  <2>4. /\ Limit(d) \in Nat /\ Limit(d)' \in Nat /\ Limit(d) <= Limit(d)'
    BY <2>2, <2>3, LimitGrows DEF DeviceInv
  <2>5. Age(d) \in Int BY AgeType
  <2>6. Age(d)' <= Limit(d)' BY <2>1, <2>4, <2>5 DEF AgeInv
  <2> QED BY <2>1, <2>6 DEF AgeInv
<1> QED BY <1>1, <1>2 DEF DeviceInv

\* The datagrams under way, while no lease changes.
LEMMA FlightKept ==
  ASSUME FlightInv, fdt' = fdt, Positive(fresh)', Positive(old)',
         \A d : Configured(d) => Configured(d)',
         NEW new, Fresh' \subseteq Fresh \cup new, Old' \subseteq Old,
         \A m \in new : Told(m)' /\ (Granting(m) => Age(m.to) <= 0)
  PROVE  FlightInv'
<1>1. \A d : Age(d)' = Age(d) BY DEF Age
<1>2. \A m : Told(m) => Told(m)' BY DEF Told
<1>3. \A m \in Fresh' \cup Old' : Told(m)' BY <1>2 DEF FlightInv
<1>4. \A m \in Fresh' : Granting(m) => Age(m.to)' <= 0 BY <1>1 DEF FlightInv
<1>5. \A m \in Old' : Granting(m) => Age(m.to)' <= 1 BY <1>1 DEF FlightInv
<1> QED BY <1>3, <1>4, <1>5 DEF FlightInv

\* Only the loss or the arrival of an original takes it out.
LEMMA OriginalsStay ==
  ASSUME NEW m, NEW new, Exchanged(m, new), NEW d, ~ IsOriginal(m, d)
  PROVE  /\ Among(Fresh, d) => Among(Fresh', d)
         /\ Among(Old, d) => Among(Old', d)
BY DEF Exchanged, Among

LEMMA ExchangedSets ==
  ASSUME NEW m, NEW new, Exchanged(m, new)
  PROVE  /\ m \in Fresh \cup Old /\ new \subseteq Fresh'
         /\ Fresh' \subseteq Fresh \cup new /\ Old' \subseteq Old
BY DEF Exchanged

LEMMA RegisteredForeignFacts ==
  ASSUME NEW s \in DeviceStates, NEW b, NEW ttl, NEW outcome
  PROVE  LET r == RegisteredForeign(s, b, ttl, outcome)
         IN  /\ r.status = s.status /\ r.renewTmr = s.renewTmr
             /\ IF outcome = "failed" THEN r.bbmd = s.bbmd /\ r.ttl = s.ttl
                                      ELSE r.bbmd = b /\ r.ttl = ttl
BY DEF RegisteredForeign, Asked, DeviceStates

LEMMA ResultReceivedFacts ==
  ASSUME NEW s \in DeviceStates, NEW code
  PROVE  LET r == ResultReceived(s, code)
         IN  /\ r \in DeviceStates
             /\ r.bbmd = s.bbmd /\ r.ttl = s.ttl /\ r.renewTmr = s.renewTmr
             /\ r.status = "SUCCESS" => code = "SUCCESSFUL_COMPLETION"
<1>1. ResultReceived(s, code) \in DeviceStates BY DeviceTypes
<1> QED BY <1>1 DEF ResultReceived, DeviceStates

LEMMA KeptFacts ==
  ASSUME Regular, NEW s \in DeviceStates, NEW seconds \in Nat, NEW outcome,
         s.renewTmr < Quiet, s.status = "SUCCESS" => s.ttl = TheTtl
  PROVE  LET r == Kept(s, seconds, outcome)
         IN  /\ r.bbmd = s.bbmd /\ r.ttl = s.ttl /\ r.renewTmr < Quiet
             /\ r.status = "SUCCESS" =>
                  /\ s.status = "SUCCESS"
                  /\ IF RenewalDue(s, seconds)
                     THEN outcome # "failed"
                     ELSE r.renewTmr = s.renewTmr + seconds
<1>0. Quiet \in Nat /\ Quiet > 0 BY RegularFacts
<1>1. CASE s.status = "NO_REGISTRATION"
  <2>1. Kept(s, seconds, outcome) = s BY <1>1 DEF Kept, RenewalDue
  <2> QED BY <1>1, <2>1
<1>2. CASE s.status = "FAIL"
  <2>1. Kept(s, seconds, outcome) = [s EXCEPT !.renewTmr = 0]
    BY <1>2 DEF Kept, RenewalDue
  <2> QED BY <1>0, <1>2, <2>1 DEF DeviceStates
<1>3. CASE RenewalDue(s, seconds)
  <2>1. s.status = "SUCCESS" BY <1>3 DEF RenewalDue
  <2>2. Kept(s, seconds, outcome)
          = [Asked(s, s.bbmd, outcome) EXCEPT
               !.renewTmr = 0,
               !.status = IF outcome = "failed" THEN "FAIL" ELSE @]
    BY <1>3, <2>1 DEF Kept
  <2> QED BY <1>0, <1>3, <2>1, <2>2 DEF Asked, DeviceStates
<1>4. CASE s.status = "SUCCESS" /\ ~ RenewalDue(s, seconds)
  <2>1. Kept(s, seconds, outcome) = [s EXCEPT !.renewTmr = @ + seconds]
    BY <1>4 DEF Kept
  <2>2. s.renewTmr + seconds < s.ttl - SafeTime
    BY <1>4 DEF RenewalDue, DeviceStates
  <2>3. s.renewTmr + seconds < Quiet
    BY <1>4, <2>2, RegularFacts DEF Quiet, DeviceStates
  <2> QED BY <1>4, <2>1, <2>3 DEF DeviceStates
<1> QED BY <1>1, <1>2, <1>3, <1>4 DEF DeviceStates, Statuses

-----------------------------------------------------------------------------
(* The steps of a device *)

LEMMA RegistrationTold ==
  ASSUME Regular, NEW e \in Addresses, NEW b \in Bbmds \cup {NoBbmd},
         NEW outcome, NEW m \in BagToSet(SentRegistration(e, b, TheTtl, outcome))
  PROVE  /\ m = Registration(e, b, TheTtl) /\ outcome = "sent"
         /\ m.type = "Register" /\ m.from = e /\ m.ttl = TheTtl
         /\ ~ Granting(m)
<1>1. outcome = "sent" /\ b # NoBbmd BY SmallBags DEF SentRegistration
<1>2. m = Registration(e, b, TheTtl) BY <1>1, SmallBags DEF SentRegistration
<1>3. TheTtl % Wire = TheTtl BY RegularFacts
<1> QED BY <1>1, <1>2, <1>3 DEF Registration, Granting

LEMMA SentPositive ==
  \A d, b, ttl, outcome : Positive(SentRegistration(d, b, ttl, outcome))
BY SmallPositive DEF SentRegistration

LEMMA ApplicationInv ==
  ASSUME Regular, KInv, TypeOK', Application
  PROVE  KInv'
<1> USE DEF KInv
<1>1. PICK e \in Addresses, b \in Bbmds, ttl \in Ttls, outcome \in SendOutcomes :
        RegisterForeign(e, b, ttl, outcome)
  BY DEF Application
<1>2. b = TheBbmd /\ ttl = TheTtl BY RegularFacts
<1>3. /\ outcome \in OutcomesOf(e)
      /\ fd' = [fd EXCEPT ![e] = RegisteredForeign(@, b, ttl, outcome)]
      /\ Post(SentRegistration(e, b, ttl, outcome))
      /\ open' = open /\ elapsed' = elapsed /\ fdt' = fdt /\ losses' = losses
  BY <1>1 DEF RegisterForeign
<1>4. fd \in [Addresses -> DeviceStates] BY DEF TypeOK
<1> PICK r : r = RegisteredForeign(fd[e], b, ttl, outcome) OBVIOUS
<1>5. /\ r.status = fd[e].status /\ r.renewTmr = fd[e].renewTmr
      /\ IF outcome = "failed" THEN r.bbmd = fd[e].bbmd /\ r.ttl = fd[e].ttl
                               ELSE r.bbmd = b /\ r.ttl = ttl
  BY <1>4, RegisteredForeignFacts
<1>6. fd' = [fd EXCEPT ![e] = r] BY <1>3
<1>7. \A d : Configured(d) => Configured(d)'
  BY <1>2, <1>4, <1>5, <1>6 DEF Configured
<1> DEFINE new == BagToSet(SentRegistration(e, b, ttl, outcome))
<1>8. /\ Positive(fresh)' /\ Positive(old)'
      /\ Fresh' = Fresh \cup new /\ Old' = Old
  BY <1>3, PostFacts, SentPositive DEF FlightInv
<1>9. ASSUME NEW m \in new PROVE Told(m)' /\ ~ Granting(m)
  <2>1. /\ outcome = "sent" /\ m.type = "Register" /\ m.from = e
        /\ m.ttl = TheTtl /\ ~ Granting(m)
    BY <1>2, RegistrationTold
  <2>2. Configured(e)' BY <1>2, <1>4, <1>5, <1>6, <2>1 DEF Configured
  <2> QED BY <2>1, <2>2 DEF Told
<1> HIDE DEF new
<1>10. FlightInv' BY <1>3, <1>7, <1>8, <1>9, FlightKept
<1>11. ASSUME NEW d \in Addresses PROVE DeviceInv(d)'
  <2>1. fd'[d].status = fd[d].status /\ fd'[d].renewTmr = fd[d].renewTmr
    BY <1>4, <1>5, <1>6
  <2>2. Among(Fresh, d) => Among(Fresh', d) BY <1>8 DEF Among
  <2>3. Age(d)' = Age(d) BY <1>3 DEF Age
  <2> QED BY <1>3, <1>7, <1>8, <2>1, <2>2, <2>3, Undisturbed
<1> QED BY <1>3, <1>10, <1>11

\* execute() of e, after it has received what made s of its state.
LEMMA ExecutedInv ==
  ASSUME Regular, KInv, TypeOK', NEW e \in Addresses, NEW outcome \in SendOutcomes,
         NEW s \in DeviceStates, s.renewTmr = fd[e].renewTmr,
         s.bbmd = fd[e].bbmd, s.ttl = fd[e].ttl,
         s.status = "SUCCESS" => Configured(e) /\ AgeInv(e),
         KeepRegistration(e, s, outcome),
         Positive(fresh)', Positive(old)',
         BagToSet(Renewal(e, s, outcome)) \subseteq Fresh',
         Fresh' \subseteq Fresh \cup BagToSet(Renewal(e, s, outcome)),
         Old' \subseteq Old,
         \A d : Among(Fresh, d) => Among(Fresh', d),
         \A d : Among(Old, d) => Among(Old', d)
  PROVE  KInv'
<1> USE DEF KInv
<1>1. /\ outcome \in OutcomesOf(e)
      /\ fd' = [fd EXCEPT ![e] = Kept(s, elapsed[e], outcome)]
      /\ elapsed' = [elapsed EXCEPT ![e] = 0]
      /\ open' = open /\ fdt' = fdt /\ losses' = losses
  BY DEF KeepRegistration
<1>2. /\ fd \in [Addresses -> DeviceStates]
      /\ elapsed \in [Addresses -> 0 .. MaxLag]
  BY DEF TypeOK
<1>3. elapsed[e] \in Nat /\ s.renewTmr < Quiet /\ s.renewTmr \in Nat
  BY <1>2 DEF DeviceInv, DeviceStates
<1>4. s.status = "SUCCESS" => s.ttl = TheTtl /\ s.bbmd = TheBbmd
  BY DEF Configured
<1> PICK r : r = Kept(s, elapsed[e], outcome) OBVIOUS
<1>5. /\ r.bbmd = s.bbmd /\ r.ttl = s.ttl /\ r.renewTmr < Quiet
      /\ r.status = "SUCCESS" =>
           /\ s.status = "SUCCESS"
           /\ IF RenewalDue(s, elapsed[e])
              THEN outcome # "failed"
              ELSE r.renewTmr = s.renewTmr + elapsed[e]
  BY <1>3, <1>4, KeptFacts
<1>6. fd' = [fd EXCEPT ![e] = r] /\ fd'[e] = r BY <1>1, <1>2
<1>7. \A d : Configured(d)' <=> Configured(d)
  BY <1>2, <1>5, <1>6 DEF Configured
<1> DEFINE new == BagToSet(Renewal(e, s, outcome))
<1>8. ASSUME RenewalDue(s, elapsed[e])
      PROVE  /\ s.status = "SUCCESS"
             /\ new = BagToSet(SentRegistration(e, TheBbmd, TheTtl, outcome))
  BY <1>4, <1>8 DEF Renewal, RenewalDue
<1>9. ASSUME NEW m \in new PROVE Told(m)' /\ ~ Granting(m)
  <2>1. RenewalDue(s, elapsed[e]) BY SmallBags DEF Renewal
  <2>2. m \in BagToSet(SentRegistration(e, TheBbmd, TheTtl, outcome))
    BY <1>8, <2>1
  <2>3. TheBbmd \in Bbmds BY RegularFacts
  <2>4. /\ m.type = "Register" /\ m.from = e
        /\ m.ttl = TheTtl /\ ~ Granting(m)
    BY <2>2, <2>3, RegistrationTold
  <2>5. Configured(e)' BY <1>7, <1>8, <2>1
  <2> QED BY <2>4, <2>5 DEF Told
<1>10. FlightInv'
  <2> HIDE DEF new
  <2> QED BY <1>1, <1>7, <1>9, FlightKept DEF new
<1>11. ASSUME r.status = "SUCCESS" PROVE Configured(e)' /\ AgeInv(e)'
  <2>1. s.status = "SUCCESS" /\ Configured(e) /\ AgeInv(e) BY <1>5, <1>11
  <2>2. \/ Among(Fresh', e)
        \/ ~ Among(Fresh, e) /\ Waited(e) <= Waited(e)'
    <3>1. CASE RenewalDue(s, elapsed[e])
      <4>1. outcome = "sent"
        BY <1>1, <1>5, <1>11, <3>1 DEF OutcomesOf
      <4>2. TheBbmd # NoBbmd BY RegularFacts
      <4>3. Registration(e, TheBbmd, TheTtl) \in new
        BY <1>8, <3>1, <4>1, <4>2, SmallBags DEF SentRegistration
      <4> QED BY <4>3 DEF Among, IsOriginal, Registration
    <3>2. CASE ~ RenewalDue(s, elapsed[e])
      <4>1. r.renewTmr = s.renewTmr + elapsed[e] BY <1>5, <1>11, <3>2
      <4>2. elapsed'[e] = 0 BY <1>1, <1>2
      <4>3. Waited(e)' = Waited(e) BY <1>2, <1>3, <1>6, <4>1, <4>2 DEF Waited
      <4>4. Waited(e) \in Nat BY DeviceNumbers
      <4> QED BY <4>3, <4>4
    <3> QED BY <3>1, <3>2
  <2>3. losses[e] \in Nat BY DeviceNumbers
  <2>4. /\ Limit(e) \in Nat /\ Limit(e)' \in Nat /\ Limit(e) <= Limit(e)'
    BY <1>1, <1>3, <2>2, <2>3, LimitGrows
  <2>5. Age(e)' = Age(e) /\ Age(e) \in Int BY <1>1, AgeType DEF Age
  <2> QED BY <1>1, <1>7, <2>1, <2>4, <2>5 DEF AgeInv
<1>12. DeviceInv(e)' BY <1>5, <1>6, <1>11 DEF DeviceInv
<1>13. ASSUME NEW d \in Addresses, d # e PROVE DeviceInv(d)'
  <2>1. fd'[d] = fd[d] /\ elapsed'[d] = elapsed[d] BY <1>1, <1>2, <1>13
  <2>2. Age(d)' = Age(d) BY <1>1 DEF Age
  <2> QED BY <1>1, <1>7, <2>1, <2>2, Undisturbed
<1> QED BY <1>1, <1>10, <1>12, <1>13

\* What was received is the answer to a registration of a second ago.
LEMMA ExecuteInv ==
  ASSUME Regular, KInv, TypeOK', NEW e \in Addresses, Execute(e)
  PROVE  KInv'
<1>0. /\ TypeOK /\ Good(fdt[TheBbmd]) /\ FlightInv /\ DeviceInv(e)
  BY DEF KInv
<1>1. PICK outcome \in SendOutcomes :
        \/ ExecuteIdle(e, outcome)
        \/ \E m \in Messages : ExecuteReceiving(e, m, outcome)
  BY DEF Execute
<1>2. fd[e] \in DeviceStates BY <1>0 DEF TypeOK
<1>3. \A s : Positive(Renewal(e, s, outcome))
  BY SmallPositive, SentPositive DEF Renewal
<1>4. CASE ExecuteIdle(e, outcome)
  <2> DEFINE new == BagToSet(Renewal(e, fd[e], outcome))
  <2>1. /\ KeepRegistration(e, fd[e], outcome)
        /\ Post(Renewal(e, fd[e], outcome))
    BY <1>4 DEF ExecuteIdle
  <2>2. /\ Positive(fresh)' /\ Positive(old)'
        /\ Fresh' = Fresh \cup new /\ Old' = Old
    BY <1>0, <1>3, <2>1, PostFacts DEF FlightInv
  <2>3. fd[e].status = "SUCCESS" => Configured(e) /\ AgeInv(e)
    BY <1>0 DEF DeviceInv
  <2>4. /\ \A d : Among(Fresh, d) => Among(Fresh', d)
        /\ \A d : Among(Old, d) => Among(Old', d)
    BY <2>2 DEF Among
  <2>5. /\ new \subseteq Fresh' /\ Fresh' \subseteq Fresh \cup new
        /\ Old' \subseteq Old
    BY <2>2
  <2> QED BY <1>2, <2>1, <2>2, <2>3, <2>4, <2>5, ExecutedInv
<1>5. ASSUME NEW m \in Messages, ExecuteReceiving(e, m, outcome)
      PROVE  KInv'
  <2> PICK s : s = ResultReceived(fd[e], m.code) OBVIOUS
  <2> DEFINE new == BagToSet(Renewal(e, s, outcome))
  <2>1. /\ m.type = "Result" /\ m.to = e
        /\ KeepRegistration(e, s, outcome)
        /\ Exchange(m, Renewal(e, s, outcome))
    BY <1>5 DEF ExecuteReceiving
  <2>2. /\ s \in DeviceStates
        /\ s.bbmd = fd[e].bbmd /\ s.ttl = fd[e].ttl
        /\ s.renewTmr = fd[e].renewTmr
        /\ s.status = "SUCCESS" => m.code = "SUCCESSFUL_COMPLETION"
    BY <1>2, ResultReceivedFacts
  <2>3. Positive(fresh)' /\ Positive(old)' /\ Exchanged(m, new)
    BY <1>0, <1>3, <2>1, ExchangeFacts DEF FlightInv
  <2>4. /\ m \in Fresh \cup Old /\ new \subseteq Fresh'
        /\ Fresh' \subseteq Fresh \cup new /\ Old' \subseteq Old
    BY <2>3, ExchangedSets
  <2>5. \A d : ~ IsOriginal(m, d) BY <2>1 DEF IsOriginal
  <2>6. /\ \A d : Among(Fresh, d) => Among(Fresh', d)
        /\ \A d : Among(Old, d) => Among(Old', d)
    BY <2>3, <2>5, OriginalsStay
  <2>7. ASSUME s.status = "SUCCESS" PROVE Configured(e) /\ AgeInv(e)
    <3>1. Granting(m) BY <2>1, <2>2, <2>7 DEF Granting
    <3>2. Configured(e) BY <1>0, <2>1, <2>4 DEF FlightInv, Told
    <3>3. Age(e) \in Int BY <1>0, AgeType
    <3>4. Age(e) <= 1 BY <1>0, <2>1, <2>4, <3>1, <3>3 DEF FlightInv
    <3>5. Limit(e) \in Nat /\ Limit(e) >= 1 BY <1>0, LimitType
    <3>6. Rounds(MaxLosses + 1) \in Nat /\ Period \in Nat
      BY RoundsFacts, RegularFacts
    <3> QED BY <3>2, <3>3, <3>4, <3>5, <3>6 DEF AgeInv
  <2> HIDE DEF new
  <2>8. /\ BagToSet(Renewal(e, s, outcome)) \subseteq Fresh'
        /\ Fresh' \subseteq Fresh \cup BagToSet(Renewal(e, s, outcome))
    BY <2>4 DEF new
  <2> QED BY <2>1, <2>2, <2>3, <2>4, <2>6, <2>7, <2>8, ExecutedInv
<1> QED BY <1>1, <1>4, <1>5

-----------------------------------------------------------------------------
(* The steps of the network *)

LEMMA NextNumbers ==
  ASSUME Regular, TypeOK', NEW d \in Addresses
  PROVE  /\ Waited(d)' \in Nat /\ losses'[d] \in Nat /\ losses'[d] <= MaxLosses
         /\ Limit(d)' \in Nat /\ Limit(d)' >= 1
<1> DEFINE op == IF Among(Old', d) THEN 1 ELSE 0
<1>1. /\ fd'[d] \in DeviceStates /\ elapsed'[d] \in 0 .. MaxLag
      /\ losses'[d] \in 0 .. MaxLosses
  BY DEF TypeOK
<1>2. Waited(d)' \in Nat BY <1>1 DEF Waited, DeviceStates
<1>3. losses'[d] + op \in Nat BY <1>1
<1> HIDE DEF op
<1>4. Rounds(losses'[d] + op) \in Nat /\ Period \in Nat
  BY <1>3, RoundsFacts, RegularFacts
<1>5. Limit(d)' = Rounds(losses'[d] + op)
                    + (IF Among(Fresh', d) THEN Period ELSE Waited(d)') + 1
  BY DEF Limit, op
<1> QED BY <1>1, <1>2, <1>4, <1>5

\* An original that is lost makes room for another period.
LEMMA LossGrows ==
  ASSUME Regular, TypeOK, TypeOK', NEW d \in Addresses, fd[d].renewTmr < Quiet,
         NEW m, IsOriginal(m, d), Exchanged(m, {}),
         losses'[d] = losses[d] + 1, Waited(d)' = Waited(d)
  PROVE  Limit(d) \in Nat /\ Limit(d)' \in Nat /\ Limit(d) <= Limit(d)'
<1> DEFINE o == IF Among(Old, d) THEN 1 ELSE 0
           op == IF Among(Old', d) THEN 1 ELSE 0
           f == IF Among(Fresh, d) THEN Period ELSE Waited(d)
           fp == IF Among(Fresh', d) THEN Period ELSE Waited(d)'
<1>1. /\ losses[d] \in Nat /\ Waited(d) \in Nat /\ Waited(d) <= Period
      /\ Period \in Nat
  BY DeviceNumbers, RegularFacts
<1>2. Limit(d)' \in Nat /\ Limit(d) \in Nat BY NextNumbers, LimitType
<1>3. Limit(d) = Rounds(losses[d] + o) + f + 1 BY DEF Limit
<1>4. Limit(d)' = Rounds(losses[d] + 1 + op) + fp + 1 BY DEF Limit
<1>5. o \in {0, 1} /\ op \in {0, 1} OBVIOUS
<1>6. f \in {Period, Waited(d)} /\ fp \in {Period, Waited(d)} OBVIOUS
<1>8. CASE m \in Fresh /\ Old' = Old
  <2>1. op = o BY <1>8
  <2> HIDE DEF o, op, f, fp
  <2>5. losses[d] + o \in Nat BY <1>1, <1>5
  <2>2. /\ Rounds(losses[d] + o) \in Nat
        /\ Rounds(losses[d] + o + 1) = Rounds(losses[d] + o) + Period
    BY <2>5, RoundsFacts
  <2>3. losses[d] + 1 + op = losses[d] + o + 1 BY <1>1, <1>5, <2>1
  <2>4. Limit(d)' = Rounds(losses[d] + o) + Period + fp + 1
    BY <1>4, <2>2, <2>3
  <2> QED BY <1>1, <1>2, <1>3, <1>6, <2>2, <2>4
<1>9. CASE m \in Old /\ Fresh' = Fresh
  <2>1. fp = f BY <1>9
  <2> HIDE DEF o, op, f, fp
  <2>2. /\ losses[d] + o \in Nat /\ losses[d] + 1 + op \in Nat
        /\ losses[d] + o <= losses[d] + 1 + op
    BY <1>1, <1>5
  <2>3. /\ Rounds(losses[d] + o) <= Rounds(losses[d] + 1 + op)
        /\ Rounds(losses[d] + o) \in Nat
        /\ Rounds(losses[d] + 1 + op) \in Nat
    BY <2>2, RoundsFacts
  <2> QED BY <1>1, <1>2, <1>3, <1>4, <1>6, <2>1, <2>3
<1> QED BY <1>8, <1>9 DEF Exchanged

LEMMA LossInv ==
  ASSUME Regular, KInv, TypeOK', NEW m \in Messages, Lose(m)
  PROVE  KInv'
<1>0. /\ TypeOK /\ Good(fdt[TheBbmd]) /\ FlightInv
      /\ \A d \in Addresses : DeviceInv(d) /\ open[d]
  BY DEF KInv
<1>1. /\ Exchange(m, EmptyBag) /\ fd' = fd /\ open' = open
      /\ elapsed' = elapsed /\ fdt' = fdt
      /\ losses' = IF m.type = "Register" /\ ~ m.copy
                   THEN [losses EXCEPT ![m.from] = @ + 1] ELSE losses
  BY DEF Lose
<1>2. BagToSet(EmptyBag) = {} BY SmallBags
<1>3. Positive(fresh)' /\ Positive(old)' /\ Exchanged(m, {})
  BY <1>0, <1>1, <1>2, ExchangeFacts, SmallPositive DEF FlightInv
<1>4. Fresh' \subseteq Fresh /\ Old' \subseteq Old BY <1>3, ExchangedSets
<1>5. \A d : Configured(d)' <=> Configured(d) BY <1>1 DEF Configured
<1>6. FlightInv' BY <1>0, <1>1, <1>3, <1>4, <1>5, FlightKept
<1>7. \A d : Age(d)' = Age(d) /\ Waited(d)' = Waited(d)
  BY <1>1 DEF Age, Waited
<1>8. ASSUME NEW d \in Addresses PROVE DeviceInv(d)'
  <2>1. CASE IsOriginal(m, d)
    <3>1. losses'[d] = losses[d] + 1
      BY <1>0, <1>1, <2>1 DEF IsOriginal, TypeOK
    <3>2. Limit(d) \in Nat /\ Limit(d)' \in Nat /\ Limit(d) <= Limit(d)'
      BY <1>0, <1>3, <1>7, <2>1, <3>1, LossGrows DEF DeviceInv
    <3>3. Age(d) \in Int /\ losses[d] \in Nat
      BY <1>0, AgeType, DeviceNumbers
    <3>4. ASSUME AgeInv(d) PROVE AgeInv(d)'
      BY <1>7, <3>1, <3>2, <3>3, <3>4 DEF AgeInv
    <3> QED BY <1>0, <1>1, <1>5, <3>4 DEF DeviceInv
  <2>2. CASE ~ IsOriginal(m, d)
    <3>1. losses'[d] = losses[d]
      BY <1>0, <1>1, <2>2 DEF IsOriginal, TypeOK
    <3>2. /\ Among(Fresh, d) => Among(Fresh', d)
          /\ Among(Old, d) => Among(Old', d)
      BY <1>3, <2>2, OriginalsStay
    <3> QED BY <1>0, <1>1, <1>5, <1>7, <3>1, <3>2, Undisturbed
  <2> QED BY <2>1, <2>2
<1> QED BY <1>0, <1>1, <1>6, <1>8 DEF KInv

\* A copy says what its original says, and counts for nothing.
LEMMA CopyInv ==
  ASSUME Regular, KInv, TypeOK', NEW m \in Messages, Duplicate(m)
  PROVE  KInv'
<1>0. /\ TypeOK /\ Good(fdt[TheBbmd]) /\ FlightInv
      /\ \A d \in Addresses : DeviceInv(d) /\ open[d]
  BY DEF KInv
<1> PICK c : c = [m EXCEPT !.copy = TRUE] OBVIOUS
<1>1. /\ Post(One(c)) /\ BagIn(m, fresh)
      /\ fd' = fd /\ open' = open /\ elapsed' = elapsed /\ fdt' = fdt
      /\ losses' = losses
  BY DEF Duplicate
<1>2. BagToSet(One(c)) = {c} /\ m \in Fresh
  BY <1>1, SmallBags DEF BagIn, Fresh
<1>3. /\ Positive(fresh)' /\ Positive(old)'
      /\ Fresh' = Fresh \cup {c} /\ Old' = Old
  BY <1>0, <1>1, <1>2, PostFacts, SmallPositive DEF FlightInv
<1>4. m \in Datagrams BY <1>0 DEF Messages, TypeOK
<1>5. /\ c.type = m.type
      /\ m.type = "Register" => c.ttl = m.ttl /\ c.from = m.from
      /\ m.type = "Result" => c.to = m.to /\ c.code = m.code
  BY <1>4 DEF Datagrams
<1>6. \A d : Configured(d)' <=> Configured(d) BY <1>1 DEF Configured
<1>7. Told(c)' /\ (Granting(c) => Age(c.to) <= 0)
  <2>1. Told(m) /\ (Granting(m) => Age(m.to) <= 0)
    BY <1>0, <1>2 DEF FlightInv
  <2> QED BY <1>5, <1>6, <2>1 DEF Told, Granting
<1>8. FlightInv'
  <2>1. /\ \A n \in {c} : Told(n)' /\ (Granting(n) => Age(n.to) <= 0)
        /\ Fresh' \subseteq Fresh \cup {c} /\ Old' \subseteq Old
    BY <1>3, <1>7
  <2> QED BY <1>0, <1>1, <1>3, <1>6, <2>1, FlightKept
<1>9. ASSUME NEW d \in Addresses PROVE DeviceInv(d)'
  <2>1. /\ Among(Fresh, d) => Among(Fresh', d)
        /\ Among(Old, d) => Among(Old', d)
    BY <1>3 DEF Among
  <2>2. Age(d)' = Age(d) BY <1>1 DEF Age
  <2> QED BY <1>0, <1>1, <1>6, <2>1, <2>2, Undisturbed
<1> QED BY <1>0, <1>1, <1>8, <1>9 DEF KInv

\* A BBMD is told of a device that is in its table or may be refused: then
\* the device does not believe itself registered.
LEMMA ServeInv ==
  ASSUME Regular, KInv, TypeOK', NEW m \in Messages, BbmdReceive(m)
  PROVE  KInv'
<1>0. /\ TypeOK /\ Good(fdt[TheBbmd]) /\ FlightInv
      /\ \A d \in Addresses : DeviceInv(d) /\ open[d]
  BY DEF KInv
<1>1. m \in Datagrams /\ m.type = "Register"
  BY <1>0 DEF Messages, TypeOK, BbmdReceive
<1>2. m.from \in Addresses /\ m.to \in Bbmds BY <1>1, DatagramFields
<1> PICK e \in Addresses : e = m.from BY <1>2
<1>3. m.to = TheBbmd BY <1>2, RegularFacts
<1>4. m \in Fresh \cup Old BY DEF Messages, Fresh, Old
<1>5. m.ttl = TheTtl /\ Configured(e) BY <1>0, <1>1, <1>4 DEF FlightInv, Told
<1> PICK t : t = fdt[TheBbmd] OBVIOUS
<1>6. HasRoomFor(t, e) \in BOOLEAN BY DEF HasRoomFor, Listed
<1> PICK granted \in BOOLEAN : granted = HasRoomFor(t, e) BY <1>6
<1> PICK r : r = ResultTo(e, TheBbmd, IF granted THEN "SUCCESSFUL_COMPLETION"
                                                 ELSE "REGISTER_NAK")
  OBVIOUS
<1> PICK u : u = IF granted THEN Registered(t, e, TheTtl) ELSE t OBVIOUS
<1>7. /\ fdt' = [fdt EXCEPT ![TheBbmd] = u]
      /\ Exchange(m, One(r))
      /\ losses' = [losses EXCEPT ![e] = 0]
      /\ fd' = fd /\ open' = open /\ elapsed' = elapsed
  BY <1>3, <1>5 DEF BbmdReceive
<1>8. fdt'[TheBbmd] = u
  <2>1. TheBbmd \in Bbmds BY RegularFacts
  <2> QED BY <1>0, <1>7, <2>1 DEF TypeOK
<1>9. /\ Good(u)
      /\ granted => Lease(u, e) = FullLease
      /\ ~ granted => Lease(u, e) = Lease(t, e)
      /\ \A d \in Addresses \ {e} : Lease(u, d) = Lease(t, d)
  <2>1. CASE granted
    <3>1. TheTtl \in Nat /\ FullLease = TheTtl + Grace BY RegularFacts
    <3>2. HasRoomFor(t, e) BY <2>1
    <3> QED BY <1>0, <2>1, <3>1, <3>2, RegisteredTable
  <2>2. CASE ~ granted BY <1>0, <2>2
  <2> QED BY <2>1, <2>2
<1>10. \A d \in Addresses : d # e => Age(d)' = Age(d)
  BY <1>8, <1>9 DEF Age
<1>11. /\ granted => Age(e)' = 0
       /\ ~ granted => Age(e)' = Age(e)
  <2>1. FullLease - FullLease = 0 BY RegularFacts
  <2> QED BY <1>8, <1>9, <2>1 DEF Age
<1>12. \A d : Configured(d)' <=> Configured(d) BY <1>7 DEF Configured
<1>13. BagToSet(One(r)) = {r} BY SmallBags
<1>14. Positive(fresh)' /\ Positive(old)' /\ Exchanged(m, {r})
  <2>1. Positive(One(r)) BY SmallPositive
  <2>2. Positive(fresh) /\ Positive(old) BY <1>0 DEF FlightInv
  <2> QED BY <1>7, <1>13, <2>1, <2>2, ExchangeFacts
<1>15. Fresh' \subseteq Fresh \cup {r} /\ Old' \subseteq Old
  BY <1>14, ExchangedSets
<1>16. FlightInv'
  <2>1. \A n \in Fresh \cup Old : n \in Datagrams
    BY <1>0 DEF Fresh, Old, TypeOK
  <2>2. \A n \in Fresh \cup Old : Granting(n) => n.to \in Addresses
    BY <2>1, DatagramFields DEF Granting
  <2>3. Told(r)' BY <1>5, <1>12 DEF Told, ResultTo
  <2>4. \A n \in Fresh' \cup Old' : Told(n)'
    BY <1>0, <1>12, <1>15, <2>3 DEF FlightInv, Told
  <2>5. Granting(r) => r.to = e /\ Age(e)' <= 0
    BY <1>11 DEF Granting, ResultTo
  <2>6. \A d \in Addresses : Age(d) \in Int BY <1>0, AgeType
  <2>7. \A d \in Addresses : /\ Age(d) <= 0 => Age(d)' <= 0
                             /\ Age(d) <= 1 => Age(d)' <= 1
    BY <1>10, <1>11, <2>6
  <2>8. \A n \in Fresh' : Granting(n) => Age(n.to)' <= 0
    BY <1>0, <1>15, <2>2, <2>5, <2>7 DEF FlightInv
  <2>9. \A n \in Old' : Granting(n) => Age(n.to)' <= 1
    BY <1>0, <1>15, <2>2, <2>7 DEF FlightInv
  <2> QED BY <1>14, <2>4, <2>8, <2>9 DEF FlightInv
<1>17. ASSUME NEW d \in Addresses, d # e PROVE DeviceInv(d)'
  <2>1. losses'[d] = losses[d] BY <1>0, <1>7, <1>17 DEF TypeOK
  <2>2. ~ IsOriginal(m, d) BY <1>17 DEF IsOriginal
  <2>3. /\ Among(Fresh, d) => Among(Fresh', d)
        /\ Among(Old, d) => Among(Old', d)
    BY <1>14, <2>2, OriginalsStay
  <2> QED BY <1>0, <1>7, <1>10, <1>12, <1>17, <2>1, <2>3, Undisturbed
<1>18. DeviceInv(e)'
  <2>1. ASSUME fd[e].status = "SUCCESS" PROVE AgeInv(e)'
    <3>1. Age(e) <= Rounds(MaxLosses + 1) + 2
      BY <1>0, <2>1 DEF DeviceInv, AgeInv
    <3>2. Age(e) < FullLease
      <4>1. Age(e) \in Int /\ FullLease \in Nat
            /\ Rounds(MaxLosses + 1) + 2 < FullLease
            /\ Rounds(MaxLosses + 1) \in Nat
        BY <1>0, AgeType, RegularFacts, RoundsFacts
      <4> QED BY <3>1, <4>1
    <3>3. Lease(t, e) \in Nat /\ (Listed(t, e) <=> Lease(t, e) > 0)
      BY <1>0, LeaseOfListed
    <3>4. Listed(t, e) BY <3>2, <3>3, RegularFacts DEF Age
    <3>5. granted BY <3>4 DEF HasRoomFor
    <3>6. Age(e)' = 0 BY <1>11, <3>5
    <3>7. Limit(e)' \in Nat BY NextNumbers
    <3>8. Rounds(MaxLosses + 1) \in Nat /\ Period \in Nat
      <4>1. MaxLosses + 1 \in Nat OBVIOUS
      <4> QED BY <4>1, RoundsFacts, RegularFacts
    <3> QED BY <3>6, <3>7, <3>8 DEF AgeInv
  <2> QED BY <1>0, <1>5, <1>7, <1>12, <2>1 DEF DeviceInv
<1> QED BY <1>0, <1>7, <1>8, <1>9, <1>16, <1>17, <1>18 DEF KInv

-----------------------------------------------------------------------------
(* The passing of time *)

\* With everything of the last second arrived, an age is at most the periods
\* of the losses and of the renewal under way, or the time since the last.
LEMMA SettledAge ==
  ASSUME Regular, TypeOK, Good(fdt[TheBbmd]), old = EmptyBag,
         NEW d \in Addresses, fd[d].renewTmr < Quiet, Age(d) <= Limit(d)
  PROVE  /\ Age(d) <= Rounds(losses[d])
                       + (IF Among(Fresh, d) THEN Period ELSE Waited(d)) + 1
         /\ Age(d) <= Rounds(MaxLosses + 1) + 1
         /\ losses[d] = 0 => Age(d) <= Period + 1
<1>1. /\ losses[d] \in Nat /\ losses[d] <= MaxLosses
      /\ Waited(d) \in Nat /\ Waited(d) <= Period /\ Period \in Nat
  BY DeviceNumbers, RegularFacts
<1>2. Age(d) \in Int BY AgeType
<1>3. Old = {} BY SmallBags DEF Old
<1>4. ~ Among(Old, d) BY <1>3 DEF Among
<1>5. losses[d] + 0 = losses[d] BY <1>1
<1>6. Limit(d) = Rounds(losses[d])
                   + (IF Among(Fresh, d) THEN Period ELSE Waited(d)) + 1
  BY <1>4, <1>5 DEF Limit
<1>7. /\ losses[d] + 1 \in Nat /\ MaxLosses + 1 \in Nat
      /\ losses[d] + 1 <= MaxLosses + 1
  BY <1>1
<1>8. /\ Rounds(losses[d]) \in Nat
      /\ Rounds(losses[d] + 1) = Rounds(losses[d]) + Period
  BY <1>1, RoundsFacts
<1>9. Rounds(losses[d] + 1) <= Rounds(MaxLosses + 1)
      /\ Rounds(MaxLosses + 1) \in Nat
  BY <1>7, RoundsFacts
<1>10. Age(d) <= Rounds(losses[d]) + Period + 1
  BY <1>1, <1>2, <1>6, <1>8
<1>11. Age(d) <= Rounds(MaxLosses + 1) + 1
  BY <1>1, <1>2, <1>8, <1>9, <1>10
<1>12. ASSUME losses[d] = 0 PROVE Age(d) <= Period + 1
  <2>1. Rounds(losses[d]) = 0 BY <1>12, RoundsFacts
  <2> QED BY <1>1, <1>2, <1>10, <2>1
<1> QED BY <1>6, <1>11, <1>12

LEMMA TickInv ==
  ASSUME Regular, KInv, TypeOK', Tick
  PROVE  KInv'
<1>0. /\ TypeOK /\ Good(fdt[TheBbmd]) /\ FlightInv
      /\ \A d \in Addresses : DeviceInv(d) /\ open[d]
  BY DEF KInv
<1>1. /\ old = EmptyBag /\ fd' = fd /\ open' = open /\ losses' = losses
      /\ elapsed' = [d \in Addresses |-> elapsed[d] + 1]
      /\ fdt' = [b \in Bbmds |-> Aged(fdt[b], 1)]
      /\ old' = old (+) fresh /\ fresh' = EmptyBag
  BY DEF Tick, Regular, OneLease
<1>2. fdt'[TheBbmd] = Aged(fdt[TheBbmd], 1)
  BY <1>1, RegularFacts
<1>3. /\ Good(fdt'[TheBbmd])
      /\ \A d \in Addresses :
           Lease(fdt'[TheBbmd], d) = Left(Lease(fdt[TheBbmd], d), 1)
  BY <1>0, <1>2, AgedTable
<1>4. \A d \in Addresses : Age(d) \in Int /\ Age(d)' \in Int
                          /\ Age(d)' <= Age(d) + 1
  <2>1. ASSUME NEW d \in Addresses
        PROVE  Age(d) \in Int /\ Age(d)' \in Int /\ Age(d)' <= Age(d) + 1
    <3>1. Lease(fdt[TheBbmd], d) \in Nat /\ FullLease \in Nat
      BY <1>0, LeaseOfListed, RegularFacts
    <3>2. Lease(fdt'[TheBbmd], d) = Left(Lease(fdt[TheBbmd], d), 1)
      BY <1>3
    <3> QED BY <3>1, <3>2 DEF Age, Left
  <2> QED BY <2>1
<1>5. Fresh' = {} /\ Old' = Fresh
  <2>1. BagToSet(old (+) fresh) = BagToSet(old) \cup BagToSet(fresh)
    BY BagFacts
  <2>2. BagToSet(EmptyBag) = {} BY SmallBags
  <2> QED BY <1>1, <2>1, <2>2 DEF Fresh, Old
<1>6. Positive(fresh)' /\ Positive(old)'
  <2>1. Positive(old (+) fresh) BY <1>0, PositiveBags DEF FlightInv
  <2>2. Positive(EmptyBag) BY SmallPositive
  <2> QED BY <1>1, <2>1, <2>2
<1>7. \A d : Configured(d)' <=> Configured(d) BY <1>1 DEF Configured
<1>8. FlightInv'
  <2>1. \A m \in Fresh : m \in Datagrams BY <1>0 DEF Fresh, TypeOK
  <2>2. \A m \in Fresh : Granting(m) => m.to \in Addresses
    BY <2>1, DatagramFields DEF Granting
  <2>3. \A m \in Fresh' \cup Old' : Told(m)'
    BY <1>0, <1>5, <1>7 DEF FlightInv, Told
  <2>4. \A m \in Old' : Granting(m) => Age(m.to)' <= 1
    <3>1. ASSUME NEW m \in Fresh, Granting(m) PROVE Age(m.to)' <= 1
      <4>1. Age(m.to) <= 0 /\ m.to \in Addresses
        BY <1>0, <2>2, <3>1 DEF FlightInv
      <4> QED BY <1>4, <4>1
    <3> QED BY <1>5, <3>1
  <2> QED BY <1>5, <1>6, <2>3, <2>4 DEF FlightInv
<1>9. ASSUME NEW d \in Addresses, AgeInv(d) PROVE AgeInv(d)'
  <2>1. /\ Age(d) <= Rounds(losses[d])
                      + (IF Among(Fresh, d) THEN Period ELSE Waited(d)) + 1
        /\ Age(d) <= Rounds(MaxLosses + 1) + 1
        /\ losses[d] = 0 => Age(d) <= Period + 1
    BY <1>0, <1>1, <1>9, SettledAge DEF AgeInv, DeviceInv
  <2>2. /\ losses[d] \in Nat /\ Period \in Nat /\ Waited(d) \in Nat
    BY <1>0, DeviceNumbers, RegularFacts
  <2>3. MaxLosses + 1 \in Nat OBVIOUS
  <2>4. /\ Rounds(losses[d]) \in Nat
        /\ Rounds(losses[d] + 1) = Rounds(losses[d]) + Period
        /\ Rounds(MaxLosses + 1) \in Nat
    BY <2>2, <2>3, RoundsFacts
  <2>5. Waited(d)' = Waited(d) + 1
    <3>1. /\ fd[d].renewTmr \in Nat /\ elapsed[d] \in Nat
      BY <1>0, DeviceNumbers
    <3>2. elapsed'[d] = elapsed[d] + 1 BY <1>1
    <3> QED BY <1>1, <3>1, <3>2 DEF Waited
  <2>6. ~ Among(Fresh', d) BY <1>5 DEF Among
  <2>7. Age(d)' <= Limit(d)'
    <3>1. CASE Among(Fresh, d)
      <4>1. Limit(d)' = Rounds(losses[d] + 1) + Waited(d)' + 1
        BY <1>1, <1>5, <2>6, <3>1 DEF Limit
      <4> QED BY <1>4, <2>1, <2>2, <2>4, <2>5, <3>1, <4>1
    <3>2. CASE ~ Among(Fresh, d)
      <4>1. losses[d] + 0 = losses[d] BY <2>2
      <4>2. Limit(d)' = Rounds(losses[d]) + Waited(d)' + 1
        BY <1>1, <1>5, <2>6, <3>2, <4>1 DEF Limit
      <4> QED BY <1>4, <2>1, <2>2, <2>4, <2>5, <3>2, <4>2
    <3> QED BY <3>1, <3>2
  <2>8. /\ Age(d)' <= Rounds(MaxLosses + 1) + 2
        /\ losses[d] = 0 => Age(d)' <= Period + 2
    BY <1>4, <2>1, <2>2, <2>4
  <2> QED BY <1>1, <2>7, <2>8 DEF AgeInv
<1>10. \A d \in Addresses : DeviceInv(d)'
  BY <1>0, <1>1, <1>7, <1>9 DEF DeviceInv
<1> QED BY <1>0, <1>1, <1>3, <1>8, <1>10 DEF KInv

-----------------------------------------------------------------------------
(* The two properties *)

LEMMA InitKept ==
  ASSUME Regular, Init
  PROVE  KInv
<1>1. TypeOK BY InitialState
<1>2. TheBbmd \in Bbmds /\ Quiet > 0 BY RegularFacts
<1>3. Good(fdt[TheBbmd])
  BY <1>2 DEF Init, Good, EmptyTable, Tables, Entries
<1>4. Fresh = {} /\ Old = {} BY SmallBags DEF Init, Fresh, Old
<1>5. FlightInv BY <1>4, SmallPositive DEF Init, FlightInv
<1>6. \A d \in Addresses : DeviceInv(d) /\ open[d]
  BY <1>2 DEF Init, NewDevice, DeviceInv
<1> QED BY <1>1, <1>3, <1>5, <1>6 DEF KInv

LEMMA NextKept ==
  ASSUME Regular, KInv, TypeOK', [Next]_vars
  PROVE  KInv'
<1>1. CASE Application BY <1>1, ApplicationInv
<1>2. CASE Reset
  <2>1. Faults = {} BY DEF Regular, OneLease
  <2> QED BY <1>2, <2>1 DEF Reset, Deinitialize, Initialize, Restart,
                            BbmdRestart, DeleteEntry
<1>3. CASE Tick BY <1>3, TickInv
<1>4. ASSUME NEW d \in Addresses, Execute(d) PROVE KInv'
  BY <1>4, ExecuteInv
<1>5. ASSUME NEW d \in Addresses, Serve(d) PROVE KInv'
  BY <1>5, ServeInv DEF Serve
<1>6. ASSUME NEW m \in Messages, Drop(m) PROVE KInv'
  <2>1. m \in Datagrams BY DEF KInv, Messages, TypeOK
  <2>2. m.to \in Addresses /\ ~ open[m.to]
    BY <1>6, <2>1, DatagramFields DEF Drop
  <2> QED BY <2>2 DEF KInv
<1>7. CASE UNCHANGED vars
  <2>1. /\ fd' = fd /\ open' = open /\ elapsed' = elapsed /\ fdt' = fdt
        /\ fresh' = fresh /\ old' = old /\ losses' = losses
    BY <1>7 DEF vars
  <2>2. Fresh' = Fresh /\ Old' = Old BY <2>1 DEF Fresh, Old
  <2>3. \A d : /\ Age(d)' = Age(d) /\ (Configured(d)' <=> Configured(d))
              /\ Waited(d)' = Waited(d)
    BY <2>1 DEF Age, Configured, Waited
  <2>4. FlightInv'
    BY <2>1, <2>2, <2>3 DEF KInv, FlightInv, Told, Positive
  <2>5. \A d \in Addresses : DeviceInv(d)'
    BY <2>1, <2>2, <2>3 DEF KInv, DeviceInv, AgeInv, Limit
  <2> QED BY <2>1, <2>4, <2>5 DEF KInv
<1> QED BY <1>1, <1>2, <1>3, <1>4, <1>5, <1>6, <1>7, LossInv, CopyInv DEF Next

LEMMA KeptAlways ==
  ASSUME Regular
  PROVE  Spec => []KInv
<1>1. Init => KInv BY InitKept
<1>2. KInv /\ [Next]_vars => KInv'
  <2>1. KInv => TypeOK BY DEF KInv
  <2> QED BY <2>1, Step, NextKept
<1> QED BY <1>1, <1>2, PTL DEF Spec

LEMMA KeptMeansListed ==
  ASSUME Regular, KInv
  PROVE  KeepsItsEntry /\ NeverReliesOnGrace
<1> SUFFICES ASSUME NEW d \in Addresses, fd[d].status = "SUCCESS"
             PROVE  /\ ListedAt(d, fd[d].bbmd)
                    /\ losses[d] = 0 /\ RenewalFitsTtl =>
                         /\ fd[d].bbmd \in Bbmds
                         /\ Lease(fdt[fd[d].bbmd], d) >= Grace
  BY DEF KeepsItsEntry, NeverReliesOnGrace
<1>1. fd[d].bbmd = TheBbmd /\ TheBbmd \in Bbmds /\ AgeInv(d)
  BY RegularFacts DEF KInv, DeviceInv, Configured
<1>2. /\ Lease(fdt[TheBbmd], d) \in Nat
      /\ Listed(fdt[TheBbmd], d) <=> Lease(fdt[TheBbmd], d) > 0
  BY LeaseOfListed DEF KInv
<1>3. FullLease \in Nat /\ Period \in Nat /\ TheTtl \in Nat
      /\ FullLease = TheTtl + Grace
  BY RegularFacts
<1>4. ListedAt(d, TheBbmd)
  <2>1. /\ Rounds(MaxLosses + 1) \in Nat
        /\ Rounds(MaxLosses + 1) + 2 < FullLease
    <3>1. MaxLosses + 1 \in Nat OBVIOUS
    <3> QED BY <3>1, RoundsFacts, RegularFacts
  <2>2. Lease(fdt[TheBbmd], d) > 0
    BY <1>1, <1>2, <1>3, <2>1 DEF AgeInv, Age
  <2> QED BY <1>1, <1>2, <2>2 DEF ListedAt
<1>5. ASSUME losses[d] = 0, RenewalFitsTtl
      PROVE  Lease(fdt[TheBbmd], d) >= Grace
  <2>1. Period + 2 <= TheTtl BY <1>5, RegularFacts DEF RenewalFitsTtl, Period
  <2> QED BY <1>1, <1>2, <1>3, <1>5, <2>1 DEF AgeInv, Age
<1> QED BY <1>1, <1>4, <1>5

\* A device that believes itself registered is in the table of its BBMD,
\* whatever is lost, duplicated and reordered and whatever sendto() does, as
\* long as no more registrations are lost in a row than fit into its lease:
\* execute() renews in time (bacnet.cpp), the BBMD restarts the timer and its
\* maintenance leaves the entry (bvlc.cpp).
THEOREM EntryKept ==
  ASSUME OneLease PROVE Spec => []KeepsItsEntry
<1>1. CASE ~ LossesFitLease
  <2>1. KeepsItsEntry BY <1>1 DEF KeepsItsEntry
  <2> QED BY <2>1, PTL
<1>2. CASE LossesFitLease
  <2>1. Regular BY <1>2 DEF Regular
  <2>2. KInv => KeepsItsEntry BY <2>1, KeptMeansListed
  <2>3. Spec => []KInv BY <2>1, KeptAlways
  <2> QED BY <2>2, <2>3, PTL
<1> QED BY <1>1, <1>2

\* What the comment in execute() asks for: the lease of a registered device
\* does not run into the grace period while no registration of it is lost.
THEOREM GraceUnused ==
  ASSUME OneLease PROVE Spec => []NeverReliesOnGrace
<1>1. CASE ~ LossesFitLease
  <2>1. NeverReliesOnGrace BY <1>1 DEF NeverReliesOnGrace
  <2> QED BY <2>1, PTL
<1>2. CASE LossesFitLease
  <2>1. Regular BY <1>2 DEF Regular
  <2>2. KInv => NeverReliesOnGrace BY <2>1, KeptMeansListed
  <2>3. Spec => []KInv BY <2>1, KeptAlways
  <2> QED BY <2>2, <2>3, PTL
<1> QED BY <1>1, <1>2

=============================================================================
