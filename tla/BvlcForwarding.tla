-------------------------- MODULE BvlcForwarding --------------------------
(***************************************************************************)
(* Broadcasts between IP subnets: the Broadcast Distribution Tables of the *)
(* BBMDs (src/bvlc.cpp, BBMD_ENABLED), their backup files, and the way of  *)
(* one broadcast through them to every device.                             *)
(*                                                                         *)
(* An address is the set of hosts that receive what is sent to it.  Every  *)
(* receiver has its own copy, and copies arrive in any order.  A loss only *)
(* takes copies away, nothing in the code reacts to it, and it is left     *)
(* out.  A sender on the subnet it sends a broadcast to hears itself.      *)
(***************************************************************************)
EXTENDS Naturals, Sequences, FiniteSets, Bags

CONSTANTS
  Bbmds,            \* the BBMDs, each on a subnet of its own
  Devices,          \* devices on the BBMDs' subnets, on the bip datalink
  Foreign,          \* foreign devices, on subnets without a BBMD
  NoHost,           \* the origin before the first broadcast
  SubnetOf,         \* the subnet of every host
  MaxBbmdEntries,   \* MAX_BBMD_ENTRIES
  NoEntry,          \* a row that is not valid
  Messages,         \* the tables that Write-BDT messages carry
  Additions,        \* the entries the applications add
  Restarting,       \* the BBMDs that restart
  MaxChanges,       \* bound: reconfigurations during one broadcast
  Buffer            \* bound: equal copies a receiver's socket holds

Hosts == Bbmds \cup Devices \cup Foreign
BdtEntries == [bbmd : Bbmds, unicast : BOOLEAN]
Bdts == [1 .. MaxBbmdEntries -> BdtEntries \cup {NoEntry}]

ASSUME ForwardingAssumption ==
  /\ NoHost \notin Hosts /\ NoEntry \notin BdtEntries
  /\ Bbmds \cap Devices = {} /\ Foreign \cap (Bbmds \cup Devices) = {}
  /\ MaxBbmdEntries \in Nat \ {0} /\ Buffer \in Nat \ {0} /\ MaxChanges \in Nat
  /\ Messages \subseteq Seq(BdtEntries) /\ Additions \subseteq BdtEntries
  /\ Restarting \subseteq Bbmds
  /\ \A b \in Bbmds, c \in Bbmds \cup Foreign :
       SubnetOf[b] = SubnetOf[c] => b = c
  /\ \A d \in Devices : \E b \in Bbmds : SubnetOf[d] = SubnetOf[b]

VARIABLES
  bdt,              \* BBMD_Table of every BBMD
  file,             \* its BBMD_BACKUP_FILE
  opened,           \* whether the process has opened that file for writing
  fdt,              \* the foreign devices in FD_Table
  net,              \* the copies under way
  origin,           \* who sent the broadcast
  delivered,        \* the hosts whose application received it
  repeated,         \* the devices that received it more than once
  uniform,          \* whether it was sent with complete and equal BDTs
  changes           \* reconfigurations since, while it was under way

tables == <<bdt, file, opened, fdt>>
broadcast == <<net, origin, delivered, repeated, uniform, changes>>
vars == <<bdt, file, opened, fdt, net, origin, delivered, repeated, uniform, changes>>

EmptyBdt == [i \in 1 .. MaxBbmdEntries |-> NoEntry]
\* A backup file shorter than the table, left by a crash while it was written.
TornFile == <<>>

Copies ==
  [kind : {"Original", "Distribute", "Forwarded"}, from : Hosts,
   source : Hosts, to : Hosts]

TypeOK ==
  /\ bdt \in [Bbmds -> Bdts]
  /\ file \in [Bbmds -> Bdts \cup {TornFile}]
  /\ opened \in [Bbmds -> BOOLEAN]
  /\ fdt \in [Bbmds -> SUBSET Foreign]
  /\ BagToSet(net) \subseteq Copies
  /\ \A m \in BagToSet(net) : net[m] \in 1 .. Buffer
  /\ origin \in Hosts \cup {NoHost}
  /\ delivered \subseteq Hosts /\ repeated \subseteq Devices
  /\ uniform \in BOOLEAN /\ changes \in 0 .. MaxChanges

Init ==
  /\ bdt = [b \in Bbmds |-> EmptyBdt]
  /\ file = [b \in Bbmds |-> EmptyBdt]
  /\ opened = [b \in Bbmds |-> FALSE]
  /\ fdt = [b \in Bbmds |-> {}]
  /\ net = EmptyBag
  /\ origin = NoHost
  /\ delivered = {} /\ repeated = {}
  /\ uniform = FALSE /\ changes = 0

(***************************************************************************)
(* Sending                                                                 *)
(***************************************************************************)
LocalBroadcast(h) == {g \in Hosts : SubnetOf[g] = SubnetOf[h]}

Sent(kind, h, source, address) ==
  SetToBag([kind : {kind}, from : {h}, source : {source}, to : address])

\* bvlc_forward_npdu()
ForwardedLocally(b, source) == Sent("Forwarded", b, source, LocalBroadcast(b))

\* The address an entry of the BDT stands for: the BBMD's own, or the
\* directed broadcast on its subnet.
AddressOf(e) == IF e.unicast THEN {e.bbmd} ELSE LocalBroadcast(e.bbmd)

\* Fault: a broadcast is also forwarded to the own subnet's directed broadcast.
RowsWithOwnSubnet(b) ==
  {i \in 1 .. MaxBbmdEntries : bdt[b][i] # NoEntry /\ AddressOf(bdt[b][i]) # {b}}

\* bvlc_bdt_forward_npdu(): to each entry, except us
RowsToForwardTo(b) ==
  {i \in 1 .. MaxBbmdEntries :
     /\ bdt[b][i] # NoEntry
     /\ AddressOf(bdt[b][i]) \notin {{b}, LocalBroadcast(b)}}

RowsReaching(b, h) == {i \in RowsToForwardTo(b) : h \in AddressOf(bdt[b][i])}

ForwardedToBdt(b, source) ==
  [m \in [kind : {"Forwarded"}, from : {b}, source : {source},
           to : {h \in Hosts : RowsReaching(b, h) # {}}] |->
     Cardinality(RowsReaching(b, m.to))]

\* bvlc_fdt_forward_npdu(): to each foreign device, except the source
ForwardedToFdt(b, source) == Sent("Forwarded", b, source, fdt[b] \ {source})

\* bip_send_pdu(), bvlc_send_pdu(): an original broadcast on the own subnet.
\* The model follows one broadcast at a time: the next is sent when nothing
\* of the last is under way.
Uniform ==
  \E u \in BOOLEAN : \A b \in Bbmds :
    {bdt[b][i] : i \in 1 .. MaxBbmdEntries} \ {NoEntry}
      = {[bbmd |-> c, unicast |-> u] : c \in Bbmds}

NewBroadcast(h, copies) ==
  /\ net = EmptyBag
  /\ net' = copies
  /\ origin' = h
  /\ delivered' = {} /\ repeated' = {}
  /\ uniform' = Uniform /\ changes' = 0
  /\ UNCHANGED tables

SendOriginal(h) ==
  NewBroadcast(h, Sent("Original", h, h, LocalBroadcast(h)))

\* A foreign device, whose registration may have ended at the BBMD.
SendDistribute(f, b) == NewBroadcast(f, Sent("Distribute", f, f, {b}))

(***************************************************************************)
(* Receiving                                                               *)
(***************************************************************************)
Arriving(m, answer, heard) ==
  LET pending == (net (-) SetToBag({m})) (+) answer
  IN  /\ net' = [x \in BagToSet(pending) |->
                   IF pending[x] > Buffer THEN Buffer ELSE pending[x]]
      /\ delivered' = delivered \cup heard
      /\ repeated' = repeated \cup (heard \cap delivered \cap Devices)
      /\ UNCHANGED <<origin, uniform, changes, tables>>

\* bip_receive(): messages from me are ignored
DeviceReceive(m) ==
  /\ m.to \in Devices \cup Foreign
  /\ Arriving(m, EmptyBag, {m.to} \ {m.source})

\* bvlc_receive(), BVLC_ORIGINAL_BROADCAST_NPDU
BbmdReceiveOriginal(m) ==
  /\ m.to \in Bbmds /\ m.kind = "Original"
  /\ Arriving(m, ForwardedToBdt(m.to, m.from) (+) ForwardedToFdt(m.to, m.from),
              {m.to})

\* BVLC_DISTRIBUTE_BROADCAST_TO_NETWORK
BbmdReceiveDistribute(m) ==
  /\ m.to \in Bbmds /\ m.kind = "Distribute"
  /\ Arriving(m, ForwardedLocally(m.to, m.from) (+) ForwardedToBdt(m.to, m.from)
                   (+) ForwardedToFdt(m.to, m.from),
              {})

\* Fault: what arrives by unicast is not broadcast on the subnet.
NeverUnicast(b, sender) == FALSE

\* Fault: whatever arrives is broadcast on the subnet.
AlwaysUnicast(b, sender) == TRUE

\* bvlc_bdt_member_mask_is_unicast()
MemberMaskIsUnicast(b, sender) ==
  /\ sender # b
  /\ [bbmd |-> sender, unicast |-> TRUE] \in {bdt[b][i] : i \in DOMAIN bdt[b]}

\* BVLC_FORWARDED_NPDU
BbmdReceiveForwarded(m) ==
  /\ m.to \in Bbmds /\ m.kind = "Forwarded"
  /\ Arriving(m, (IF MemberMaskIsUnicast(m.to, m.from)
                    THEN ForwardedLocally(m.to, m.source) ELSE EmptyBag)
                   (+) ForwardedToFdt(m.to, m.source),
              {m.to})

Receive(m) ==
  \/ DeviceReceive(m)
  \/ BbmdReceiveOriginal(m) \/ BbmdReceiveDistribute(m) \/ BbmdReceiveForwarded(m)

(***************************************************************************)
(* The tables                                                              *)
(***************************************************************************)
\* Between two broadcasts the last one is forgotten.
Reconfigured ==
  /\ UNCHANGED net
  /\ \/ /\ net = EmptyBag
        /\ origin' = NoHost /\ delivered' = {} /\ repeated' = {}
        /\ uniform' = FALSE /\ changes' = 0
     \/ /\ net # EmptyBag /\ changes < MaxChanges
        /\ changes' = changes + 1
        /\ UNCHANGED <<origin, delivered, repeated, uniform>>

\* bvlc_bdt_backup_local()
BackedUp(b, table) ==
  /\ file' = [file EXCEPT ![b] = table]
  /\ opened' = [opened EXCEPT ![b] = TRUE]

\* Fault: a message with too many entries is written past the table.
ReplacedUnchecked(entries) ==
  [i \in 1 .. (IF Len(entries) > MaxBbmdEntries THEN Len(entries) ELSE MaxBbmdEntries) |->
     IF i <= Len(entries) THEN entries[i] ELSE NoEntry]

\* bvlc_create_bdt(): what does not fit is left out and refused
Replaced(entries) ==
  [i \in 1 .. MaxBbmdEntries |-> IF i <= Len(entries) THEN entries[i] ELSE NoEntry]

WriteBdt(b) ==
  \E entries \in Messages :
    /\ bdt' = [bdt EXCEPT ![b] = Replaced(entries)]
    /\ BackedUp(b, Replaced(entries))
    /\ Reconfigured /\ UNCHANGED fdt

\* bvlc_add_bdt_entry_local(): the first empty slot, unless an entry before
\* it is the same
FirstEmpty(table) ==
  {i \in DOMAIN table :
     table[i] = NoEntry /\ \A j \in 1 .. i - 1 : table[j] # NoEntry}

AddBdtEntry(b, e) ==
  \E i \in FirstEmpty(bdt[b]) :
    /\ \A j \in 1 .. i - 1 : bdt[b][j] # e
    /\ bdt' = [bdt EXCEPT ![b][i] = e]
    /\ BackedUp(b, [bdt[b] EXCEPT ![i] = e])
    /\ Reconfigured /\ UNCHANGED fdt

\* Fault: the cleared table is not saved.
ClearBdtUnsaved(b) ==
  /\ bdt' = [bdt EXCEPT ![b] = EmptyBdt]
  /\ Reconfigured /\ UNCHANGED <<file, opened, fdt>>

ClearBdt(b) ==
  /\ bdt' = [bdt EXCEPT ![b] = EmptyBdt]
  /\ BackedUp(b, EmptyBdt)
  /\ Reconfigured /\ UNCHANGED fdt

\* bvlc_bdt_restore_local(): only a complete file is taken
RestoreBdt(b) ==
  /\ file[b] # TornFile
  /\ bdt' = [bdt EXCEPT ![b] = file[b]]
  /\ Reconfigured /\ UNCHANGED <<file, opened, fdt>>

\* The tables are static data of the process.
Restart(b) ==
  /\ bdt' = [bdt EXCEPT ![b] = EmptyBdt]
  /\ opened' = [opened EXCEPT ![b] = FALSE]
  /\ fdt' = [fdt EXCEPT ![b] = {}]
  /\ Reconfigured /\ UNCHANGED file

\* The first backup of a process opens the file with "wb", which empties it,
\* and the process ends before the rows are written.
CrashInBackup(b) ==
  /\ ~ opened[b]
  /\ bdt' = [bdt EXCEPT ![b] = EmptyBdt]
  /\ file' = [file EXCEPT ![b] = TornFile]
  /\ fdt' = [fdt EXCEPT ![b] = {}]
  /\ Reconfigured /\ UNCHANGED opened

\* The Foreign Device Table is Fdt's; here an entry is there or not.
ListForeignDevice(b, f) ==
  /\ fdt' = [fdt EXCEPT ![b] = @ \cup {f}]
  /\ Reconfigured /\ UNCHANGED <<bdt, file, opened>>

UnlistForeignDevice(b, f) ==
  /\ fdt' = [fdt EXCEPT ![b] = @ \ {f}]
  /\ Reconfigured /\ UNCHANGED <<bdt, file, opened>>

Arrival == \E m \in BagToSet(net) : Receive(m)

Next ==
  \/ Arrival
  \/ \E h \in Bbmds \cup Devices : SendOriginal(h)
  \/ \E f \in Foreign, b \in Bbmds : SendDistribute(f, b)
  \/ \E b \in Bbmds :
       \/ WriteBdt(b) \/ ClearBdt(b) \/ RestoreBdt(b)
       \/ \E e \in Additions : AddBdtEntry(b, e)
       \/ b \in Restarting /\ (Restart(b) \/ CrashInBackup(b))
       \/ \E f \in Foreign : ListForeignDevice(b, f) \/ UnlistForeignDevice(b, f)

Spec == Init /\ [][Next]_vars

\* What is under way arrives.
FairSpec == Spec /\ WF_vars(Arrival)

(***************************************************************************)
(* Properties                                                              *)
(***************************************************************************)
\* While all BDTs are complete, equal and of one kind of mask, and none has a
\* row twice, a device on a BBMD's subnet receives a broadcast once, although
\* its BBMD may receive and forward it more than once (bvlc.cpp:1205, 852-864).
\* Write-BDT does not look for rows that are the same, as the adding of an
\* entry does (lines 684-701, 1664-1669): the copies for both are sent.
Settled == uniform /\ changes = 0

NoRowTwice ==
  \A b \in Bbmds : \A i, j \in 1 .. MaxBbmdEntries :
    bdt[b][i] = bdt[b][j] /\ bdt[b][i] # NoEntry => i = j

OnceOnSubnets == Settled /\ NoRowTwice => repeated = {}

Listed == UNION {fdt[b] : b \in Bbmds}

\* And in the end everybody has received it: the devices,
\* the BBMDs' own applications and the foreign devices (lines 1328-1366).
ReachesEverybody ==
  Settled /\ net = EmptyBag =>
    (Bbmds \cup Devices \cup Listed) \ {origin} \subseteq delivered

\* Whatever the tables of the BBMDs say, different or cyclic as they may be,
\* the copies of a broadcast run out: a BBMD that hears its own forwarding
\* does not forward it again (lines 1030-1033).
ComesToRest == net # EmptyBag ~> net = EmptyBag

\* A process that has written its backup file, and one whose table is not
\* empty, would restore the table it has (lines 131-168).
BackupCurrent ==
  \A b \in Bbmds : opened[b] \/ bdt[b] # EmptyBdt => file[b] = bdt[b]
=============================================================================
