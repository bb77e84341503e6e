----------------------------- MODULE FdNetwork -----------------------------
(***************************************************************************)
(* Foreign devices and BBMDs over UDP: the registration protocol of        *)
(* src/bvlc.cpp and src/bacnet.cpp with both ends of it running.           *)
(*                                                                         *)
(* Datagrams may be lost, duplicated and reordered.  Time passes in        *)
(* seconds for everybody at once; every device calls execute() within      *)
(* MaxLag seconds, and with Timely a datagram arrives before the second    *)
(* tick after it was sent.                                                 *)
(***************************************************************************)
EXTENDS Fdt, ForeignDevice, Bags

CONSTANTS
  Outcomes,         \* what sendto() may do on an open socket
  MaxLag,           \* seconds between two execute() calls of a device
  Timely,           \* whether a datagram arrives within two ticks
  MaxLosses,        \* registrations of a device lost in a row
  Duplicates,       \* whether datagrams are duplicated (each once)
  Faults,           \* subset of {"device", "bbmd", "delete"}
  MaxInFlight       \* bound: no registration or copy adds to so many datagrams,
                    \* and without Timely no second passes

ASSUME NetworkAssumption ==
  /\ Outcomes \subseteq {"sent", "failed"}
  /\ MaxLag \in Nat \ {0} /\ MaxLosses \in Nat /\ MaxInFlight \in Nat \ {0}
  /\ Timely \in BOOLEAN /\ Duplicates \in BOOLEAN
  /\ Faults \subseteq {"device", "bbmd", "delete"}

VARIABLES
  fd,               \* the state of every foreign device
  open,             \* whether its socket is open
  elapsed,          \* seconds since its last execute()
  fdt,              \* the Foreign Device Table of every BBMD
  fresh,            \* datagrams sent since the last tick
  old,              \* datagrams sent before it
  losses            \* registrations lost since one last arrived

net == <<fresh, old>>
vars == <<fd, open, elapsed, fdt, fresh, old, losses>>

Registration(d, b, ttl) ==
  [type |-> "Register", from |-> d, to |-> b, ttl |-> ttl % Wire, copy |-> FALSE]
ResultTo(d, b, code) ==
  [type |-> "Result", from |-> b, to |-> d, code |-> code, copy |-> FALSE]

Datagrams ==
  [type : {"Register"}, from : Addresses, to : Bbmds, ttl : 0 .. Wire - 1,
   copy : BOOLEAN]
    \cup [type : {"Result"}, from : Bbmds, to : Addresses, code : ResultCodes,
          copy : BOOLEAN]

TypeOK ==
  /\ fd \in [Addresses -> DeviceStates]
  /\ open \in [Addresses -> BOOLEAN]
  /\ elapsed \in [Addresses -> 0 .. MaxLag]
  /\ fdt \in [Bbmds -> Tables]
  /\ BagToSet(fresh) \cup BagToSet(old) \subseteq Datagrams
  /\ losses \in [Addresses -> 0 .. MaxLosses]

Init ==
  /\ fd = [d \in Addresses |-> NewDevice]
  /\ open = [d \in Addresses |-> TRUE]
  /\ elapsed = [d \in Addresses |-> 0]
  /\ fdt = [b \in Bbmds |-> EmptyTable]
  /\ fresh = EmptyBag /\ old = EmptyBag
  /\ losses = [d \in Addresses |-> 0]

-----------------------------------------------------------------------------
(* The network *)

InFlight == BagCardinality(fresh) + BagCardinality(old)

One(m) == SetToBag({m})

\* Take one datagram and put new ones in; either part may hold it.
Exchange(m, sent) ==
  \/ /\ BagIn(m, fresh) /\ fresh' = (fresh (-) One(m)) (+) sent
     /\ UNCHANGED old
  \/ /\ BagIn(m, old) /\ old' = old (-) One(m)
     /\ fresh' = fresh (+) sent

Post(sent) == fresh' = fresh (+) sent /\ UNCHANGED old

Lose(m) ==
  /\ m.type = "Register" => losses[m.from] < MaxLosses
  /\ m.type = "Result" => MaxLosses > 0
  /\ Exchange(m, EmptyBag)
  /\ losses' = IF m.type = "Register" /\ ~m.copy
               THEN [losses EXCEPT ![m.from] = @ + 1] ELSE losses
  /\ UNCHANGED <<fd, open, elapsed, fdt>>

Duplicate(m) ==
  /\ Duplicates /\ ~m.copy /\ InFlight < MaxInFlight
  /\ Post(One([m EXCEPT !.copy = TRUE]))
  /\ BagIn(m, fresh)
  /\ UNCHANGED <<fd, open, elapsed, fdt, losses>>

-----------------------------------------------------------------------------
(* A foreign device *)

OutcomesOf(d) == IF open[d] THEN Outcomes ELSE {"closed"}

\* The registration that leaves, if the outcome is that it does; a datagram
\* to 0.0.0.0:0 reaches nobody.
SentRegistration(d, b, ttl, outcome) ==
  IF outcome = "sent" /\ b # NoBbmd THEN One(Registration(d, b, ttl))
                                    ELSE EmptyBag

\* The application calls registerForeign(), whenever it likes.
RegisterForeign(d, b, ttl, outcome) ==
  /\ InFlight < MaxInFlight
  /\ outcome \in OutcomesOf(d)
  /\ fd' = [fd EXCEPT ![d] = RegisteredForeign(@, b, ttl, outcome)]
  /\ Post(SentRegistration(d, b, ttl, outcome))
  /\ UNCHANGED <<open, elapsed, fdt, losses>>

\* What execute() does after it has received, from the state `received'.
KeepRegistration(d, received, outcome) ==
  /\ outcome \in OutcomesOf(d)
  /\ fd' = [fd EXCEPT ![d] = Kept(received, elapsed[d], outcome)]
  /\ elapsed' = [elapsed EXCEPT ![d] = 0]
  /\ UNCHANGED <<open, fdt, losses>>

Renewal(d, received, outcome) ==
  IF RenewalDue(received, elapsed[d])
  THEN SentRegistration(d, received.bbmd, received.ttl, outcome)
  ELSE EmptyBag

\* execute() that receives a BVLC-Result.
ExecuteReceiving(d, m, outcome) ==
  LET received == ResultReceived(fd[d], m.code) IN
  /\ open[d] /\ m.type = "Result" /\ m.to = d
  /\ KeepRegistration(d, received, outcome)
  /\ Exchange(m, Renewal(d, received, outcome))

\* execute() that receives nothing that matters here.
ExecuteIdle(d, outcome) ==
  /\ \/ elapsed[d] > 0
     \/ RenewalDue(fd[d], 0) /\ InFlight < MaxInFlight
  /\ KeepRegistration(d, fd[d], outcome)
  /\ Post(Renewal(d, fd[d], outcome))

\* deinitialize(), and initialize() in the same process or in a new one.
Deinitialize(d) ==
  /\ "device" \in Faults /\ open[d]
  /\ open' = [open EXCEPT ![d] = FALSE]
  /\ UNCHANGED <<fd, elapsed, fdt, net, losses>>

Initialize(d) ==
  /\ "device" \in Faults /\ ~open[d]
  /\ open' = [open EXCEPT ![d] = TRUE]
  /\ fd' = [fd EXCEPT ![d] = Initialized(@)]
  /\ elapsed' = [elapsed EXCEPT ![d] = 0]
  /\ UNCHANGED <<fdt, net, losses>>

Restart(d) ==
  /\ "device" \in Faults
  /\ open' = [open EXCEPT ![d] = TRUE]
  /\ fd' = [fd EXCEPT ![d] = NewDevice]
  /\ elapsed' = [elapsed EXCEPT ![d] = 0]
  /\ UNCHANGED <<fdt, net, losses>>

\* A datagram for a closed socket is dropped by the host.
Drop(m) ==
  /\ m.type = "Result" /\ ~open[m.to]
  /\ Exchange(m, EmptyBag)
  /\ UNCHANGED <<fd, open, elapsed, fdt, losses>>

-----------------------------------------------------------------------------
(* A BBMD *)

BbmdReceive(m) ==
  LET t == fdt[m.to]
      granted == HasRoomFor(t, m.from)
  IN
  /\ m.type = "Register"
  /\ fdt' = [fdt EXCEPT ![m.to] =
               IF granted THEN Registered(t, m.from, m.ttl) ELSE t]
  /\ Exchange(m, One(ResultTo(m.from, m.to,
                              IF granted THEN "SUCCESSFUL_COMPLETION"
                                         ELSE "REGISTER_NAK")))
  /\ losses' = [losses EXCEPT ![m.from] = 0]
  /\ UNCHANGED <<fd, open, elapsed>>

\* The table is not kept across a restart.
BbmdRestart(b) ==
  /\ "bbmd" \in Faults
  /\ fdt' = [fdt EXCEPT ![b] = EmptyTable]
  /\ UNCHANGED <<fd, open, elapsed, net, losses>>

\* Somebody sends Delete-Foreign-Device-Table-Entry; he gets the answer.
DeleteEntry(b, d) ==
  /\ "delete" \in Faults
  /\ fdt' = [fdt EXCEPT ![b] = Deleted(@, d)]
  /\ UNCHANGED <<fd, open, elapsed, net, losses>>

-----------------------------------------------------------------------------
(* Time *)

\* A second passes: the BBMDs' maintenance timers are called with it, the
\* devices will see it in their next execute().
Tick ==
  /\ \A d \in Addresses : elapsed[d] < MaxLag
  /\ IF Timely THEN old = EmptyBag ELSE InFlight < MaxInFlight
  /\ elapsed' = [d \in Addresses |-> elapsed[d] + 1]
  /\ fdt' = [b \in Bbmds |-> Aged(fdt[b], 1)]
  /\ old' = old (+) fresh /\ fresh' = EmptyBag
  /\ UNCHANGED <<fd, open, losses>>

-----------------------------------------------------------------------------
(* Next-state relation *)

Messages == BagToSet(fresh) \cup BagToSet(old)

Execute(d) ==
  \E outcome \in SendOutcomes :
    \/ ExecuteIdle(d, outcome)
    \/ \E m \in Messages : ExecuteReceiving(d, m, outcome)

Application ==
  \E d \in Addresses, b \in Bbmds, ttl \in Ttls, outcome \in SendOutcomes :
    RegisterForeign(d, b, ttl, outcome)

Reset ==
  \/ \E d \in Addresses : Deinitialize(d) \/ Initialize(d) \/ Restart(d)
  \/ \E b \in Bbmds : BbmdRestart(b) \/ \E d \in Addresses : DeleteEntry(b, d)

Serve(d) == \E m \in Messages : m.from = d /\ BbmdReceive(m)

Next ==
  \/ Application \/ Reset \/ Tick
  \/ \E d \in Addresses : Execute(d) \/ Serve(d)
  \/ \E m \in Messages : Lose(m) \/ Duplicate(m) \/ Drop(m)

Spec == Init /\ [][Next]_vars

\* A datagram for a device is received by an execute() or finds it closed.
Handle(d) ==
  Execute(d) \/ \E m \in Messages : m.to = d /\ Drop(m)

\* Time goes on whatever the applications do within a second, so that every
\* device calls execute() again and the datagrams of the last second arrive.
Arrives(A) == A /\ old' # old

FairSpec ==
  /\ Spec /\ SF_vars(Tick)
  /\ \A d \in Addresses :
       /\ WF_vars(Execute(d))
       /\ WF_vars(Arrives(Handle(d))) /\ WF_vars(Arrives(Serve(d)))

-----------------------------------------------------------------------------
(* Properties *)

ListedAt(d, b) == b \in Bbmds /\ Listed(fdt[b], d)

\* The longest time between two renewals: it is due after so many seconds, but
\* at every execute() if the Time-to-Live is within the safe time, and sent by
\* the next execute().
RenewalPeriod(ttl) ==
  (IF ttl > SafeTime THEN ttl - SafeTime ELSE 1) + MaxLag - 1

\* The renewals that may be lost leave one that arrives before the lease ends,
\* with two seconds for an answer and for the renewal itself to arrive.
LossesFitLease ==
  \A ttl \in Ttls :
    (MaxLosses + 1) * RenewalPeriod(ttl) + 2 < ttl + Grace

\* So does a renewal that is not lost before the grace period begins.
RenewalFitsTtl == \A ttl \in Ttls : RenewalPeriod(ttl) + 2 <= ttl

\* A device that believes itself registered is in the table of its BBMD, as
\* long as no more registrations in a row are lost than fit into its lease:
\* late, duplicated and reordered datagrams do not matter, nor does an
\* application that registers again.
KeepsItsEntry ==
  LossesFitLease =>
    \A d \in Addresses :
      fd[d].status = "SUCCESS" => ListedAt(d, fd[d].bbmd)

\* Comment in execute(): it is better not to rely on the grace period.  While
\* no registration has been lost since the last that arrived, the lease of a
\* device that believes itself registered never runs into it.
NeverReliesOnGrace ==
  LossesFitLease /\ RenewalFitsTtl =>
    \A d \in Addresses :
      fd[d].status = "SUCCESS" /\ losses[d] = 0 =>
        fd[d].bbmd \in Bbmds /\ Lease(fdt[fd[d].bbmd], d) >= Grace

\* Broadcasts of a registered device have somewhere to go, whatever results
\* arrive late, twice or out of order and whoever restarts, unless sendto()
\* fails: then registerForeign() resets Remote_BBMD and keeps the status.
DistributesSomewhere ==
  "failed" \notin Outcomes =>
    \A d \in Addresses : fd[d].status = "SUCCESS" => fd[d].remote \in Bbmds

\* A BBMD that lost its table gets its devices back: each that believes itself
\* registered is listed again, learns that it is not, or is shut down.  Left
\* out is the process that took the answer to its predecessor's registration
\* for one to its own, which sendto() had failed to send: it knows no BBMD.
Relisted ==
  \A d \in Addresses :
    fd[d].status = "SUCCESS" /\ fd[d].bbmd # NoBbmd ~>
      ListedAt(d, fd[d].bbmd) \/ fd[d].status # "SUCCESS" \/ ~open[d]

\* A device that went away for good leaves every table in the end.
SilentDevicesAreDropped ==
  \A d \in Addresses :
    <>[](~open[d]) => <>[](\A b \in Bbmds : ~ListedAt(d, b))

\* Comment before BVLC_RESULT in bvlc_receive(): a foreign device that
\* receives the successful completion of its registration starts the timer
\* after which it registers again.
SuccessStartsTimer ==
  [][\A d \in Addresses, b \in Bbmds, outcome \in SendOutcomes :
       fd[d].remote = b
         /\ ExecuteReceiving(d, ResultTo(d, b, "SUCCESSFUL_COMPLETION"), outcome)
       => fd'[d].status = "SUCCESS"]_vars

=============================================================================
