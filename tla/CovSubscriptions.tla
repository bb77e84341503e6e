-------------------------- MODULE CovSubscriptions --------------------------
(***************************************************************************)
(* Change-of-value subscriptions (handlers/h_cov.c): the tables            *)
(* COV_Subscriptions and COV_Addresses, the SubscribeCOV service, the      *)
(* second timer, and handler_cov_task(), which looks at one table entry    *)
(* per call, so that values change and subscriptions come and go between   *)
(* any two entries.                                                        *)
(*                                                                         *)
(* Outside src/: the objects that are watched (Device_COV and              *)
(* Device_COV_Clear), the transaction state machine of confirmed requests, *)
(* sendto() and DeviceCommunicationControl.                                *)
(***************************************************************************)
EXTENDS Integers, FiniteSets

CONSTANTS
  Contexts,         \* [client, process, object] that may be subscribed to
  Lifetimes,        \* lifetimes asked for; 0 is for ever
  Confirmations,    \* values of issueConfirmedNotifications asked for
  Elapses,          \* what the second timer may be called with
  MaxSubscriptions, \* MAX_COV_SUBCRIPTIONS
  MaxAddresses,     \* MAX_COV_ADDRESSES
  InvokeIds,        \* invoke IDs
  MaxTransactions,  \* transactions the state machine has room for
  SendMayFail,      \* whether datalink_send_pdu() may send nothing
  NoAddress

Clients == {c.client : c \in Contexts}
Objects == {c.object : c \in Contexts}
Slots == 1 .. MaxSubscriptions
Places == 1 .. MaxAddresses
NoPlace == 0        \* dest_index -1, kept as 255
NoInvokeId == 0

\* There are more invoke IDs than subscriptions, and the state machine gives
\* out 255 of them in turn: one that an entry still holds is not given out.
ASSUME CovAssumption ==
  /\ Contexts \subseteq [client : Clients, process : {c.process : c \in Contexts},
                         object : Objects]
  /\ Contexts # {} /\ IsFiniteSet(Clients)
  /\ Lifetimes \subseteq Nat /\ Elapses \subseteq Nat \ {0}
  /\ Confirmations \subseteq BOOLEAN /\ SendMayFail \in BOOLEAN
  /\ MaxSubscriptions \in Nat \ {0} /\ MaxAddresses \in Nat
  /\ MaxTransactions \in Nat
  /\ InvokeIds \subseteq Nat \ {NoInvokeId}
  /\ IsFiniteSet(InvokeIds) /\ Cardinality(InvokeIds) > MaxSubscriptions
  /\ NoAddress \notin Clients

VARIABLES
  subs,             \* COV_Subscriptions
  addresses,        \* COV_Addresses; an invalid place holds NoAddress
  task,             \* cov_task_state and index of handler_cov_fsm()
  changed,          \* the objects' change-of-value flags
  tsm,              \* the transactions, by invoke ID
  dcc,              \* whether communication is enabled
  unreported        \* history: the entries whose client was not told of a
                    \* change, or of the value it began with

vars == <<subs, addresses, task, changed, tsm, dcc, unreported>>

Entries ==
  [valid : BOOLEAN, confirmed : BOOLEAN, sendRequested : BOOLEAN,
   dest : Places \cup {NoPlace}, invokeID : InvokeIds \cup {NoInvokeId},
   process : {c.process : c \in Contexts}, object : Objects, lifetime : Nat]

Phases == {"IDLE", "MARK", "CLEAR", "FREE", "SEND"}

TypeOK ==
  /\ subs \in [Slots -> Entries]
  /\ addresses \in [Places -> Clients \cup {NoAddress}]
  /\ task \in [phase : Phases, index : Slots]
  /\ changed \in [Objects -> BOOLEAN]
  /\ tsm \in [InvokeIds -> {"free", "waiting", "failed"}]
  /\ dcc \in BOOLEAN
  /\ unreported \in SUBSET Slots

\* handler_cov_init(); what an unused entry watches is not looked at.
Init ==
  /\ LET any == CHOOSE c \in Contexts : TRUE IN
       subs = [i \in Slots |->
                 [valid |-> FALSE, confirmed |-> FALSE, sendRequested |-> FALSE,
                  dest |-> NoPlace, invokeID |-> NoInvokeId,
                  process |-> any.process, object |-> any.object,
                  lifetime |-> 0]]
  /\ addresses = [p \in Places |-> NoAddress]
  /\ task = [phase |-> "IDLE", index |-> 1]
  /\ changed = [o \in Objects |-> FALSE]
  /\ tsm = [id \in InvokeIds |-> "free"]
  /\ dcc = TRUE
  /\ unreported = {}

-----------------------------------------------------------------------------
(* The address table *)

First(S) == CHOOSE i \in S : \A j \in S : i <= j

HasAddress(sub) == sub.dest # NoPlace /\ addresses[sub.dest] # NoAddress

\* Fault: addresses are added but never taken back.
AddressesKept(ss) == addresses

\* cov_address_remove_unused() for the subscriptions `ss'.
AddressesInUse(ss) ==
  [p \in Places |->
     IF \E i \in Slots : ss[i].valid /\ ss[i].dest = p
     THEN addresses[p] ELSE NoAddress]

\* cov_address_add(): the place of the address, the first unused one, or none.
PlaceFor(a) ==
  LET own == {p \in Places : addresses[p] = a}
      unused == {p \in Places : addresses[p] = NoAddress}
  IN  CASE own # {} -> First(own)
        [] own = {} /\ unused # {} -> First(unused)
        [] OTHER -> NoPlace

AddressesWith(a) ==
  [p \in Places |-> IF p = PlaceFor(a) THEN a ELSE addresses[p]]

-----------------------------------------------------------------------------
(* SubscribeCOV *)

\* Fault: a subscription that goes on is not recognised.
MatchesNothing(c) == {}

\* An entry without an address matches whoever asks.
Matches(c) ==
  {i \in Slots :
     /\ subs[i].valid
     /\ subs[i].object = c.object /\ subs[i].process = c.process
     /\ HasAddress(subs[i]) => addresses[subs[i].dest] = c.client}

Invalid == {i \in Slots : ~subs[i].valid}

\* Fault: the transaction of a subscription that ends is left alone.
TransactionsKept(ids) == tsm

\* tsm_free_invoke_id() of those that are invoke IDs.
Freed(ids) == [id \in InvokeIds |-> IF id \in ids THEN "free" ELSE tsm[id]]

Renew(c, lifetime, confirmed) ==
  LET i == First(Matches(c)) IN
  /\ Matches(c) # {}
  /\ subs' = [subs EXCEPT ![i] =
       [@ EXCEPT !.dest = PlaceFor(c.client), !.confirmed = confirmed,
                 !.lifetime = lifetime, !.sendRequested = TRUE,
                 !.invokeID = NoInvokeId]]
  /\ addresses' = AddressesWith(c.client)
  /\ tsm' = Freed({subs[i].invokeID})
  /\ unreported' = unreported \cup {i}
  /\ UNCHANGED <<task, changed, dcc>>

Subscribe(c, lifetime, confirmed) ==
  LET i == First(Invalid) IN
  /\ Matches(c) = {} /\ Invalid # {}
  /\ subs' = [subs EXCEPT ![i] =
       [valid |-> TRUE, confirmed |-> confirmed, sendRequested |-> TRUE,
        dest |-> PlaceFor(c.client), invokeID |-> NoInvokeId,
        process |-> c.process, object |-> c.object, lifetime |-> lifetime]]
  /\ addresses' = AddressesWith(c.client)
  /\ unreported' = unreported \cup {i}
  /\ UNCHANGED <<task, changed, tsm, dcc>>

Cancel(c) ==
  LET i == First(Matches(c))
      without == [subs EXCEPT ![i] = [@ EXCEPT !.valid = FALSE, !.dest = NoPlace]]
  IN
  /\ Matches(c) # {}
  /\ subs' = [without EXCEPT ![i].invokeID = NoInvokeId]
  /\ addresses' = AddressesInUse(without)
  /\ tsm' = Freed({subs[i].invokeID})
  /\ unreported' = unreported \ {i}
  /\ UNCHANGED <<task, changed, dcc>>

-----------------------------------------------------------------------------
(* handler_cov_timer_seconds() *)

Definite == {i \in Slots : subs[i].valid /\ subs[i].lifetime # 0}

\* Fault: the last second does not end the subscription.
ExpiredWhenPast(seconds) == {i \in Definite : subs[i].lifetime < seconds}

Expired(seconds) == {i \in Definite : subs[i].lifetime <= seconds}

Remaining(i, seconds) ==
  IF subs[i].lifetime >= seconds THEN subs[i].lifetime - seconds ELSE 0

TimerSeconds(seconds) ==
  LET ending == Expired(seconds)
      confirmed == {i \in ending : subs[i].confirmed}
  IN
  /\ Definite # {}
  /\ subs' = [i \in Slots |->
       IF i \notin Definite THEN subs[i]
       ELSE [subs[i] EXCEPT
               !.lifetime = Remaining(i, seconds),
               !.valid = i \notin ending,
               !.dest = IF i \in ending THEN NoPlace ELSE @,
               !.invokeID = IF i \in confirmed THEN NoInvokeId ELSE @]]
  /\ addresses' = IF ending = {} THEN addresses ELSE AddressesInUse(subs')
  /\ tsm' = Freed({subs[i].invokeID : i \in confirmed})
  /\ unreported' = unreported \ ending
  /\ UNCHANGED <<task, changed, dcc>>

-----------------------------------------------------------------------------
(* handler_cov_task(): one entry of the table per call *)

Advance(phase, next) ==
  /\ task.phase = phase
  /\ task' = IF task.index < MaxSubscriptions
             THEN [task EXCEPT !.index = @ + 1]
             ELSE [phase |-> next, index |-> 1]

Current == subs[task.index]

Idle ==
  /\ task.phase = "IDLE"
  /\ task' = [phase |-> "MARK", index |-> 1]
  /\ UNCHANGED <<subs, addresses, changed, tsm, dcc, unreported>>

\* The entries to be notified: those that were, and those that changed.
Marked ==
  Current.sendRequested \/ (Current.valid /\ changed[Current.object])

Mark ==
  /\ Advance("MARK", "CLEAR")
  /\ subs' = [subs EXCEPT ![task.index].sendRequested = Marked]
  /\ UNCHANGED <<addresses, changed, tsm, dcc, unreported>>

\* Fault: the flag of every object that is watched is cleared.
ClearAlways == Current.valid

Clears == Current.valid /\ Current.sendRequested

Clear ==
  /\ Advance("CLEAR", "FREE")
  /\ changed' = [changed EXCEPT ![Current.object] = @ /\ ~Clears]
  /\ UNCHANGED <<subs, addresses, tsm, dcc, unreported>>

\* Fault: only failed transactions are looked for.
EndedIfFailed(sub) ==
  /\ sub.valid /\ sub.confirmed /\ sub.invokeID # NoInvokeId
  /\ tsm[sub.invokeID] = "failed"

Ended(sub) ==
  /\ sub.valid /\ sub.confirmed /\ sub.invokeID # NoInvokeId
  /\ tsm[sub.invokeID] \in {"free", "failed"}

Free ==
  /\ Advance("FREE", "SEND")
  /\ IF Ended(Current)
     THEN /\ tsm' = Freed({Current.invokeID})
          /\ subs' = [subs EXCEPT ![task.index].invokeID = NoInvokeId]
     ELSE UNCHANGED <<subs, tsm>>
  /\ UNCHANGED <<addresses, changed, dcc, unreported>>

Available ==
  Cardinality({id \in InvokeIds : tsm[id] # "free"}) < MaxTransactions

Due ==
  /\ Current.valid /\ Current.sendRequested
  /\ Current.confirmed => Current.invokeID = NoInvokeId /\ Available

NextInvokeId ==
  First({id \in InvokeIds : tsm[id] = "free"} \ {subs[i].invokeID : i \in Slots})

\* cov_send_request() that gets as far as datalink_send_pdu().
SendRequest(sent) ==
  /\ Advance("SEND", "IDLE")
  /\ Due /\ dcc /\ HasAddress(Current)
  /\ sent \/ SendMayFail
  /\ IF Current.confirmed
     THEN /\ tsm' = [tsm EXCEPT ![NextInvokeId] = "waiting"]
          /\ subs' = [subs EXCEPT ![task.index] =
               [@ EXCEPT !.sendRequested = ~sent, !.invokeID = NextInvokeId]]
     ELSE /\ subs' = [subs EXCEPT ![task.index].sendRequested = ~sent]
          /\ UNCHANGED tsm
  /\ unreported' = IF sent THEN unreported \ {task.index} ELSE unreported
  /\ UNCHANGED <<addresses, changed, dcc>>

SendNothing ==
  /\ Advance("SEND", "IDLE")
  /\ ~(Due /\ dcc /\ HasAddress(Current))
  /\ UNCHANGED <<subs, addresses, changed, tsm, dcc, unreported>>

Send == SendNothing \/ \E sent \in BOOLEAN : SendRequest(sent)

Task == Idle \/ Mark \/ Clear \/ Free \/ Send

-----------------------------------------------------------------------------
(* Around the handler *)

\* The value of an object changes so much that it raises its flag.
Change(o) ==
  /\ changed' = [changed EXCEPT ![o] = TRUE]
  /\ unreported' =
       unreported \cup {i \in Slots : subs[i].valid /\ subs[i].object = o}
  /\ UNCHANGED <<subs, addresses, task, tsm, dcc>>

\* The client acknowledges a notification, or it is given up after the retries.
Answer(id) ==
  /\ tsm[id] = "waiting"
  /\ \E result \in {"free", "failed"} : tsm' = [tsm EXCEPT ![id] = result]
  /\ UNCHANGED <<subs, addresses, task, changed, dcc, unreported>>

\* DeviceCommunicationControl.
Control ==
  /\ dcc' = ~dcc
  /\ UNCHANGED <<subs, addresses, task, changed, tsm, unreported>>

Service ==
  \E c \in Contexts :
    \/ Cancel(c)
    \/ \E lifetime \in Lifetimes, confirmed \in Confirmations :
         Renew(c, lifetime, confirmed) \/ Subscribe(c, lifetime, confirmed)

Next ==
  \/ Service \/ Task \/ Control
  \/ \E seconds \in Elapses : TimerSeconds(seconds)
  \/ \E o \in Objects : Change(o)
  \/ \E id \in InvokeIds : Answer(id)

Spec == Init /\ [][Next]_vars

\* The main loop goes on calling handler_cov_task(), and a transaction ends.
FairSpec ==
  Spec /\ WF_vars(Task) /\ \A id \in InvokeIds : WF_vars(Answer(id))

-----------------------------------------------------------------------------
(* Properties *)

\* The address table holds the addresses of valid subscriptions, each once:
\* no subscription that ended, by whatever way, leaves one of the few places
\* occupied, and none that goes on loses its place.
AddressesTight ==
  /\ \A p \in Places : addresses[p] # NoAddress =>
       /\ \E i \in Slots : subs[i].valid /\ subs[i].dest = p
       /\ \A q \in Places \ {p} : addresses[q] # addresses[p]
  /\ \A i \in Slots : subs[i].valid /\ subs[i].dest # NoPlace =>
       HasAddress(subs[i])

\* A transaction that is under way or has failed belongs to one valid
\* subscription with confirmed notifications, which will free it: none is lost
\* by cancelling, renewing as unconfirmed, or expiring in the middle of it.
TransactionsOwned ==
  \A id \in InvokeIds : tsm[id] # "free" =>
    Cardinality({i \in Slots : subs[i].invokeID = id
                                 /\ subs[i].valid /\ subs[i].confirmed}) = 1

\* With a place for every client, a context is subscribed to once: asking
\* again renews the entry, wherever the task is in the table.
OneEntryPerContext ==
  Cardinality(Clients) <= MaxAddresses =>
    \A i, j \in Slots :
      /\ subs[i].valid /\ subs[j].valid /\ i # j
      => \/ subs[i].object # subs[j].object
         \/ subs[i].process # subs[j].process
         \/ addresses[subs[i].dest] # addresses[subs[j].dest]

\* A lifetime that ends never turns into 0, which means for ever, with the
\* entry still valid.
DefiniteStaysDefinite ==
  [][\A i \in Definite, seconds \in Elapses :
       TimerSeconds(seconds) /\ subs'[i].valid => subs'[i].lifetime > 0]_vars

\* Every object has at most one subscriber.
OneSubscriberEach == \A c, d \in Contexts : c.object = d.object => c = d

\* Comment before handler_cov_fsm() (lines 523-531): for each subscribed object,
\* see if it has changed and if so send the notice.  A client that was not told
\* of a change will be: its entry is marked, or the object still shows the
\* change to the next pass.  With two subscribers of an object this does not
\* hold: a change after the mark of the one and before that of the other is
\* cleared for both (lines 598-601).
NoChangeForgotten ==
  OneSubscriberEach =>
    \A i \in unreported : subs[i].sendRequested \/ changed[subs[i].object]

\* Every change is notified to the client of every entry with an address, or
\* its subscription ends or communication is disabled.
ChangesNotified ==
  \A i \in Slots :
    i \in unreported ~> i \notin unreported \/ ~dcc \/ ~HasAddress(subs[i])

=============================================================================
