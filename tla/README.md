# Verification of libbacnet-api

TLA+ models of the parts of libbacnet-api that carry state over time, TLC
configurations that check them on small instances, and TLAPS proofs of what
matters most for instances of any size. Paths are relative to the repository's
root; line numbers are those of the commit the models were written from.

`PROJECT.json` lists the components, the runs, the hazards with the properties
aimed at them, one plausible bug ("mutant") per property that the property
detects, and, under `map`, the lines every definition translates. The operators
introduced with "Fault:" in the modules are these bugs; no specification uses
them.

## 1. Inventory

libbacnet-api wraps the libbacnet C stack in a C++ class `BACnet`. An
application creates objects, then calls `BACnet::execute()` in a loop. There is
one thread. What makes the system hard is that each call does a little: one
datagram is received, one second is accounted for, one table entry is looked at,
and clients, other BBMDs, crashes and lost datagrams act between any two calls.

| Component | Sources | State | Operations | Status |
|---|---|---|---|---|
| Analog input, intrinsic reporting | `objects/analog_input_intrinsic.cpp`, `objects/notification_class.cpp`, `objects/container.cpp:208-223`, `handlers/h_alarm_ack.c` | event state, `remaining_time_delay`, limits, acknowledged transitions and their time stamps, pending AckNotification | one pass per second, AcknowledgeAlarm, property writes | modelled, proved |
| Foreign Device Table | `src/bvlc.cpp:722-784, 169-185, 1240-1300` (`BBMD_ENABLED`) | array of leases | register, delete, read, maintenance timer | modelled, proved |
| Foreign device (client) | `src/bacnet.cpp`, `src/bvlc.cpp:1481-1581, 1710-1721` | registration status, "I am waiting for a result" flag, remote BBMD, renewal timer | `registerForeign`, `execute`, `initialize`, `deinitialize` | modelled, alone and against BBMDs, proved |
| Broadcast management | `src/bvlc.cpp` (`BBMD_ENABLED`), `src/bip.cpp` | Broadcast Distribution Table, its backup file | write, add, clear, restore; original, distributed and forwarded broadcasts | modelled, proved |
| COV subscriptions | `handlers/h_cov.c` | subscription and address tables, task state | SubscribeCOV, second timer, `handler_cov_task` | modelled, proved |
| Recipient lists | `objects/container.cpp:974-1420`, `objects/notification_class.cpp:277-648` | recipient list of each class, the encrypted file | write, export, import, restart | modelled, proved |
| Event information | `handlers/h_getevent.c`, `handlers/h_get_alarm_sum.c` | none; the client's session | GetEventInformation, page by page; GetAlarmSummary in one answer | the paging modelled and proved; the summary has no module |
| Recipient binding | `objects/notification_class.cpp:797-829, 602-626`, `src/bacnet.cpp:170-188`, `handlers/h_iam.c`, `s_whois.c` | scan timer, "list has changed" flag, address cache (outside the sources) | write of Recipient_List, I-Am, the scan every 60 s | modelled, proved |
| Notification class reporting | `objects/notification_class.cpp:650-795`, `handlers/s_cevent.c`, `s_uevent.c` | priorities, Ack_Required, days and times of the recipients | whom a notification goes to | Ack_Required and the choice of the class only |
| B/IP datalink | `src/bip.cpp` | socket | send, receive | partly |
| Object registry | `objects/container.cpp`, `objects/c_wrapper.cpp` | vectors of objects, one instance counter | add, reset, look up by type, identifier and name | modelled, proved |
| Property services | `handlers/h_rp.c`, `h_rpm.c`, `h_wp.c`, the `read_property` and `write_property` switches of all object types | an answer being built; present values and names, which are the application's | ReadProperty, ReadPropertyMultiple, WriteProperty | modelled but for PROPERTY_LIST and Priority, proved |
| Discovery | `handlers/h_whois.c`, `h_whohas.c`, `h_iam.c`, `s_iam.c`, `s_ihave.c` | none | Who-Is, Who-Has, I-Am | modelled, proved |
| DeviceCommunicationControl | `handlers/h_dcc.c` | a flag outside the sources | enable, disable | the flag, with COV |
| Event sinks | `src/bacnet_sink.cpp` | list of callbacks | register, deregister, call in turn | not modelled |

**How they interact.** `execute()` (`src/bacnet.cpp:140-221`) receives one
datagram through `bip_receive`, which calls the BVLC code, then the APDU
handlers; once a second it calls `Container::deviceLocalReporting` (the analog
inputs' pass), and it keeps the registration at the BBMD. An analog input
reports through the notification class of its `Notification_Class` property. The
class sends to its recipients, whose list the container stores in a file.
Broadcasts of a registered foreign device go to its BBMD, which forwards them to
the other BBMDs of its table and to its foreign devices.

**What is hard**, by component, with the properties that make it correct:

* *Analog input.* One countdown serves entering, leaving and switching alarms,
  and configuration writes fall in between. Acknowledgements arrive late, twice
  and out of order, and only one bit and one stamp per transition tell them
  apart. Correct: the object reaches the state its value calls for within
  `Time_Delay`; no acknowledgement clears an alarm that it does not cover.
* *Foreign device and BBMD.* Two timers in two processes, datagrams lost,
  repeated and reordered, and restarts on both sides. Correct: a device that believes
  itself registered is in its BBMD's table, or finds out.
* *Broadcasts.* Every BBMD hears what it broadcasts on its own subnet, and tables
  may be cyclic or different. Correct: everybody receives a broadcast, devices
  once, and its copies run out.
* *COV.* The task visits one entry per call: values change, subscriptions end
  and are renewed between the visits. Correct: no change is forgotten, no place
  or transaction is leaked.
* *Recipient lists.* The file is removed before the new one is written, errors
  are swallowed, and the file is imported again with every class. Correct: a
  class has the list last written to it, and never an older one.
* *Event information.* Events come and go between the pages. Correct: the client
  ends, and has seen what was there throughout.
* *Recipient binding.* Two timers that are told of whole seconds at
  once, a flag raised by writes, a cache that ages on its own, answers that come late or
  not at all, devices that move. Correct: a recipient without an address is
  asked for in time and bound in the end; a binding does not outlive its time.
* *Property services.* An answer is built piece by piece up to three limits (the buffer, one
  property, the client), over lists, switches and arrays that are kept apart for
  each of ten types; the application changes names, values and the device's own
  identifier at any time. Correct: an answer fits, holds what was asked for, and
  agrees with the other services.

## 2. Modules

| Module | Models | Composes or extends |
|---|---|---|
| `AnalogInputIntrinsic` | one analog input, its notification class's `Ack_Required`, its clients | |
| `Fdt` | the array `FD_Table` and its functions, as operators on a table | |
| `LeaseRegistry` | abstract: a lease per device, at most `Capacity` of them | |
| `ForeignDeviceTable` | one BBMD's table as its clients use it; implements `LeaseRegistry` | `Fdt` |
| `ForeignDevice` | a device's registration, as operators on a record | |
| `FdNetwork` | devices, BBMDs and the network between them | `Fdt`, `ForeignDevice` |
| `BvlcForwarding` | the BBMDs' tables and backup files, one broadcast at a time | |
| `CovSubscriptions` | the tables, the service, the timer and the task of `h_cov.c` | |
| `RecipientStore` | the recipient lists and their file over restarts | |
| `EventInformation` | a client that pages through the events of a device | |
| `RecipientBinding` | the addresses of a notification class's recipients | |
| `DeviceObjects` | the container, the lists of properties and the switches of all object types, as operators on the objects | |
| `PropertyServices` | ReadProperty, ReadPropertyMultiple, WriteProperty, Who-Is and Who-Has over those objects | `DeviceObjects` |
| `MC...` | values of constants for TLC: sets of records, functions, symmetry | the module of that name |
| `ForeignDevices_proofs` | theorems and proofs about a table by itself and in the network | `ForeignDeviceTable`, `FdNetwork` |
| other `..._proofs` | theorems and proofs | the module of that name |

### Correspondence

**AnalogInputIntrinsic.** A pass of `analog_input_intrinsic_reporting()` is
`Pass(pv)`: `AnnounceAck` when an acknowledgement waits to be announced, which
takes the whole pass (543-557), otherwise `Evaluate(pv)`, that is `OutOfRange`
(558-722) followed by `NotifyTransition` (with the notification and then the
change of the acknowledgement state, 785-903) or by `NoNotification`. `AlarmAck`
is `handler_alarm_ack` with `analog_input_intrinsic_alarm_ack` (907-1019). Each
`Write...` is a writable property of the algorithm; writing `Time_Delay`
restarts the countdown, no other write does. `certification` selects the build:
`CERTIFICATION_SOFTWARE` fixes the deadband and the initial limits in one,
and in the other lets the high limit follow the present value (783-788). The
local `event_data.ackRequired`, uninitialised when no class has the number
(874; `notification_class.cpp:711`), is `AckRequiredChoices`. `outstanding`
and `streak` are history that only properties read.

**ForeignDeviceTable, Fdt.** `Registered`, `Deleted` and `Aged` translate
`bvlc_register_foreign_device`, `bvlc_delete_foreign_device` and
`bvlc_maintenance_timer`, slot by slot: the first slot of the device, else the
first that is unused. Read-FDT-Ack cuts the seconds to two octets.

**ForeignDevice, FdNetwork.** `Kept` is the switch over the registration status
in `execute()` (`bacnet.cpp:190-217`); `ResultReceived` is the case `BVLC_RESULT`
of `bvlc_for_non_bbmd`; `Asked` is `bvlc_register_with_bbmd` with the reset that follows a
failure. One `Execute(d)` receives at most one datagram and then keeps the
registration, as the code does. `fresh` and `old` are the datagrams under way,
sent since the last second and before it. `open` is whether the socket is: a
`sendto` on a closed one returns 0, which the code takes for a success.

**BvlcForwarding.** An address is the set of hosts it reaches, so that the
directed broadcast of a row with a subnet mask and the unicast of a row with a
full mask differ as they do in the code. `BbmdReceive...` are the cases of
`bvlc_receive` (1061-1373); `MemberMaskIsUnicast` is the test at 1205.
`WriteBdt`, `AddBdtEntry`, `ClearBdt` and `RestoreBdt` are the table's
functions, with the backup each of them writes. A process opens its backup file
with "wb" once and rewinds it after that: `opened`, `CrashInBackup`.

**CovSubscriptions.** `Idle`, `Mark`, `Clear`, `Free` and `Send` are the states
of `handler_cov_fsm` (556-671), each for one entry. `Renew`, `Subscribe` and
`Cancel` are `cov_subscribe`; `TimerSeconds` is the second timer. The objects'
change flags, the transaction state machine and `sendto` are outside the
sources and taken as `h_cov.c` uses them.

**RecipientStore.** `WriteRecipientList`, `Remove`, `Fill`, `Encrypt` are a
write and the steps of `ExportRecipientList` (1067-1107), each of which may
throw (`Throw`) or be the last of its process (`Restart`).
`AddNotificationClass` imports the file (1056).

**EventInformation.** `Poll` is a request and its answer. The callback for an
index without an analog input, or with detection disabled, falls off the end
of a function that returns `int` (`analog_input_intrinsic.cpp:1073-1168`), which
is undefined behaviour: the result is any of -1, 0 and 1 at each such
index, and `sound` records whether all were 0.

**RecipientBinding.** One `execute()` is one step, `Execute(m, seconds)`: it receives
the datagram `m`, or none, then runs the binding timer, ages the cache, and
scans when the scan's timer or the flag says so (`bacnet.cpp:170-188`). `Scans` are the outcomes of
`notificationClassFindRecipient`: the local `DeviceID` is uninitialised, and a
recipient given by address uses what the one before it left there, so that
it is a choice at the first recipient (`DeviceIDs`). The cache (`AddressAdd`, `Aged`,
`BindRequested`) is the library's, as the sources use it. `waited` and `heard` are history.

**DeviceObjects, PropertyServices.** `AddDevice`, `AddObject`, `Reset`,
`ObjectNamed`, `NameOf` and `Having` are the container's functions. `Required` and `Optional` are
the lists, and `Handled`, `ReadProperty`, `WriteErrors` and `Written` the
switches of all types; the two are written down separately in the code and so they are here. `ReadArray`
has the arrays, with their limits. A ReadPropertyMultiple is a step per piece of its answer (`RpmBegin`,
`RpmObject`, `RpmProperty`, `RpmListed`, `RpmNothing`, `RpmIndexed`, `RpmClose`,
`RpmAnswer`), with the length so far and a test of it where `memcopy` or
`RPM_Encode_Property` tests it; any other service is one step. `Change` is the
application: it changes names, values and the device identifier between requests. `aborts` are the Aborts that
WriteProperty sends before it goes on.

## 3. Runs

All numbers of real time and size are scaled down; what matters is which of them
coincide, which are exceeded, and by how much.

| Run | Question | Instance, and why it is enough |
|---|---|---|
| `AICertAlgorithm` | Does the value's zone win within `Time_Delay`, whatever is reconfigured? (`SettlesWithinDelay`) | Values below, in, between and above two limits with and without deadband; delays 0 and 2, so that a delay is shortened while it runs; the clock stands still after `MaxTime`, passes go on. |
| `AIBuilds` | Are acknowledgements accounted for, and do alarms end? (`UnackedUntilCovered`, `NoPhantomUnacked`, `ReportedStampSuffices`, `PollingMissesNothing`, `AlarmReturnsToNormal`, `AckAnnounced`) | Both builds, one value in alarm and one not, a class that exists and one that does not, three times: two alarms of one transition and an acknowledgement older than both. |
| `FdtLeases` | Is the array a registry of leases? (`OneEntryPerDevice`, `EntriesExpire`, `ImplementsRegistry`) | Three devices for two slots, so that slots are freed before, at and behind a device's own; a timer told of more seconds than a lease has. |
| `FdTimely` | Does a device that believes itself registered have its entry? (`KeepsItsEntry`, `NeverReliesOnGrace`, `DistributesSomewhere`) | Two devices, one slot, renewals every 2 s, leases of 7 s, one lost registration in a row, duplicates, at most three datagrams that add to others. Devices are interchangeable (symmetry, safety only). |
| `FdRecovery` | Is the entry found again, or its loss noticed? (`Relisted`, `SilentDevicesAreDropped`) | One device with every fault: BBMD restart, deletion by others, device restart, deinitialize and initialize, failing sends, losses and duplicates. |
| `FdTwoRegistrations` | Does every success start the renewal timer, as a comment says? No. | Finding 1. |
| `Forwarding` | Does a broadcast reach everybody, devices once, and end? (`ReachesEverybody`, `OnceOnSubnets`, `ComesToRest`, `BackupCurrent`, `TypeOK`) | A subnet with a BBMD and a device, one with a BBMD alone (whose own application sends and receives as a device there would), a foreign device; tables of three rows, of both kinds of mask, incomplete, too long, with a row twice, and different from each other; one reconfiguration during a broadcast. A socket holds two equal copies. |
| `CovNotified` | Are places and transactions neither leaked nor stolen, is every change notified, and does a lifetime end? (`AddressesTight`, `TransactionsOwned`, `OneEntryPerContext`, `NoChangeForgotten`, `DefiniteStaysDefinite`, `ChangesNotified`) | Two clients, an object each, places for two subscriptions and addresses, two transactions with three invoke ids, confirmed or not, a lifetime that runs out: the tables get full, cancelled, renewed and ended between the visits of the task. |
| `Store` | Do lists survive, and never come back? (`ListsSurvive`, `NoSupersededList`, `AddingKeepsTheOthers`) | Three classes, two lists, crashes anywhere, two steps that throw. |
| `EventPolling` | Has a client that ends seen everything, and does it end? (`SessionComplete`, `ShortListsEnd`) | Four objects, answers of two events: lists that fit, exceed an answer by one, and by two. |
| `Recipients` | Is every recipient asked for, bound, and its binding let go in time? (`AskedInTime`, `BindingsAge`, `RecipientsGetBound`) | Two devices, two addresses; a list with a device behind an address, one of two devices, an empty one. Scan, ageing and time to live of 2 s, calls up to 2 s apart: every timer is met and overrun. One device moves; restarts, lost requests and late answers anywhere. |
| `Services` | Do the services agree with each other, and do the answers fit and hold what was asked for? (`IdentifiersUnique`, `LookupsAgree`, `AnswersFit`, `AnswersComplete`, `AcknowledgedIsRead`, `TypeOK`) | The device and two objects of two types (with and without an alarm algorithm, with and without an array), in any order; two names, values and device identifiers that change at any time between requests; references to all three lists, with and without an index, to arrays, to what does not exist. The buffer of 193 octets is filled exactly by one answer and exceeded by another, the 50 octets a client takes by several. |

The type invariants of all modules are proved (`TypeCorrect`, section 5);
`Forwarding` and `Services` check theirs as well. No run turns the deadlock
check off.

**Fairness.** Nothing is assumed of clients and faults but what is named here.
*Analog input*: weak fairness of a pass, because the application keeps calling
`execute()`; strong fairness of a pass that evaluates the value, which is an
assumption about clients: nobody acknowledges before every single pass for ever.
*Foreign device*: strong fairness of the second (time passes whatever happens
within it), weak fairness of `Execute(d)` and of the arrival of what is
not lost. *COV*: weak fairness of the task, since the main loop keeps calling it,
and of the end of a transaction, since it is answered or given up after its
retries. *Broadcasts*: what is under way arrives. *Event information*: the
client goes on polling; fairness is stated for requests without undefined
results, because only these occur in the executions `ShortListsEnd` is about.
*Recipients*: weak fairness of an `execute()` that receives nothing a second after the last,
because most of them do; strong fairness, per device, of the arrival of its I-Am, in
a call within the same second: a device that is asked again and again is heard in the end.

**Conditions in properties**, each of which is met in its run:
`SettlesWithinDelay` supposes sane settings (low limit not
above the high limit, deadband not negative); `KeepsItsEntry` that the losses fit the
lease (`LossesFitLease`), which with the real 30 s of safe time and 30 s of
grace means that one lost renewal is survived only for a Time-to-Live below
about 87 s, and `NeverReliesOnGrace` also that a renewal which is not lost
arrives within the Time-to-Live (`RenewalFitsTtl`); `OnceOnSubnets` and
`ReachesEverybody` that all tables are complete, equal and of one kind of mask,
and the former that no table has a row twice (`NoRowTwice`); `NoChangeForgotten` that an object has one
subscriber; `ListsSurvive` that no process has ended within an export, no step
failed, and nothing was written before all classes were added;
`NoSupersededList` that an old file can be removed.

## 4. Findings and observations

One run finds what the code does at odds with its comments:

1. `SuccessStartsTimer` (`src/bvlc.cpp:1544`). The comment at
   `src/bvlc.cpp:1122-1128` says that a device that receives the successful
   completion of its registration starts a timer and registers again. The second success
   of two registrations under way finds the flag cleared by the first and ends the
   registration: the device never renews it.

Observed while modelling; the models have this behaviour, and the properties are
stated so that they hold with it:

* `Time_Delay` is not restarted by a transition
  (`analog_input_intrinsic.cpp:582-587, 652-657`), only by a pass with
  nothing to do (612, 663), although the comment at 571-572 has the
  condition hold for `Time_Delay` each time. A value that goes back to alarm
  at once is reported at once.
* An alarm that is acknowledged before the next pass is refused with
  INVALID_EVENT_STATE: `last_offnormal_event_state` is written at 664 and 716,
  one pass after the transition (checked at 951-957).
* Of two acknowledgements between two passes one AckNotification is sent (1007).
* Read-FDT-Ack wraps from a Time-to-Live of 65506 on (`bvlc.cpp:571`, against
  94-96); a longer Time-to-Live is cut on the wire while the renewal goes by the full
  one (`bacnet.cpp:203, 232` against 197): such a device loses its entry.
* `registerForeign` that fails in a registered device leaves the status SUCCESS
  and resets the BBMD's address: broadcasts go to 0.0.0.0:0. After a process
  restarts it may take the answer to its predecessor's registration for its own.
  Who sent a result is not looked at.
* With a Time-to-Live of 30 s or less every `execute()` renews.
* A device goes by the Time-to-Live and the BBMD of its last registration before
  that is answered (`bacnet.cpp:232-241`). When two registrations with different
  Times-to-Live are reordered, the BBMD keeps the shorter lease and the
  device renews by the longer; one that turns to another BBMD believes in the
  registration it had with the first. `KeepsItsEntry` fails in both
  cases: its run and its proof have one BBMD and one Time-to-Live.
* Line 1205 looks at the sender's row of the table to find out whether a
  forwarded broadcast came by unicast; the comment at 1183-1188 speaks of the BBMD's own
  row. With rows of both kinds a broadcast is lost on one subnet and doubled on
  another. A BBMD hears what it broadcasts, so that its foreign devices and its own application may
  receive a broadcast twice; `OnceOnSubnets` is about devices on the subnets. A Write-BDT
  that is refused has replaced the table all the same (1147-1153), and one may put a row
  in twice (684-701), which adding an entry refuses (1664-1669): each broadcast
  then goes there twice. A broadcast to distribute is accepted from devices
  that are not registered.
* The first backup of a process empties the file before it writes it; a crash in
  between leaves nothing to restore.
* Two COV subscriptions of one object: a change between their marks is cleared
  for both and notified to one (`h_cov.c:598`, against the comment at 523-531).
  With fewer transactions than confirmed subscriptions the first ones
  can starve the others.
* The recipient lists of classes that have not been added yet are lost with the
  first write after a restart (`container.cpp:1298`), and all lists with a crash within an
  export. A failed export is acknowledged as a success (1102).
* The callback for a missing index in GetEventInformation and GetAlarmSummary
  returns no value; an optimised build runs into whatever follows.
* Each answer of GetEventInformation starts again with the first events and
  leaves out the last received object only (`h_getevent.c:117-118`, where the
  comment says that events are encoded once that object was found): a list of
  more than one event above an answer never ends. `ShortListsEnd` is about the
  others.
* A pass that announces an acknowledgement does not look at the present value
  (`analog_input_intrinsic.cpp:543-557`).
* A device that has just been bound may lose up to 60 s of its time, because the cache is
  told at once of all seconds since its last turn (`bacnet.cpp:173`). Who-Is is
  sent for a recipient given by address with the instance of an earlier recipient, or an
  uninitialised one (`notification_class.cpp:799-829`): the device at
  that address may never be asked for, and the property is about
  recipients given by device.
* A segmented or undecodable WriteProperty is answered with an Abort and then executed all the
  same, with what is in `wp_data`, and answered again (`h_wp.c:97-121`; the
  comment at 67-77 has one response).
* A device name that the application refuses is acknowledged (`device.cpp:338`);
  `AcknowledgedIsRead` leaves it out. Names are not kept unique, though a comment says they
  have to be (332): a look-up by name finds the last.
* OBJECT_LIST is aborted although it would just fit (`device.cpp:232`). An
  index into EVENT_TIME_STAMPS reads the element behind the one asked for, for
  3 past the end of the array (`analog_input_intrinsic.cpp:320`). An empty list of
  properties, of which a comment says that it "only happens with the OPTIONAL
  property" (`h_rpm.c:333`), is also that of a type without objects: ALL is answered
  with an empty result.
* Read, not modelled: the eleventh recipient is stored past the end of the list
  (`notification_class.cpp:592`), as is the fourth priority (317), and a priority written by index is
  cut to 8 bits (357); bad bits of Ack_Required set an error and return
  success (376-383); a confirmed notification to a recipient
  without an address is dropped; `bacnet_deregister_sink` calls `std::remove` without
  `erase` (`bacnet_sink.cpp`).

## 5. Proofs

For every value of the constants that the named assumptions of the modules allow:

| Theorem | Says | By |
|---|---|---|
| `AnalogInputIntrinsic_proofs!TypeCorrect` | the state stays well-typed | inductive, one step per action |
| `BudgetHolds`, `SettlingTime` | `DelayBudget`, `SettlesWithinDelay` | `SettlesWithinDelay` is not inductive: a value may be about to stay longer than the countdown has left. `DelayBudget` is, with `TypeOK`: passes spent in a zone plus the countdown never exceed the delay. A pass moves one to the other, a write that changes what is compared starts the passes from nothing, and `remaining_time_delay` itself never exceeds the delay. |
| `StampsHold`, `UnackedHolds` | `StampsDominate`, `UnackedUntilCovered` | that no acknowledgement clears a newer alarm depends on the stored stamp being at least that of every outstanding notification; the conjunction of the two is inductive. |
| `PollingSuffices`, `ReportedStampsSuffice`, `NoPhantoms` | `PollingMissesNothing`, `ReportedStampSuffices`, `NoPhantomUnacked` | the first follows from `TypeOK` and `UnackedUntilCovered`; the second is inductive once no stamp is ahead of the clock (`StampsInv`); the third because a class that exists now has existed since the start (`ClassKnownBefore`). |
| `ForeignDevices_proofs!OneEntryEach`, `EntriesHaveTime`, `TableTypeCorrect` | one entry per device, with time left | `Good(table)`, preserved by `Registered`, `Deleted` and `Aged` (a lemma each, which also say what each does to every lease). |
| `TableImplementsRegistry` | `Spec => Registry!Spec` | the mapping forgets the slots; each action maps to one of `LeaseRegistry`. That the number of leases is the number of used slots is a bijection lemma. |
| `ForeignDevices_proofs!TypeCorrect`, `RegisteredDistributes` | well-typed; `DistributesSomewhere` | `RemoteInv`: the property says that a *registered* device has a BBMD to send to. It may become registered by the answer to an earlier registration, so the invariant says it of every device that waits for an answer as well. The bags of datagrams under way need lemmas of their own. |
| `EntryKept`, `GraceUnused` | `KeepsItsEntry`, `NeverReliesOnGrace`, for `OneLease`: one BBMD, one Time-to-Live that fits the wire, datagrams that take less than two ticks, no restarts; losses, duplicates and failing sends as they come | `KInv`. The age of a lease is bounded by what the device has done since (`AgeInv`): a period for each registration lost in a row, one more for a registration under way since the last tick or the seconds waited since the renewal before, and one for what is on its way out (`Limit`). So a lease never gets older than the periods that may be lost and two ticks. `FlightInv` keeps the answers honest: a success under way is no older than its datagram, so whoever believes it has a new lease. |
| `BvlcForwarding_proofs!TypeCorrect`, `BackupIsCurrent` | `TypeOK`, `BackupCurrent` | inductive, one step per action |
| `DevicesHearOnce`, `EverybodyIsReached` | `OnceOnSubnets`, `ReachesEverybody` | `SettledInv`, about the copies under way: `Bound(m, t)` says that a copy is, or will lead to, one for `t`. Whoever has not received the broadcast has a copy bound for it; a device has at most one, and none once it has received it. Each reception removes a copy and hands what it was bound for to the copies it sends, which is shown for the three kinds of BBMD reception and for both kinds of mask. |
| `RecipientStore_proofs!TypeCorrect` | well-typed | inductive |
| `ListsAreKept` | `ListsSurvive` | while `clean`, the file, the lists and what was acknowledged agree, but for the class being written. |
| `SupersededListsStayAway`, `AddingIsLocal` | no superseded list comes back; adding a class changes no other | the file never stores a list that is neither empty nor the last acknowledged, as long as an old file can be removed. |
| `CovSubscriptions_proofs!TypeCorrect`, `AddressesStayTight`, `TransactionsHaveOwners`, `OneEntryForAContext`, `ChangesAreKept` | `AddressesTight`, `TransactionsOwned`, `OneEntryPerContext`, `NoChangeForgotten` | one invariant, `Inv`: the places that entries point at are those in use, and every entry was asked for in a context, by the client at its address (`AddressInv`); a transaction has one entry (`OwnersInv`); only entries in use wait for a notification (`WaitingInv`). What one entry's step does to the others is in lemmas for losing an entry (`ShrinkKeeps`) and gaining one (`GrowKeeps`). |
| `LifetimesEnd` | `DefiniteStaysDefinite` | an action property: an entry the timer leaves valid has more time than has passed. |
| `EventInformation_proofs!TypeCorrect`, `SessionsAreComplete` | `SessionComplete` | `SessionInv`: what was listed throughout is still listed, and the event received last is one the client knows; so an answer that says "no more" leaves out nothing it has not seen. For every size of an answer and number of objects. |
| `RecipientBinding_proofs!TypeCorrect`, `EverybodyAskedInTime` | `AskedInTime` | `WaitingInv`: nobody has waited longer than the scan's timer says, whatever order seconds, writes and restarts come in. |
| `NoBindingOutlivesItsTime` | `BindingsAge` | `AgeInv`: the age of a binding and the time it has left are at most the time to live and the seconds the cache has not been told of. |
| `PropertyServices_proofs!IdentifiersStayUnique`, `LookupsStayInAgreement` | `IdentifiersUnique`, `LookupsAgree` | `ObjectsInv`: an object's instance is its place behind the device, because all types share one counter and `reset()` drops the objects with it. |
| `AnswersAlwaysFit`, `AcknowledgedIsKept` | `AnswersFit`, `AcknowledgedIsRead` | `ServicesInv` bounds the answer that is being built, for all sizes of parts and values; what an acknowledgement says of the objects is looked up again in the state it leaves. |
| `PropertyServices_proofs!TypeCorrect` | `TypeOK` | `CourseInv`: while a request is worked on, there is a device, the place is within the request, and each object begun has its results. |
| `TablesSpell` | for every type, the two lists name what the switch reads, each property once | the lists and the switches are written out separately in the code; here they are compared, type by type. |
| `AnswersAreComplete` | `AnswersComplete` | `ResultsInv`: an object's results so far are what its references up to the current place stand for, counted (`Counted`): of each property as many results as references that have reached it (`Reached`). A result adds one to both sides, because a list has no property twice (`TablesSpell`, `ReferenceEnumerated`); at the end of a reference all it stands for has been reached, at the end of the object so has every reference. Nothing that is read changes while a request is worked on, so the results still say what ReadProperty says. |

Every safety property and every action property that a run expects to hold is
proved. Three of the proofs found a model or a property wrong: `OnceOnSubnets` needs
`NoRowTwice`; `LossesFitLease` was too weak for Times-to-Live
within the safe time, where every `execute()` renews; and `KeepsItsEntry` holds
for one BBMD and one Time-to-Live only (section 4).
`AnswersComplete` supposes that each object of a request has at least one
reference (`ServicesAssumption`): the handler decodes one before it looks for the
end of the list (`h_rpm.c:266-268, 377`), and an empty list is undecodable.

Only model-checked: liveness (`AlarmReturnsToNormal`, `AckAnnounced`,
`Relisted`, `SilentDevicesAreDropped`, `ComesToRest`, `ChangesNotified`,
`ShortListsEnd`, `RecipientsGetBound`; the prover has no rule for fairness over
`ENABLED` here), and the instances of `FdNetwork` with restarts, several BBMDs or
late datagrams, of which only `DistributesSomewhere` and the types are proved.

## 6. Abstractions and what is left out

* Reals are small integers, `1.0` is the constant `One`; passes and seconds
  are counted. A time stamp is a pass number, up to
  `MaxTime`, where the clock stands still: further transitions share a stamp, as they do when
  the real clock does not advance.
* Messages are records; their encoding, lengths and rejected forms are left out where
  they change nothing. Addresses, lists and identifiers are model values.
* `BvlcForwarding` follows one broadcast at a time, and lets no copy be lost: a
  loss only takes copies away. NAT handling is off, nothing in the sources turns
  it on. The backup file can be opened. Its foreign devices are there or
  not; their leases are `Fdt`'s.
* Code without a caller in the sources is modelled as its comments and the
  other code say it is used: `bvlc_maintenance_timer` once a second (comment
  at line 176), the `bdt_...` functions by the BBMD's application, `h_cov.c` (not registered,
  `bacnet.cpp:91`) as in the stack it comes from.
* `RecipientBinding` has one notification class; the scan goes through the lists of several as
  through one longer list. An I-Am is under way for any time; a Who-Is that is
  lost is an I-Am that is lost.
* `PropertyServices`: an answer is sent before the next datagram is received, as
  the one thread does; the application's callbacks answer (a name buffer that a
  callback leaves as it was is not modelled); a client takes no more than
  MAX_APDU; the request's decoding is the library's and fails anywhere
  (`RpmUndecodable`). PROPERTY_LIST is the library's. With the
  instance of the run no OBJECT_LIST or text is too long by itself
  (`TooLong`); the proofs hold with it.
* **Not modelled**, with the reason. *Reporting*: which recipients a notification goes to is a test of
  the weekday, the time and the transition against the request, without state; and
  `Send_CEvent_Notify` hands what it encodes to the library's
  transactions. *DeviceCommunicationControl*: its password is a comparison and its duration a
  timer of the library; the handler is not registered (`bacnet.cpp:95`).
  *GetAlarmSummary*: one answer or an error from the same callbacks as
  GetEventInformation. *Event sinks*: a list of callbacks called in turn. *B/IP*: lengths
  and addresses of unicasts are data that no property here tells apart.

## 7. Plan

Done, in the order of their importance: the analog input; the Foreign Device
Table with its abstract specification; the foreign device, composed with BBMDs
over the network; recipient lists; COV; broadcasts; event information; recipient
binding; the object registry, property services and discovery.

What is left:

1. Theorems: what `KeepsItsEntry` becomes with several BBMDs and Times-to-Live:
   which registrations under way it has to except. An abstract
   specification of broadcasts that `BvlcForwarding` implements while its tables
   are settled.
2. The reporting of a notification class composed with `RecipientBinding`, once
   there is a model of the library's transactions to compose both with
   `CovSubscriptions`.

## 8. Running

    tlc -workers 2 -config FdTimely.cfg MCFdNetwork.tla
    tlapm ForeignDevices_proofs.tla

Every run ends within three minutes on two cores.
