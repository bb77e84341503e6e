------------------------ MODULE AnalogInputIntrinsic ------------------------
(***************************************************************************)
(* Intrinsic reporting of one analog input object                          *)
(* (objects/analog_input_intrinsic.cpp), driven by the once-per-second     *)
(* pass of BACnet::execute() and by AcknowledgeAlarm requests.             *)
(*                                                                         *)
(* A pass either announces an acknowledgement or runs the OUT_OF_RANGE     *)
(* algorithm and reports the transition it takes.  Both builds are         *)
(* modelled: with CERTIFICATION_SOFTWARE the limits are writable           *)
(* properties; without it they are fixed, except that the high limit       *)
(* follows the present value while the object is in alarm.                 *)
(*                                                                         *)
(* Objects share no reporting state, so one object is modelled.  Reals are *)
(* integers in a unit small enough to separate the values that matter.     *)
(***************************************************************************)
EXTENDS Integers

CONSTANTS
  Builds,           \* values of CERTIFICATION_SOFTWARE that are considered
  One,              \* 1.0 in the unit of the modelled reals
  InitHigh,         \* High_Limit of a new object in the certification build
  InitLow,          \* Low_Limit of a new object in the certification build
  PresentValues,    \* what the application's Present_Value callback returns
  Limits,           \* values written to High_Limit and Low_Limit
  Deadbands,        \* values written to Deadband
  Delays,           \* values written to Time_Delay
  EnableSets,       \* values written to Event_Enable and Ack_Required
  LimitSets,        \* values written to Limit_Enable
  NotifyTypes,      \* values written to Notify_Type
  ClassIds,         \* values of the Notification_Class property
  Classes,          \* instances of the notification class objects that exist
  MaxTime           \* bound: the clock stops here, the passes go on

Offnormal == {"HIGH_LIMIT", "LOW_LIMIT"}
EventStates == {"NORMAL"} \cup Offnormal
AckStates == EventStates \cup {"OFFNORMAL", "FAULT", "LIFE_SAFETY_ALARM"}
Transitions == {"TO_OFFNORMAL", "TO_FAULT", "TO_NORMAL"}
Times == 0 .. MaxTime

ASSUME BuildAssumption ==
  /\ Builds \subseteq BOOLEAN
  /\ One \in Nat \ {0} /\ InitHigh \in Int /\ InitLow \in Int
  /\ MaxTime \in Nat

ASSUME InputAssumption ==
  /\ PresentValues \subseteq Int /\ Limits \subseteq Int
  /\ Deadbands \subseteq Int /\ Delays \subseteq Nat
  /\ EnableSets \subseteq SUBSET Transitions
  /\ LimitSets \subseteq SUBSET {"HIGH", "LOW"}
  /\ NotifyTypes \subseteq {"ALARM", "EVENT"}
  /\ Classes \subseteq ClassIds

VARIABLES
  certification,    \* TRUE iff built with CERTIFICATION_SOFTWARE; never changes
  settings,         \* the properties that configure the algorithm
  detection,        \* Event_Detection_Enable
  ackRequired,      \* Ack_Required of each notification class object
  eventState,       \* Event_State
  remaining,        \* remaining_time_delay
  lastOffnormal,    \* last_offnormal_event_state
  acked,            \* Acked_Transitions[t].bIsAcked
  ackStamp,         \* Acked_Transitions[t].Time_Stamp
  eventStamp,       \* Event_Time_Stamps[t], 0 for the wildcard
  ackNotify,        \* the AckNotification that waits for the next pass
  now,              \* the clock, in passes
  out,              \* the PDU sent by the last step
  \* history, read by the properties only
  outstanding,      \* notifications that asked for an ack and have none
  streak            \* how long the present value has called for one state

algorithm == <<eventState, remaining, lastOffnormal>>
acks == <<acked, ackStamp, ackNotify, outstanding>>
vars == <<certification, settings, detection, ackRequired, algorithm, acks,
          eventStamp, now, out, streak>>

-----------------------------------------------------------------------------
(* Types and messages *)

Settings ==
  [timeDelay : Nat, highLimit : Int, lowLimit : Int, deadband : Int,
   limitEnable : SUBSET {"HIGH", "LOW"}, eventEnable : SUBSET Transitions,
   notifyType : {"ALARM", "EVENT"}, class : ClassIds]

NoPdu == [kind |-> "none"]
EventNotification(from, to) ==
  [kind |-> "EventNotification", from |-> from, to |-> to]
AckNotification(to) == [kind |-> "AckNotification", to |-> to]
SimpleAck == [kind |-> "SimpleAck"]
ErrorPdu(code) == [kind |-> "Error", code |-> code]
Abort == [kind |-> "Abort"]

Pdus ==
  {NoPdu, SimpleAck, Abort}
    \cup [kind : {"EventNotification"}, from : EventStates, to : EventStates]
    \cup [kind : {"AckNotification"}, to : AckStates]
    \cup [kind : {"Error"}, code : {"NO_ALARM_CONFIGURED",
                                    "INVALID_TIME_STAMP",
                                    "INVALID_EVENT_STATE"}]

TypeOK ==
  /\ certification \in Builds
  /\ settings \in Settings
  /\ detection \in BOOLEAN
  /\ ackRequired \in [Classes -> SUBSET Transitions]
  /\ eventState \in EventStates
  /\ remaining \in Nat
  /\ lastOffnormal \in EventStates
  /\ acked \in [Transitions -> BOOLEAN]
  /\ ackStamp \in [Transitions -> Times]
  /\ eventStamp \in [Transitions -> Times]
  /\ ackNotify \in [pending : BOOLEAN, state : AckStates]
  /\ now \in Times
  /\ out \in Pdus
  /\ outstanding \in SUBSET [transition : Transitions, at : Times]
  /\ streak \in [zone : EventStates, count : Nat]

-----------------------------------------------------------------------------
(* The object as analog_input_intrinsic_init() leaves it. *)

InitialSettings(c, detect) ==
  IF certification
  THEN [timeDelay |-> 0, highLimit |-> InitHigh, lowLimit |-> InitLow,
        deadband |-> 0, limitEnable |-> {"HIGH", "LOW"},
        eventEnable |-> {"TO_OFFNORMAL", "TO_NORMAL"},
        notifyType |-> "ALARM", class |-> c]
  ELSE [timeDelay |-> 0, highLimit |-> 0, lowLimit |-> 0,
        deadband |-> IF detect THEN -One ELSE 0,
        limitEnable |-> IF detect THEN {"HIGH"} ELSE {},
        eventEnable |-> IF detect THEN {"TO_OFFNORMAL"} ELSE {},
        notifyType |-> "ALARM", class |-> c]

\* notification_class_init(): Ack_Required of a new notification class.
InitialAckRequired ==
  IF certification THEN {"TO_OFFNORMAL", "TO_NORMAL"} ELSE {"TO_OFFNORMAL"}

Init ==
  /\ certification \in Builds
  /\ detection \in BOOLEAN
  /\ \E c \in ClassIds : settings = InitialSettings(c, detection)
  /\ ackRequired = [c \in Classes |-> InitialAckRequired]
  /\ eventState = "NORMAL" /\ remaining = 0 /\ lastOffnormal = "NORMAL"
  /\ acked = [t \in Transitions |-> TRUE]
  /\ ackStamp = [t \in Transitions |-> 0]
  /\ eventStamp = [t \in Transitions |-> 0]
  /\ ackNotify = [pending |-> FALSE, state |-> "NORMAL"]
  /\ now = 0 /\ out = NoPdu
  /\ outstanding = {} /\ streak = [zone |-> "NORMAL", count |-> 0]

-----------------------------------------------------------------------------
(* The OUT_OF_RANGE algorithm *)

High == "HIGH" \in settings.limitEnable
Low == "LOW" \in settings.limitEnable
HighAlarm(pv) == High /\ pv > settings.highLimit
LowAlarm(pv) == Low /\ pv < settings.lowLimit

\* Fault: an alarm at the other limit is taken for a return to normal.
HeadingThroughNormal(pv) ==
  CASE eventState = "NORMAL" ->
         IF HighAlarm(pv) THEN "HIGH_LIMIT"
         ELSE IF LowAlarm(pv) THEN "LOW_LIMIT" ELSE "NORMAL"
    [] eventState = "HIGH_LIMIT" ->
         IF pv < settings.highLimit - settings.deadband
         THEN "NORMAL" ELSE "HIGH_LIMIT"
    [] eventState = "LOW_LIMIT" ->
         IF pv > settings.lowLimit + settings.deadband
         THEN "NORMAL" ELSE "LOW_LIMIT"

\* The event state the algorithm is heading for, one arm of its switch each.
Heading(pv) ==
  CASE eventState = "NORMAL" ->
         IF HighAlarm(pv) THEN "HIGH_LIMIT"
         ELSE IF LowAlarm(pv) THEN "LOW_LIMIT" ELSE "NORMAL"
    [] eventState = "HIGH_LIMIT" ->
         IF LowAlarm(pv) THEN "LOW_LIMIT"
         ELSE IF pv < settings.highLimit - settings.deadband
              THEN "NORMAL" ELSE "HIGH_LIMIT"
    [] eventState = "LOW_LIMIT" ->
         IF HighAlarm(pv) THEN "HIGH_LIMIT"
         ELSE IF pv > settings.lowLimit + settings.deadband
              THEN "NORMAL" ELSE "LOW_LIMIT"

\* The alarm's own limit has been disabled.
LimitDisabled ==
  \/ eventState = "HIGH_LIMIT" /\ ~High
  \/ eventState = "LOW_LIMIT" /\ ~Low

\* A disabled alarm is left at once, whatever the delay.
DropDisabledAlarm ==
  /\ LimitDisabled
  /\ eventState' = "NORMAL"
  /\ UNCHANGED <<remaining, lastOffnormal>>

\* "value of the object is still in the same event state"
StayInState(pv) ==
  /\ ~LimitDisabled /\ Heading(pv) = eventState
  /\ remaining' = settings.timeDelay
  /\ lastOffnormal' = IF eventState = "NORMAL" THEN lastOffnormal ELSE eventState
  /\ UNCHANGED eventState

CountDown(pv) ==
  /\ ~LimitDisabled /\ Heading(pv) # eventState /\ remaining > 0
  /\ remaining' = remaining - 1
  /\ UNCHANGED <<eventState, lastOffnormal>>

\* remaining_time_delay keeps its 0: the next state starts with no delay.
Transit(pv) ==
  /\ ~LimitDisabled /\ Heading(pv) # eventState /\ remaining = 0
  /\ eventState' = Heading(pv)
  /\ UNCHANGED <<remaining, lastOffnormal>>

OutOfRange(pv) ==
  DropDisabledAlarm \/ StayInState(pv) \/ CountDown(pv) \/ Transit(pv)

-----------------------------------------------------------------------------
(* Reporting a transition *)

TransitionTo(state) ==
  CASE state \in Offnormal \cup {"OFFNORMAL"} -> "TO_OFFNORMAL"
    [] state = "FAULT" -> "TO_FAULT"
    [] OTHER -> "TO_NORMAL"

\* event_data.ackRequired, filled in by the notification class; the local
\* stays uninitialised when no notification class has this instance number.
AckRequiredChoices(t) ==
  IF settings.class \in Classes THEN {t \in ackRequired[settings.class]}
                                ELSE BOOLEAN

\* notificationClassCommonReportingFunction() sends only through a class
\* that exists; what each recipient is sent is left to that component.
SendNotification(pdu) ==
  out' = IF settings.class \in Classes THEN pdu ELSE NoPdu

\* Fault: the transition is unacknowledged whether or not an ack is required.
RequestAckAlways(t, required) ==
  /\ acked' = [acked EXCEPT ![t] = FALSE]
  /\ ackStamp' = [ackStamp EXCEPT ![t] = now']
  /\ outstanding' = IF required /\ settings.class \in Classes
                    THEN outstanding \cup {[transition |-> t, at |-> now']}
                    ELSE outstanding

\* The acknowledgement state changes after the notifications have been sent.
RequestAck(t, required) ==
  IF required
  THEN /\ acked' = [acked EXCEPT ![t] = FALSE]
       /\ ackStamp' = [ackStamp EXCEPT ![t] = now']
       /\ outstanding' = IF settings.class \in Classes
                         THEN outstanding \cup {[transition |-> t, at |-> now']}
                         ELSE outstanding
  ELSE UNCHANGED <<acked, ackStamp, outstanding>>

\* Fault: Event_Time_Stamps is not updated by a return to normal.
NotifyTransitionUnstamped ==
  LET t == TransitionTo(eventState') IN
  /\ eventState' # eventState /\ t \in settings.eventEnable
  /\ eventStamp' = IF t = "TO_NORMAL" THEN eventStamp
                   ELSE [eventStamp EXCEPT ![t] = now']
  /\ SendNotification(EventNotification(eventState, eventState'))
  /\ \E required \in AckRequiredChoices(t) : RequestAck(t, required)
  /\ UNCHANGED settings

NotifyTransition ==
  LET t == TransitionTo(eventState') IN
  /\ eventState' # eventState /\ t \in settings.eventEnable
  /\ eventStamp' = [eventStamp EXCEPT ![t] = now']
  /\ SendNotification(EventNotification(eventState, eventState'))
  /\ \E required \in AckRequiredChoices(t) : RequestAck(t, required)
  /\ UNCHANGED settings

\* Fault: the high limit stays where it is.
FollowNothing(pv) == FALSE

\* Nothing to report.  Without CERTIFICATION_SOFTWARE the high limit follows
\* the present value of an alarm, so that the alarm can end.
FollowPresentValue(pv) ==
  ~certification /\ settings.highLimit < pv /\ eventState' # "NORMAL"

NoNotification(pv) ==
  /\ eventState' = eventState
       \/ TransitionTo(eventState') \notin settings.eventEnable
  /\ settings' = IF FollowPresentValue(pv)
                 THEN [settings EXCEPT !.highLimit = pv] ELSE settings
  /\ out' = NoPdu
  /\ UNCHANGED <<acked, ackStamp, outstanding, eventStamp>>

-----------------------------------------------------------------------------
(* History: the zone the present value lies in, and for how many passes *)

SaneSettings ==
  settings.deadband >= 0 /\ settings.lowLimit <= settings.highLimit

InHighZone(pv) == HighAlarm(pv)
InLowZone(pv) == LowAlarm(pv)
InNormalZone(pv) ==
  /\ ~HighAlarm(pv) /\ ~LowAlarm(pv)
  /\ High => pv < settings.highLimit - settings.deadband
  /\ Low => pv > settings.lowLimit + settings.deadband

Zone(pv) == IF InHighZone(pv) THEN "HIGH_LIMIT"
            ELSE IF InLowZone(pv) THEN "LOW_LIMIT" ELSE "NORMAL"
InSomeZone(pv) == InHighZone(pv) \/ InLowZone(pv) \/ InNormalZone(pv)

\* One more pass in the same zone; the count stops one above the delay.
Longer(n) == IF n > settings.timeDelay THEN n ELSE n + 1
NoStreak == [streak EXCEPT !.count = 0]

\* A pass that drops a disabled alarm compares no limit, and in the band
\* between two zones the algorithm keeps the state it is in.
RecordZone(pv) ==
  streak' = IF LimitDisabled \/ ~SaneSettings \/ ~InSomeZone(pv)
              \/ settings' # settings
            THEN NoStreak
            ELSE [zone |-> Zone(pv),
                  count |-> IF Zone(pv) = streak.zone THEN Longer(streak.count)
                                                      ELSE 1]

-----------------------------------------------------------------------------
(* The pass: analog_input_intrinsic_reporting() *)

Tick == now' = IF now < MaxTime THEN now + 1 ELSE now

\* Fault: the flag is cleared but SendNotify is not set.
AnnounceNothing ==
  /\ ackNotify.pending
  /\ ackNotify' = [ackNotify EXCEPT !.pending = FALSE]
  /\ out' = NoPdu
  /\ UNCHANGED <<settings, algorithm, acked, ackStamp, outstanding,
                 eventStamp, streak>>

\* The whole pass is spent on the AckNotification.
AnnounceAck ==
  /\ ackNotify.pending
  /\ ackNotify' = [ackNotify EXCEPT !.pending = FALSE]
  /\ SendNotification(AckNotification(ackNotify.state))
  /\ UNCHANGED <<settings, algorithm, acked, ackStamp, outstanding,
                 eventStamp, streak>>

Evaluate(pv) ==
  /\ ~ackNotify.pending
  /\ OutOfRange(pv)
  /\ NotifyTransition \/ NoNotification(pv)
  /\ RecordZone(pv)
  /\ UNCHANGED ackNotify

\* deviceLocalReporting() skips an object whose detection is disabled.
Pass(pv) ==
  /\ detection
  /\ Tick
  /\ AnnounceAck \/ Evaluate(pv)
  /\ UNCHANGED <<certification, detection, ackRequired>>

IdlePass ==
  /\ ~detection
  /\ Tick
  /\ out' = NoPdu
  /\ UNCHANGED <<certification, settings, detection, ackRequired, algorithm,
                 acks, eventStamp, streak>>

-----------------------------------------------------------------------------
(* AcknowledgeAlarm: handler_alarm_ack() calling analog_input_alarm_ack() *)

\* A stamp of another tag than TIME_STAMP_DATETIME.
NotADateTime == -1

\* Fault: any date and time will do.
StampNeverCompared(t, stamp) == stamp = NotADateTime

StampRejected(t, stamp) == stamp = NotADateTime \/ ackStamp[t] > stamp

\* The specific offnormal states must be the one the algorithm last stayed in.
StateRejected(state) ==
  state \in Offnormal /\ state # lastOffnormal

AckAnswer(state, stamp) ==
  IF ~detection THEN ErrorPdu("NO_ALARM_CONFIGURED")
  ELSE IF state = "LIFE_SAFETY_ALARM" THEN Abort
  ELSE IF StampRejected(TransitionTo(state), stamp)
       THEN ErrorPdu("INVALID_TIME_STAMP")
  ELSE IF StateRejected(state) THEN ErrorPdu("INVALID_EVENT_STATE")
  ELSE SimpleAck

AcceptAck(state, stamp) ==
  LET t == TransitionTo(state) IN
  /\ AckAnswer(state, stamp) = SimpleAck
  /\ acked' = [acked EXCEPT ![t] = TRUE]
  /\ ackNotify' = [pending |-> TRUE, state |-> state]
  /\ outstanding' = {n \in outstanding : n.transition # t \/ n.at > stamp}
  /\ UNCHANGED ackStamp

RejectAck(state, stamp) ==
  AckAnswer(state, stamp) # SimpleAck /\ UNCHANGED acks

AlarmAck(state, stamp) ==
  /\ AcceptAck(state, stamp) \/ RejectAck(state, stamp)
  /\ out' = AckAnswer(state, stamp)
  /\ UNCHANGED <<certification, settings, detection, ackRequired, algorithm,
                 eventStamp, now, streak>>

-----------------------------------------------------------------------------
(* Writable properties: analog_input_intrinsic_write_property() *)

Configure(new) ==
  /\ settings' = new
  /\ out' = NoPdu
  /\ UNCHANGED <<certification, detection, ackRequired, eventState,
                 lastOffnormal, acks, eventStamp, now>>

\* A write that changes what the algorithm compares.
Retune(new) ==
  certification /\ Configure(new) /\ streak' = NoStreak

\* The one write that also restarts the delay.
WriteTimeDelay(d) ==
  Retune([settings EXCEPT !.timeDelay = d]) /\ remaining' = d

WriteHighLimit(v) ==
  Retune([settings EXCEPT !.highLimit = v]) /\ UNCHANGED remaining

WriteLowLimit(v) ==
  Retune([settings EXCEPT !.lowLimit = v]) /\ UNCHANGED remaining

WriteDeadband(v) ==
  Retune([settings EXCEPT !.deadband = v]) /\ UNCHANGED remaining

WriteLimitEnable(S) ==
  Retune([settings EXCEPT !.limitEnable = S]) /\ UNCHANGED remaining

WriteEventEnable(S) ==
  /\ certification
  /\ Configure([settings EXCEPT !.eventEnable = S])
  /\ UNCHANGED <<remaining, streak>>

WriteNotificationClass(c) ==
  /\ certification
  /\ Configure([settings EXCEPT !.class = c])
  /\ UNCHANGED <<remaining, streak>>

\* Writable in both builds.
WriteNotifyType(k) ==
  /\ Configure([settings EXCEPT !.notifyType = k])
  /\ UNCHANGED <<remaining, streak>>

\* notification_class_write_property(), PROP_ACK_REQUIRED, well-formed.
WriteAckRequired(c, S) ==
  /\ ackRequired' = [ackRequired EXCEPT ![c] = S]
  /\ out' = NoPdu
  /\ UNCHANGED <<certification, settings, detection, algorithm, acks,
                 eventStamp, now, streak>>

\* The application's Event_Detection_Enable callback changes its answer.
SwitchDetection ==
  /\ certification
  /\ detection' = ~detection /\ out' = NoPdu
  /\ UNCHANGED <<certification, settings, ackRequired, algorithm, acks,
                 eventStamp, now, streak>>

-----------------------------------------------------------------------------
(* Next-state relation *)

Write ==
  \/ \E d \in Delays : WriteTimeDelay(d)
  \/ \E v \in Limits : WriteHighLimit(v) \/ WriteLowLimit(v)
  \/ \E v \in Deadbands : WriteDeadband(v)
  \/ \E S \in LimitSets : WriteLimitEnable(S)
  \/ \E S \in EnableSets : WriteEventEnable(S)
  \/ \E c \in ClassIds : WriteNotificationClass(c)
  \/ \E k \in NotifyTypes : WriteNotifyType(k)
  \/ \E c \in Classes, S \in EnableSets : WriteAckRequired(c, S)

AnyPass == IdlePass \/ \E pv \in PresentValues : Pass(pv)

Request ==
  \E state \in AckStates, stamp \in Times \cup {NotADateTime} :
    AlarmAck(state, stamp)

Next == AnyPass \/ Request \/ Write \/ SwitchDetection

Spec == Init /\ [][Next]_vars

\* The application keeps calling execute(), so passes keep happening; and no
\* client acknowledges before every single pass for ever, which would spend
\* each of them on an AckNotification.
EvaluatingPass == \E pv \in PresentValues : Pass(pv) /\ Evaluate(pv)

FairSpec == Spec /\ WF_vars(AnyPass) /\ SF_vars(EvaluatingPass)

-----------------------------------------------------------------------------
(* Properties *)

\* With sane settings, a present value that has stayed in one zone for more
\* than Time_Delay evaluated passes has brought the object to that zone's
\* event state, although one countdown is shared by all the conditions, is
\* not restarted by a transition, and can be cut short by a switch of zones.
SettlesWithinDelay ==
  SaneSettings /\ streak.count > settings.timeDelay
    => eventState = streak.zone

\* Its inductive form: the passes still to wait and the passes already spent
\* in the zone never add up to more than the delay.
DelayBudget ==
  /\ remaining <= settings.timeDelay
  /\ SaneSettings /\ streak.count > 0 /\ eventState # streak.zone
       => remaining + streak.count <= settings.timeDelay

\* A transition that asked its recipients for an acknowledgement is shown as
\* unacknowledged until a request that covers its time stamp is accepted: an
\* acknowledgement of an older alarm, delayed or repeated, never clears it.
UnackedUntilCovered ==
  \A n \in outstanding : ~acked[n.transition]

\* The reverse, for objects whose notification class has existed throughout:
\* nobody is shown an unacknowledged transition that no recipient was asked to
\* acknowledge.
ClassAlwaysKnown ==
  settings.class \in Classes /\ (~certification \/ Classes = ClassIds)

NoPhantomUnacked ==
  ClassAlwaysKnown =>
    \A t \in Transitions :
      ~acked[t] => \E n \in outstanding : n.transition = t

\* Inductive strengthening of UnackedUntilCovered: the stored stamp dominates
\* every outstanding notification of its transition, and none is dated ahead.
StampsDominate ==
  \A n \in outstanding : n.at <= ackStamp[n.transition] /\ n.at <= now

\* The time stamps GetEventInformation reports are recent enough to
\* acknowledge with: the acknowledgement stamp never overtakes them.
ReportedStampSuffices ==
  \A t \in Transitions : ackStamp[t] <= eventStamp[t]

\* Fault: only active alarms are listed.
EventListedIfActive == detection /\ eventState # "NORMAL"

\* GetEventInformation: the object is listed while it is in alarm or has an
\* unacknowledged transition (analog_input_event_information()).
EventListed ==
  detection /\ (eventState # "NORMAL" \/ \E t \in Transitions : ~acked[t])

\* GetAlarmSummary lists the object (analog_input_alarm_summary()).
AlarmListed == eventState # "NORMAL" /\ settings.notifyType = "ALARM"

\* A client that polls GetEventInformation misses no alarm that waits for an
\* acknowledgement and no active alarm of the summary.
PollingMissesNothing ==
  detection => (outstanding # {} \/ AlarmListed => EventListed)

\* An accepted acknowledgement is announced to the recipients by a later pass
\* (of a class that exists, while detection stays enabled).
AckAnnounced ==
  ackNotify.pending
    ~> \/ out.kind = "AckNotification"
       \/ ~detection \/ settings.class \notin Classes

\* Comment before line 782: without CERTIFICATION_SOFTWARE the state returns
\* to normal after an alarm, even if the present value never comes down.
AlarmReturnsToNormal ==
  ~certification => (eventState = "HIGH_LIMIT" ~> eventState = "NORMAL")

=============================================================================
