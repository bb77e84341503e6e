-------------------- MODULE AnalogInputIntrinsic_proofs ---------------------
(***************************************************************************)
(* Machine-checked proofs about AnalogInputIntrinsic, for every value of   *)
(* its constants: type correctness, the delay budget and the settling time *)
(* it gives, and the life of an unacknowledged transition.                 *)
(***************************************************************************)
EXTENDS AnalogInputIntrinsic, TLAPS

USE BuildAssumption, InputAssumption

LEMMA InitType == Init => TypeOK
  BY DEF Init, TypeOK, InitialSettings, InitialAckRequired, Settings,
     EventStates, Offnormal, AckStates, Transitions, Times, Pdus, NoPdu

\* The algorithm leaves the three variables it writes well-typed.
LEMMA OutOfRangeType ==
  ASSUME TypeOK, NEW pv \in PresentValues, OutOfRange(pv)
  PROVE  /\ eventState' \in EventStates
         /\ remaining' \in Nat
         /\ lastOffnormal' \in EventStates
  BY DEF TypeOK, OutOfRange, DropDisabledAlarm, StayInState, CountDown,
     Transit, Heading, Settings, EventStates, Offnormal

LEMMA TransitionType ==
  ASSUME NEW state PROVE TransitionTo(state) \in Transitions
  BY DEF TransitionTo, Transitions

LEMMA TickType ==
  ASSUME now \in Times, Tick
  PROVE  now' \in Times /\ now' >= now
  BY DEF Tick, Times

LEMMA NotifyType ==
  ASSUME TypeOK, NEW pv \in PresentValues, OutOfRange(pv), now' \in Times,
         NotifyTransition \/ NoNotification(pv)
  PROVE  /\ settings' \in Settings
         /\ acked' \in [Transitions -> BOOLEAN]
         /\ ackStamp' \in [Transitions -> Times]
         /\ eventStamp' \in [Transitions -> Times]
         /\ out' \in Pdus
         /\ outstanding' \in SUBSET [transition : Transitions, at : Times]
<1>1. eventState \in EventStates /\ eventState' \in EventStates
  BY OutOfRangeType DEF TypeOK
<1>2. CASE NotifyTransition
  <2> DEFINE t == TransitionTo(eventState')
  <2>1. t \in Transitions
    BY TransitionType
  <2>2. PICK required \in AckRequiredChoices(t) : RequestAck(t, required)
    BY <1>2 DEF NotifyTransition
  <2>3. EventNotification(eventState, eventState') \in Pdus
    BY <1>1 DEF EventNotification, Pdus
  <2>4. out' \in Pdus
    BY <1>2, <2>3 DEF NotifyTransition, SendNotification, Pdus
  <2>5. settings' \in Settings /\ eventStamp' \in [Transitions -> Times]
    BY <1>2, <2>1 DEF NotifyTransition, TypeOK
  <2>6. /\ acked' \in [Transitions -> BOOLEAN]
        /\ ackStamp' \in [Transitions -> Times]
        /\ outstanding' \in SUBSET [transition : Transitions, at : Times]
    <3> HIDE DEF t
    <3>1. CASE required
      <4>1. acked' \in [Transitions -> BOOLEAN]
        BY <2>1, <2>2, <3>1 DEF RequestAck, TypeOK
      <4>2. ackStamp' \in [Transitions -> Times]
        BY <2>1, <2>2, <3>1 DEF RequestAck, TypeOK
      <4>3. [transition |-> t, at |-> now'] \in [transition : Transitions, at : Times]
        BY <2>1
      <4>4. outstanding' \in SUBSET [transition : Transitions, at : Times]
        BY <2>2, <3>1, <4>3 DEF RequestAck, TypeOK
      <4> QED BY <4>1, <4>2, <4>4
    <3>2. CASE ~required
      BY <2>2, <3>2 DEF RequestAck, TypeOK
    <3> QED BY <3>1, <3>2
  <2> QED BY <2>4, <2>5, <2>6
<1>3. CASE NoNotification(pv)
  BY <1>3 DEF NoNotification, TypeOK, Settings, Pdus
<1> QED BY <1>2, <1>3

LEMMA PassType ==
  ASSUME TypeOK, NEW pv \in PresentValues, Pass(pv)
  PROVE  TypeOK'
<1>1. now' \in Times
  BY TickType DEF Pass, TypeOK
<1>2. CASE AnnounceAck
  <2>1. out' \in Pdus
    BY <1>2 DEF AnnounceAck, SendNotification, AckNotification, Pdus, TypeOK
  <2> QED BY <1>1, <1>2, <2>1
       DEF AnnounceAck, Pass, TypeOK, algorithm
<1>3. CASE Evaluate(pv)
  <2>1. OutOfRange(pv) /\ (NotifyTransition \/ NoNotification(pv))
    BY <1>3 DEF Evaluate
  <2>2. streak' \in [zone : EventStates, count : Nat]
    BY <1>3 DEF Evaluate, RecordZone, NoStreak, Longer, Zone, TypeOK,
       Settings, EventStates, Offnormal
  <2> QED BY <1>1, <1>3, <2>1, <2>2, OutOfRangeType, NotifyType
       DEF Evaluate, Pass, TypeOK
<1> QED BY <1>2, <1>3 DEF Pass

LEMMA AlarmAckType ==
  ASSUME TypeOK, NEW state \in AckStates,
         NEW stamp \in Times \cup {NotADateTime}, AlarmAck(state, stamp)
  PROVE  TypeOK'
<1>1. out' \in Pdus
  BY DEF AlarmAck, AckAnswer, ErrorPdu, Pdus
<1>2. CASE AcceptAck(state, stamp)
  BY <1>1, <1>2, TransitionType DEF AlarmAck, AcceptAck, TypeOK, algorithm
<1>3. CASE RejectAck(state, stamp)
  BY <1>1, <1>3 DEF AlarmAck, RejectAck, TypeOK, algorithm, acks
<1> QED BY <1>2, <1>3 DEF AlarmAck

LEMMA WriteType == TypeOK /\ Write => TypeOK'
<1> SUFFICES ASSUME TypeOK, Write PROVE TypeOK'
  OBVIOUS
<1> USE DEF TypeOK, Configure, Retune, NoStreak, acks, Pdus, Settings
<1>1. ASSUME NEW d \in Delays, WriteTimeDelay(d) PROVE TypeOK'
  BY <1>1 DEF WriteTimeDelay
<1>2. ASSUME NEW v \in Limits, WriteHighLimit(v) \/ WriteLowLimit(v)
      PROVE  TypeOK'
  BY <1>2 DEF WriteHighLimit, WriteLowLimit
<1>3. ASSUME NEW v \in Deadbands, WriteDeadband(v) PROVE TypeOK'
  BY <1>3 DEF WriteDeadband
<1>4. ASSUME NEW S \in LimitSets, WriteLimitEnable(S) PROVE TypeOK'
  BY <1>4 DEF WriteLimitEnable
<1>5. ASSUME NEW S \in EnableSets, WriteEventEnable(S) PROVE TypeOK'
  BY <1>5 DEF WriteEventEnable
<1>6. ASSUME NEW c \in ClassIds, WriteNotificationClass(c) PROVE TypeOK'
  BY <1>6 DEF WriteNotificationClass
<1>7. ASSUME NEW k \in NotifyTypes, WriteNotifyType(k) PROVE TypeOK'
  BY <1>7 DEF WriteNotifyType
<1>8. ASSUME NEW c \in Classes, NEW S \in EnableSets, WriteAckRequired(c, S)
      PROVE  TypeOK'
  BY <1>8 DEF WriteAckRequired, algorithm
<1> QED
  BY <1>1, <1>2, <1>3, <1>4, <1>5, <1>6, <1>7, <1>8 DEF Write

LEMMA NextType == TypeOK /\ [Next]_vars => TypeOK'
<1> SUFFICES ASSUME TypeOK, [Next]_vars PROVE TypeOK'
  OBVIOUS
<1>1. CASE AnyPass
  <2>1. CASE IdlePass
    BY <2>1, TickType DEF IdlePass, TypeOK, algorithm, acks, Pdus
  <2> QED BY <1>1, <2>1, PassType DEF AnyPass
<1>2. CASE Request
  BY <1>2, AlarmAckType DEF Request
<1>3. CASE Write
  BY <1>3, WriteType
<1>4. CASE SwitchDetection
  BY <1>4 DEF SwitchDetection, TypeOK, algorithm, acks, Pdus
<1>5. CASE UNCHANGED vars
  BY <1>5 DEF vars, algorithm, acks, TypeOK
<1> QED BY <1>1, <1>2, <1>3, <1>4, <1>5 DEF Next

\* Every reachable state of the object, its configuration and the messages it
\* sends is well-typed.
THEOREM TypeCorrect == Spec => []TypeOK
  BY InitType, NextType, PTL DEF Spec

-----------------------------------------------------------------------------
(* The delay *)

\* With sane settings the algorithm heads for the zone of the present value,
\* whichever state it is in.
LEMMA HeadingIsZone ==
  ASSUME TypeOK, SaneSettings, ~LimitDisabled,
         NEW pv \in PresentValues, InSomeZone(pv)
  PROVE  Heading(pv) = Zone(pv)
<1> pv \in Int /\ settings \in Settings
  BY DEF TypeOK
<1> USE DEF Settings, SaneSettings, LimitDisabled, Heading, Zone, InSomeZone,
            InHighZone, InLowZone, InNormalZone, HighAlarm, LowAlarm
<1>1. CASE eventState = "NORMAL"
  BY <1>1
<1>2. CASE eventState = "HIGH_LIMIT"
  BY <1>2
<1>3. CASE eventState = "LOW_LIMIT"
  BY <1>3
<1> QED BY <1>1, <1>2, <1>3 DEF TypeOK, EventStates, Offnormal

LEMMA EvaluateBudget ==
  ASSUME TypeOK, DelayBudget, NEW pv \in PresentValues, Evaluate(pv)
  PROVE  DelayBudget'
<1>1. OutOfRange(pv) /\ RecordZone(pv)
  BY DEF Evaluate
<1>2. settings'.timeDelay = settings.timeDelay
  BY DEF Evaluate, NotifyTransition, NoNotification, TypeOK, Settings
<1>3. settings.timeDelay \in Nat /\ remaining \in Nat /\ streak.count \in Nat
  BY DEF TypeOK, Settings
<1>4. remaining <= settings.timeDelay
  BY DEF DelayBudget
<1>5. remaining' \in Nat /\ remaining' <= settings.timeDelay
  BY <1>1, <1>3, <1>4
     DEF OutOfRange, DropDisabledAlarm, StayInState, CountDown, Transit
<1>6. CASE LimitDisabled \/ ~SaneSettings \/ ~InSomeZone(pv)
             \/ settings' # settings
  <2>1. streak'.count = 0
    BY <1>1, <1>6 DEF RecordZone, NoStreak, TypeOK
  <2> QED BY <1>2, <1>5, <2>1 DEF DelayBudget
<1>7. CASE /\ ~LimitDisabled /\ SaneSettings /\ InSomeZone(pv)
           /\ settings' = settings
  <2>1. Heading(pv) = Zone(pv) /\ streak'.zone = Zone(pv)
    BY <1>1, <1>7, HeadingIsZone DEF RecordZone
  <2>2. /\ streak'.count \in Nat
        /\ \/ streak'.count <= 1
           \/ streak.zone = Zone(pv) /\ streak'.count <= streak.count + 1
    BY <1>1, <1>3, <1>7 DEF RecordZone, Longer
  <2>3. CASE StayInState(pv) \/ Transit(pv)
    <3>1. eventState' = streak'.zone
      BY <2>1, <2>3 DEF StayInState, Transit
    <3> QED BY <1>2, <1>5, <3>1 DEF DelayBudget
  <2>4. CASE CountDown(pv)
    <3>1. remaining' = remaining - 1 /\ eventState # Zone(pv)
      BY <2>1, <2>4 DEF CountDown
    <3>2. remaining' + streak'.count <= settings.timeDelay
      <4>1. CASE streak'.count <= 1
        BY <1>3, <1>4, <2>2, <3>1, <4>1
      <4>2. CASE streak.zone = Zone(pv) /\ streak'.count <= streak.count + 1
        <5>1. streak.count > 0 => remaining + streak.count <= settings.timeDelay
          BY <1>7, <3>1, <4>2 DEF DelayBudget
        <5> QED BY <1>3, <1>4, <2>2, <3>1, <4>2, <5>1
      <4> QED BY <2>2, <4>1, <4>2
    <3> QED BY <1>2, <1>5, <3>2 DEF DelayBudget
  <2>5. ~DropDisabledAlarm
    BY <1>7 DEF DropDisabledAlarm
  <2> QED BY <1>1, <2>3, <2>4, <2>5 DEF OutOfRange
<1> QED BY <1>6, <1>7

LEMMA WriteBudget ==
  ASSUME TypeOK, DelayBudget, Write
  PROVE  DelayBudget'
<1> USE DEF TypeOK, DelayBudget, Configure, Retune, NoStreak, Settings,
            SaneSettings
<1>1. ASSUME NEW d \in Delays, WriteTimeDelay(d) PROVE DelayBudget'
  BY <1>1 DEF WriteTimeDelay
<1>2. ASSUME NEW v \in Limits, WriteHighLimit(v) \/ WriteLowLimit(v)
      PROVE  DelayBudget'
  BY <1>2 DEF WriteHighLimit, WriteLowLimit
<1>3. ASSUME NEW v \in Deadbands, WriteDeadband(v) PROVE DelayBudget'
  BY <1>3 DEF WriteDeadband
<1>4. ASSUME NEW S \in LimitSets, WriteLimitEnable(S) PROVE DelayBudget'
  BY <1>4 DEF WriteLimitEnable
<1>5. ASSUME NEW S \in EnableSets, WriteEventEnable(S) PROVE DelayBudget'
  BY <1>5 DEF WriteEventEnable
<1>6. ASSUME NEW c \in ClassIds, WriteNotificationClass(c) PROVE DelayBudget'
  BY <1>6 DEF WriteNotificationClass
<1>7. ASSUME NEW k \in NotifyTypes, WriteNotifyType(k) PROVE DelayBudget'
  BY <1>7 DEF WriteNotifyType
<1>8. ASSUME NEW c \in Classes, NEW S \in EnableSets, WriteAckRequired(c, S)
      PROVE  DelayBudget'
  BY <1>8 DEF WriteAckRequired, algorithm
<1> QED
  BY <1>1, <1>2, <1>3, <1>4, <1>5, <1>6, <1>7, <1>8 DEF Write

LEMMA NextBudget == TypeOK /\ DelayBudget /\ [Next]_vars => DelayBudget'
<1> SUFFICES ASSUME TypeOK, DelayBudget, [Next]_vars PROVE DelayBudget'
  OBVIOUS
<1> USE DEF DelayBudget, SaneSettings, algorithm
<1>1. CASE IdlePass
  BY <1>1 DEF IdlePass
<1>2. ASSUME NEW pv \in PresentValues, Pass(pv) PROVE DelayBudget'
  <2>1. CASE AnnounceAck
    BY <2>1 DEF AnnounceAck
  <2>2. CASE Evaluate(pv)
    BY <2>2, EvaluateBudget
  <2> QED BY <1>2, <2>1, <2>2 DEF Pass
<1>3. CASE Request
  BY <1>3 DEF Request, AlarmAck
<1>4. CASE Write
  BY <1>4, WriteBudget
<1>5. CASE SwitchDetection
  BY <1>5 DEF SwitchDetection
<1>6. CASE UNCHANGED vars
  BY <1>6 DEF vars
<1> QED BY <1>1, <1>2, <1>3, <1>4, <1>5, <1>6 DEF Next, AnyPass

\* The passes still to wait and those already spent in the present value's
\* zone never exceed Time_Delay.
THEOREM BudgetHolds == Spec => []DelayBudget
<1>1. Init => DelayBudget
  BY DEF Init, DelayBudget, InitialSettings
<1> QED BY <1>1, TypeCorrect, NextBudget, PTL DEF Spec

\* A present value that stays in a zone for more than Time_Delay evaluated
\* passes has brought the object to that zone's event state.
THEOREM SettlingTime == Spec => []SettlesWithinDelay
<1>1. TypeOK /\ DelayBudget => SettlesWithinDelay
  BY DEF TypeOK, DelayBudget, SettlesWithinDelay, Settings
<1> QED BY <1>1, TypeCorrect, BudgetHolds, PTL

-----------------------------------------------------------------------------
(* Acknowledgements *)

\* The inductive invariant: an outstanding notification keeps its transition
\* unacknowledged, and the transition's stamp is at least as recent.
AckInv == UnackedUntilCovered /\ StampsDominate

\* A new notification is dated now, which is no earlier than any other.
LEMMA NotifyAckInv ==
  ASSUME TypeOK, AckInv, NEW t \in Transitions, NEW required,
         now' \in Times, now' >= now, RequestAck(t, required)
  PROVE  AckInv'
<1> USE DEF AckInv, UnackedUntilCovered, StampsDominate, RequestAck
<1>1. CASE ~required
  BY <1>1 DEF TypeOK, Times
<1>2. CASE required
  <2> SUFFICES ASSUME NEW n \in outstanding'
               PROVE  /\ ~acked'[n.transition]
                      /\ n.at <= ackStamp'[n.transition] /\ n.at <= now'
    OBVIOUS
  <2>1. acked' = [acked EXCEPT ![t] = FALSE]
        /\ ackStamp' = [ackStamp EXCEPT ![t] = now']
    BY <1>2
  <2>2. CASE n = [transition |-> t, at |-> now']
    BY <2>1, <2>2 DEF TypeOK, Times
  <2>3. CASE n \in outstanding
    <3>1. /\ n.transition \in Transitions /\ n.at \in Times /\ now \in Times
          /\ ~acked[n.transition]
          /\ n.at <= ackStamp[n.transition] /\ n.at <= now
      BY <2>3 DEF TypeOK
    <3>2. n.at <= now'
      BY <3>1 DEF Times
    <3> QED BY <2>1, <3>1, <3>2 DEF TypeOK
  <2> QED BY <1>2, <2>2, <2>3
<1> QED BY <1>1, <1>2

LEMMA PassAckInv ==
  ASSUME TypeOK, AckInv, NEW pv \in PresentValues, Pass(pv)
  PROVE  AckInv'
<1>1. now \in Times /\ now' \in Times /\ now' >= now
  BY TickType DEF Pass, TypeOK
<1>2. CASE UNCHANGED <<acked, ackStamp, outstanding>>
  BY <1>1, <1>2 DEF AckInv, UnackedUntilCovered, StampsDominate, TypeOK, Times
<1>3. CASE NotifyTransition
  <2>1. PICK required : RequestAck(TransitionTo(eventState'), required)
    BY <1>3 DEF NotifyTransition
  <2> QED BY <1>1, <2>1, TransitionType, NotifyAckInv
<1> QED BY <1>2, <1>3 DEF Pass, AnnounceAck, Evaluate, NoNotification

LEMMA RequestAckInv ==
  ASSUME TypeOK, AckInv, NEW state \in AckStates,
         NEW stamp \in Times \cup {NotADateTime}, AlarmAck(state, stamp)
  PROVE  AckInv'
<1> USE DEF AckInv, UnackedUntilCovered, StampsDominate
<1>1. CASE AcceptAck(state, stamp)
  <2> DEFINE t == TransitionTo(state)
  <2>1. t \in Transitions /\ stamp \in Int
    BY TransitionType DEF Times, NotADateTime
  <2>2. ackStamp[t] <= stamp
    <3>1. ~StampRejected(t, stamp)
      BY <1>1 DEF AcceptAck, AckAnswer, SimpleAck, ErrorPdu, Abort
    <3> QED BY <2>1, <3>1 DEF StampRejected, TypeOK, Times
  <2> SUFFICES ASSUME NEW n \in outstanding'
               PROVE  /\ ~acked'[n.transition]
                      /\ n.at <= ackStamp'[n.transition] /\ n.at <= now'
    OBVIOUS
  <2>3. n \in outstanding /\ (n.transition # t \/ n.at > stamp)
    BY <1>1 DEF AcceptAck
  <2>4. n.transition \in Transitions /\ n.at \in Int
    BY <2>3 DEF TypeOK, Times
  <2>5. n.transition # t
    BY <2>1, <2>2, <2>3, <2>4 DEF TypeOK, Times
  <2>6. acked' = [acked EXCEPT ![t] = TRUE] /\ UNCHANGED <<ackStamp, now>>
    BY <1>1 DEF AcceptAck, AlarmAck
  <2> HIDE DEF t
  <2> QED BY <2>3, <2>4, <2>5, <2>6 DEF TypeOK
<1>2. CASE RejectAck(state, stamp)
  BY <1>2 DEF RejectAck, AlarmAck, acks
<1> QED BY <1>1, <1>2 DEF AlarmAck

LEMMA NextAckInv == TypeOK /\ AckInv /\ [Next]_vars => AckInv'
<1> SUFFICES ASSUME TypeOK, AckInv, [Next]_vars PROVE AckInv'
  OBVIOUS
<1>1. CASE UNCHANGED acks /\ now' \in Times /\ now' >= now
  BY <1>1 DEF AckInv, UnackedUntilCovered, StampsDominate, acks, TypeOK, Times
<1>2. CASE IdlePass
  BY <1>1, <1>2, TickType DEF IdlePass, TypeOK
<1>3. CASE Write \/ SwitchDetection \/ UNCHANGED vars
  <2>1. UNCHANGED <<acks, now>>
    BY <1>3 DEF Write, SwitchDetection, vars, WriteTimeDelay, WriteHighLimit,
       WriteLowLimit, WriteDeadband, WriteLimitEnable, WriteEventEnable,
       WriteNotificationClass, WriteNotifyType, WriteAckRequired, Retune,
       Configure
  <2> QED BY <1>1, <2>1 DEF TypeOK, Times
<1>4. CASE \E pv \in PresentValues : Pass(pv)
  BY <1>4, PassAckInv
<1>5. CASE Request
  BY <1>5, RequestAckInv DEF Request
<1> QED BY <1>2, <1>3, <1>4, <1>5 DEF Next, AnyPass

THEOREM AckInvHolds == Spec => []AckInv
<1>1. Init => AckInv
  BY DEF Init, AckInv, UnackedUntilCovered, StampsDominate
<1> QED BY <1>1, TypeCorrect, NextAckInv, PTL DEF Spec

\* No request that does not cover it, late, repeated or out of order, clears
\* a transition that somebody was asked to acknowledge.
THEOREM UnackedHolds == Spec => []UnackedUntilCovered
  BY AckInvHolds, PTL DEF AckInv

\* The stored stamp dominates every outstanding notification.
THEOREM StampsHold == Spec => []StampsDominate
  BY AckInvHolds, PTL DEF AckInv

\* A client that polls is shown every object somebody must acknowledge and
\* every active alarm of the summary.
THEOREM PollingSuffices == Spec => []PollingMissesNothing
<1>1. TypeOK /\ UnackedUntilCovered => PollingMissesNothing
  BY DEF TypeOK, UnackedUntilCovered, PollingMissesNothing, AlarmListed,
     EventListed
<1> QED BY <1>1, TypeCorrect, UnackedHolds, PTL

-----------------------------------------------------------------------------
(* The reported stamps and the acknowledgements asked for *)

\* The stamps reported are no older than those compared, and not ahead of the
\* clock.
StampsInv ==
  ReportedStampSuffices /\ \A t \in Transitions : eventStamp[t] <= now

\* Only the pass, and in it a notification, changes either stamp.
LEMMA StampsSame ==
  ASSUME TypeOK, StampsInv, UNCHANGED <<ackStamp, eventStamp>>,
         now' \in Times, now' >= now
  PROVE  StampsInv'
BY DEF StampsInv, ReportedStampSuffices, TypeOK, Times

LEMMA NotifyStamps ==
  ASSUME TypeOK, StampsInv, NotifyTransition, now' \in Times, now' >= now
  PROVE  StampsInv'
<1> USE DEF StampsInv, ReportedStampSuffices
<1> DEFINE t == TransitionTo(eventState')
<1>1. t \in Transitions BY TransitionType
<1>2. /\ \E required : RequestAck(t, required)
      /\ eventStamp' = [eventStamp EXCEPT ![t] = now']
  BY DEF NotifyTransition
<1>3. ackStamp' = ackStamp \/ ackStamp' = [ackStamp EXCEPT ![t] = now']
  BY <1>2 DEF RequestAck
<1> HIDE DEF t
<1> SUFFICES ASSUME NEW u \in Transitions
             PROVE  ackStamp'[u] <= eventStamp'[u] /\ eventStamp'[u] <= now'
  OBVIOUS
<1>4. /\ ackStamp[u] \in Int /\ eventStamp[u] \in Int
      /\ now \in Int /\ now' \in Int
      /\ ackStamp[u] <= eventStamp[u] /\ eventStamp[u] <= now
  BY DEF TypeOK, Times
<1>5. CASE u = t
  <2>1. eventStamp'[u] = now' BY <1>1, <1>2, <1>5 DEF TypeOK
  <2>2. ackStamp'[u] = ackStamp[u] \/ ackStamp'[u] = now'
    BY <1>1, <1>3, <1>5 DEF TypeOK
  <2> QED BY <1>4, <2>1, <2>2
<1>6. CASE u # t
  <2>1. eventStamp'[u] = eventStamp[u] /\ ackStamp'[u] = ackStamp[u]
    BY <1>2, <1>3, <1>6 DEF TypeOK
  <2> QED BY <1>4, <2>1
<1> QED BY <1>5, <1>6

LEMMA NextStamps == TypeOK /\ StampsInv /\ [Next]_vars => StampsInv'
<1> SUFFICES ASSUME TypeOK, StampsInv, [Next]_vars PROVE StampsInv'
  OBVIOUS
<1>1. CASE UNCHANGED <<ackStamp, eventStamp, now>>
  BY <1>1, StampsSame DEF TypeOK, Times
<1>2. CASE IdlePass
  BY <1>2, TickType, StampsSame DEF IdlePass, TypeOK, acks
<1>3. CASE Write \/ SwitchDetection \/ UNCHANGED vars
  <2>1. UNCHANGED <<acks, eventStamp, now>>
    BY <1>3 DEF Write, SwitchDetection, vars, WriteTimeDelay, WriteHighLimit,
       WriteLowLimit, WriteDeadband, WriteLimitEnable, WriteEventEnable,
       WriteNotificationClass, WriteNotifyType, WriteAckRequired, Retune,
       Configure
  <2> QED BY <1>1, <2>1 DEF acks
<1>4. CASE Request
  BY <1>1, <1>4 DEF Request, AlarmAck, AcceptAck, RejectAck, acks
<1>5. ASSUME NEW pv \in PresentValues, Pass(pv) PROVE StampsInv'
  <2>1. now' \in Times /\ now' >= now
    BY <1>5, TickType DEF Pass, TypeOK
  <2>2. CASE NotifyTransition BY <2>1, <2>2, NotifyStamps
  <2>3. CASE UNCHANGED <<ackStamp, eventStamp>> BY <2>1, <2>3, StampsSame
  <2> QED BY <1>5, <2>2, <2>3 DEF Pass, AnnounceAck, Evaluate, NoNotification
<1> QED BY <1>2, <1>3, <1>4, <1>5 DEF Next, AnyPass

\* Whatever GetEventInformation reports can be acknowledged with.
THEOREM ReportedStampsSuffice == Spec => []ReportedStampSuffices
<1>1. Init => StampsInv
  BY DEF Init, StampsInv, ReportedStampSuffices
<1>2. StampsInv => ReportedStampSuffices BY DEF StampsInv
<1> QED BY <1>1, <1>2, NextStamps, TypeCorrect, PTL DEF Spec

\* A class that exists now has existed since: a certification build knows all
\* of them, another never changes the class.
LEMMA ClassKnownBefore ==
  ASSUME TypeOK, [Next]_vars, ClassAlwaysKnown'
  PROVE  ClassAlwaysKnown
<1>1. UNCHANGED certification
  BY DEF Next, AnyPass, IdlePass, Pass, Request, AlarmAck, Write,
     SwitchDetection, vars, WriteTimeDelay, WriteHighLimit, WriteLowLimit,
     WriteDeadband, WriteLimitEnable, WriteEventEnable,
     WriteNotificationClass, WriteNotifyType, WriteAckRequired, Retune,
     Configure
<1>2. CASE certification
  BY <1>1, <1>2 DEF ClassAlwaysKnown, TypeOK, Settings
<1>3. CASE ~certification
  <2>1. settings'.class = settings.class
    <3>1. CASE Write
      BY <1>3, <3>1 DEF Write, WriteTimeDelay, WriteHighLimit, WriteLowLimit,
         WriteDeadband, WriteLimitEnable, WriteEventEnable,
         WriteNotificationClass, WriteNotifyType, WriteAckRequired, Retune,
         Configure, TypeOK, Settings
    <3>2. CASE AnyPass \/ Request \/ SwitchDetection \/ UNCHANGED vars
      BY <3>2 DEF AnyPass, IdlePass, Pass, AnnounceAck, Evaluate,
         NotifyTransition, NoNotification, Request, AlarmAck, SwitchDetection,
         vars, TypeOK, Settings
    <3> QED BY <3>1, <3>2 DEF Next
  <2> QED BY <1>1, <1>3, <2>1 DEF ClassAlwaysKnown
<1> QED BY <1>2, <1>3, <1>1 DEF TypeOK

\* Both are changed together, by a notification or an acknowledgement.
LEMMA NextNoPhantom ==
  ASSUME TypeOK, NoPhantomUnacked, [Next]_vars
  PROVE  NoPhantomUnacked'
<1> SUFFICES ASSUME ClassAlwaysKnown', NEW u \in Transitions, ~acked'[u]
             PROVE  \E n \in outstanding' : n.transition = u
  BY DEF NoPhantomUnacked
<1>1. ClassAlwaysKnown BY ClassKnownBefore
<1>2. \A t \in Transitions : ~acked[t] => \E n \in outstanding : n.transition = t
  BY <1>1 DEF NoPhantomUnacked
<1>3. CASE UNCHANGED <<acked, outstanding>> BY <1>2, <1>3
<1>4. CASE NotifyTransition
  <2> DEFINE t == TransitionTo(eventState')
  <2>1. PICK required : RequestAck(t, required) BY <1>4 DEF NotifyTransition
  <2>2. t \in Transitions BY TransitionType
  <2>3. settings.class \in Classes BY <1>1 DEF ClassAlwaysKnown
  <2> HIDE DEF t
  <2>4. CASE required
    <3>1. /\ acked' = [acked EXCEPT ![t] = FALSE]
          /\ outstanding' = outstanding \cup {[transition |-> t, at |-> now']}
      BY <2>1, <2>3, <2>4 DEF RequestAck
    <3>2. CASE u = t
      <4>1. [transition |-> t, at |-> now'] \in outstanding' BY <3>1
      <4> QED BY <3>2, <4>1
    <3>3. CASE u # t
      <4>1. ~acked[u] BY <3>1, <3>3 DEF TypeOK
      <4> QED BY <1>2, <3>1, <4>1
    <3> QED BY <3>2, <3>3
  <2>5. CASE ~required BY <1>2, <2>1, <2>5 DEF RequestAck
  <2> QED BY <2>4, <2>5
<1>5. ASSUME NEW state, NEW stamp, AcceptAck(state, stamp)
      PROVE  \E n \in outstanding' : n.transition = u
  <2> DEFINE t == TransitionTo(state)
  <2>1. /\ acked' = [acked EXCEPT ![t] = TRUE]
        /\ outstanding' = {n \in outstanding : n.transition # t \/ n.at > stamp}
    BY <1>5 DEF AcceptAck
  <2>2. t \in Transitions BY TransitionType
  <2> HIDE DEF t
  <2>3. u # t /\ ~acked[u] BY <2>1, <2>2 DEF TypeOK
  <2>4. PICK n \in outstanding : n.transition = u BY <1>2, <2>3
  <2> QED BY <2>1, <2>3, <2>4
<1>6. CASE Write \/ SwitchDetection \/ UNCHANGED vars \/ IdlePass
  <2>1. UNCHANGED acks
    BY <1>6 DEF Write, SwitchDetection, vars, IdlePass, WriteTimeDelay,
       WriteHighLimit, WriteLowLimit, WriteDeadband, WriteLimitEnable,
       WriteEventEnable, WriteNotificationClass, WriteNotifyType,
       WriteAckRequired, Retune, Configure
  <2> QED BY <1>3, <2>1 DEF acks
<1>7. CASE Request
  BY <1>3, <1>5, <1>7 DEF Request, AlarmAck, RejectAck, acks
<1>8. CASE \E pv \in PresentValues : Pass(pv)
  BY <1>3, <1>4, <1>8 DEF Pass, AnnounceAck, Evaluate, NoNotification
<1> QED BY <1>6, <1>7, <1>8 DEF Next, AnyPass

\* While its class exists, an object never shows a transition unacknowledged
\* that nobody was asked to acknowledge.
THEOREM NoPhantoms == Spec => []NoPhantomUnacked
<1>1. Init => NoPhantomUnacked BY DEF Init, NoPhantomUnacked
<1>2. TypeOK /\ NoPhantomUnacked /\ [Next]_vars => NoPhantomUnacked'
  BY NextNoPhantom
<1> QED BY <1>1, <1>2, TypeCorrect, PTL DEF Spec

=============================================================================
